---------------------------- MODULE RecurringTickets ----------------------------
(***************************************************************************)
(* Tickets opened on a schedule (helpdesk/helpdesk-v3.service.ts).  A pass *)
(* reads the schedules that are due, and for each creates the ticket and   *)
(* then saves the day of the next one: whatever a cron expression of five  *)
(* fields says, that is tomorrow.  (Any other is tried again an hour later *)
(* and is left out.  So is a pass that is still at work five minutes later *)
(* when the next one starts.)                                              *)
(***************************************************************************)
EXTENDS Naturals, FiniteSets

CONSTANTS
  Schedule,
  MaxDay,   \* bound on the clock
  MaxCuts   \* bound on the failures between a ticket and its schedule's next day

VARIABLES
  schedule, \* ScheduledTicket rows: not there, active or not, and the day they are due
  day,      \* the clock, in days
  pass,     \* the pass in progress: schedules it read, and the one whose ticket it created
  tickets,  \* tickets made of a schedule on a day
  cuts      \* history: failures right after a ticket of the schedule was created

vars == <<schedule, day, pass, tickets, cuts>>

Day == 0..MaxDay
NoPass == [step |-> "idle", ahead |-> {}, at |-> {}]
NoRow == [state |-> "none", due |-> 0]

TypeOK ==
  /\ schedule \in [Schedule -> [state : {"none", "active", "off", "deleted"}, due : 0..MaxDay + 1]]
  /\ day \in Day
  /\ pass.step \in {"idle", "create", "save"}
  /\ pass.ahead \subseteq Schedule /\ pass.at \subseteq Schedule /\ Cardinality(pass.at) <= 1
  /\ tickets \in [Schedule -> [Day -> Nat]]
  /\ cuts \in [Schedule -> 0..MaxCuts]

\* The first ticket is due at once.
createScheduled(s) ==
  /\ schedule[s].state = "none"
  /\ schedule' = [schedule EXCEPT ![s] = [state |-> "active", due |-> day]]
  /\ UNCHANGED <<day, pass, tickets, cuts>>

\* Switched on or off (no client sets another column); a pass that has read the row
\* goes on with it.
updateScheduled(s) ==
  /\ schedule[s].state \in {"active", "off"}
  /\ \E st \in {"active", "off"} : schedule' = [schedule EXCEPT ![s].state = st]
  /\ UNCHANGED <<day, pass, tickets, cuts>>

deleteScheduled(s) ==
  /\ schedule[s].state \in {"active", "off"}
  /\ schedule' = [schedule EXCEPT ![s] = [state |-> "deleted", due |-> 0]]
  /\ UNCHANGED <<day, pass, tickets, cuts>>

Due == {s \in Schedule : schedule[s].state = "active" /\ schedule[s].due <= day}

runScheduledTicketsCron ==
  /\ pass = NoPass /\ Due # {}
  /\ pass' = [step |-> "create", ahead |-> Due, at |-> {}]
  /\ UNCHANGED <<schedule, day, tickets, cuts>>

\* mutant: the same hour today
nextCronRunToday == day

nextCronRun == day + 1

On(ahead) == IF ahead = {} THEN NoPass ELSE [step |-> "create", ahead |-> ahead, at |-> {}]

CreateTicket(s) ==
  /\ pass.step = "create" /\ s \in pass.ahead
  /\ tickets' = [tickets EXCEPT ![s][day] = @ + 1]
  /\ pass' = [step |-> "save", ahead |-> pass.ahead \ {s}, at |-> {s}]
  /\ UNCHANGED <<schedule, day, cuts>>

\* The code is taken (it is a count), or the category or store is gone.
CreateFails(s) ==
  /\ pass.step = "create" /\ s \in pass.ahead
  /\ pass' = On(pass.ahead \ {s})
  /\ UNCHANGED <<schedule, day, tickets, cuts>>

\* Fails, and is passed over, when the schedule was deleted meanwhile.
SaveNext(s) ==
  /\ pass.step = "save" /\ s \in pass.at
  /\ schedule' = IF schedule[s].state = "deleted" THEN schedule
                 ELSE [schedule EXCEPT ![s].due = nextCronRun]
  /\ pass' = On(pass.ahead)
  /\ UNCHANGED <<day, tickets, cuts>>

\* The save fails, or the process stops and the pass with it.
Cut(s) ==
  /\ pass.step = "save" /\ s \in pass.at /\ cuts[s] < MaxCuts
  /\ cuts' = [cuts EXCEPT ![s] = @ + 1]
  /\ pass' \in {On(pass.ahead), NoPass}
  /\ UNCHANGED <<schedule, day, tickets>>

Tomorrow ==
  /\ day < MaxDay
  /\ day' = day + 1
  /\ UNCHANGED <<schedule, pass, tickets, cuts>>

Init ==
  /\ schedule = [s \in Schedule |-> NoRow] /\ day = 0 /\ pass = NoPass
  /\ tickets = [s \in Schedule |-> [d \in Day |-> 0]]
  /\ cuts = [s \in Schedule |-> 0]

Next ==
  \/ \E s \in Schedule : createScheduled(s) \/ updateScheduled(s) \/ deleteScheduled(s)
  \/ runScheduledTicketsCron \/ Tomorrow
  \/ \E s \in Schedule : CreateTicket(s) \/ CreateFails(s) \/ SaveNext(s) \/ Cut(s)

Spec == Init /\ [][Next]_vars

-----------------------------------------------------------------------------
\* A schedule opens one ticket a day, but for those opened again because saving its
\* next day failed, whatever is switched or deleted during a pass.
ScheduledOnce ==
  \A s \in Schedule, d \in Day : tickets[s][d] <= 1 + cuts[s]
=============================================================================
