------------------------------ MODULE Tickets ------------------------------
(***************************************************************************)
(* The life of helpdesk tickets: edits by technicians, the pause of the    *)
(* SLA clock, reopening and escalation (helpdesk/tickets.service.ts),      *)
(* merges, splits and scheduled tickets (helpdesk/helpdesk-v3.service.ts), *)
(* the breach sweep every five minutes and the nightly auto-close.         *)
(*                                                                         *)
(* An update reads the ticket, computes every new field from what it read, *)
(* and writes later; the crons read the ids they concern and write them    *)
(* later, by id alone.  The first-response deadline is left out: it is     *)
(* set, paused and swept by the same statements as the resolve deadline.   *)
(***************************************************************************)
EXTENDS Integers, FiniteSets

CONSTANTS
  Ticket,           \* ticket rows that may come to exist
  Request,          \* updates the server may be handling at one time
  Priority,         \* 1 (most urgent) .. the least urgent
  ResolveIn,        \* the SLA policy: time to resolve, by priority
  ReopenThreshold,  \* REOPEN_ESCALATION_THRESHOLD
  MaxTime           \* bound: the clock stops here

ASSUME TicketsAssumption ==
  /\ Ticket # {}
  /\ Priority \subseteq Nat \ {0} /\ 1 \in Priority
  /\ \A p \in Priority : p > 1 => p - 1 \in Priority
  /\ ResolveIn \in [Priority -> Nat \ {0}]
  /\ ReopenThreshold \in Nat \ {0} /\ MaxTime \in Nat

VARIABLES
  tickets,     \* the Ticket table
  req,         \* the updates in progress
  sweep,       \* ids a breach sweep has read and not yet written
  closing,     \* ids an auto-close has read and not yet written
  now,
  waited,      \* history: time spent in WAITING_ON_USER
  late,        \* history: tickets that were open past their deadline
  repriced,    \* history: tickets whose priority an update changed
  merged,      \* history: tickets closed by a merge
  overlapped   \* history: tickets two of these handled at the same time

history == <<waited, late, repriced, merged, overlapped>>
vars == <<tickets, req, sweep, closing, now, history>>

Status == {"NEW", "ASSIGNED", "IN_PROGRESS", "WAITING_ON_USER", "RESOLVED", "CLOSED", "REOPENED"}

TRANSITIONS ==
  [NEW             |-> {"ASSIGNED", "IN_PROGRESS", "WAITING_ON_USER", "RESOLVED", "CLOSED"},
   ASSIGNED        |-> {"NEW", "IN_PROGRESS", "WAITING_ON_USER", "RESOLVED", "CLOSED"},
   IN_PROGRESS     |-> {"ASSIGNED", "WAITING_ON_USER", "RESOLVED", "CLOSED"},
   WAITING_ON_USER |-> {"IN_PROGRESS", "ASSIGNED", "RESOLVED", "CLOSED"},
   RESOLVED        |-> {"REOPENED", "CLOSED"},
   CLOSED          |-> {"REOPENED"},
   REOPENED        |-> {"ASSIGNED", "IN_PROGRESS", "WAITING_ON_USER", "RESOLVED"}]

Never == -1
Time == 0 .. MaxTime
Span == 0 .. MaxTime

TicketRec ==
  [status   : Status \cup {"NONE"},
   prio     : Priority,
   created  : Time,
   resolveBy : Int,               \* slaResolveBy, Never when there is no policy
   since    : Time \cup {Never},  \* waitingOnUserSinceAt
   paused   : Nat,                \* totalWaitingMs
   breached : BOOLEAN,            \* slaBreachedResolve
   reopens  : 0 .. ReopenThreshold,
   aged     : BOOLEAN]            \* resolvedAt lies before the auto-close cutoff

TypeOK ==
  /\ tickets \in [Ticket -> TicketRec]
  /\ req \in [Request -> [on : BOOLEAN, id : Ticket, before : TicketRec]]
  /\ sweep \subseteq Ticket /\ closing \subseteq Ticket
  /\ now \in Time
  /\ waited \in [Ticket -> Span]
  /\ late \subseteq Ticket /\ repriced \subseteq Ticket
  /\ merged \subseteq Ticket /\ overlapped \subseteq Ticket

Rows == {t \in Ticket : tickets[t].status # "NONE"}
Finished == {"RESOLVED", "CLOSED"}
Open(row) == row.status \notin Finished \cup {"NONE"}
Overdue(row, at) == row.resolveBy # Never /\ row.resolveBy < at
Handled == {req[r].id : r \in {s \in Request : req[s].on}} \cup closing

-----------------------------------------------------------------------------
(* Create: by a user, an e-mail or the Ops app with the category's SLA; a  *)
(* split or a schedule creates a ticket without one.                       *)

NoTicket == [status |-> "NONE", prio |-> 1, created |-> 0, resolveBy |-> Never, since |-> Never,
             paused |-> 0, breached |-> FALSE, reopens |-> 0, aged |-> FALSE]

Create(t) ==
  /\ t \notin Rows
  /\ \E s \in {"NEW", "ASSIGNED"}, p \in Priority, sla \in BOOLEAN :
       tickets' = [tickets EXCEPT ![t] =
         [NoTicket EXCEPT !.status = s, !.prio = p, !.created = now,
                          !.resolveBy = IF sla THEN now + ResolveIn[p] ELSE Never]]
  /\ UNCHANGED <<req, sweep, closing, now, history>>

-----------------------------------------------------------------------------
(* Update.                                                                 *)

\* The fields of an edit, absent as KEEP or 0; `assigns' is an assignee for a
\* ticket that had none (who is assigned is not modelled otherwise).  Beside a
\* status that is given, an assignee makes no difference.
Edit == {e \in [status : Status \cup {"KEEP"}, prio : Priority \cup {0}, assigns : BOOLEAN] :
           e.assigns => e.status = "KEEP"}

UpdateRead(r, t) ==
  /\ ~req[r].on /\ t \in Rows
  /\ req' = [req EXCEPT ![r] = [on |-> TRUE, id |-> t, before |-> tickets[t]]]
  /\ overlapped' = IF t \in Handled THEN overlapped \cup {t} ELSE overlapped
  /\ UNCHANGED <<tickets, sweep, closing, now, waited, late, repriced, merged>>

\* mutant: no transition is refused
LegalAny(before, e) == TRUE

Legal(before, e) == e.status \in {"KEEP", before} \cup TRANSITIONS[before]

Reopens(e) == e.status = "REOPENED"
Escalates(b, e) == Reopens(e) /\ b.reopens + 1 >= ReopenThreshold /\ b.prio > 1
Pauses(b, e) == b.status # "WAITING_ON_USER" /\ e.status = "WAITING_ON_USER"
Resumes(b, e) ==
  b.status = "WAITING_ON_USER" /\ e.status \notin {"KEEP", "WAITING_ON_USER"} /\ b.since # Never
Implied(b, e) == e.assigns /\ b.status = "NEW" /\ e.status = "KEEP"
Reprices(b, e) == e.prio \notin {0, b.prio} /\ b.resolveBy # Never

\* mutant: only the pause that ends is added to the deadline it started with
DeadlineOnce(t, b, e) ==
  CASE Reprices(b, e) -> b.created + ResolveIn[e.prio]
    [] ~Reprices(b, e) /\ Resumes(b, e) /\ b.resolveBy # Never ->
         b.created + ResolveIn[b.prio] + (now - b.since)
    [] OTHER -> t.resolveBy

\* A new priority counts from the creation; a pause pushes the deadline.
Deadline(t, b, e) ==
  CASE Reprices(b, e) -> b.created + ResolveIn[e.prio]
    [] ~Reprices(b, e) /\ Resumes(b, e) /\ b.resolveBy # Never -> b.resolveBy + (now - b.since)
    [] OTHER -> t.resolveBy

\* The row t after edit e, computed from the row b the request has read.
Edited(t, b, e) ==
  [t EXCEPT
     !.status = CASE e.status # "KEEP" -> e.status
                  [] Implied(b, e) -> "ASSIGNED"
                  [] OTHER -> @,
     !.prio = CASE Escalates(b, e) -> b.prio - 1
                [] ~Escalates(b, e) /\ e.prio # 0 -> e.prio
                [] OTHER -> @,
     !.resolveBy = Deadline(t, b, e),
     !.since = CASE Pauses(b, e) -> now [] Resumes(b, e) -> Never [] OTHER -> @,
     !.paused = IF Resumes(b, e) THEN b.paused + (now - b.since) ELSE @,
     !.reopens = IF Reopens(e) /\ b.reopens < ReopenThreshold THEN b.reopens + 1 ELSE @,
     !.aged = IF e.status \in {"RESOLVED", "REOPENED"} THEN FALSE ELSE @]

UpdateWrite(r) ==
  LET t == req[r].id
      b == req[r].before IN
  /\ req[r].on
  /\ \E e \in Edit :
       LET row == Edited(tickets[t], b, e) IN
       /\ Legal(b.status, e)
       /\ tickets' = [tickets EXCEPT ![t] = row]
       /\ repriced' = IF row.prio # tickets[t].prio \/ Reprices(b, e)
                        THEN repriced \cup {t} ELSE repriced
       /\ late' = IF Open(row) /\ Overdue(row, now) THEN late \cup {t} ELSE late
  /\ req' = [req EXCEPT ![r].on = FALSE, ![r].before = NoTicket]
  /\ UNCHANGED <<sweep, closing, now, waited, merged, overlapped>>

\* A refused edit, a failed transaction, a lost connection.
UpdateFails(r) ==
  /\ req[r].on
  /\ req' = [req EXCEPT ![r].on = FALSE, ![r].before = NoTicket]
  /\ UNCHANGED <<tickets, sweep, closing, now, history>>

\* linkTickets with kind MERGED closes the source whatever its status.
Merge(t) ==
  /\ t \in Rows
  /\ tickets' = [tickets EXCEPT ![t].status = "CLOSED"]
  /\ merged' = merged \cup {t}
  /\ UNCHANGED <<req, sweep, closing, now, waited, late, repriced, overlapped>>

-----------------------------------------------------------------------------
(* The breach sweep and the auto-close.                                    *)

\* mutant: finished tickets are swept as well
ToSweepAll == {t \in Rows : ~tickets[t].breached /\ Overdue(tickets[t], now)}

ToSweep == {t \in Rows : ~tickets[t].breached /\ Overdue(tickets[t], now) /\ Open(tickets[t])}

SweepRead ==
  /\ sweep = {} /\ ToSweep # {}
  /\ sweep' = ToSweep
  /\ UNCHANGED <<tickets, req, closing, now, history>>

\* mutant: the sweep announces the breaches and does not store them
SweepWriteNone ==
  /\ sweep # {}
  /\ sweep' = {}
  /\ UNCHANGED <<tickets, req, closing, now, history>>

SweepWrite ==
  /\ sweep # {}
  /\ tickets' = [t \in Ticket |->
       IF t \in sweep THEN [tickets[t] EXCEPT !.breached = TRUE] ELSE tickets[t]]
  /\ sweep' = {}
  /\ UNCHANGED <<req, closing, now, history>>

SweepFails ==
  /\ sweep # {} /\ sweep' = {}
  /\ UNCHANGED <<tickets, req, closing, now, history>>

\* A resolved ticket passes the cutoff of the auto-close.
Age(t) ==
  /\ tickets[t].status = "RESOLVED" /\ ~tickets[t].aged
  /\ tickets' = [tickets EXCEPT ![t].aged = TRUE]
  /\ UNCHANGED <<req, sweep, closing, now, history>>

ToClose == {t \in Rows : tickets[t].status = "RESOLVED" /\ tickets[t].aged}

\* mutant: the auto-close forgets tickets that were reopened before
CloseReadOnce ==
  LET found == {t \in ToClose : tickets[t].reopens = 0} IN
  /\ closing = {} /\ found # {}
  /\ closing' = found
  /\ overlapped' = overlapped \cup (Handled \cap found)
  /\ UNCHANGED <<tickets, req, sweep, now, waited, late, repriced, merged>>

CloseRead ==
  /\ closing = {} /\ ToClose # {}
  /\ closing' = ToClose
  /\ overlapped' = overlapped \cup (Handled \cap ToClose)
  /\ UNCHANGED <<tickets, req, sweep, now, waited, late, repriced, merged>>

CloseWrite ==
  /\ closing # {}
  /\ tickets' = [t \in Ticket |->
       IF t \in closing THEN [tickets[t] EXCEPT !.status = "CLOSED"] ELSE tickets[t]]
  /\ closing' = {}
  /\ UNCHANGED <<req, sweep, now, history>>

CloseFails ==
  /\ closing # {} /\ closing' = {}
  /\ UNCHANGED <<tickets, req, sweep, now, history>>

-----------------------------------------------------------------------------
Waiting(t) == tickets[t].status = "WAITING_ON_USER"

\* The clock starts with the first ticket.
Tick ==
  /\ now < MaxTime /\ Rows # {}
  /\ now' = now + 1
  /\ waited' = [t \in Ticket |-> IF Waiting(t) THEN waited[t] + 1 ELSE waited[t]]
  /\ late' = late \cup {t \in Ticket : Open(tickets[t]) /\ Overdue(tickets[t], now + 1)}
  /\ UNCHANGED <<tickets, req, sweep, closing, repriced, merged, overlapped>>

Init ==
  /\ tickets = [t \in Ticket |-> NoTicket]
  /\ req \in [Request -> [on : {FALSE}, id : {CHOOSE t \in Ticket : TRUE}, before : {NoTicket}]]
  /\ sweep = {} /\ closing = {} /\ now = 0
  /\ waited = [t \in Ticket |-> 0]
  /\ late = {} /\ repriced = {} /\ merged = {} /\ overlapped = {}

CronStep == SweepRead \/ SweepWrite \/ SweepFails \/ CloseRead \/ CloseWrite \/ CloseFails

Next ==
  \/ \E t \in Ticket : Create(t) \/ Merge(t) \/ Age(t)
  \/ \E r \in Request : (\E t \in Ticket : UpdateRead(r, t)) \/ UpdateWrite(r) \/ UpdateFails(r)
  \/ CronStep
  \/ Tick

Spec == Init /\ [][Next]_vars

\* The crons run for ever and do not fail for ever.
FairSpec ==
  /\ Spec
  /\ WF_vars(SweepRead) /\ SF_vars(SweepWrite)
  /\ WF_vars(CloseRead) /\ SF_vars(CloseWrite)

-----------------------------------------------------------------------------
(* Properties.                                                             *)

\* tickets.service.ts:23: "Legal status transitions - anything not listed is
\* rejected."  True of every ticket that is handled by one request at a time and
\* not merged, through implicit assignments and the auto-close.
LegalMoves ==
  [][\A t \in Rows \ (overlapped' \cup merged') :
       \/ tickets'[t].status = tickets[t].status
       \/ tickets'[t].status \in TRANSITIONS[tickets[t].status]]_vars

\* tickets.service.ts:481-500: the time spent waiting for the user, over any
\* number of pauses, is accounted for and pushes the deadline, as long as the
\* ticket is not merged, re-prioritised or edited by two requests at once.
WaitingIsFree ==
  \A t \in Rows \ (overlapped \cup merged) :
    LET running == IF Waiting(t) THEN now - tickets[t].since ELSE 0 IN
    /\ Waiting(t) <=> tickets[t].since # Never
    /\ tickets[t].paused + running = waited[t]
    /\ tickets[t].resolveBy # Never /\ t \notin repriced =>
         tickets[t].resolveBy + running =
           tickets[t].created + ResolveIn[tickets[t].prio] + waited[t]

\* What the SLA record of a ticket says is not taken back: a breach stays, whoever edits the
\* ticket meanwhile; and of a ticket that is not merged or edited by two requests at once the
\* paused time never falls, and the deadline comes forward only with another priority.
RecordsStand ==
  [][\A t \in Rows :
       /\ tickets[t].breached => tickets'[t].breached
       /\ t \notin overlapped' \cup merged' =>
            /\ tickets[t].paused <= tickets'[t].paused
            /\ tickets[t].prio = tickets'[t].prio => tickets[t].resolveBy <= tickets'[t].resolveBy]_vars

\* A breach is only recorded of a ticket that was open past its deadline, however
\* long the sweep takes and whatever is edited meanwhile.
BreachWasLate == \A t \in Rows : tickets[t].breached => t \in late

\* tickets.cron.ts:11: every open ticket past its deadline is flagged, unless it
\* is finished or its deadline is moved first.
OverdueIsFlagged == \A t \in Ticket : t \in ToSweep ~> t \notin ToSweep

\* helpdesk-v3.service.ts:507: a ticket that has been resolved for too long is
\* closed, unless it is resolved anew or reopened first.
ResolvedIsClosed == \A t \in Ticket : t \in ToClose ~> t \notin ToClose

\* schema.prisma:866-867: "accumulated paused time is excluded from SLA deadline
\* calc so techs aren't penalised for user delays."
PausedTimeExcluded ==
  [][\A t \in Rows : Waiting(t) /\ ~tickets[t].breached /\ tickets'[t].breached
       => tickets[t].resolveBy < tickets[t].since]_vars
=============================================================================
