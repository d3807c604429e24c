----------------------- MODULE SignageCommandsProofs -----------------------
(***************************************************************************)
(* Proofs about SignageCommands for any number of commands, devices,       *)
(* operators and concurrent polls: types, the refinement of                *)
(* CommandDelivery, and what DONE and a shell run imply.                   *)
(***************************************************************************)
EXTENDS SignageCommands, TLAPS

LEMMA Defaults ==
  /\ AnyDevice \in Device /\ AnyKind \in Kind /\ \A c \in Cmd : Kinds[c] \subseteq Kind
  /\ NoOp \in OpRec /\ FreePoll \in PollRec
<1>1. AnyDevice \in Device /\ AnyKind \in Kind /\ \A c \in Cmd : Kinds[c] \subseteq Kind
  BY SignageAssumption DEF AnyDevice, AnyKind, Kind
<1> QED  BY <1>1, SignageAssumption DEF NoOp, FreePoll, OpRec, PollRec, Entry

\* An operator that signs, and an agent that waits for a report, name a command.
NamesCommand ==
  /\ \A o \in Operator : ops[o].stage = "created" => ops[o].cmd \in Cmd
  /\ \A d \in Device : agent[d].mode = "reporting" => agent[d].cmd \in Cmd

TypeInv == TypeOK /\ NamesCommand

LEMMA AgentSet ==
  ASSUME TypeInv, NEW d \in Device, NEW mode, NEW batch, NEW c, SetAgent(d, mode, batch, c),
         [mode |-> mode, batch |-> batch, cmd |-> c] \in AgentRec,
         mode = "reporting" => c \in Cmd
  PROVE  /\ agent' \in [Device -> AgentRec]
         /\ \A e \in Device :
              agent'[e] = IF e = d THEN [mode |-> mode, batch |-> batch, cmd |-> c] ELSE agent[e]
         /\ \A e \in Device : agent'[e].mode = "reporting" => agent'[e].cmd \in Cmd
  BY DEF TypeInv, TypeOK, NamesCommand, SetAgent

LEMMA AgentStops ==
  ASSUME TypeInv, NEW d \in Device, NEW mode \in {"idle", "waiting", "running"},
         NEW batch \in SUBSET Entry, SetAgent(d, mode, batch, 0)
  PROVE  /\ agent' \in [Device -> AgentRec]
         /\ \A e \in Device :
              agent'[e] = IF e = d THEN [mode |-> mode, batch |-> batch, cmd |-> 0] ELSE agent[e]
         /\ \A e \in Device : agent'[e].mode = "reporting" => agent'[e].cmd \in Cmd
<1>1. [mode |-> mode, batch |-> batch, cmd |-> 0] \in AgentRec /\ mode # "reporting"
  BY SignageAssumption DEF AgentRec
<1> QED  BY <1>1, AgentSet

LEMMA AgentGoesOn ==
  ASSUME TypeInv, NEW d \in Device, GoOn(d)
  PROVE  /\ agent' \in [Device -> AgentRec]
         /\ \A e \in Device : agent'[e].mode = "reporting" => agent'[e].cmd \in Cmd
         /\ agent'[d].batch = agent[d].batch /\ agent'[d].mode # "reporting"
         /\ \A e \in Device : e # d => agent'[e] = agent[e]
<1>1. PICK mode \in {"idle", "waiting", "running"} : SetAgent(d, mode, agent[d].batch, 0)
  BY DEF GoOn
<1>2. agent[d].batch \in SUBSET Entry
  BY DEF TypeInv, TypeOK, AgentRec
<1>3. /\ agent' \in [Device -> AgentRec]
      /\ \A e \in Device :
           agent'[e] = IF e = d THEN [mode |-> mode, batch |-> agent[d].batch, cmd |-> 0] ELSE agent[e]
      /\ \A e \in Device : agent'[e].mode = "reporting" => agent'[e].cmd \in Cmd
  BY <1>1, <1>2, AgentStops
<1> QED  BY <1>3

\* The agent is idle again, or waits, with nothing left to do.
LEMMA AgentEmpty ==
  ASSUME TypeInv, NEW d \in Device, SetAgent(d, "idle", {}, 0) \/ SetAgent(d, "waiting", {}, 0)
  PROVE  /\ agent' \in [Device -> AgentRec]
         /\ \A e \in Device : agent'[e].mode = "reporting" => agent'[e].cmd \in Cmd
         /\ agent'[d].batch = {} /\ agent'[d].mode # "reporting"
         /\ \A e \in Device : e # d => agent'[e] = agent[e]
<1>1. PICK mode \in {"idle", "waiting", "running"} : mode # "running" /\ SetAgent(d, mode, {}, 0)
  OBVIOUS
<1>2. {} \in SUBSET Entry
  OBVIOUS
<1>3. /\ agent' \in [Device -> AgentRec]
      /\ \A e \in Device :
           agent'[e] = IF e = d THEN [mode |-> mode, batch |-> {}, cmd |-> 0] ELSE agent[e]
      /\ \A e \in Device : agent'[e].mode = "reporting" => agent'[e].cmd \in Cmd
  BY <1>1, <1>2, AgentStops
<1> QED  BY <1>1, <1>3

LEMMA AbandonedType ==
  ASSUME TypeInv, NEW d \in Device
  PROVE  /\ Abandoned(d) \in [Handler -> PollRec]
         /\ \A h \in Handler : /\ Abandoned(d)[h].list = polls[h].list
                               /\ Abandoned(d)[h].device = polls[h].device
                               /\ Abandoned(d)[h].stage = polls[h].stage
  BY DEF TypeInv, TypeOK, Abandoned, PollRec

LEMMA MarkedType ==
  ASSUME TypeInv, NEW h \in Handler
  PROVE  /\ Marked(h) \in [Cmd -> CmdRec]
         /\ \A c \in Cmd : /\ Marked(h)[c].kind = cmds[c].kind
                           /\ Marked(h)[c].device = cmds[c].device
                           /\ Marked(h)[c].signed = cmds[c].signed
                           /\ \/ Marked(h)[c].status = cmds[c].status
                              \/ cmds[c].status = "QUEUED" /\ Marked(h)[c].status = "SENT"
  BY DEF TypeInv, TypeOK, Marked, CmdRec, Open

LEMMA ActedType ==
  ASSUME TypeInv, NEW c \in Cmd
  PROVE  /\ Acted(c) \in [Cmd -> 0 .. MaxRuns]
         /\ Acted(c)[c] > 0
         /\ \A b \in Cmd : b # c => Acted(c)[b] = ran[b]
         /\ \A b \in Cmd : ran[b] > 0 => Acted(c)[b] > 0
  BY SignageAssumption DEF TypeInv, TypeOK, Acted

LEMMA WorkersLostType ==
  ASSUME TypeInv, NEW d \in Device
  PROVE  /\ WorkersLost(d) \in [Cmd -> WorkerState]
         /\ \A c \in Cmd : worker[c] # "none" => WorkersLost(d)[c] # "none"
  BY DEF TypeInv, TypeOK, WorkersLost, WorkerState

LEMMA InsertType ==
  ASSUME TypeInv, NEW c \in Cmd, NEW k \in Kind, NEW d \in Device, Insert(c, k, d)
  PROVE  /\ cmds' \in [Cmd -> CmdRec]
         /\ cmds[c].status = "NONE" /\ cmds'[c].status = "QUEUED" /\ cmds'[c].device = d
         /\ \A b \in Cmd : b < c => cmds[b].status # "NONE"
         /\ \A b \in Cmd : b # c => cmds'[b] = cmds[b]
  BY DEF TypeInv, TypeOK, Insert, CmdRec, Open

\* How the execution of a command ends: what was done, and what is reported.
Ended(e, deed, status) ==
  /\ ran' = IF deed = "acts" THEN Acted(e[1]) ELSE ran
  /\ worker' = IF deed = "schedules" THEN [worker EXCEPT ![e[1]] = "waiting"] ELSE worker
  /\ reports' = reports \cup {<<e[1], status>>}
  /\ deed = "acts" => e[2] \/ cmds[e[1]].kind # "SHELL"
  /\ status = "DONE" => /\ cmds[e[1]].kind \in {"RUN", "SHELL"} => deed = "acts"
                        /\ cmds[e[1]].kind = "SYNC" => deed = "schedules"
                        /\ cmds[e[1]].kind # "UNHANDLED"

LEMMA ActEnds ==
  ASSUME TypeInv, NEW e \in Entry, Act(e)
  PROVE  \E deed \in {"acts", "schedules", "nothing"}, status \in Final : Ended(e, deed, status)
<1> DEFINE kind == cmds[e[1]].kind
<1>1. kind \in Kind
  BY DEF TypeInv, TypeOK, CmdRec, Entry
<1>2. PICK matches \in BOOLEAN :
        \E end \in IF Verify(e, matches) THEN HandlerEnds(kind) ELSE {<<"nothing", "FAILED">>} :
          /\ ran' = IF end[1] = "acts" THEN Acted(e[1]) ELSE ran
          /\ worker' = IF end[1] = "schedules" THEN [worker EXCEPT ![e[1]] = "waiting"] ELSE worker
          /\ reports' = reports \cup {<<e[1], end[2]>>}
  BY DEF Act
<1>3. PICK end \in IF Verify(e, matches) THEN HandlerEnds(kind) ELSE {<<"nothing", "FAILED">>} :
        /\ ran' = IF end[1] = "acts" THEN Acted(e[1]) ELSE ran
        /\ worker' = IF end[1] = "schedules" THEN [worker EXCEPT ![e[1]] = "waiting"] ELSE worker
        /\ reports' = reports \cup {<<e[1], end[2]>>}
  BY <1>2
<1>4. /\ end[1] \in {"acts", "schedules", "nothing"} /\ end[2] \in Final
      /\ end[2] = "DONE" => /\ kind \in {"RUN", "SHELL"} => end[1] = "acts"
                            /\ kind = "SYNC" => end[1] = "schedules"
                            /\ kind # "UNHANDLED"
  BY <1>1 DEF HandlerEnds, Kind, Final
<1>5. end[1] = "acts" => e[2] \/ kind # "SHELL"
  BY DEF Verify
<1>6. Ended(e, end[1], end[2])
  BY <1>3, <1>4, <1>5 DEF Ended
<1> QED  BY <1>4, <1>6

LEMMA TypeInit == Init => TypeInv
<1> SUFFICES ASSUME Init PROVE TypeInv
  OBVIOUS
<1>1. cmds \in [Cmd -> CmdRec]
  BY Defaults DEF Init, CmdRec
<1>2. ops \in [Operator -> OpRec] /\ polls \in [Handler -> PollRec]
  BY Defaults DEF Init
<1>3. [mode |-> "idle", batch |-> {}, cmd |-> 0] \in AgentRec
  BY SignageAssumption DEF AgentRec
<1>4. agent \in [Device -> AgentRec]
  BY <1>3 DEF Init
<1>5. NamesCommand
  BY DEF Init, NamesCommand, NoOp
<1>6. ran \in [Cmd -> 0 .. MaxRuns] /\ crashes \in 0 .. MaxCrashes
  BY SignageAssumption DEF Init
<1>7. worker \in [Cmd -> WorkerState]
  BY DEF Init, WorkerState
<1> QED  BY <1>1, <1>2, <1>4, <1>5, <1>6, <1>7 DEF Init, TypeInv, TypeOK

LEMMA TypeStep == TypeInv /\ [Next]_vars => TypeInv'
<1> SUFFICES ASSUME TypeInv, [Next]_vars PROVE TypeInv'
  OBVIOUS
<1> USE DEF TypeInv, TypeOK, NamesCommand
<1>a. Cmd \subseteq 0 .. MaxCmd
  BY DEF Cmd
<1>1. ASSUME NEW o \in Operator, QueueCheck(o) PROVE TypeInv'
  BY <1>1 DEF QueueCheck, OpRec
<1>2. ASSUME NEW o \in Operator, NEW c \in Cmd, QueueCreate(o, c) PROVE TypeInv'
  <2>2. cmds' \in [Cmd -> CmdRec]
    BY <1>2, InsertType, Defaults DEF QueueCreate
  <2>3. [ops[o] EXCEPT !.stage = "created", !.cmd = c] \in OpRec
    BY <1>a DEF OpRec
  <2>4. ops' = [ops EXCEPT ![o] = [ops[o] EXCEPT !.stage = "created", !.cmd = c]]
    BY <1>2 DEF QueueCreate
  <2>5. ops'[o].cmd = c
    BY <2>4 DEF OpRec
  <2> QED  BY <1>2, <2>2, <2>3, <2>4, <2>5 DEF QueueCreate
<1>3. ASSUME NEW o \in Operator, QueueSign(o) PROVE TypeInv'
  <2>1. cmds' \in [Cmd -> CmdRec]
    BY ZenonT(60), <1>3 DEF QueueSign, CmdRec
  <2>2. ops' = [ops EXCEPT ![o] = NoOp] /\ NoOp.stage # "created"
    BY <1>3 DEF QueueSign, NoOp
  <2> QED  BY <1>3, <2>1, <2>2, Defaults DEF QueueSign
<1>4. ASSUME NEW o \in Operator, QueueFails(o) PROVE TypeInv'
  <2>1. ops' = [ops EXCEPT ![o] = NoOp] /\ NoOp.stage # "created"
    BY <1>4 DEF QueueFails, NoOp
  <2> QED  BY <1>4, <2>1, Defaults DEF QueueFails
<1>5. ASSUME NEW c \in Cmd, QueueCommand(c) PROVE TypeInv'
  <2>1. cmds' \in [Cmd -> CmdRec]
    BY <1>5, InsertType, Defaults DEF QueueCommand
  <2> QED  BY <1>5, <2>1 DEF QueueCommand
<1>6. ASSUME SetFreeze PROVE TypeInv'
  BY <1>6 DEF SetFreeze
<1>7. ASSUME NEW d \in Device, NEW h \in Handler, Poll(d, h) PROVE TypeInv'
  <2>1. polls' \in [Handler -> PollRec]
    BY <1>7 DEF Poll, PollRec
  <2> QED  BY <1>7, <2>1, AgentEmpty DEF Poll
<1>8. ASSUME NEW h \in Handler, PollFreeze(h) PROVE TypeInv'
  BY <1>8 DEF PollFreeze, PollRec
<1>9. ASSUME NEW h \in Handler, PollRead(h) PROVE TypeInv'
  <2>1. Pending(polls[h].device) \in SUBSET Entry
    BY DEF Pending
  <2>2. polls' \in [Handler -> PollRec]
    <3> DEFINE list == Pending(polls[h].device)
    <3>1. list \in SUBSET Entry /\ polls' = [polls EXCEPT ![h].stage = "mark", ![h].list = list]
      BY <1>9, <2>1 DEF PollRead
    <3> HIDE DEF list
    <3> QED  BY ZenonT(60), <3>1 DEF PollRec
  <2> QED  BY <1>9, <2>2 DEF PollRead
<1>10. ASSUME NEW h \in Handler, PollMark(h) PROVE TypeInv'
  <2>1. cmds' \in [Cmd -> CmdRec]
    BY <1>10, MarkedType DEF PollMark
  <2>2. polls' \in [Handler -> PollRec]
    BY <1>10, Defaults DEF PollMark
  <2>3. /\ agent' \in [Device -> AgentRec]
        /\ \A e \in Device : agent'[e].mode = "reporting" => agent'[e].cmd \in Cmd
    <3>1. polls[h].device \in Device /\ polls[h].list \in SUBSET Entry
      BY DEF PollRec
    <3>2. CASE polls[h].live
      <4>1. PICK mode \in {"idle", "waiting", "running"} :
              SetAgent(polls[h].device, mode, polls[h].list, 0)
        BY <1>10, <3>2 DEF PollMark, Answer
      <4> QED  BY <3>1, <4>1, AgentStops
    <3>3. CASE ~polls[h].live
      BY <1>10, <3>3 DEF PollMark, Answer
    <3> QED  BY <3>2, <3>3
  <2> QED  BY <1>10, <2>1, <2>2, <2>3 DEF PollMark
<1>11. ASSUME NEW h \in Handler, PollFails(h) PROVE TypeInv'
  <2>1. polls[h].device \in Device
    BY DEF PollRec
  <2>2. /\ agent' \in [Device -> AgentRec]
        /\ \A e \in Device : agent'[e].mode = "reporting" => agent'[e].cmd \in Cmd
    BY <1>11, <2>1, AgentEmpty DEF PollFails
  <2>3. polls' \in [Handler -> PollRec]
    BY <1>11, Defaults DEF PollFails
  <2> QED  BY <1>11, <2>2, <2>3 DEF PollFails
<1>12. ASSUME NEW d \in Device, PollTimeout(d) PROVE TypeInv'
  BY <1>12, AgentEmpty, AbandonedType DEF PollTimeout
<1>13. ASSUME NEW d \in Device, NEW e \in Entry, Execute(d, e) PROVE TypeInv'
  <2>1. e[1] \in Cmd /\ agent[d].batch \ {e} \in SUBSET Entry
    BY DEF Entry, AgentRec
  <2>2. /\ agent' \in [Device -> AgentRec]
        /\ \A f \in Device : agent'[f].mode = "reporting" => agent'[f].cmd \in Cmd
    <3> DEFINE batch == agent[d].batch \ {e}
    <3>1. SetAgent(d, "reporting", batch, e[1]) /\ batch \in SUBSET Entry
      BY <1>13, <2>1 DEF Execute
    <3>2. [mode |-> "reporting", batch |-> batch, cmd |-> e[1]] \in AgentRec
      BY <1>a, <2>1, <3>1 DEF AgentRec
    <3> HIDE DEF batch
    <3> QED  BY <2>1, <3>1, <3>2, AgentSet
  <2>3. PICK deed \in {"acts", "schedules", "nothing"}, status \in Final : Ended(e, deed, status)
    BY <1>13, ActEnds DEF Execute
  <2>4. ran' \in [Cmd -> 0 .. MaxRuns]
    BY <2>1, <2>3, ActedType DEF Ended
  <2>5. worker' \in [Cmd -> WorkerState]
    BY <2>1, <2>3 DEF Ended, WorkerState
  <2>6. reports' \subseteq Cmd \X Final
    BY <2>1, <2>3 DEF Ended
  <2> QED  BY <1>13, <2>1, <2>2, <2>4, <2>5, <2>6 DEF Execute
<1>g. ASSUME NEW d \in Device, GoOn(d)
      PROVE  /\ agent' \in [Device -> AgentRec]
             /\ \A f \in Device : agent'[f].mode = "reporting" => agent'[f].cmd \in Cmd
  BY <1>g, AgentGoesOn
<1>14. ASSUME NEW d \in Device, Reported(d) PROVE TypeInv'
  BY <1>14, <1>g DEF Reported
<1>15. ASSUME NEW d \in Device, Restart(d) PROVE TypeInv'
  <2>1. ran' \in [Cmd -> 0 .. MaxRuns]
    BY <1>15, ActedType DEF Restart, GoOn
  <2>2. dying' \subseteq Device
    BY <1>15 DEF Restart
  <2> QED  BY <1>15, <1>g, <2>1, <2>2 DEF Restart
<1>20. ASSUME NEW d \in Device, Killed(d) PROVE TypeInv'
  BY <1>20, AgentEmpty, AbandonedType, WorkersLostType DEF Killed
<1>16. ASSUME NEW d \in Device, Crash(d) PROVE TypeInv'
  <2>1. crashes' \in 0 .. MaxCrashes
    BY <1>16, SignageAssumption DEF Crash
  <2> QED  BY <1>16, <2>1, AgentEmpty, AbandonedType, WorkersLostType DEF Crash
<1>21. ASSUME NEW c \in Cmd, WorkerEnds(c) PROVE TypeInv'
  <2>1. worker' \in [Cmd -> WorkerState]
    BY <1>21 DEF WorkerEnds, WorkerState
  <2> QED  BY <1>21, <2>1 DEF WorkerEnds
<1>17. ASSUME NEW c \in Cmd, NEW s \in Final, CompleteCommand(c, s) PROVE TypeInv'
  <2>1. cmds' \in [Cmd -> CmdRec]
    BY <1>17 DEF CompleteCommand, CmdRec
  <2> QED  BY <1>17, <2>1 DEF CompleteCommand
<1>18. ASSUME NEW c \in Cmd, NEW s \in Final, LoseReport(c, s) PROVE TypeInv'
  BY <1>18 DEF LoseReport
<1>19. CASE UNCHANGED vars
  BY <1>19 DEF vars
<1> QED
  BY <1>1, <1>2, <1>3, <1>4, <1>5, <1>6, <1>7, <1>8, <1>9, <1>10, <1>11, <1>12, <1>13,
     <1>14, <1>15, <1>16, <1>17, <1>18, <1>19, <1>20, <1>21 DEF Next, OperatorStep, PollStep, AgentStep

\* Every reachable state is well formed: statuses, stages, the commands an
\* operator or an agent is busy with (the records the handlers and the executor
\* pass on).
THEOREM TypeCorrect == Spec => []TypeOK
<1>1. TypeInv => TypeOK
  BY DEF TypeInv
<1> QED  BY TypeInit, TypeStep, <1>1, PTL DEF Spec

-----------------------------------------------------------------------------
(* The inductive invariant: what the rows, the histories and the lists of  *)
(* commands on their way to an agent have to do with each other.           *)

Queued(table, c) == table[c].status # "NONE"

\* Rows are created in order, and signed only after they are created.
Rows ==
  /\ \A b, c \in Cmd : b < c /\ Queued(cmds, c) => Queued(cmds, b)
  /\ \A o \in Operator : ops[o].stage = "created" => Queued(cmds, ops[o].cmd)

\* Whatever says a command was executed is right, down to the report in flight.
Traces ==
  /\ \A c \in attempted : Queued(cmds, c)
  /\ \A c \in Cmd : cmds[c].status \in Final \/ ran[c] > 0 => c \in attempted
  /\ \A c \in Cmd, s \in Final : <<c, s>> \in reports => c \in attempted
  /\ \A d \in Device : agent[d].mode = "reporting" => agent[d].cmd \in attempted

\* A list for device d may be old, but of the commands queued before one of its
\* entries for d it lacks only those already started.
Handed(d, list, table, tried) ==
  \A e \in list :
    /\ Queued(table, e[1]) /\ table[e[1]].device = d
    /\ e[2] => table[e[1]].signed
    /\ \A b \in Cmd : b < e[1] /\ Queued(table, b) /\ table[b].device = d =>
         b \in tried \/ \E f \in list : f[1] = b

Lists ==
  /\ \A h \in Handler : Handed(polls[h].device, polls[h].list, cmds, attempted)
  /\ \A d \in Device : Handed(d, agent[d].batch, cmds, attempted)

Outcomes ==
  /\ DoneWasRun /\ ShellWasSigned
  /\ \A c \in Cmd : <<c, "DONE">> \in reports => DoneMeans(c)

DeliveryInv == TypeInv /\ Rows /\ Traces /\ Lists /\ Outcomes

\* The ways a step changes the table.
TableStep ==
  \/ UNCHANGED cmds
  \/ \E c \in Cmd, k \in Kind, d \in Device : Insert(c, k, d)
  \/ \E o \in Operator : /\ ops[o].stage = "created"
                         /\ cmds' = [cmds EXCEPT ![ops[o].cmd].signed = TRUE]
  \/ \E h \in Handler : cmds' = Marked(h)
  \/ \E c \in Cmd, s \in Final : /\ <<c, s>> \in reports
                                 /\ cmds' = [cmds EXCEPT ![c].status = s]

LEMMA TableSteps == ASSUME TypeInv, [Next]_vars PROVE TableStep
<1>1. ASSUME OperatorStep PROVE TableStep
  <2>1. ASSUME NEW o \in Operator, NEW c \in Cmd, QueueCreate(o, c) PROVE TableStep
    BY <2>1, Defaults DEF QueueCreate, TableStep
  <2>2. ASSUME NEW c \in Cmd, QueueCommand(c) PROVE TableStep
    BY <2>2, Defaults DEF QueueCommand, TableStep
  <2>3. ASSUME NEW o \in Operator, QueueCheck(o) \/ QueueSign(o) \/ QueueFails(o)
        PROVE  TableStep
    BY <2>3 DEF QueueCheck, QueueSign, QueueFails, TableStep
  <2> QED  BY <1>1, <2>1, <2>2, <2>3 DEF OperatorStep, SetFreeze, TableStep
<1>2. ASSUME PollStep PROVE TableStep
  BY <1>2 DEF PollStep, Poll, PollFreeze, PollRead, PollMark, PollFails, PollTimeout, TableStep
<1>3. ASSUME AgentStep PROVE TableStep
  BY <1>3 DEF AgentStep, Execute, Reported, Restart, Killed, Crash, WorkerEnds, CompleteCommand, LoseReport, TableStep
<1> QED  BY <1>1, <1>2, <1>3 DEF Next, vars, TableStep

\* A queued row stays queued, for the same device, kind and signature; new rows
\* are appended; a result comes from a report.
Grows ==
  /\ \A c \in Cmd : Queued(cmds, c) =>
       /\ Queued(cmds', c)
       /\ cmds'[c].device = cmds[c].device /\ cmds'[c].kind = cmds[c].kind
       /\ cmds[c].signed => cmds'[c].signed
  /\ \A c \in Cmd : ~Queued(cmds, c) /\ Queued(cmds', c) =>
       /\ cmds'[c].status = "QUEUED"
       /\ \A b \in Cmd : b < c => Queued(cmds, b)
  /\ \A c \in Cmd : cmds'[c].status \in Final =>
       cmds'[c].status = cmds[c].status \/ <<c, cmds'[c].status>> \in reports

LEMMA TableGrows == ASSUME TypeInv, Traces, TableStep PROVE Grows
<1> USE DEF Queued, Final
<1>1. CASE UNCHANGED cmds
  BY <1>1 DEF Grows
<1>2. ASSUME NEW c \in Cmd, NEW k \in Kind, NEW d \in Device, Insert(c, k, d) PROVE Grows
  BY <1>2, InsertType DEF Grows
<1>3. ASSUME NEW o \in Operator, ops[o].stage = "created",
             cmds' = [cmds EXCEPT ![ops[o].cmd].signed = TRUE]
      PROVE  Grows
  <2>1. \A c \in Cmd : cmds'[c] = IF c = ops[o].cmd THEN [cmds[c] EXCEPT !.signed = TRUE]
                                  ELSE cmds[c]
    BY <1>3 DEF TypeInv, TypeOK, NamesCommand
  <2> QED  BY ZenonT(60), <2>1 DEF Grows, TypeInv, TypeOK, CmdRec
<1>4. ASSUME NEW h \in Handler, cmds' = Marked(h) PROVE Grows
  BY <1>4, MarkedType DEF Grows
<1>5. ASSUME NEW c \in Cmd, NEW s \in Final, <<c, s>> \in reports,
             cmds' = [cmds EXCEPT ![c].status = s]
      PROVE  Grows
  <2>1. \A b \in Cmd : cmds'[b] = IF b = c THEN [cmds[b] EXCEPT !.status = s] ELSE cmds[b]
    BY <1>5 DEF TypeInv, TypeOK
  <2>2. /\ cmds'[c].status = s /\ s # "NONE"
        /\ cmds'[c].device = cmds[c].device /\ cmds'[c].kind = cmds[c].kind
        /\ cmds'[c].signed = cmds[c].signed
    BY <2>1 DEF TypeInv, TypeOK, CmdRec
  <2>3. <<c, cmds'[c].status>> \in reports
    BY <1>5, <2>2
  <2>4. \A b \in Cmd : b # c => cmds'[b] = cmds[b]
    BY <2>1
  <2>5. CASE Queued(cmds, c)
    BY <2>2, <2>3, <2>4, <2>5 DEF Grows
  <2>6. CASE ~Queued(cmds, c)
    BY <1>5, <2>6 DEF Traces
  <2> QED  BY <2>5, <2>6
<1> QED  BY <1>1, <1>2, <1>3, <1>4, <1>5 DEF TableStep

LEMMA HandedKept ==
  ASSUME Rows, Grows, attempted \subseteq attempted', NEW d, NEW list \in SUBSET Entry,
         Handed(d, list, cmds, attempted)
  PROVE  Handed(d, list, cmds', attempted')
<1> SUFFICES ASSUME NEW e \in list
             PROVE  /\ Queued(cmds', e[1]) /\ cmds'[e[1]].device = d
                    /\ e[2] => cmds'[e[1]].signed
                    /\ \A b \in Cmd : b < e[1] /\ Queued(cmds', b) /\ cmds'[b].device = d =>
                         b \in attempted' \/ \E f \in list : f[1] = b
  BY DEF Handed
<1>1. e[1] \in Cmd
  BY DEF Entry
<1>2. Queued(cmds, e[1]) /\ cmds[e[1]].device = d /\ (e[2] => cmds[e[1]].signed)
  BY DEF Handed
<1>3. ASSUME NEW b \in Cmd, b < e[1], Queued(cmds', b), cmds'[b].device = d
      PROVE  b \in attempted' \/ \E f \in list : f[1] = b
  <2>1. Queued(cmds, b)
    BY <1>1, <1>2, <1>3 DEF Rows
  <2>2. cmds[b].device = d
    BY <1>3, <2>1 DEF Grows
  <2> QED  BY <1>3, <2>1, <2>2 DEF Handed
<1> QED  BY <1>1, <1>2, <1>3 DEF Grows

\* A worker, once started, is never forgotten.
WorkersStay == \A c \in Cmd : worker[c] # "none" => worker'[c] # "none"

\* The ways a step changes what has been executed and reported.
HistoryStep ==
  \/ \E d \in Device, e \in Entry : Execute(d, e)
  \/ \E d \in Device : Restart(d)
  \/ ran' = ran /\ attempted' = attempted /\ reports' \subseteq reports /\ WorkersStay

LEMMA HistorySteps == ASSUME TypeInv, [Next]_vars PROVE HistoryStep
<1>1. CASE OperatorStep
  BY <1>1 DEF OperatorStep, QueueCheck, QueueCreate, QueueSign, QueueFails, QueueCommand,
              SetFreeze, HistoryStep, WorkersStay
<1>2. CASE PollStep
  BY <1>2 DEF PollStep, Poll, PollFreeze, PollRead, PollMark, PollFails, PollTimeout, HistoryStep,
              WorkersStay
<1>3. ASSUME NEW c \in Cmd, WorkerEnds(c) PROVE HistoryStep
  BY <1>3 DEF WorkerEnds, HistoryStep, WorkersStay, TypeInv, TypeOK
<1>4. ASSUME NEW d \in Device, Killed(d) \/ Crash(d) PROVE HistoryStep
  BY <1>4, WorkersLostType DEF Killed, Crash, HistoryStep, WorkersStay
<1>5. CASE AgentStep
  BY <1>3, <1>4, <1>5
     DEF AgentStep, Reported, CompleteCommand, LoseReport, HistoryStep, WorkersStay
<1> QED  BY <1>1, <1>2, <1>5 DEF Next, vars, HistoryStep, WorkersStay

\* The ways a step changes what the agent of device d has in hand.
AgentMove(d) ==
  \/ agent'[d] = agent[d]
  \/ /\ agent'[d].mode # "reporting"
     /\ \/ agent'[d].batch = {}
        \/ agent'[d].batch = agent[d].batch
        \/ \E h \in Handler : polls[h].device = d /\ agent'[d].batch = polls[h].list
  \/ \E e \in Entry : Execute(d, e)

LEMMA AgentMoves == ASSUME TypeInv, [Next]_vars, NEW d \in Device PROVE AgentMove(d)
<1> USE DEF AgentMove
<1>1. CASE OperatorStep
  BY <1>1 DEF OperatorStep, QueueCheck, QueueCreate, QueueSign, QueueFails, QueueCommand, SetFreeze
<1>2. ASSUME NEW b \in Device, SetAgent(b, "idle", {}, 0) \/ SetAgent(b, "waiting", {}, 0)
      PROVE  AgentMove(d)
  BY <1>2, AgentEmpty
<1>3. ASSUME NEW h \in Handler, PollMark(h) PROVE AgentMove(d)
  <2>1. CASE ~polls[h].live
    BY <1>3, <2>1 DEF PollMark, Answer
  <2>2. CASE polls[h].live
    <3>1. polls[h].device \in Device /\ polls[h].list \in SUBSET Entry
      BY DEF TypeInv, TypeOK, PollRec
    <3>2. PICK mode \in {"idle", "waiting", "running"} :
            SetAgent(polls[h].device, mode, polls[h].list, 0)
      BY <1>3, <2>2 DEF PollMark, Answer
    <3>3. \A e \in Device :
            agent'[e] = IF e = polls[h].device
                          THEN [mode |-> mode, batch |-> polls[h].list, cmd |-> 0] ELSE agent[e]
      BY <3>1, <3>2, AgentStops
    <3> QED  BY <3>3
  <2> QED  BY <2>1, <2>2
<1>4. ASSUME NEW h \in Handler, PollFails(h) PROVE AgentMove(d)
  <2>1. polls[h].device \in Device
    BY DEF TypeInv, TypeOK, PollRec
  <2> QED  BY <1>2, <1>4, <2>1 DEF PollFails
<1>5. CASE PollStep
  BY <1>2, <1>3, <1>4, <1>5 DEF PollStep, Poll, PollFreeze, PollRead, PollTimeout
<1>6. ASSUME NEW b \in Device, NEW e \in Entry, Execute(b, e) PROVE AgentMove(d)
  <2>1. CASE b = d
    BY <1>6, <2>1
  <2>2. CASE b # d
    BY <1>6, <2>2 DEF Execute, SetAgent, TypeInv, TypeOK
  <2> QED  BY <2>1, <2>2
<1>7. ASSUME NEW b \in Device, GoOn(b) PROVE AgentMove(d)
  BY <1>7, AgentGoesOn
<1>8. CASE AgentStep
  BY <1>2, <1>6, <1>7, <1>8 DEF AgentStep, Reported, Restart, Killed, Crash, WorkerEnds, CompleteCommand, LoseReport
<1> QED  BY <1>1, <1>5, <1>8 DEF Next, vars

\* The ways a step changes what handler h is about to answer.
PollMove(h) ==
  \/ polls'[h].list = {}
  \/ polls'[h].list = polls[h].list /\ polls'[h].device = polls[h].device
  \/ /\ polls'[h].list = Pending(polls[h].device) /\ polls'[h].device = polls[h].device
     /\ UNCHANGED <<cmds, attempted>>

LEMMA PollMoves == ASSUME TypeInv, [Next]_vars, NEW h \in Handler PROVE PollMove(h)
<1> USE DEF PollMove
<1>1. CASE OperatorStep
  BY <1>1 DEF OperatorStep, QueueCheck, QueueCreate, QueueSign, QueueFails, QueueCommand, SetFreeze
<1>2. ASSUME NEW d \in Device, NEW g \in Handler, Poll(d, g) PROVE PollMove(h)
  BY <1>2 DEF Poll, TypeInv, TypeOK
<1>3. ASSUME NEW g \in Handler, PollFreeze(g) PROVE PollMove(h)
  BY <1>3 DEF PollFreeze, TypeInv, TypeOK, PollRec
<1>4. ASSUME NEW g \in Handler, PollRead(g) PROVE PollMove(h)
  <2> DEFINE list == Pending(polls[g].device)
  <2>1. /\ polls' = [polls EXCEPT ![g].stage = "mark", ![g].list = list]
        /\ UNCHANGED <<cmds, attempted>>
    BY <1>4 DEF PollRead
  <2>2. g = h => list = Pending(polls[h].device)
    OBVIOUS
  <2> HIDE DEF list
  <2> QED  BY <2>1, <2>2 DEF TypeInv, TypeOK, PollRec
<1>5. ASSUME NEW g \in Handler, PollMark(g) \/ PollFails(g) PROVE PollMove(h)
  <2>1. polls' = [polls EXCEPT ![g] = FreePoll] /\ FreePoll.list = {}
    BY <1>5 DEF PollMark, PollFails, FreePoll
  <2> QED  BY <2>1 DEF TypeInv, TypeOK
<1>6. ASSUME NEW d \in Device, polls' = Abandoned(d) PROVE PollMove(h)
  BY <1>6, AbandonedType
<1>7. CASE PollStep
  BY <1>2, <1>3, <1>4, <1>5, <1>6, <1>7 DEF PollStep, PollTimeout
<1>8. CASE AgentStep
  BY <1>6, <1>8 DEF AgentStep, Execute, Reported, Restart, Killed, Crash, WorkerEnds, CompleteCommand, LoseReport
<1> QED  BY <1>1, <1>7, <1>8 DEF Next, vars

-----------------------------------------------------------------------------
(* Each part of the invariant is preserved.                                *)

LEMMA RowsKept ==
  ASSUME DeliveryInv, [Next]_vars, TypeInv', Grows PROVE Rows'
<1>1. \A b, c \in Cmd : b < c /\ Queued(cmds', c) => Queued(cmds', b)
  BY DEF DeliveryInv, Rows, Grows
<1>2. ASSUME NEW o \in Operator, ops'[o].stage = "created" PROVE Queued(cmds', ops'[o].cmd)
  <2>1. ASSUME NEW p \in Operator, ops' = [ops EXCEPT ![p] = NoOp] PROVE ops'[o] = ops[o]
    BY <1>2, <2>1 DEF DeliveryInv, TypeInv, TypeOK, NoOp
  <2>2. ASSUME NEW p \in Operator, QueueCheck(p) PROVE ops'[o] = ops[o]
    BY <1>2, <2>2 DEF QueueCheck, DeliveryInv, TypeInv, TypeOK
  <2>3. ASSUME NEW p \in Operator, NEW c \in Cmd, QueueCreate(p, c)
        PROVE  ops'[o] = ops[o] \/ (ops'[o].cmd = c /\ Queued(cmds', c))
    <3>1. cmds'[c].status = "QUEUED"
      BY <2>3 DEF QueueCreate, Insert, DeliveryInv, TypeInv, TypeOK
    <3>2. ops'[o] = ops[o] \/ ops'[o].cmd = c
      BY <2>3 DEF QueueCreate, DeliveryInv, TypeInv, TypeOK, OpRec
    <3> QED  BY <3>1, <3>2 DEF Queued
  <2>4. CASE ops'[o] = ops[o]
    <3>1. ops[o].cmd \in Cmd /\ Queued(cmds, ops[o].cmd)
      BY <1>2, <2>4 DEF DeliveryInv, TypeInv, NamesCommand, Rows
    <3> QED  BY <2>4, <3>1 DEF Grows
  <2>5. CASE OperatorStep
    BY <2>1, <2>2, <2>3, <2>4, <2>5 DEF OperatorStep, QueueSign, QueueFails, QueueCommand, SetFreeze
  <2>6. CASE PollStep
    BY <2>4, <2>6 DEF PollStep, Poll, PollFreeze, PollRead, PollMark, PollFails, PollTimeout
  <2>7. CASE AgentStep
    BY <2>4, <2>7 DEF AgentStep, Execute, Reported, Restart, Killed, Crash, WorkerEnds, CompleteCommand, LoseReport
  <2> QED  BY <2>4, <2>5, <2>6, <2>7 DEF Next, vars
<1> QED  BY <1>1, <1>2 DEF Rows, Queued

\* What the agent knows of the command it executes.
LEMMA ExecuteGuard ==
  ASSUME DeliveryInv, NEW d \in Device, NEW e \in Entry, Execute(d, e)
  PROVE  /\ e[1] \in Cmd /\ Queued(cmds, e[1]) /\ cmds[e[1]].device = d
         /\ e[2] => cmds[e[1]].signed
         /\ \A b \in Cmd : b < e[1] /\ Queued(cmds, b) /\ cmds[b].device = d => b \in attempted
<1>1. e \in agent[d].batch /\ e[1] \in Cmd /\ \A f \in agent[d].batch : e[1] <= f[1]
  BY DEF Execute, IsNext, Entry
<1>2. agent[d].batch \in SUBSET Entry
  BY DEF DeliveryInv, TypeInv, TypeOK, AgentRec
<1>3. Handed(d, agent[d].batch, cmds, attempted)
  BY DEF DeliveryInv, Lists
<1>4. ASSUME NEW b \in Cmd, b < e[1], Queued(cmds, b), cmds[b].device = d PROVE b \in attempted
  <2>1. b \in attempted \/ \E f \in agent[d].batch : f[1] = b
    BY <1>1, <1>3, <1>4 DEF Handed
  <2> QED  BY <1>1, <1>4, <2>1 DEF Cmd
<1>5. Queued(cmds, e[1]) /\ cmds[e[1]].device = d /\ (e[2] => cmds[e[1]].signed)
  BY <1>1, <1>3 DEF Handed
<1> QED  BY <1>1, <1>4, <1>5

\* What its execution leaves behind.
LEMMA ExecuteEffect ==
  ASSUME DeliveryInv, NEW d \in Device, NEW e \in Entry, Execute(d, e)
  PROVE  /\ attempted' = attempted \cup {e[1]} /\ cmds' = cmds
         /\ agent'[d].batch = agent[d].batch \ {e} /\ agent'[d].cmd = e[1]
<1>1. agent'[d].batch = agent[d].batch \ {e} /\ agent'[d].cmd = e[1]
  BY DEF Execute, SetAgent, DeliveryInv, TypeInv, TypeOK
<1> QED  BY <1>1 DEF Execute

LEMMA ExecuteRuns ==
  ASSUME DeliveryInv, NEW d \in Device, NEW e \in Entry, Execute(d, e)
  PROVE  /\ \A b \in Cmd : ran[b] > 0 => ran'[b] > 0
         /\ \A b \in Cmd : ran'[b] > 0 => ran[b] > 0 \/ b = e[1]
         /\ cmds[e[1]].kind = "SHELL" /\ ran'[e[1]] > 0 => ran[e[1]] > 0 \/ e[2]
         /\ WorkersStay
<1>1. e[1] \in Cmd /\ TypeInv
  BY DEF Entry, DeliveryInv
<1>2. PICK deed \in {"acts", "schedules", "nothing"}, status \in Final : Ended(e, deed, status)
  BY <1>1, ActEnds DEF Execute
<1>3. \A b \in Cmd : ran'[b] > 0 => ran[b] > 0 \/ b = e[1]
  BY <1>1, <1>2, ActedType DEF Ended
<1>4. \A b \in Cmd : ran[b] > 0 => ran'[b] > 0
  BY <1>1, <1>2, ActedType DEF Ended
<1>5. WorkersStay
  BY <1>1, <1>2 DEF Ended, WorkersStay, TypeInv, TypeOK
<1>6. cmds[e[1]].kind = "SHELL" /\ ran'[e[1]] > 0 => ran[e[1]] > 0 \/ e[2]
  BY <1>2 DEF Ended
<1> QED  BY <1>3, <1>4, <1>5, <1>6

\* What it reports, and that a new DONE is true.
LEMMA ExecuteReports ==
  ASSUME DeliveryInv, NEW d \in Device, NEW e \in Entry, Execute(d, e)
  PROVE  /\ \A c \in Cmd, s \in Final : <<c, s>> \in reports' => <<c, s>> \in reports \/ c = e[1]
         /\ \A c \in Cmd : <<c, "DONE">> \in reports' => <<c, "DONE">> \in reports \/ DoneMeans(c)'
<1>1. e[1] \in Cmd /\ TypeInv
  BY DEF Entry, DeliveryInv
<1>2. PICK deed \in {"acts", "schedules", "nothing"}, status \in Final : Ended(e, deed, status)
  BY <1>1, ActEnds DEF Execute
<1>3. Acted(e[1])[e[1]] > 0
  BY <1>1, ActedType
<1>4. cmds' = cmds
  BY DEF Execute
<1>5. ASSUME status = "DONE" PROVE DoneMeans(e[1])'
  <2>1. cmds[e[1]].kind \in {"RUN", "SHELL"} => ran'[e[1]] > 0
    BY <1>2, <1>3, <1>5 DEF Ended
  <2>2. cmds[e[1]].kind = "SYNC" => worker'[e[1]] # "none"
    BY <1>1, <1>2, <1>5 DEF Ended, TypeInv, TypeOK
  <2> QED  BY <1>2, <1>4, <1>5, <2>1, <2>2 DEF Ended, DoneMeans
<1>6. ASSUME NEW c \in Cmd, NEW r \in Final, <<c, r>> \in reports', <<c, r>> \notin reports
      PROVE  c = e[1] /\ r = status
  BY <1>2, <1>6 DEF Ended
<1>7. "DONE" \in Final
  BY DEF Final
<1> QED  BY <1>5, <1>6, <1>7

LEMMA RestartEffect ==
  ASSUME DeliveryInv, NEW d \in Device, Restart(d)
  PROVE  /\ attempted' = attempted /\ reports' = reports /\ cmds' = cmds /\ worker' = worker
         /\ \A b \in Cmd : ran[b] > 0 => ran'[b] > 0
         /\ \A b \in Cmd : ran'[b] > 0 =>
              ran[b] > 0 \/ (b \in attempted /\ cmds[b].kind = "RESTART")
<1>1. agent[d].cmd \in Cmd /\ agent[d].cmd \in attempted /\ TypeInv
  BY DEF Restart, GoOn, DeliveryInv, TypeInv, NamesCommand, Traces
<1>2. ran' = Acted(agent[d].cmd) /\ cmds[agent[d].cmd].kind = "RESTART"
  BY DEF Restart
<1>3. \A b \in Cmd : ran[b] > 0 => ran'[b] > 0
  BY <1>1, <1>2, ActedType
<1>4. \A b \in Cmd : ran'[b] > 0 => ran[b] > 0 \/ b = agent[d].cmd
  BY <1>1, <1>2, ActedType
<1> QED  BY <1>1, <1>2, <1>3, <1>4 DEF Restart

LEMMA TracesKept ==
  ASSUME DeliveryInv, [Next]_vars, TypeInv', Grows
  PROVE  Traces' /\ attempted \subseteq attempted'
<1> USE DEF Queued
<1> DEFINE Histories ==
      /\ attempted \subseteq attempted'
      /\ \A c \in attempted' : Queued(cmds', c)
      /\ \A c \in Cmd : ran'[c] > 0 => c \in attempted'
      /\ \A c \in Cmd, s \in Final : <<c, s>> \in reports' => c \in attempted'
<1>1. Histories
  <2>1. ASSUME NEW d \in Device, NEW e \in Entry, Execute(d, e) PROVE Histories
    <3>1. attempted' = attempted \cup {e[1]} /\ cmds' = cmds /\ Queued(cmds, e[1])
      BY <2>1, ExecuteGuard, ExecuteEffect
    <3>2. \A c \in Cmd : ran'[c] > 0 => c \in attempted'
      BY <2>1, <3>1, ExecuteRuns DEF DeliveryInv, Traces
    <3>3. \A c \in Cmd, s \in Final : <<c, s>> \in reports' => c \in attempted'
      BY <2>1, <3>1, ExecuteReports DEF DeliveryInv, Traces
    <3> QED  BY <3>1, <3>2, <3>3 DEF DeliveryInv, Traces
  <2>2. ASSUME NEW d \in Device, Restart(d) PROVE Histories
    BY <2>2, RestartEffect DEF DeliveryInv, Traces
  <2>3. CASE ran' = ran /\ attempted' = attempted /\ reports' \subseteq reports
    BY <2>3 DEF DeliveryInv, TypeInv, TypeOK, Traces, Grows
  <2> QED  BY <2>1, <2>2, <2>3, HistorySteps DEF HistoryStep, DeliveryInv
<1>2. \A c \in Cmd : cmds'[c].status \in Final => c \in attempted'
  BY <1>1 DEF Grows, DeliveryInv, Traces
<1>3. ASSUME NEW d \in Device, agent'[d].mode = "reporting" PROVE agent'[d].cmd \in attempted'
  <2>1. CASE agent'[d] = agent[d]
    BY <1>1, <1>3, <2>1 DEF DeliveryInv, Traces
  <2>2. ASSUME NEW e \in Entry, Execute(d, e) PROVE agent'[d].cmd \in attempted'
    BY <2>2, ExecuteEffect
  <2> QED  BY <1>3, <2>1, <2>2, AgentMoves DEF AgentMove, DeliveryInv
<1> QED  BY <1>1, <1>2, <1>3 DEF Traces

LEMMA ListsKept ==
  ASSUME DeliveryInv, [Next]_vars, TypeInv', Grows, attempted \subseteq attempted'
  PROVE  Lists'
<1> DEFINE Fresh(d, list) == Handed(d, list, cmds', attempted')
<1>1. ASSUME NEW d, NEW list \in SUBSET Entry, Handed(d, list, cmds, attempted)
      PROVE  Fresh(d, list)
  BY <1>1, HandedKept DEF DeliveryInv
<1>2. \A d : Fresh(d, {})
  BY DEF Handed
<1>3. /\ \A h \in Handler : polls[h].list \in SUBSET Entry /\ Fresh(polls[h].device, polls[h].list)
      /\ \A d \in Device : agent[d].batch \in SUBSET Entry /\ Fresh(d, agent[d].batch)
  <2>1. /\ \A h \in Handler : polls[h].list \in SUBSET Entry
        /\ \A d \in Device : agent[d].batch \in SUBSET Entry
    BY DEF DeliveryInv, TypeInv, TypeOK, PollRec, AgentRec
  <2> HIDE DEF Fresh
  <2> QED  BY <1>1, <2>1 DEF DeliveryInv, Lists
<1>4. ASSUME NEW h \in Handler PROVE Fresh(polls'[h].device, polls'[h].list)
  <2>1. ASSUME polls'[h].list = Pending(polls[h].device), UNCHANGED <<cmds, attempted>>
        PROVE  Fresh(polls[h].device, polls'[h].list)
    <3> DEFINE d == polls[h].device
    <3>1. ASSUME NEW b \in Cmd, Queued(cmds, b), cmds[b].device = d
          PROVE  b \in attempted \/ \E f \in Pending(d) : f[1] = b
      <4>1. CASE cmds[b].status \in Open
        <5>1. <<b, cmds[b].signed>> \in Entry
          BY DEF Entry, DeliveryInv, TypeInv, TypeOK, CmdRec
        <5>2. <<b, cmds[b].signed>> \in Pending(d)
          BY <3>1, <4>1, <5>1 DEF Pending
        <5> QED  BY <5>2
      <4>2. CASE cmds[b].status \notin Open
        BY <3>1, <4>2 DEF DeliveryInv, TypeInv, TypeOK, CmdRec, Queued, Traces
      <4> QED  BY <4>1, <4>2
    <3>2. \A e \in Pending(d) : /\ Queued(cmds, e[1]) /\ cmds[e[1]].device = d
                                /\ e[2] => cmds[e[1]].signed
      BY DEF Pending, Queued, Open
    <3> DEFINE list == Pending(d)
    <3>3. Handed(d, list, cmds, attempted)
      <4> HIDE DEF d, list
      <4>1. \A b \in Cmd : Queued(cmds, b) /\ cmds[b].device = d =>
              b \in attempted \/ \E f \in list : f[1] = b
        BY <3>1 DEF list
      <4>2. \A e \in list : /\ Queued(cmds, e[1]) /\ cmds[e[1]].device = d
                            /\ e[2] => cmds[e[1]].signed
        BY <3>2 DEF list
      <4> SUFFICES ASSUME NEW e \in list
                   PROVE  /\ Queued(cmds, e[1]) /\ cmds[e[1]].device = d
                          /\ e[2] => cmds[e[1]].signed
                          /\ \A b \in Cmd : b < e[1] /\ Queued(cmds, b) /\ cmds[b].device = d =>
                               b \in attempted \/ \E f \in list : f[1] = b
        BY DEF Handed
      <4> QED  BY <4>1, <4>2
    <3> QED  BY <2>1, <3>3
  <2> HIDE DEF Fresh
  <2>2. PollMove(h)
    BY PollMoves DEF DeliveryInv
  <2> QED  BY <1>2, <1>3, <2>1, <2>2 DEF PollMove
<1>5. ASSUME NEW d \in Device PROVE Fresh(d, agent'[d].batch)
  <2>1. ASSUME NEW e \in Entry, Execute(d, e) PROVE Fresh(d, agent'[d].batch)
    <3>1. /\ agent'[d].batch = agent[d].batch \ {e} /\ cmds' = cmds
          /\ attempted' = attempted \cup {e[1]}
      BY <2>1, ExecuteEffect
    <3>3. e[1] \in Cmd /\ agent[d].batch \in SUBSET Entry
      BY <2>1, ExecuteGuard DEF DeliveryInv, TypeInv, TypeOK, AgentRec
    <3>2. Handed(d, agent[d].batch, cmds, attempted)
      BY DEF DeliveryInv, Lists
    <3>4. ASSUME NEW f \in agent[d].batch \ {e}, NEW b \in Cmd, b < f[1],
                 Queued(cmds, b), cmds[b].device = d
          PROVE  b \in attempted \cup {e[1]} \/ \E g \in agent[d].batch \ {e} : g[1] = b
      <4>1. b \in attempted \/ \E g \in agent[d].batch : g[1] = b
        BY <3>2, <3>4 DEF Handed
      <4> QED  BY <4>1
    <3>5. Handed(d, agent[d].batch \ {e}, cmds, attempted \cup {e[1]})
      BY <3>2, <3>4 DEF Handed
    <3> QED  BY <3>1, <3>5
  <2> HIDE DEF Fresh
  <2>2. AgentMove(d)
    BY AgentMoves DEF DeliveryInv
  <2> QED  BY <1>2, <1>3, <2>1, <2>2 DEF AgentMove
<1> QED  BY <1>4, <1>5 DEF Lists

\* What DONE says of a queued command stays true.
LEMMA DoneStays ==
  ASSUME Grows, WorkersStay, NEW c \in Cmd, Queued(cmds, c), DoneMeans(c),
         ran[c] > 0 => ran'[c] > 0
  PROVE  DoneMeans(c)'
  BY DEF DoneMeans, Grows, WorkersStay

LEMMA OutcomesKept ==
  ASSUME DeliveryInv, [Next]_vars, TypeInv', Grows PROVE Outcomes'
<1> DEFINE Before ==
      /\ \A c \in Cmd : ran[c] > 0 => ran'[c] > 0
      /\ \A c \in Cmd : ran'[c] > 0 => Queued(cmds, c)
      /\ WorkersStay
      /\ \A c \in Cmd : <<c, "DONE">> \in reports' => <<c, "DONE">> \in reports \/ DoneMeans(c)'
      /\ \A c \in Cmd : cmds[c].kind = "SHELL" /\ ran'[c] > 0 => cmds[c].signed
<1> USE DEF Outcomes, ShellWasSigned
<1>0. /\ \A c \in Cmd : ran[c] > 0 => Queued(cmds, c)
      /\ \A c \in Cmd : <<c, "DONE">> \in reports => Queued(cmds, c)
  BY DEF DeliveryInv, Traces, Final
<1>1. Before
  <2>1. ASSUME NEW d \in Device, NEW e \in Entry, Execute(d, e) PROVE Before
    <3>1. e[1] \in Cmd /\ Queued(cmds, e[1]) /\ (e[2] => cmds[e[1]].signed)
      BY <2>1, ExecuteGuard
    <3>2. \A c \in Cmd : <<c, "DONE">> \in reports' => <<c, "DONE">> \in reports \/ DoneMeans(c)'
      BY <2>1, ExecuteReports
    <3>3. (\A c \in Cmd : ran[c] > 0 => ran'[c] > 0) /\ WorkersStay
      BY <2>1, ExecuteRuns
    <3>4. \A c \in Cmd : cmds[c].kind = "SHELL" /\ ran'[c] > 0 => cmds[c].signed
      BY <2>1, <3>1, ExecuteRuns DEF DeliveryInv
    <3>5. \A c \in Cmd : ran'[c] > 0 => Queued(cmds, c)
      BY <1>0, <2>1, <3>1, ExecuteRuns
    <3> QED  BY <3>2, <3>3, <3>4, <3>5
  <2>2. ASSUME NEW d \in Device, Restart(d) PROVE Before
    <3>1. \A c \in Cmd : ran'[c] > 0 => ran[c] > 0 \/ (c \in attempted /\ cmds[c].kind = "RESTART")
      BY <2>2, RestartEffect
    <3>2. \A c \in attempted : Queued(cmds, c)
      BY DEF DeliveryInv, Traces
    <3> QED  BY <1>0, <2>2, <3>1, <3>2, RestartEffect DEF DeliveryInv, WorkersStay
  <2>3. CASE ran' = ran /\ attempted' = attempted /\ reports' \subseteq reports /\ WorkersStay
    BY <1>0, <2>3 DEF DeliveryInv
  <2> QED  BY <2>1, <2>2, <2>3, HistorySteps DEF HistoryStep, DeliveryInv
<1>2. ASSUME NEW c \in Cmd, <<c, "DONE">> \in reports \/ cmds[c].status = "DONE"
      PROVE  DoneMeans(c)'
  <2>1. Queued(cmds, c) /\ DoneMeans(c)
    BY <1>0, <1>2 DEF DeliveryInv, DoneWasRun, Queued
  <2> QED  BY <1>1, <2>1, DoneStays
<1>3. DoneWasRun'
  <2> SUFFICES ASSUME NEW c \in Cmd, cmds'[c].status = "DONE" PROVE DoneMeans(c)'
    BY DEF DoneWasRun
  <2>1. cmds[c].status = "DONE" \/ <<c, "DONE">> \in reports
    BY DEF Grows, Final
  <2> QED  BY <1>2, <2>1
<1>4. ShellWasSigned'
  BY <1>1 DEF Grows
<1>5. \A c \in Cmd : <<c, "DONE">> \in reports' => DoneMeans(c)'
  BY <1>1, <1>2
<1> QED  BY <1>3, <1>4, <1>5

LEMMA DeliveryStep == DeliveryInv /\ [Next]_vars => DeliveryInv' /\ Grows /\ attempted \subseteq attempted'
<1> SUFFICES ASSUME DeliveryInv, [Next]_vars
             PROVE  DeliveryInv' /\ Grows /\ attempted \subseteq attempted'
  OBVIOUS
<1>1. TypeInv'
  BY TypeStep DEF DeliveryInv
<1>2. Grows
  BY TableSteps, TableGrows DEF DeliveryInv
<1>3. Rows' /\ Traces' /\ attempted \subseteq attempted'
  BY <1>1, <1>2, RowsKept, TracesKept
<1>4. Lists' /\ Outcomes'
  BY <1>1, <1>2, <1>3, ListsKept, OutcomesKept
<1> QED  BY <1>1, <1>2, <1>3, <1>4 DEF DeliveryInv

LEMMA DeliveryInit == Init => DeliveryInv
<1> SUFFICES ASSUME Init PROVE DeliveryInv
  OBVIOUS
<1>1. \A c \in Cmd : cmds[c].status = "NONE" /\ ran[c] = 0
  BY DEF Init
<1>2. attempted = {} /\ reports = {}
  BY DEF Init
<1>3. Rows
  BY <1>1 DEF Init, Rows, NoOp, Queued
<1>4. Traces
  BY <1>1, <1>2 DEF Init, Traces, Final
<1>5. Lists
  BY DEF Init, Lists, Handed, FreePoll
<1>6. Outcomes
  BY <1>1, <1>2 DEF Outcomes, DoneWasRun, ShellWasSigned
<1> QED  BY TypeInit, <1>3, <1>4, <1>5, <1>6 DEF DeliveryInv

LEMMA DeliveryCorrect == Spec => []DeliveryInv
  BY DeliveryInit, DeliveryStep, PTL DEF Spec

\* However late, lost or repeated the reports, completeCommand makes a command
\* DONE only for what happened: its handler acted first (RESTART_MPV, SHELL_EXEC
\* and the like), or started the process of a SYNC_PLAY_AT, or is one of those
\* whose DONE promises nothing; a kind without a handler is never DONE.
THEOREM DoneCorrect == Spec => []DoneWasRun
<1>1. DeliveryInv => DoneWasRun
  BY DEF DeliveryInv, Outcomes
<1> QED  BY DeliveryCorrect, <1>1, PTL

\* A player never runs a shell command that it fetched between the insert and
\* the signature of RemoteExecService.queue.
THEOREM ShellCorrect == Spec => []ShellWasSigned
<1>1. DeliveryInv => ShellWasSigned
  BY DEF DeliveryInv, Outcomes
<1> QED  BY DeliveryCorrect, <1>1, PTL

-----------------------------------------------------------------------------
(* The refinement.                                                         *)

Target(table) == [c \in Cmd |-> IF table[c].status = "NONE" THEN NoDevice ELSE table[c].device]
Closed(table) == {c \in Cmd : table[c].status \in Final}

\* The queued commands are those with a target.
LEMMA TargetIs ==
  ASSUME TypeInv, NEW c \in Cmd
  PROVE  /\ (c \in Delivery!Queued) <=> Queued(cmds, c)
         /\ Queued(cmds, c) => Target(cmds)[c] = cmds[c].device
<1>1. cmds[c].device # NoDevice
  BY SignageAssumption DEF TypeInv, TypeOK, CmdRec
<1> QED  BY <1>1 DEF Delivery!Queued, Delivery!Cmd, Cmd, Queued, Target

\* A new row announces its command, a result closes one, and any other change
\* of the table is invisible.
LEMMA TableRefines ==
  ASSUME DeliveryInv, Grows, TableStep, UNCHANGED attempted
  PROVE  \/ UNCHANGED <<Target(cmds), Closed(cmds)>>
         \/ \E c \in Cmd, d \in Device : Delivery!Announce(c, d)
         \/ \E c \in Cmd : Delivery!Close(c)
<1> DEFINE Seen == UNCHANGED <<Target(cmds), Closed(cmds)>>
<1>0. ASSUME \A c \in Cmd : /\ Queued(cmds', c) => Queued(cmds, c)
                            /\ (cmds'[c].status \in Final) <=> (cmds[c].status \in Final)
      PROVE  Seen
  <2>1. Closed(cmds)' = Closed(cmds)
    BY <1>0 DEF Closed
  <2>2. Target(cmds)' = Target(cmds)
    BY <1>0 DEF Target, Grows, Queued
  <2> QED  BY <2>1, <2>2
<1>1. CASE UNCHANGED cmds
  BY <1>1 DEF Target, Closed
<1>2. ASSUME NEW c \in Cmd, NEW k \in Kind, NEW d \in Device, Insert(c, k, d)
      PROVE  Delivery!Announce(c, d)
  <2>1. /\ ~Queued(cmds, c) /\ cmds'[c].status = "QUEUED" /\ cmds'[c].device = d
        /\ \A b \in Cmd : b < c => Queued(cmds, b)
        /\ \A b \in Cmd : b # c => cmds'[b] = cmds[b]
    BY <1>2, InsertType DEF DeliveryInv, Queued
  <2>2. Target(cmds)' = [Target(cmds) EXCEPT ![c] = d]
    BY <2>1 DEF Target, Queued
  <2>3. Closed(cmds)' = Closed(cmds)
    BY <2>1 DEF Closed, Final, Queued
  <2>4. c \notin Delivery!Queued /\ \A b \in Cmd : b < c => b \in Delivery!Queued
    BY <2>1, TargetIs DEF DeliveryInv
  <2> QED  BY <2>2, <2>3, <2>4 DEF Delivery!Announce, Delivery!Cmd, Cmd, Target, Closed
<1>3. ASSUME NEW o \in Operator, ops[o].stage = "created",
             cmds' = [cmds EXCEPT ![ops[o].cmd].signed = TRUE]
      PROVE  Seen
  <2>1. \A c \in Cmd : cmds'[c].status = cmds[c].status
    BY <1>3 DEF DeliveryInv, TypeInv, TypeOK, CmdRec
  <2> QED  BY <1>0, <2>1 DEF Queued
<1>4. ASSUME NEW h \in Handler, cmds' = Marked(h) PROVE Seen
  <2>1. \A c \in Cmd : \/ cmds'[c].status = cmds[c].status
                       \/ cmds[c].status = "QUEUED" /\ cmds'[c].status = "SENT"
    BY <1>4, MarkedType DEF DeliveryInv
  <2> QED  BY <1>0, <2>1 DEF Queued, Final
<1>5. ASSUME NEW c \in Cmd, NEW s \in Final, <<c, s>> \in reports,
             cmds' = [cmds EXCEPT ![c].status = s]
      PROVE  Delivery!Close(c)
  <2>1. c \in attempted /\ Queued(cmds, c)
    BY <1>5 DEF DeliveryInv, Traces
  <2>2. \A b \in Cmd : cmds'[b].status = (IF b = c THEN s ELSE cmds[b].status)
    BY <1>5 DEF DeliveryInv, TypeInv, TypeOK, CmdRec
  <2>3. Closed(cmds)' = Closed(cmds) \cup {c}
    BY <2>2 DEF Closed
  <2>4. Target(cmds)' = Target(cmds)
    <3>1. \A b \in Cmd : Queued(cmds', b) => Queued(cmds, b)
      BY <2>1, <2>2 DEF Queued
    <3> QED  BY <3>1 DEF Target, Grows, Queued
  <2> QED  BY <2>1, <2>3, <2>4 DEF Delivery!Close, Target, Closed
<1> QED  BY <1>1, <1>2, <1>3, <1>4, <1>5 DEF TableStep, Target, Closed

LEMMA StepRefines ==
  ASSUME DeliveryInv, [Next]_vars, Grows PROVE [Delivery!Next]_(Delivery!vars)
<1> USE DEF Delivery!Next, Delivery!Cmd, Cmd
<1>1. ASSUME NEW d \in Device, NEW e \in Entry, Execute(d, e)
      PROVE  Delivery!Attempt(e[1])
  <2>1. /\ e[1] \in Cmd /\ Queued(cmds, e[1]) /\ cmds[e[1]].device = d
        /\ \A b \in Cmd : b < e[1] /\ Queued(cmds, b) /\ cmds[b].device = d => b \in attempted
    BY <1>1, ExecuteGuard
  <2>2. attempted' = attempted \cup {e[1]} /\ UNCHANGED <<Target(cmds), Closed(cmds)>>
    BY <1>1, ExecuteEffect DEF Target, Closed
  <2>3. /\ e[1] \in Delivery!Queued
        /\ \A b \in Delivery!Queued : /\ b \in Cmd /\ Queued(cmds, b)
                                    /\ Target(cmds)[b] = cmds[b].device
        /\ Target(cmds)[e[1]] = d
    BY <2>1, TargetIs DEF DeliveryInv, Delivery!Queued
  <2>4. \A b \in Delivery!Queued : b < e[1] /\ Target(cmds)[b] = Target(cmds)[e[1]] => b \in attempted
    BY <2>1, <2>3
  <2> QED  BY <2>2, <2>3, <2>4 DEF Delivery!Attempt, Target, Closed
<1>2. CASE \E d \in Device, e \in Entry : Execute(d, e)
  BY <1>1, <1>2 DEF Entry
<1>3. CASE UNCHANGED attempted
  <2>1. \/ UNCHANGED <<Target(cmds), Closed(cmds)>>
        \/ \E c \in Cmd, d \in Device : Delivery!Announce(c, d)
        \/ \E c \in Cmd : Delivery!Close(c)
    BY <1>3, TableSteps, TableRefines DEF DeliveryInv
  <2> QED  BY <1>3, <2>1 DEF Delivery!vars, Target, Closed
<1>4. ASSUME NEW d \in Device, Restart(d) PROVE UNCHANGED attempted
  BY <1>4 DEF Restart
<1> QED  BY <1>2, <1>3, <1>4, HistorySteps DEF HistoryStep, DeliveryInv

\* The queue implements CommandDelivery: a device starts a command only after
\* every command queued earlier for it, results close only what was started, and
\* nothing reopens them (getConfig, the executor's loop, completeCommand).
THEOREM DeliveryRefined == Spec => DeliveryInOrder
<1>1. Init => Delivery!Init
  BY DEF Init, Delivery!Init, Delivery!Cmd, Cmd, Final
<1>2. DeliveryInv /\ [Next]_vars => [Delivery!Next]_(Delivery!vars)
  BY DeliveryStep, StepRefines
<1> QED  BY <1>1, <1>2, DeliveryCorrect, PTL DEF Spec, DeliveryInOrder, Delivery!Spec
=============================================================================
