-------------------------- MODULE SignageCommands --------------------------
(***************************************************************************)
(* Remote commands for signage players: queued by an operator              *)
(* (signage/remote-exec.service.ts, SignageService.queueCommand), fetched  *)
(* by the player with its config poll (SignageService.getConfig), executed *)
(* by the agent (signage_agent/executor.py) and closed by its report       *)
(* (SignageService.completeCommand), under the fleet freeze.               *)
(*                                                                         *)
(* Each database call of a handler is a step.  The agent is one thread: it *)
(* waits for each HTTP answer or gives up after a timeout, and then the    *)
(* request it no longer waits for may still be served.                     *)
(***************************************************************************)
EXTENDS Integers, FiniteSets

CONSTANTS
  MaxCmd,      \* bound: commands ever queued
  Device,      \* enrolled players
  Operator,    \* requests queueing a command at one time
  Handler,     \* config polls the server may be serving at one time
  Kinds,       \* bound: Kinds[c] are the kinds the c-th command may have
  MaxRuns,     \* bound: how often the runs of a command are counted
  MaxCrashes,  \* bound: agent crashes that are not caused by a command
  NoDevice

\* RUN stands for the kinds whose handler acts and then reports (RESTART_MPV,
\* TAIL_LOG, APT_INSTALL, ...), RESTART for RESTART_AGENT and REBOOT, which
\* report first, NUDGE for ROTATE_SCREEN, which only reports, SYNC for
\* SYNC_PLAY_AT, which leaves the work to a detached process and reports,
\* UNHANDLED for the kinds without a handler (UPLOAD_LOGS, ...).
Kind == {"RUN", "SHELL", "RESTART", "NUDGE", "SYNC", "UNHANDLED"}

Cmd == 1 .. MaxCmd   \* in the order of queuedAt

ASSUME SignageAssumption ==
  /\ MaxCmd \in Nat /\ MaxRuns \in Nat \ {0} /\ MaxCrashes \in Nat
  /\ Device # {} /\ NoDevice \notin Device
  /\ Kinds \in [Cmd -> SUBSET Kind]

VARIABLES
  cmds,       \* the SignagePlayerCommand table
  frozen,     \* FleetFreeze.frozen
  ops,        \* RemoteExecService.queue calls in progress
  polls,      \* SignageService.getConfig calls in progress
  agent,      \* the agent process of each device
  reports,    \* complete requests on their way to the server
  ran,        \* history: how often a device has acted on the command
  attempted,  \* history: commands a device has started on
  worker,     \* the process a SYNC command has left behind
  crashes,    \* crashes so far
  dying       \* devices whose restart or reboot is under way

vars == <<cmds, frozen, ops, polls, agent, reports, ran, attempted, worker, crashes, dying>>

\* The worker of a SYNC command sleeps until the instant the command names.
\* Several workers of one command wait for the same instant and count as one.
WorkerState == {"none", "waiting", "over"}

Open == {"QUEUED", "SENT"}
Final == {"DONE", "FAILED"}
Entry == Cmd \X BOOLEAN   \* a command in a poll's answer, and whether it is signed

AnyDevice == CHOOSE d \in Device : TRUE
AnyKind == CHOOSE k \in Kind : TRUE

CmdRec == [status : Open \cup Final \cup {"NONE"}, kind : Kind, device : Device,
           signed : BOOLEAN]
OpRec == [stage : {"idle", "checked", "created"}, cmd : 0 .. MaxCmd]
PollRec == [stage : {"free", "start", "read", "mark"}, device : Device,
            list : SUBSET Entry, live : BOOLEAN]
AgentRec == [mode : {"idle", "waiting", "running", "reporting"}, batch : SUBSET Entry,
             cmd : 0 .. MaxCmd]

TypeOK ==
  /\ cmds \in [Cmd -> CmdRec]
  /\ frozen \in BOOLEAN
  /\ ops \in [Operator -> OpRec]
  /\ polls \in [Handler -> PollRec]
  /\ agent \in [Device -> AgentRec]
  /\ reports \subseteq Cmd \X Final
  /\ ran \in [Cmd -> 0 .. MaxRuns]
  /\ attempted \subseteq Cmd
  /\ worker \in [Cmd -> WorkerState]
  /\ crashes \in 0 .. MaxCrashes
  /\ dying \subseteq Device

-----------------------------------------------------------------------------
(* The operators' side.                                                    *)

NoOp == [stage |-> "idle", cmd |-> 0]

\* The next row of the table; rows are numbered in the order they are created.
Insert(c, k, d) ==
  /\ cmds[c].status = "NONE"
  /\ \A b \in Cmd : b < c => cmds[b].status # "NONE"
  /\ cmds' = [cmds EXCEPT ![c] = [status |-> "QUEUED", kind |-> k, device |-> d,
                                  signed |-> FALSE]]

QueueCheck(o) ==
  /\ ops[o].stage = "idle"
  /\ ~frozen
  /\ ops' = [ops EXCEPT ![o].stage = "checked"]
  /\ UNCHANGED <<cmds, frozen, polls, agent, reports, ran, attempted, worker, crashes, dying>>

QueueCreate(o, c) ==
  /\ ops[o].stage = "checked"
  /\ \E k \in Kinds[c], d \in Device : Insert(c, k, d)
  /\ ops' = [ops EXCEPT ![o].stage = "created", ![o].cmd = c]
  /\ UNCHANGED <<frozen, polls, agent, reports, ran, attempted, worker, crashes, dying>>

\* The signature needs the row's id, so it is a second write.
QueueSign(o) ==
  /\ ops[o].stage = "created"
  /\ cmds' = [cmds EXCEPT ![ops[o].cmd].signed = TRUE]
  /\ ops' = [ops EXCEPT ![o] = NoOp]
  /\ UNCHANGED <<frozen, polls, agent, reports, ran, attempted, worker, crashes, dying>>

QueueFails(o) ==
  /\ ops[o].stage # "idle"
  /\ ops' = [ops EXCEPT ![o] = NoOp]
  /\ UNCHANGED <<cmds, frozen, polls, agent, reports, ran, attempted, worker, crashes, dying>>

\* The older endpoint: one insert, no freeze, no signature.
QueueCommand(c) ==
  /\ \E k \in Kinds[c], d \in Device : Insert(c, k, d)
  /\ UNCHANGED <<frozen, ops, polls, agent, reports, ran, attempted, worker, crashes, dying>>

SetFreeze ==
  /\ frozen' = ~frozen
  /\ UNCHANGED <<cmds, ops, polls, agent, reports, ran, attempted, worker, crashes, dying>>

-----------------------------------------------------------------------------
(* A config poll, and the part of it the server does.                      *)

FreePoll == [stage |-> "free", device |-> AnyDevice, list |-> {}, live |-> FALSE]

SetAgent(d, mode, batch, c) ==
  agent' = [agent EXCEPT ![d] = [mode |-> mode, batch |-> batch, cmd |-> c]]

Poll(d, h) ==
  /\ agent[d].mode = "idle"
  /\ polls[h].stage = "free"
  /\ polls' = [polls EXCEPT ![h] = [stage |-> "start", device |-> d, list |-> {}, live |-> TRUE]]
  /\ SetAgent(d, "waiting", {}, 0)
  /\ UNCHANGED <<cmds, frozen, ops, reports, ran, attempted, worker, crashes, dying>>

PollFreeze(h) ==
  /\ polls[h].stage = "start"
  /\ polls' = [polls EXCEPT ![h].stage = IF frozen THEN "mark" ELSE "read"]
  /\ UNCHANGED <<cmds, frozen, ops, agent, reports, ran, attempted, worker, crashes, dying>>

\* mutant: a command is handed out only once
PendingOnce(d) ==
  {e \in Entry : /\ cmds[e[1]].device = d
                 /\ cmds[e[1]].status = "QUEUED"
                 /\ e[2] = cmds[e[1]].signed}

Pending(d) ==
  {e \in Entry : /\ cmds[e[1]].device = d
                 /\ cmds[e[1]].status \in Open
                 /\ e[2] = cmds[e[1]].signed}

\* SENT commands are handed out again: a report may have been lost.
PollRead(h) ==
  /\ polls[h].stage = "read"
  /\ polls' = [polls EXCEPT ![h].stage = "mark", ![h].list = Pending(polls[h].device)]
  /\ UNCHANGED <<cmds, frozen, ops, agent, reports, ran, attempted, worker, crashes, dying>>

Listed(h) == {e[1] : e \in polls[h].list}

\* mutant: the update does not look at the status again
MarkedAll(h) ==
  [c \in Cmd |-> IF c \in Listed(h) THEN [cmds[c] EXCEPT !.status = "SENT"] ELSE cmds[c]]

\* updateMany repeats the condition status = 'QUEUED'.
Marked(h) ==
  [c \in Cmd |-> IF c \in Listed(h) /\ cmds[c].status = "QUEUED"
                   THEN [cmds[c] EXCEPT !.status = "SENT"] ELSE cmds[c]]

Answer(h) ==
  IF polls[h].live
    THEN LET list == polls[h].list IN
         SetAgent(polls[h].device, IF list = {} THEN "idle" ELSE "running", list, 0)
    ELSE UNCHANGED agent

PollMark(h) ==
  /\ polls[h].stage = "mark"
  /\ cmds' = Marked(h)
  /\ Answer(h)
  /\ polls' = [polls EXCEPT ![h] = FreePoll]
  /\ UNCHANGED <<frozen, ops, reports, ran, attempted, worker, crashes, dying>>

\* The handler fails, or the device is disabled (401).
PollFails(h) ==
  /\ polls[h].stage # "free"
  /\ IF polls[h].live THEN SetAgent(polls[h].device, "idle", {}, 0) ELSE UNCHANGED agent
  /\ polls' = [polls EXCEPT ![h] = FreePoll]
  /\ UNCHANGED <<cmds, frozen, ops, reports, ran, attempted, worker, crashes, dying>>

\* No one waits for the polls of device d any more.
Abandoned(d) ==
  [h \in Handler |-> IF polls[h].device = d THEN [polls[h] EXCEPT !.live = FALSE] ELSE polls[h]]

\* The client times out, or its connection is gone: the handler runs on.
PollTimeout(d) ==
  /\ agent[d].mode = "waiting"
  /\ polls' = Abandoned(d)
  /\ SetAgent(d, "idle", {}, 0)
  /\ UNCHANGED <<cmds, frozen, ops, reports, ran, attempted, worker, crashes, dying>>

-----------------------------------------------------------------------------
(* The executor: one command after the other, in the order of the answer.  *)

\* mutant: an unsigned command is accepted whatever its kind
VerifyAny(e, matches) == e[2] => matches

\* Without a signature everything but SHELL_EXEC is accepted.  A signature may
\* fail to match: the agent's secret is missing or is not the server's.
Verify(e, matches) == IF e[2] THEN matches ELSE cmds[e[1]].kind # "SHELL"

IsNext(batch, e) == e \in batch /\ \A f \in batch : e[1] <= f[1]

Acted(c) == [ran EXCEPT ![c] = IF @ < MaxRuns THEN @ + 1 ELSE @]

\* mutant: SYNC_PLAY_AT reports before its worker is started
HandlerEndsEarly(k) ==
  CASE k \in {"RUN", "SHELL"}   -> {<<"acts", "DONE">>, <<"acts", "FAILED">>, <<"nothing", "FAILED">>}
    [] k = "RESTART"            -> {<<"nothing", "DONE">>}
    [] k \in {"NUDGE", "SYNC"}   -> {<<"nothing", "DONE">>, <<"nothing", "FAILED">>}
    [] k = "UNHANDLED"          -> {<<"nothing", "FAILED">>}

\* What the handler of a kind may do before it reports, and what it reports: a
\* payload it refuses, or an exception, is FAILED.
HandlerEnds(k) ==
  CASE k \in {"RUN", "SHELL"}   -> {<<"acts", "DONE">>, <<"acts", "FAILED">>, <<"nothing", "FAILED">>}
    [] k = "RESTART"            -> {<<"nothing", "DONE">>}
    [] k = "NUDGE"              -> {<<"nothing", "DONE">>, <<"nothing", "FAILED">>}
    [] k = "SYNC"               -> {<<"schedules", "DONE">>, <<"nothing", "FAILED">>}
    [] k = "UNHANDLED"          -> {<<"nothing", "FAILED">>}

\* The rest of the command, up to where the agent waits for the answer to its
\* report.
Act(e) ==
  LET c == e[1] IN
  \E matches \in BOOLEAN :
    \E end \in IF Verify(e, matches) THEN HandlerEnds(cmds[c].kind) ELSE {<<"nothing", "FAILED">>} :
      /\ ran' = IF end[1] = "acts" THEN Acted(c) ELSE ran
      /\ worker' = IF end[1] = "schedules" THEN [worker EXCEPT ![c] = "waiting"] ELSE worker
      /\ reports' = reports \cup {<<c, end[2]>>}

Execute(d, e) ==
  /\ agent[d].mode = "running"
  /\ IsNext(agent[d].batch, e)
  /\ Act(e)
  /\ attempted' = attempted \cup {e[1]}
  /\ SetAgent(d, "reporting", agent[d].batch \ {e}, e[1])
  /\ UNCHANGED <<cmds, frozen, ops, polls, crashes, dying>>

\* The report was answered, failed or timed out (_report swallows the failure):
\* on to the rest of the batch.
GoOn(d) ==
  /\ agent[d].mode = "reporting"
  /\ SetAgent(d, IF agent[d].batch = {} THEN "idle" ELSE "running", agent[d].batch, 0)

Reported(d) ==
  /\ GoOn(d)
  /\ cmds[agent[d].cmd].kind # "RESTART"
  /\ UNCHANGED <<cmds, frozen, ops, polls, reports, ran, attempted, worker, crashes, dying>>

\* RESTART_AGENT and REBOOT act now, in the background.
Restart(d) ==
  /\ GoOn(d)
  /\ cmds[agent[d].cmd].kind = "RESTART"
  /\ ran' = Acted(agent[d].cmd)
  /\ dying' = dying \cup {d}
  /\ UNCHANGED <<cmds, frozen, ops, polls, reports, attempted, worker, crashes>>

\* The workers are processes of the agent's service: they end with it.
WorkersLost(d) ==
  [c \in Cmd |-> IF cmds[c].device = d /\ worker[c] = "waiting" THEN "over" ELSE worker[c]]

\* The restart reaches the agent, whatever it is doing, and it starts afresh.
Killed(d) ==
  /\ d \in dying
  /\ dying' = dying \ {d}
  /\ SetAgent(d, "idle", {}, 0)
  /\ polls' = Abandoned(d)
  /\ worker' = WorkersLost(d)
  /\ UNCHANGED <<cmds, frozen, ops, reports, ran, attempted, crashes>>

Crash(d) ==
  /\ crashes < MaxCrashes
  /\ crashes' = crashes + 1
  /\ agent[d].mode # "idle" \/ WorkersLost(d) # worker
  /\ SetAgent(d, "idle", {}, 0)
  /\ polls' = Abandoned(d)
  /\ worker' = WorkersLost(d)
  /\ UNCHANGED <<cmds, frozen, ops, reports, ran, attempted, dying>>

\* The instant has come: the worker rewinds mpv, or kills it to have it restarted,
\* or finds none.  Nobody learns which.
WorkerEnds(c) ==
  /\ worker[c] = "waiting"
  /\ worker' = [worker EXCEPT ![c] = "over"]
  /\ UNCHANGED <<cmds, frozen, ops, polls, agent, reports, ran, attempted, crashes, dying>>

CompleteCommand(c, s) ==
  /\ <<c, s>> \in reports
  /\ cmds' = [cmds EXCEPT ![c].status = s]
  /\ reports' = reports \ {<<c, s>>}
  /\ UNCHANGED <<frozen, ops, polls, agent, ran, attempted, worker, crashes, dying>>

LoseReport(c, s) ==
  /\ <<c, s>> \in reports
  /\ reports' = reports \ {<<c, s>>}
  /\ UNCHANGED <<cmds, frozen, ops, polls, agent, ran, attempted, worker, crashes, dying>>

-----------------------------------------------------------------------------
Init ==
  /\ cmds = [c \in Cmd |-> [status |-> "NONE", kind |-> AnyKind, device |-> AnyDevice,
                            signed |-> FALSE]]
  /\ frozen = FALSE
  /\ ops = [o \in Operator |-> NoOp]
  /\ polls = [h \in Handler |-> FreePoll]
  /\ agent = [d \in Device |-> [mode |-> "idle", batch |-> {}, cmd |-> 0]]
  /\ reports = {}
  /\ ran = [c \in Cmd |-> 0]
  /\ attempted = {}
  /\ worker = [c \in Cmd |-> "none"]
  /\ crashes = 0
  /\ dying = {}

OperatorStep ==
  \/ \E o \in Operator : QueueCheck(o) \/ QueueSign(o) \/ QueueFails(o)
  \/ \E o \in Operator, c \in Cmd : QueueCreate(o, c)
  \/ \E c \in Cmd : QueueCommand(c)
  \/ SetFreeze

PollStep ==
  \/ \E d \in Device, h \in Handler : Poll(d, h)
  \/ \E h \in Handler : PollFreeze(h) \/ PollRead(h) \/ PollMark(h) \/ PollFails(h)
  \/ \E d \in Device : PollTimeout(d)

AgentStep ==
  \/ \E d \in Device, e \in Entry : Execute(d, e)
  \/ \E d \in Device : Reported(d) \/ Restart(d) \/ Killed(d) \/ Crash(d)
  \/ \E c \in Cmd : WorkerEnds(c)
  \/ \E c \in Cmd, s \in Final : CompleteCommand(c, s) \/ LoseReport(c, s)

Next == OperatorStep \/ PollStep \/ AgentStep

Spec == Init /\ [][Next]_vars

\* The agent and the server keep running.  The network may fail any number of
\* times, but not every poll of a device nor every report on a command.
Served(d, A(_)) == \E h \in Handler : polls[h].device = d /\ polls[h].live /\ A(h)

Fairness ==
  /\ \A d \in Device :
       /\ WF_vars(\E h \in Handler : Poll(d, h))
       /\ SF_vars(Served(d, PollFreeze)) /\ SF_vars(Served(d, PollRead))
       /\ SF_vars(Served(d, PollMark))
       /\ WF_vars(\E e \in Entry : Execute(d, e))
       /\ WF_vars(Reported(d)) /\ WF_vars(Restart(d))
  /\ \A h \in Handler : WF_vars(PollFreeze(h)) /\ WF_vars(PollRead(h)) /\ WF_vars(PollMark(h))
  /\ \A c \in Cmd : SF_vars(\E s \in Final : CompleteCommand(c, s))

FairSpec == Spec /\ Fairness

-----------------------------------------------------------------------------
(* Properties.                                                             *)

\* The queue as its users see it.
Delivery == INSTANCE CommandDelivery WITH
  target <- [c \in Cmd |-> IF cmds[c].status = "NONE" THEN NoDevice ELSE cmds[c].device],
  closed <- {c \in Cmd : cmds[c].status \in Final}

\* With polls that time out and are served late, lost reports and crashes, the
\* queue still implements CommandDelivery: commands start in the order they were
\* queued, are closed only after they started, and are never reopened.
DeliveryInOrder == Delivery!Spec

\* What DONE says of a command, by its kind.  RESTART_AGENT, REBOOT and
\* ROTATE_SCREEN promise nothing with it.
DoneMeans(c) ==
  /\ cmds[c].kind \in {"RUN", "SHELL"} => ran[c] > 0
  /\ cmds[c].kind = "SYNC" => worker[c] # "none"
  /\ cmds[c].kind # "UNHANDLED"

\* However late or often reports arrive, DONE stands only for what happened: the
\* device has acted on a command whose handler acts first, and has at least
\* started the process of a SYNC_PLAY_AT, which may still wait or have died in
\* vain; a kind without a handler is never DONE.
DoneWasRun == \A c \in Cmd : cmds[c].status = "DONE" => DoneMeans(c)

\* A shell command runs only from a poll that read it after it was signed: one
\* that is fetched between its insert and its signature does not run.
ShellWasSigned ==
  \A c \in Cmd : cmds[c].kind = "SHELL" /\ ran[c] > 0 => cmds[c].signed

\* Once the fleet stays unfrozen, every queued command gets a result, although
\* nothing retries a report: a command whose report was lost stays SENT and is
\* handed out, and executed, again.
EveryCommandAnswered ==
  <>[]~frozen => \A c \in Cmd : cmds[c].status = "QUEUED" ~> cmds[c].status \in Final

\* What signage.service.ts:345 says: marking a command SENT keeps the executor
\* from running it twice.
RunAtMostOnce == \A c \in Cmd : ran[c] <= 1
=============================================================================
