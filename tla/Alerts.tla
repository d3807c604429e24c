-------------------------------- MODULE Alerts --------------------------------
(***************************************************************************)
(* Alerts (alerts/alerts.service.ts).  A scan, started at night or by a    *)
(* button, looks through the rows of seven tables one after the other and  *)
(* opens an alert for each row that calls for one and has none open.  The  *)
(* six first tables are one set here.  The last is that of the PCs that    *)
(* missed their backup: a head office PC among them has no store, and the  *)
(* wording of its alert fails, and the scan with it.                       *)
(***************************************************************************)
EXTENDS Naturals, FiniteSets

CONSTANTS
  Item,     \* assets, stock, stores, repairs and licences
  StorePc,
  HqPc,
  Scanner,  \* the cron job and the button: each one scan at a time
  MaxTurns  \* bound on how often a row starts or stops calling for an alert

VARIABLES
  due,     \* rows that call for an alert
  open,    \* open alerts of each row
  closed,  \* rows with an alert that was dismissed
  scan,    \* the scan in progress of each scanner: the table, rows ahead, the row at hand
  turns    \* bounds Turn

vars == <<due, open, closed, scan, turns>>

Ref == Item \cup StorePc \cup HqPc
NoScan == [step |-> "idle", ahead |-> {}, at |-> {}]

TypeOK ==
  /\ due \subseteq Ref /\ open \in [Ref -> 0..Cardinality(Scanner)] /\ closed \subseteq Ref
  /\ scan \in [Scanner -> [step : {"idle", "items", "pcs"}, ahead : SUBSET Ref, at : SUBSET Ref]]
  /\ turns \in 0..MaxTurns

\* A warranty runs out or is renewed, stock falls or comes in, a backup is missed or made.
Turn(x) ==
  /\ turns < MaxTurns
  /\ turns' = turns + 1
  /\ due' = IF x \in due THEN due \ {x} ELSE due \cup {x}
  /\ UNCHANGED <<open, closed, scan>>

dismiss(x) ==
  /\ open[x] > 0
  /\ open' = [open EXCEPT ![x] = @ - 1]
  /\ closed' = closed \cup {x}
  /\ UNCHANGED <<due, scan, turns>>

runAll(s) ==
  /\ scan[s] = NoScan
  /\ scan' = [scan EXCEPT ![s] = [step |-> "items", ahead |-> due \cap Item, at |-> {}]]
  /\ UNCHANGED <<due, open, closed, turns>>

\* mutant: an alert that was dismissed is not opened again
FoundEver(x) == open[x] > 0 \/ x \in closed

\* mutant: an open alert is not looked for
NoneOpen(x) == FALSE

existing(x) == open[x] > 0

\* upsertOnce looks for an open alert of the row ...
Look(s, x) ==
  /\ x \in scan[s].ahead \ HqPc /\ scan[s].at = {}
  /\ scan' = [scan EXCEPT ![s].ahead = @ \ {x}, ![s].at = IF existing(x) THEN {} ELSE {x}]
  /\ UNCHANGED <<due, open, closed, turns>>

\* ... and opens one if it found none.
Raise(s, x) ==
  /\ x \in scan[s].at
  /\ open' = [open EXCEPT ![x] = @ + 1]
  /\ scan' = [scan EXCEPT ![s].at = {}]
  /\ UNCHANGED <<due, closed, turns>>

backupMissedScan(s) ==
  /\ scan[s].step = "items" /\ scan[s].ahead = {} /\ scan[s].at = {}
  /\ scan' = [scan EXCEPT ![s] = [step |-> "pcs", ahead |-> due \ Item, at |-> {}]]
  /\ UNCHANGED <<due, open, closed, turns>>

Done(s) ==
  /\ scan[s].step = "pcs" /\ scan[s].ahead = {} /\ scan[s].at = {}
  /\ scan' = [scan EXCEPT ![s] = NoScan]
  /\ UNCHANGED <<due, open, closed, turns>>

\* pc.store is null.
Headless(s) ==
  /\ scan[s].ahead \cap HqPc # {} /\ scan[s].at = {}
  /\ scan' = [scan EXCEPT ![s] = NoScan]
  /\ UNCHANGED <<due, open, closed, turns>>

Init ==
  /\ due = {} /\ turns = 0
  /\ open = [x \in Ref |-> 0] /\ closed = {}
  /\ scan = [s \in Scanner |-> NoScan]

Next ==
  \/ \E x \in Ref : Turn(x) \/ dismiss(x)
  \/ \E s \in Scanner :
       \/ runAll(s) \/ backupMissedScan(s) \/ Done(s) \/ Headless(s)
       \/ \E x \in Ref : Look(s, x) \/ Raise(s, x)

Proceed(s) ==
  backupMissedScan(s) \/ Done(s) \/ Headless(s) \/ \E x \in Ref : Look(s, x) \/ Raise(s, x)

\* The cron job runs every night, and each scan goes on to its end.
Spec ==
  /\ Init /\ [][Next]_vars
  /\ \A s \in Scanner : WF_vars(runAll(s)) /\ WF_vars(Proceed(s))

-----------------------------------------------------------------------------
\* A row that goes on calling for an alert has one open again and again, however often it
\* is dismissed: an item always, a store's PC if no head office PC calls for one.
AlertRaised ==
  /\ \A x \in Item : <>[](x \in due) => []<>(open[x] > 0)
  /\ \A x \in StorePc : <>[](x \in due /\ due \cap HqPc = {}) => []<>(open[x] > 0)
=============================================================================
