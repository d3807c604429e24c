------------------------------ MODULE MCServices ------------------------------
(***************************************************************************)
(* The services that work by themselves, for TLC: the mailbox, the purge   *)
(* of backups, the alerts and the transcoding of videos.  They share no    *)
(* tables in these models, so their interleavings are not interesting: a   *)
(* behaviour follows one of them, its focus, and the others stay as they   *)
(* start.                                                                  *)
(***************************************************************************)
EXTENDS MailIntake, TLC

CONSTANTS StorePc, HqPc, Run, MaxFails, MaxCrashes, Item, Shop, Scanner, MaxTurns,
          Video, Quality, Encoding, Worker, MaxAgain

ASSUME ServicesAssumption ==
  /\ MaxPerRun \in Nat \ {0} /\ {MaxCuts, MaxKept, MaxTurns} \subseteq Nat
  /\ {MaxFails, MaxCrashes, MaxAgain} \subseteq Nat
  /\ IsFiniteSet(Scanner)
  /\ {"none", "upload"} \cap Encoding = {}

VARIABLES
  focus,
  there, run, archive, purge, fails, crashes,  \* BackupRuns
  due, open, closed, scan, turns,              \* Alerts
  video, row, object, worker, again, crossed, crashed, stops, asked  \* TranscodeQueue

Backups  == INSTANCE BackupRuns
Alerting == INSTANCE Alerts WITH StorePc <- Shop
Coding   == INSTANCE TranscodeQueue WITH crashes <- stops

backupVars == <<there, run, archive, purge, fails, crashes>>
alertVars  == <<due, open, closed, scan, turns>>
codingVars == <<video, row, object, worker, again, crossed, crashed, stops, asked>>

OnMail    == focus = "mail" /\ Next /\ UNCHANGED <<focus, backupVars, alertVars, codingVars>>
OnBackups == focus = "backups" /\ Backups!Next /\ UNCHANGED <<focus, vars, alertVars, codingVars>>
OnAlerts  == focus = "alerts" /\ Alerting!Next /\ UNCHANGED <<focus, vars, backupVars, codingVars>>
OnCoding  == focus = "coding" /\ Coding!Next /\ UNCHANGED <<focus, vars, backupVars, alertVars>>

ServicesInit ==
  /\ focus \in {"mail", "backups", "alerts", "coding"}
  /\ Init /\ Backups!Init /\ Alerting!Init /\ Coding!Init

ServicesNext == OnMail \/ OnBackups \/ OnAlerts \/ OnCoding

AllVars == <<focus, vars, backupVars, alertVars, codingVars>>

\* The mailbox, the purge and the transcoding have nothing to do in a behaviour that does not follow
\* them; a scan can start at any time.
ServicesSpec ==
  /\ ServicesInit /\ [][ServicesNext]_AllVars
  /\ Fairness /\ Backups!Fairness /\ Coding!Fairness
  /\ \A s \in Scanner :
       /\ WF_alertVars(focus = "alerts" /\ Alerting!runAll(s))
       /\ WF_alertVars(focus = "alerts" /\ Alerting!Proceed(s))

-----------------------------------------------------------------------------
\* Every component keeps its rows within their types; no row gets more open alerts than
\* scans ran side by side.
AllTyped == TypeOK /\ Backups!TypeOK /\ Alerting!TypeOK /\ Coding!TypeOK

\* Backups: an old run of a store's PC is purged, its archive with it.
ExpiredRunsGo == Backups!ExpiredRunsGo

\* Alerting: a row that goes on calling for an alert has one open again and again.
AlertRaised == Alerting!AlertRaised

\* Coding: what a player is pointed at verifies.
VariantsVerify == Coding!VariantsVerify

\* Coding: a video that waits does not wait for ever.
QueueDrains == Coding!QueueDrains
=============================================================================
