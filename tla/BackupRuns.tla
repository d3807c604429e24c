------------------------------ MODULE BackupRuns ------------------------------
(***************************************************************************)
(* The runs of the backup agents and the archives they upload              *)
(* (backups/backups-agent.controller.ts), and the nightly purge of those   *)
(* older than their store keeps them (backups-retention.service.ts).  The  *)
(* purge goes through the stores' jobs; the PCs of head office have none.  *)
(* A PC that is removed takes its runs with it, not their archives.        *)
(***************************************************************************)
EXTENDS Naturals, FiniteSets

CONSTANTS
  StorePc,  \* one for each store and its backup job
  HqPc,
  Run,
  MaxFails, \* bound on the removals of an archive that the object store refuses
  MaxCrashes

VARIABLES
  there,   \* PCs on the list
  run,     \* BackupRun rows: not started, their status, or deleted; their PC, and if they are old
  archive, \* runs whose archive is in the object store
  purge,   \* the purge in progress: stores ahead, runs it read for one, what is next
  fails,   \* history: runs whose archive the store refused to remove
  crashes  \* bounds Crash

vars == <<there, run, archive, purge, fails, crashes>>

Pc == StorePc \cup HqPc
NoPurge == [step |-> "idle", jobs |-> {}, old |-> {}, at |-> {}]
Row(r) == run[r].status \in {"RUNNING", "SUCCESS", "FAILED"}

TypeOK ==
  /\ there \subseteq Pc
  /\ run \in [Run -> [status : {"none", "RUNNING", "SUCCESS", "FAILED", "deleted"},
                      pc : Pc \cup {"none"}, old : BOOLEAN]]
  /\ archive \subseteq Run /\ fails \subseteq Run /\ Cardinality(fails) <= MaxFails
  /\ crashes \in 0..MaxCrashes
  /\ purge.step \in {"idle", "job", "remove", "delete"}
  /\ purge.jobs \subseteq StorePc /\ purge.old \subseteq Run /\ purge.at \subseteq Run

\* The agent is given a URL to put its archive at, good for an hour.
start(r, p) ==
  /\ run[r].status = "none" /\ p \in there
  /\ run' = [run EXCEPT ![r] = [status |-> "RUNNING", pc |-> p, old |-> FALSE]]
  /\ UNCHANGED <<there, archive, purge, fails, crashes>>

\* The URL outlives the row if the PC is removed meanwhile.
Upload(r) ==
  /\ run[r].status # "none" /\ ~run[r].old
  /\ archive' = archive \cup {r}
  /\ UNCHANGED <<there, run, purge, fails, crashes>>

\* Neither asks for the status the run has.
complete(r) ==
  /\ Row(r)
  /\ run' = [run EXCEPT ![r].status = "SUCCESS"]
  /\ UNCHANGED <<there, archive, purge, fails, crashes>>

fail(r) ==
  /\ Row(r)
  /\ run' = [run EXCEPT ![r].status = "FAILED"]
  /\ UNCHANGED <<there, archive, purge, fails, crashes>>

\* The days its store keeps backups go by.
Age(r) ==
  /\ run[r].status # "none" /\ ~run[r].old
  /\ run' = [run EXCEPT ![r].old = TRUE]
  /\ UNCHANGED <<there, archive, purge, fails, crashes>>

\* The rows of its runs are deleted with it.
removePc(p) ==
  /\ p \in there
  /\ there' = there \ {p}
  /\ run' = [r \in Run |-> IF run[r].pc = p /\ Row(r)
                           THEN [run[r] EXCEPT !.status = "deleted"] ELSE run[r]]
  /\ UNCHANGED <<archive, purge, fails, crashes>>

purgeOld ==
  /\ purge = NoPurge
  /\ \E r \in Run : Row(r) /\ run[r].old /\ run[r].pc \in StorePc
  /\ purge' = [step |-> "job", jobs |-> StorePc, old |-> {}, at |-> {}]
  /\ UNCHANGED <<there, run, archive, fails, crashes>>

On(p) == IF p.old # {} THEN [p EXCEPT !.step = "remove"]
         ELSE IF p.jobs # {} THEN [p EXCEPT !.step = "job"] ELSE NoPurge

\* mutant: a run that failed, or never ended, is left
OldOnes(p) == {r \in Run : run[r].pc = p /\ run[r].status = "SUCCESS" /\ run[r].old}

Expired(p) == {r \in Run : run[r].pc = p /\ Row(r) /\ run[r].old}

ReadJob(p) ==
  /\ purge.step = "job" /\ p \in purge.jobs
  /\ purge' = On([purge EXCEPT !.jobs = @ \ {p}, !.old = Expired(p)])
  /\ UNCHANGED <<there, run, archive, fails, crashes>>

\* The archive first; a refusal is only logged.
RemoveArchive(r) ==
  /\ purge.step = "remove" /\ r \in purge.old
  /\ \/ archive' = archive \ {r} /\ UNCHANGED fails
     \/ r \in archive /\ Cardinality(fails) < MaxFails
        /\ fails' = fails \cup {r} /\ UNCHANGED archive
  /\ purge' = [purge EXCEPT !.step = "delete", !.old = @ \ {r}, !.at = {r}]
  /\ UNCHANGED <<there, run, crashes>>

\* A row that went with its PC meanwhile makes the purge fail, for every store left.
DeleteRun(r) ==
  /\ purge.step = "delete" /\ r \in purge.at
  /\ IF Row(r)
     THEN /\ run' = [run EXCEPT ![r].status = "deleted"]
          /\ purge' = On([purge EXCEPT !.at = {}])
     ELSE purge' = NoPurge /\ UNCHANGED run
  /\ UNCHANGED <<there, archive, fails, crashes>>

\* The server process stops, and the purge with it.
Crash ==
  /\ purge # NoPurge /\ crashes < MaxCrashes
  /\ purge' = NoPurge /\ crashes' = crashes + 1
  /\ UNCHANGED <<there, run, archive, fails>>

Init ==
  /\ there = Pc /\ archive = {} /\ purge = NoPurge /\ fails = {} /\ crashes = 0
  /\ run = [r \in Run |-> [status |-> "none", pc |-> "none", old |-> FALSE]]

Next ==
  \/ \E r \in Run : (\E p \in Pc : start(r, p)) \/ Upload(r) \/ complete(r) \/ fail(r) \/ Age(r)
  \/ \E p \in Pc : removePc(p) \/ ReadJob(p)
  \/ purgeOld \/ Crash
  \/ \E r \in Run : RemoveArchive(r) \/ DeleteRun(r)

\* The purge starts every night, and goes on unless it fails.
Fairness ==
  /\ WF_vars(purgeOld)
  /\ WF_vars((\E p \in StorePc : ReadJob(p)) \/ \E r \in Run : RemoveArchive(r) \/ DeleteRun(r))

Spec == Init /\ [][Next]_vars /\ Fairness

-----------------------------------------------------------------------------
\* The purge leaves no archive behind: of a run whose row was deleted, but not with its PC, the
\* archive is gone, and no late upload brings it back, unless the object store refused.
PurgedLeaveNothing ==
  \A r \in Run : run[r].status = "deleted" /\ run[r].pc \in there => r \notin archive \/ r \in fails

\* An old run of a store's PC leaves, whatever its status, though the purge stops at a
\* run whose PC has been removed under it and starts over the next night; and so does
\* its archive, but for one the object store refused to remove or whose PC is gone.
ExpiredRunsGo ==
  \A r \in Run :
    run[r].pc \in StorePc /\ run[r].old
      ~> ~Row(r) /\ (r \notin archive \/ r \in fails \/ run[r].pc \notin there)
=============================================================================
