------------------------------ MODULE StockTake ------------------------------
(***************************************************************************)
(* Stock takes of the assets of one store (audits/audits.service.ts): the  *)
(* lines expected when the audit is created, the scans, the variances an   *)
(* auditor marks by hand and the completion.                               *)
(*                                                                         *)
(* The scan of a tag that no asset has adds a line without an asset, which *)
(* is left out.  A scan looks for a line and writes later, and none of the *)
(* handlers asks whether the audit is already completed.                   *)
(***************************************************************************)
EXTENDS Naturals, Sequences

CONSTANTS
  Audit, Asset,
  Scanner,   \* scans that may be in progress at one time
  MaxLines   \* bound on the lines of one asset in one audit

VARIABLES
  inStore,  \* assets that are assigned to the store and IN_STORE
  audits,   \* the status of each audit
  lines,    \* the AuditLine table: per audit and asset, the lines in order of creation
  scans,    \* the scans in progress: audit, asset and the line found (0: none)
  marked    \* history: lines whose variance was marked by hand after the last scan

vars == <<inStore, audits, lines, scans, marked>>

Variance == {"none", "MISSING", "DAMAGED", "UNRECORDED"}
AuditLine == [expected : BOOLEAN, found : BOOLEAN, variance : Variance]

Idle == << >>

TypeOK ==
  /\ inStore \subseteq Asset
  /\ audits \in [Audit -> {"none", "SCHEDULED", "COMPLETED"}]
  /\ lines \in [Audit -> [Asset -> Seq(AuditLine)]]
  /\ scans \in [Scanner -> {Idle} \cup (Audit \X Asset \X (0..MaxLines))]
  /\ marked \subseteq Audit \X Asset \X (1..MaxLines)

\* An asset comes to the store or leaves it; an audit asks for that once only, when it is created.
MoveAsset(a) ==
  /\ \E u \in Audit : audits[u] = "none"
  /\ inStore' = IF a \in inStore THEN inStore \ {a} ELSE inStore \cup {a}
  /\ UNCHANGED <<audits, lines, scans, marked>>

\* What is in the store is expected.  (A create that loses the race for its code
\* changes nothing.)
Create(u) ==
  /\ audits[u] = "none"
  /\ audits' = [audits EXCEPT ![u] = "SCHEDULED"]
  /\ lines' = [lines EXCEPT ![u] =
       [a \in Asset |-> IF a \in inStore
                        THEN <<[expected |-> TRUE, found |-> FALSE, variance |-> "none"]>>
                        ELSE << >>]]
  /\ UNCHANGED <<inStore, scans, marked>>

\* Any of the asset's lines may be the first that is found.
FindLine(c, u, a) ==
  /\ scans[c] = Idle /\ audits[u] # "none"
  /\ \E k \in IF lines[u][a] = << >> THEN {0} ELSE DOMAIN lines[u][a] :
       scans' = [scans EXCEPT ![c] = <<u, a, k>>]
  /\ UNCHANGED <<inStore, audits, lines, marked>>

\* A scan without a line makes one, which nothing expected.
WriteScan(c) ==
  /\ scans[c] # Idle
  /\ LET u == scans[c][1]  a == scans[c][2]  k == scans[c][3] IN
     /\ lines' = [lines EXCEPT ![u][a] =
          IF k = 0
          THEN Append(@, [expected |-> FALSE, found |-> TRUE, variance |-> "UNRECORDED"])
          ELSE [@ EXCEPT ![k].found = TRUE, ![k].variance = "none"]]
     /\ Len(lines'[u][a]) <= MaxLines
     /\ marked' = marked \ {<<u, a, k>>}
  /\ scans' = [scans EXCEPT ![c] = Idle]
  /\ UNCHANGED <<inStore, audits>>

markVariance(u, a, k) ==
  /\ k \in DOMAIN lines[u][a]
  /\ \E v \in Variance \ {"none"} :
       lines' = [lines EXCEPT ![u][a][k].variance = v]
  /\ marked' = marked \cup {<<u, a, k>>}
  /\ UNCHANGED <<inStore, audits, scans>>

\* mutant: the lines found are not left out of the lines that become MISSING
CompleteAll(u) ==
  /\ audits[u] # "none"
  /\ audits' = [audits EXCEPT ![u] = "COMPLETED"]
  /\ lines' = [lines EXCEPT ![u] = [a \in Asset |-> [k \in DOMAIN @[a] |->
       IF @[a][k].expected /\ @[a][k].variance = "none"
       THEN [@[a][k] EXCEPT !.variance = "MISSING"] ELSE @[a][k]]]]
  /\ UNCHANGED <<inStore, scans, marked>>

\* What is expected, not found and not marked becomes MISSING.
complete(u) ==
  /\ audits[u] # "none"
  /\ audits' = [audits EXCEPT ![u] = "COMPLETED"]
  /\ lines' = [lines EXCEPT ![u] = [a \in Asset |-> [k \in DOMAIN @[a] |->
       IF @[a][k].expected /\ ~@[a][k].found /\ @[a][k].variance = "none"
       THEN [@[a][k] EXCEPT !.variance = "MISSING"] ELSE @[a][k]]]]
  /\ UNCHANGED <<inStore, scans, marked>>

Init ==
  /\ inStore = {} /\ marked = {}
  /\ audits = [u \in Audit |-> "none"]
  /\ lines = [u \in Audit |-> [a \in Asset |-> << >>]]
  /\ scans = [c \in Scanner |-> Idle]

Next ==
  \/ \E a \in Asset : MoveAsset(a)
  \/ \E u \in Audit : Create(u) \/ complete(u)
  \/ \E c \in Scanner : WriteScan(c) \/ \E u \in Audit, a \in Asset : FindLine(c, u, a)
  \/ \E u \in Audit, a \in Asset, k \in 1..MaxLines : markVariance(u, a, k)

Spec == Init /\ [][Next]_vars

-----------------------------------------------------------------------------
\* A completed audit accounts for every asset it expected - found, or under a
\* variance - and calls none MISSING that was found, unless the auditor marked the
\* line by hand: whichever way scans, marks and completions interleave, and
\* however often the audit is completed or scanned afterwards.
AuditExplained ==
  \A u \in Audit, a \in Asset : \A k \in DOMAIN lines[u][a] :
    LET l == lines[u][a][k] IN
    /\ audits[u] = "COMPLETED" /\ l.expected => l.found \/ l.variance # "none"
    /\ l.found /\ l.variance = "MISSING" => <<u, a, k>> \in marked
=============================================================================
