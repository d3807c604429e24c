------------------------------- MODULE PinPads -------------------------------
(***************************************************************************)
(* The PIN pads on the tills (pinpads/pinpads.service.ts, pinpads.cron.ts):*)
(* detected by the inventory a PC sends every day, confirmed, returned to  *)
(* the bank by an operator, and marked MISSING by a nightly sweep when no  *)
(* PC has reported them for a week.                                        *)
(*                                                                         *)
(* Every handler reads the pad first and writes it later, by id.  The rows *)
(* about its moves are written and decide nothing: they are left out, like *)
(* the PC it is plugged in.                                                *)
(***************************************************************************)
EXTENDS FiniteSets

CONSTANTS
  Pad, Store,
  Request,  \* requests the server may be handling at one time
  None

VARIABLES
  pads,     \* the PinPad table: status, store, and if the last detection is a week old
  req,      \* what each request slot is doing: the pad, and what it has read of it
  sweep,    \* pads the sweep has read and not written
  lapsed,   \* history: pads that have been silent for a week
  away,     \* history: pads that were returned, and have not been detected since
  crossed   \* history: pads returned while another request, or the sweep, held them

vars == <<pads, req, sweep, lapsed, away, crossed>>

Row == [status : {"none", "DETECTED", "ASSIGNED", "MISSING", "RETURNED", "UNKNOWN"},
        store : Store \cup {None}, stale : BOOLEAN]
NoRow == [status |-> "none", store |-> None, stale |-> FALSE]
Idle == [step |-> "idle", pad |-> None, seen |-> NoRow, store |-> None]

TypeOK ==
  /\ pads \in [Pad -> Row]
  /\ req \in [Request -> [step : {"idle", "detect", "confirm", "return"},
                          pad : Pad \cup {None}, seen : Row, store : Store \cup {None}]]
  /\ sweep \subseteq Pad /\ lapsed \subseteq Pad /\ away \subseteq Pad /\ crossed \subseteq Pad

Exists(p) == pads[p].status # "none"

\* Typed in, with a store or without.
manualCreate(p, s) ==
  /\ ~Exists(p)
  /\ pads' = [pads EXCEPT ![p] = [status |-> IF s = None THEN "UNKNOWN" ELSE "ASSIGNED",
                                  store |-> s, stale |-> FALSE]]
  /\ UNCHANGED <<req, sweep, lapsed, away, crossed>>

\* A week goes by without a detection.
Silence(p) ==
  /\ Exists(p) /\ ~pads[p].stale
  /\ pads' = [pads EXCEPT ![p].stale = TRUE] /\ lapsed' = lapsed \cup {p}
  /\ UNCHANGED <<req, sweep, away, crossed>>

-----------------------------------------------------------------------------
\* A PC of store s reports the pad, an operator confirms or returns it.  (confirm
\* turns a returned pad down.)
Find(q, step, p, s) ==
  /\ req[q] = Idle
  /\ step # "detect" => Exists(p)
  /\ step = "confirm" => pads[p].status # "RETURNED"
  /\ req' = [req EXCEPT ![q] = [step |-> step, pad |-> p, seen |-> pads[p], store |-> s]]
  /\ UNCHANGED <<pads, sweep, lapsed, away, crossed>>

\* A pad that reappears is to be reviewed; the detection after that clears it.
nextStatus(status) ==
  CASE status \in {"MISSING", "RETURNED"} -> "UNKNOWN"
    [] status \in {"DETECTED", "ASSIGNED"} -> status
    [] OTHER -> "DETECTED"

\* A first detection makes the row, unless another has made it meanwhile; a later one
\* writes the status that follows from the one it read.
Detect(q) ==
  LET p == req[q].pad  seen == req[q].seen  s == req[q].store IN
  /\ req[q].step = "detect"
  /\ seen.status = "none" => ~Exists(p)
  /\ pads' = [pads EXCEPT ![p] = [status |-> nextStatus(seen.status), store |-> s, stale |-> FALSE]]
  /\ req' = [req EXCEPT ![q] = Idle]
  /\ away' = away \ {p}
  /\ UNCHANGED <<sweep, lapsed, crossed>>

confirm(q) ==
  /\ req[q].step = "confirm"
  /\ pads' = [pads EXCEPT ![req[q].pad].status = "ASSIGNED"]
  /\ req' = [req EXCEPT ![q] = Idle]
  /\ UNCHANGED <<sweep, lapsed, away, crossed>>

markReturned(q) ==
  LET p == req[q].pad IN
  /\ req[q].step = "return"
  /\ pads' = [pads EXCEPT ![p].status = "RETURNED"]
  /\ away' = away \cup {p}
  /\ crossed' = IF p \in sweep \/ \E r \in Request : r # q /\ req[r].step = "confirm" /\ req[r].pad = p
                THEN crossed \cup {p} ELSE crossed
  /\ req' = [req EXCEPT ![q] = Idle]
  /\ UNCHANGED <<sweep, lapsed>>

\* A request fails; a transaction is undone.
Fail(q) ==
  /\ req[q] # Idle
  /\ req' = [req EXCEPT ![q] = Idle]
  /\ UNCHANGED <<pads, sweep, lapsed, away, crossed>>

-----------------------------------------------------------------------------
\* mutant: the sweep looks for pads that no PC reported, whatever became of them
StaleAny == {p \in Pad : Exists(p) /\ pads[p].stale}

Stale == {p \in Pad : pads[p].status \in {"DETECTED", "ASSIGNED"} /\ pads[p].stale}

ReadStale ==
  /\ sweep = {} /\ Stale # {}
  /\ sweep' = Stale
  /\ UNCHANGED <<pads, req, lapsed, away, crossed>>

\* One transaction, by the ids that were read.
markStaleMissing ==
  /\ sweep # {}
  /\ pads' = [p \in Pad |-> IF p \in sweep THEN [pads[p] EXCEPT !.status = "MISSING"] ELSE pads[p]]
  /\ sweep' = {}
  /\ UNCHANGED <<req, lapsed, away, crossed>>

SweepFails == sweep # {} /\ sweep' = {} /\ UNCHANGED <<pads, req, lapsed, away, crossed>>

Init ==
  /\ pads = [p \in Pad |-> NoRow]
  /\ req = [q \in Request |-> Idle]
  /\ sweep = {} /\ lapsed = {} /\ away = {} /\ crossed = {}

Next ==
  \/ \E p \in Pad : Silence(p) \/ \E s \in Store \cup {None} : manualCreate(p, s)
  \/ \E q \in Request :
       \/ \E p \in Pad, s \in Store : Find(q, "detect", p, s)
       \/ \E p \in Pad, step \in {"confirm", "return"} : Find(q, step, p, None)
       \/ Detect(q) \/ confirm(q) \/ markReturned(q) \/ Fail(q)
  \/ ReadStale \/ markStaleMissing \/ SweepFails

Spec == Init /\ [][Next]_vars

-----------------------------------------------------------------------------
\* A pad is MISSING only if it once was silent for a week, and a pad that went back to
\* the bank stays RETURNED until a PC detects it again - unless a confirmation or a
\* sweep that had read it before its return wrote after it.
PadStatusExplained ==
  \A p \in Pad :
    /\ pads[p].status = "MISSING" => p \in lapsed
    /\ p \in away \ crossed => pads[p].status = "RETURNED"
=============================================================================
