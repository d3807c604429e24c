---------------------------- MODULE AssetRegister ----------------------------
(***************************************************************************)
(* Where an asset is and what state it is in: the register                 *)
(* (inventory/assets.service.ts), the documents that change it - repairs   *)
(* (service/repairs.service.ts), transfers (logistics/ibt.service.ts) and  *)
(* disposals (inventory/decommission.controller.ts) - and the reports of   *)
(* the discovery agent (discovery/discovery.service.ts).                   *)
(*                                                                         *)
(* No handler locks the row it reads.  A move, an assignment or a report   *)
(* writes back what it has read; a document's status is checked first and  *)
(* written later.  The history row of a create or a move is a statement of *)
(* its own, which a failure can leave out.                                 *)
(***************************************************************************)
EXTENDS FiniteSets

CONSTANTS
  Asset, Place,
  Repair,    \* repair documents that may come to exist
  Transfer,  \* transfer documents, with one asset line each
  Request,   \* requests the server may be handling at one time
  Typeable,  \* statuses an operator may type into a move
  Nowhere    \* no location, no document, no asset

VARIABLES
  assets,     \* the Asset table: status and location
  trail,      \* where the AssetHistory rows say the asset is
  repairs,    \* the Repair table
  transfers,  \* the Ibt table, with its line
  disposals,  \* assets with a Decommission row
  req,        \* what each request slot is doing
  retyped,    \* history: assets given a status that was typed in, or read and out of date,
              \* and those of a transfer that was approved again after its dispatch
  untraced    \* history: assets moved by a report, or whose history row was lost or late

tables == <<assets, trail, repairs, transfers, disposals>>
vars == <<tables, req, retyped, untraced>>

AssetStatus == {"IN_STOCK", "ALLOCATED", "IN_STORE", "IN_TRANSIT", "REPAIR", "DAMAGED", "LOST",
                "WRITTEN_OFF", "DISPOSED"}
RepairStatus == {"LOGGED", "SENT", "AT_SUPPLIER", "RETURNED", "REPLACED", "WRITTEN_OFF"}
Location == Place \cup {Nowhere}

ASSUME TypeableAssumption == Typeable \subseteq AssetStatus

AssetRow == [status : AssetStatus \cup {"NONE"}, loc : Location]
RepairRow == [asset : Asset, status : RepairStatus \cup {"NONE"}]
TransferRow == [asset : Asset, from : Place, to : Place,
                status : {"REQUESTED", "APPROVED", "DISPATCHED", "RECEIVED"}]
RequestRow == [step : {"idle", "move", "assign", "report", "trail", "repair", "approve", "dispatch",
                       "receive", "dispose"},
               asset : Asset \cup {Nowhere}, doc : Repair \cup Transfer \cup {Nowhere},
               seen : AssetStatus \cup RepairStatus \cup {"NONE"}, loc : Location]

TypeOK ==
  /\ assets \in [Asset -> AssetRow] /\ trail \in [Asset -> Location]
  /\ repairs \in [Repair -> RepairRow] /\ transfers \in [Transfer -> TransferRow]
  /\ disposals \subseteq Asset
  /\ req \in [Request -> RequestRow]
  /\ retyped \subseteq Asset /\ untraced \subseteq Asset

Blank == [step |-> "idle", asset |-> Nowhere, doc |-> Nowhere, seen |-> "NONE", loc |-> Nowhere]
Exists(a) == assets[a].status # "NONE"

\* Slot q starts on asset a for document d, having read a status or a location.
Begin(q, step, a, d, seen, loc) ==
  /\ req[q].step = "idle"
  /\ req' = [req EXCEPT ![q] = [step |-> step, asset |-> a, doc |-> d, seen |-> seen, loc |-> loc]]
  /\ UNCHANGED <<tables, retyped, untraced>>

\* The history row that is to follow.
Trail(q, a, p) ==
  req' = [req EXCEPT ![q] = [step |-> "trail", asset |-> a, doc |-> Nowhere, seen |-> "NONE",
                             loc |-> p]]

End(q) == req' = [req EXCEPT ![q] = Blank]

-----------------------------------------------------------------------------
(* The register.                                                           *)

\* Booked in by hand, by an import or by the first report of a PC.
Create(q, a) ==
  /\ ~Exists(a) /\ req[q].step = "idle"
  /\ \E s \in {"IN_STOCK", "IN_STORE"}, p \in Location :
       /\ assets' = [assets EXCEPT ![a] = [status |-> s, loc |-> p]]
       /\ Trail(q, a, p)
  /\ UNCHANGED <<trail, repairs, transfers, disposals, retyped, untraced>>

\* A move, an assignment, a report of a known PC or a disposal finds its asset.
Find(q, step, a) ==
  /\ Exists(a)
  /\ step = "dispose" => assets[a].status # "DISPOSED"
  /\ Begin(q, step, a, Nowhere,
           IF step \in {"move", "assign"} THEN assets[a].status ELSE "NONE",
           IF step = "report" THEN assets[a].loc ELSE Nowhere)

\* The status is the one typed in or else the one the move has read.
Move(q) ==
  LET a == req[q].asset IN
  /\ req[q].step = "move"
  /\ \E p \in Place, s \in Typeable \cup {req[q].seen} :
       /\ assets' = [assets EXCEPT ![a] = [status |-> s, loc |-> p]]
       /\ retyped' = IF s = assets[a].status THEN retyped ELSE retyped \cup {a}
       /\ Trail(q, a, p)
  /\ UNCHANGED <<trail, repairs, transfers, disposals, untraced>>

\* A voucher is confirmed: asset and history row in one transaction.
BookIn(a) ==
  /\ ~Exists(a)
  /\ \E p \in Place :
       /\ assets' = [assets EXCEPT ![a] = [status |-> "IN_STOCK", loc |-> p]]
       /\ trail' = [trail EXCEPT ![a] = p]
  /\ UNCHANGED <<repairs, transfers, disposals, req, retyped, untraced>>

WriteTrail(q) ==
  LET a == req[q].asset IN
  /\ req[q].step = "trail"
  /\ trail' = [trail EXCEPT ![a] = req[q].loc]
  /\ untraced' = IF assets[a].loc = req[q].loc THEN untraced ELSE untraced \cup {a}
  /\ End(q)
  /\ UNCHANGED <<assets, repairs, transfers, disposals, retyped>>

\* To a department, which takes the asset into service, or to none.
Assign(q) ==
  LET a == req[q].asset IN
  /\ req[q].step = "assign"
  /\ \E s \in {"IN_STORE", req[q].seen} :
       /\ assets' = [assets EXCEPT ![a].status = s]
       /\ retyped' = IF s \in {"IN_STORE", assets[a].status} THEN retyped ELSE retyped \cup {a}
  /\ End(q)
  /\ UNCHANGED <<trail, repairs, transfers, disposals, untraced>>

\* A report of a known PC, with or without a hint where it is.
Report(q) ==
  LET a == req[q].asset IN
  /\ req[q].step = "report"
  /\ \E p \in Place \cup {req[q].loc} :
       /\ assets' = [assets EXCEPT ![a].loc = p]
       /\ untraced' = IF p = assets[a].loc THEN untraced ELSE untraced \cup {a}
  /\ End(q)
  /\ UNCHANGED <<trail, repairs, transfers, disposals, retyped>>

-----------------------------------------------------------------------------
(* The documents.                                                          *)

LogRepair(r, a) ==
  /\ repairs[r].status = "NONE" /\ Exists(a)
  /\ repairs' = [repairs EXCEPT ![r] = [asset |-> a, status |-> "LOGGED"]]
  /\ UNCHANGED <<assets, trail, transfers, disposals, req, retyped, untraced>>

allowed ==
  [s \in RepairStatus |->
     CASE s = "LOGGED" -> {"SENT", "WRITTEN_OFF"}
       [] s = "SENT" -> {"AT_SUPPLIER"}
       [] s = "AT_SUPPLIER" -> {"RETURNED", "REPLACED", "WRITTEN_OFF"}
       [] OTHER -> {}]

\* mutant: a returned asset keeps the status REPAIR
ReflectSent(target, status) ==
  CASE target = "SENT" -> "REPAIR" [] target = "WRITTEN_OFF" -> "WRITTEN_OFF" [] OTHER -> status

\* What a repair's transition makes of the status of its asset.
Reflect(target, status) ==
  CASE target = "SENT" -> "REPAIR"
    [] target = "RETURNED" -> "IN_STOCK"
    [] target = "WRITTEN_OFF" -> "WRITTEN_OFF"
    [] OTHER -> status

\* The transition is checked against the status read before the transaction.
FindRepair(q, r) ==
  /\ repairs[r].status # "NONE"
  /\ \E target \in allowed[repairs[r].status] : 
       Begin(q, "repair", repairs[r].asset, r, target, Nowhere)

Transition(q) ==
  LET target == req[q].seen IN
  /\ req[q].step = "repair"
  /\ repairs' = [repairs EXCEPT ![req[q].doc].status = target]
  /\ assets' = [assets EXCEPT ![req[q].asset].status = Reflect(target, @)]
  /\ End(q)
  /\ UNCHANGED <<trail, transfers, disposals, retyped, untraced>>

Needed(step) ==
  CASE step = "approve" -> "REQUESTED" [] step = "dispatch" -> "APPROVED" [] OTHER -> "DISPATCHED"

FindTransfer(q, t, step) ==
  /\ transfers[t].status = Needed(step)
  /\ Exists(transfers[t].asset)
  /\ Begin(q, step, transfers[t].asset, t, "NONE", Nowhere)

\* Written by id, whatever has become of the transfer since it was REQUESTED.
Approve(q) ==
  LET t == req[q].doc IN
  /\ req[q].step = "approve"
  /\ transfers' = [transfers EXCEPT ![t].status = "APPROVED"]
  /\ retyped' = IF transfers[t].status = "DISPATCHED" THEN retyped \cup {req[q].asset} ELSE retyped
  /\ End(q)
  /\ UNCHANGED <<assets, trail, repairs, disposals, untraced>>

\* mutant: the receipt leaves the asset where the transfer found it
CarryAway(q, step, status, here) ==
  LET t == req[q].doc  a == req[q].asset IN
  /\ req[q].step = step
  /\ assets' = [assets EXCEPT ![a].status = IF step = "dispatch" THEN "IN_TRANSIT" ELSE "IN_STORE"]
  /\ trail' = [trail EXCEPT ![a] = here]
  /\ transfers' = [transfers EXCEPT ![t].status = status]
  /\ End(q)
  /\ UNCHANGED <<repairs, disposals, retyped, untraced>>

\* One transaction writes the asset, its history row and the transfer.
Carry(q, step, status, here) ==
  LET t == req[q].doc  a == req[q].asset IN
  /\ req[q].step = step
  /\ assets' = [assets EXCEPT ![a] = [status |-> IF step = "dispatch" THEN "IN_TRANSIT"
                                                 ELSE "IN_STORE",
                                      loc |-> here]]
  /\ trail' = [trail EXCEPT ![a] = here]
  /\ transfers' = [transfers EXCEPT ![t].status = status]
  /\ End(q)
  /\ UNCHANGED <<repairs, disposals, retyped, untraced>>

Dispatch(q) ==
  req[q].doc \in Transfer /\ Carry(q, "dispatch", "DISPATCHED", transfers[req[q].doc].from)
Receive(q) == req[q].doc \in Transfer /\ Carry(q, "receive", "RECEIVED", transfers[req[q].doc].to)

\* An asset has one Decommission row at most: a second one fails.
Dispose(q) ==
  LET a == req[q].asset IN
  /\ req[q].step = "dispose" /\ a \notin disposals
  /\ disposals' = disposals \cup {a}
  /\ assets' = [assets EXCEPT ![a].status = "DISPOSED"]
  /\ End(q)
  /\ UNCHANGED <<trail, repairs, transfers, retyped, untraced>>

\* A request fails at its next statement; a create or a move then leaves no history row.
Fail(q) ==
  /\ req[q].step # "idle"
  /\ untraced' = IF req[q].step = "trail" THEN untraced \cup {req[q].asset} ELSE untraced
  /\ End(q)
  /\ UNCHANGED <<tables, retyped>>

-----------------------------------------------------------------------------
Init ==
  /\ assets = [a \in Asset |-> [status |-> "NONE", loc |-> Nowhere]]
  /\ trail = [a \in Asset |-> Nowhere]
  /\ repairs \in [Repair -> [asset : Asset, status : {"NONE"}]]
  /\ transfers \in [Transfer -> {t \in [asset : Asset, from : Place, to : Place,
                                       status : {"REQUESTED"}] : t.from # t.to}]
  /\ disposals = {} /\ retyped = {} /\ untraced = {}
  /\ req = [q \in Request |-> Blank]

Next ==
  \/ \E q \in Request :
       \/ \E a \in Asset : Create(q, a)
       \/ \E a \in Asset, step \in {"move", "assign", "report", "dispose"} : Find(q, step, a)
       \/ \E r \in Repair : FindRepair(q, r)
       \/ \E t \in Transfer, step \in {"approve", "dispatch", "receive"} : FindTransfer(q, t, step)
       \/ Move(q) \/ WriteTrail(q) \/ Assign(q) \/ Report(q)
       \/ Transition(q) \/ Approve(q) \/ Dispatch(q) \/ Receive(q) \/ Dispose(q) \/ Fail(q)
  \/ \E a \in Asset : BookIn(a) \/ \E r \in Repair : LogRepair(r, a)

Spec == Init /\ [][Next]_vars

-----------------------------------------------------------------------------
\* The register has an asset where its history last put it: unless a report moved
\* it (no history row is written for that), or a history row was lost, came after
\* another request had moved the asset on, or is still to come.
LocationTraced ==
  \A a \in Asset \ untraced :
    (\A q \in Request : req[q].step = "trail" => req[q].asset # a) => assets[a].loc = trail[a]

\* A status that a document gives is accounted for by one, however the requests
\* overlap: an asset in REPAIR has a repair that is out (or was replaced), one
\* IN_TRANSIT a dispatched transfer, one DISPOSED a disposal - unless a move or an
\* assignment gave it a status that was typed in or had changed since it was read,
\* or an approval of the transfer was written after its dispatch.
StatusHasDocument ==
  \A a \in Asset \ retyped :
    /\ assets[a].status = "REPAIR" =>
         \E r \in Repair : /\ repairs[r].asset = a
                           /\ repairs[r].status \in {"SENT", "AT_SUPPLIER", "REPLACED"}
    /\ assets[a].status = "IN_TRANSIT" =>
         \E t \in Transfer : transfers[t].asset = a /\ transfers[t].status = "DISPATCHED"
    /\ assets[a].status = "DISPOSED" => a \in disposals
=============================================================================
