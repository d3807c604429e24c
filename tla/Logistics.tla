----------------------------- MODULE Logistics -----------------------------
(***************************************************************************)
(* Quantity stock of one non-serialised SKU: goods received vouchers       *)
(* (logistics/grv.service.ts), internal branch transfers                   *)
(* (logistics/ibt.service.ts) and manual stock changes                     *)
(* (inventory/stock.service.ts), served by concurrent HTTP requests over   *)
(* one PostgreSQL database at READ COMMITTED.                              *)
(*                                                                         *)
(* A handler is cut where another request can run: after the unlocked read *)
(* that checks the document's status, and after the count() a document     *)
(* code is computed from.  The statements that follow write under row      *)
(* locks and become visible together at commit, so they are one step.      *)
(***************************************************************************)
EXTENDS Integers, FiniteSets

CONSTANTS
  Location,       \* stock locations
  StoreLocation,  \* the locations a store is attached to (Location.store)
  Grv, Ibt,       \* document rows that may come to exist
  Request,        \* requests the server may be handling at one time
  MaxQty,         \* bound: largest line quantity
  MaxPosted,      \* bound: how often a document is followed moving stock
  MaxMoved        \* bound: how far a location's movements are followed

ASSUME LogisticsAssumption ==
  /\ StoreLocation \subseteq Location
  /\ Location # {} /\ Grv \cup Ibt # {}
  /\ IsFiniteSet(Grv) /\ IsFiniteSet(Ibt)
  /\ Grv \cap Ibt = {}
  /\ MaxQty \in Nat \ {0} /\ MaxPosted \in Nat /\ MaxMoved \in Nat

Qty == 1 .. MaxQty
Doc == Grv \cup Ibt
AnyDoc == CHOOSE d \in Doc : TRUE
AnyLocation == CHOOSE l \in Location : TRUE

VARIABLES
  rows,      \* locations with a Stock row
  qty,       \* Stock.qtyOnHand (0 where there is no row)
  moved,     \* StockMovement rows of the location, summed: in minus out
  grv,       \* the Grv table
  ibt,       \* the Ibt table
  notes,     \* the Dispatch table: acknowledgement code -> IBT
  req,       \* what each request slot is doing
  base,      \* history: stock set by the last count, less the movements so far
  clamped,   \* history: rows whose first write was clamped at zero
  posted,    \* history: how often a document moved stock
  overlapped \* history: documents that two requests handled at the same time

tables == <<rows, qty, moved, grv, ibt, notes>>
vars == <<rows, qty, moved, grv, ibt, notes, req, base, clamped, posted, overlapped>>

GrvStatus == {"NONE", "DRAFT", "CONFIRMED"}
IbtStatus == {"NONE", "REQUESTED", "APPROVED", "DISPATCHED", "RECEIVED"}

\* One uniform record per request; `seen' is the last count() it has read.
IbtOp == {"approve", "dispatch", "receive", "acknowledge"}
ReqRec == [op : {"idle", "createGrv", "createIbt", "confirm"} \cup IbtOp,
           doc : Doc, loc : Location, seen : Nat]

TypeOK ==
  /\ rows \subseteq Location
  /\ qty \in [Location -> Int]
  /\ moved \in [Location -> Int]
  /\ grv \in [Grv -> [status : GrvStatus, qty : Qty, serialsOk : BOOLEAN, code : Nat]]
  /\ ibt \in [Ibt -> [status : IbtStatus, from : Location, to : Location,
                      qty : Qty, code : Nat]]
  /\ notes \subseteq (Nat \X Ibt) /\ IsFiniteSet(notes)
  /\ req \in [Request -> ReqRec]
  /\ base \in [Location -> Int]
  /\ clamped \subseteq rows
  /\ posted \in [Doc -> Nat]
  /\ overlapped \subseteq Doc

-----------------------------------------------------------------------------
(* Requests.                                                               *)

NoRequest == [op |-> "idle", doc |-> AnyDoc, loc |-> AnyLocation, seen |-> 0]

Idle(r) == req[r].op = "idle"

\* A handler has read document d and will write it in a later step; overlapped
\* records that another request is at the same point with the same document.
Handling(r, d) == req[r].op \notin {"idle", "createGrv", "createIbt"} /\ req[r].doc = d

Start(r, op, d, l) ==
  /\ req' = [req EXCEPT ![r] = [op |-> op, doc |-> d, loc |-> l, seen |-> 0]]
  /\ overlapped' = IF \E s \in Request : Handling(s, d)
                     THEN overlapped \cup {d} ELSE overlapped

Done(r) == req' = [req EXCEPT ![r] = NoRequest]

\* `receive' holds the row locks of both locations while it counts dispatches.
Locked(l) ==
  \E r \in Request : /\ req[r].op = "acknowledge"
                     /\ l \in {ibt[req[r].doc].from, ibt[req[r].doc].to}

GrvRows == {g \in Grv : grv[g].status # "NONE"}
IbtRows == {i \in Ibt : ibt[i].status # "NONE"}

-----------------------------------------------------------------------------
(* prisma.stock.upsert: create the row, or update its quantity.            *)

\* mutant: a created row ignores the quantity it is created with
UpsertedEmpty(f, present, l, created, delta) ==
  [f EXCEPT ![l] = IF l \in present THEN @ + delta ELSE 0]

Upserted(f, present, l, created, delta) ==
  [f EXCEPT ![l] = IF l \in present THEN @ + delta ELSE created]

-----------------------------------------------------------------------------
(* Goods received vouchers.                                                *)

CreateGrvCount(r) ==
  /\ Idle(r)
  /\ req' = [req EXCEPT ![r].op = "createGrv", ![r].seen = Cardinality(GrvRows)]
  /\ UNCHANGED <<tables, base, clamped, posted, overlapped>>

\* The unique index on Grv.code rejects a code another request took meanwhile
\* (then nothing is written and the request fails).
CreateGrvInsert(r) ==
  /\ req[r].op = "createGrv"
  /\ \A h \in GrvRows : grv[h].code # req[r].seen + 1
  /\ \E g \in Grv \ GrvRows, q \in Qty, ok \in BOOLEAN :
       grv' = [grv EXCEPT ![g] = [status |-> "DRAFT", qty |-> q, serialsOk |-> ok,
                                  code |-> req[r].seen + 1]]
  /\ Done(r)
  /\ UNCHANGED <<rows, qty, moved, ibt, notes, base, clamped, posted, overlapped>>

\* mutant: a confirm does not look at the status
ConfirmReadUnchecked(r) ==
  /\ Idle(r)
  /\ \E g \in GrvRows, l \in Location : Start(r, "confirm", g, l)
  /\ UNCHANGED <<tables, base, clamped, posted>>

ConfirmRead(r) ==
  /\ Idle(r)
  /\ \E g \in GrvRows, l \in Location :
       /\ grv[g].status # "CONFIRMED"
       /\ Start(r, "confirm", g, l)
  /\ UNCHANGED <<tables, base, clamped, posted>>

\* All lines, the movement rows and the status are one transaction; a
\* serialised line whose serials do not match its quantity aborts it (Fail).
ConfirmCommit(r) ==
  LET g == req[r].doc
      l == req[r].loc
      q == grv[g].qty IN
  /\ req[r].op = "confirm"
  /\ grv[g].serialsOk
  /\ posted[g] < MaxPosted
  /\ ~Locked(l)
  /\ qty' = Upserted(qty, rows, l, q, q)
  /\ rows' = rows \cup {l}
  /\ moved' = [moved EXCEPT ![l] = @ + q]
  /\ grv' = [grv EXCEPT ![g].status = "CONFIRMED"]
  /\ posted' = [posted EXCEPT ![g] = @ + 1]
  /\ Done(r)
  /\ UNCHANGED <<ibt, notes, base, clamped, overlapped>>

-----------------------------------------------------------------------------
(* Internal branch transfers.  Only the quantity line is modelled: the asset  *)
(* lines of the same transaction write the Asset and AssetHistory tables,     *)
(* which no action here reads.                                                *)

CreateIbtCount(r) ==
  /\ Idle(r)
  /\ req' = [req EXCEPT ![r].op = "createIbt", ![r].seen = Cardinality(IbtRows)]
  /\ UNCHANGED <<tables, base, clamped, posted, overlapped>>

CreateIbtInsert(r) ==
  /\ req[r].op = "createIbt"
  /\ \A j \in IbtRows : ibt[j].code # req[r].seen + 1
  /\ \E i \in Ibt \ IbtRows, from, to \in Location, q \in Qty :
       ibt' = [ibt EXCEPT ![i] = [status |-> "REQUESTED", from |-> from, to |-> to,
                                  qty |-> q, code |-> req[r].seen + 1]]
  /\ Done(r)
  /\ UNCHANGED <<rows, qty, moved, grv, notes, base, clamped, posted, overlapped>>

\* The three transitions read the row, check its status and write it later
\* without checking again.
ReadIbt(r, op, expected) ==
  /\ Idle(r)
  /\ \E i \in Ibt : ibt[i].status = expected /\ Start(r, op, i, ibt[i].to)
  /\ UNCHANGED <<tables, base, clamped, posted>>

WriteIbtStatus(r, op, status) ==
  /\ req[r].op = op
  /\ ibt' = [ibt EXCEPT ![req[r].doc].status = status]
  /\ Done(r)
  /\ UNCHANGED <<rows, qty, moved, grv, notes, base, clamped, posted, overlapped>>

\* mutant: a dispatched transfer can be approved again
ApproveReadAgain(r) ==
  \E s \in {"REQUESTED", "DISPATCHED"} : ReadIbt(r, "approve", s)

ApproveRead(r) == ReadIbt(r, "approve", "REQUESTED")
ApproveWrite(r) == WriteIbtStatus(r, "approve", "APPROVED")

DispatchRead(r) == ReadIbt(r, "dispatch", "APPROVED")
DispatchCommit(r) == WriteIbtStatus(r, "dispatch", "DISPATCHED")

\* mutant: a received transfer can be received again
ReceiveReadAgain(r) ==
  \E s \in {"DISPATCHED", "RECEIVED"} : ReadIbt(r, "receive", s)

ReceiveRead(r) == ReadIbt(r, "receive", "DISPATCHED")

\* The stock of both locations is updated (and so locked) before the dispatch
\* rows are counted; the updates show at commit.
ReceiveCount(r) ==
  LET i == req[r].doc IN
  /\ req[r].op = "receive"
  /\ ibt[i].to \in StoreLocation
  /\ ~Locked(ibt[i].from) /\ ~Locked(ibt[i].to)
  /\ req' = [req EXCEPT ![r].op = "acknowledge", ![r].seen = Cardinality(notes)]
  /\ UNCHANGED <<tables, base, clamped, posted, overlapped>>

\* Two upserts, one after the other: the destination may be the source.  A
\* source without a row is created empty, whatever was taken from it.
MoveStock(i) ==
  LET taken == Upserted(qty, rows, ibt[i].from, 0, -ibt[i].qty)
      out == [moved EXCEPT ![ibt[i].from] = @ - ibt[i].qty] IN
  /\ qty' = Upserted(taken, rows \cup {ibt[i].from}, ibt[i].to, ibt[i].qty, ibt[i].qty)
  /\ rows' = rows \cup {ibt[i].from, ibt[i].to}
  /\ moved' = [out EXCEPT ![ibt[i].to] = @ + ibt[i].qty]
  /\ clamped' = IF ibt[i].from \in rows THEN clamped ELSE clamped \cup {ibt[i].from}
  /\ ibt' = [ibt EXCEPT ![i].status = "RECEIVED"]
  /\ posted' = [posted EXCEPT ![i] = @ + 1]

\* mutant: a receive that loses the race for its code goes on without an acknowledgement
AcknowledgeSome(r, i, code) ==
  \/ /\ req[r].op = "receive"
     /\ ibt[i].to \notin StoreLocation
     /\ ~Locked(ibt[i].from) /\ ~Locked(ibt[i].to)
     /\ UNCHANGED notes
  \/ /\ req[r].op = "acknowledge"
     /\ notes' = IF \E n \in notes : n[1] = code THEN notes ELSE notes \cup {<<code, i>>}

\* A store acknowledges with a dispatch row; its unique code aborts the whole
\* transaction when another receive has taken it.
Acknowledge(r, i, code) ==
  \/ /\ req[r].op = "receive"
     /\ ibt[i].to \notin StoreLocation
     /\ ~Locked(ibt[i].from) /\ ~Locked(ibt[i].to)
     /\ UNCHANGED notes
  \/ /\ req[r].op = "acknowledge"
     /\ \A n \in notes : n[1] # code
     /\ notes' = notes \cup {<<code, i>>}

ReceiveCommit(r) ==
  LET i == req[r].doc IN
  /\ req[r].op \in {"receive", "acknowledge"}
  /\ posted[i] < MaxPosted
  /\ Acknowledge(r, i, req[r].seen + 1)
  /\ MoveStock(i)
  /\ Done(r)
  /\ UNCHANGED <<grv, base, overlapped>>

-----------------------------------------------------------------------------
(* Manual stock changes: one statement, or one transaction without a read.  *)

\* StockService.upsert: a count overwrites the quantity and writes no movement.
StockUpsert(l, q) ==
  /\ ~Locked(l)
  /\ qty' = [qty EXCEPT ![l] = q]
  /\ rows' = rows \cup {l}
  /\ base' = [base EXCEPT ![l] = q - moved[l]]
  /\ clamped' = clamped \ {l}
  /\ UNCHANGED <<moved, grv, ibt, notes, req, posted, overlapped>>

\* StockService.adjust: a new row never starts below zero, its movement may.
StockAdjust(l, delta) ==
  /\ ~Locked(l)
  /\ moved[l] + delta \in -MaxMoved .. MaxMoved
  /\ qty' = Upserted(qty, rows, l, IF delta > 0 THEN delta ELSE 0, delta)
  /\ rows' = rows \cup {l}
  /\ moved' = [moved EXCEPT ![l] = @ + delta]
  /\ clamped' = IF l \notin rows /\ delta < 0 THEN clamped \cup {l} ELSE clamped
  /\ UNCHANGED <<grv, ibt, notes, req, base, posted, overlapped>>

\* mutant: the status of a voucher is not part of the transaction
FailKeepingStatus(r) ==
  /\ ~Idle(r)
  /\ grv' = IF req[r].op = "confirm" THEN [grv EXCEPT ![req[r].doc].status = "CONFIRMED"] ELSE grv
  /\ Done(r)
  /\ UNCHANGED <<rows, qty, moved, ibt, notes, base, clamped, posted, overlapped>>

\* A failed statement, a lost connection or an expired transaction: whatever a
\* handler had not committed is gone.
Fail(r) ==
  /\ ~Idle(r)
  /\ Done(r)
  /\ UNCHANGED <<tables, base, clamped, posted, overlapped>>

-----------------------------------------------------------------------------
Init ==
  /\ rows = {}
  /\ qty = [l \in Location |-> 0]
  /\ moved = [l \in Location |-> 0]
  /\ grv = [g \in Grv |-> [status |-> "NONE", qty |-> 1, serialsOk |-> TRUE, code |-> 0]]
  /\ ibt = [i \in Ibt |-> [status |-> "NONE", from |-> AnyLocation, to |-> AnyLocation,
                           qty |-> 1, code |-> 0]]
  /\ notes = {}
  /\ req = [r \in Request |-> NoRequest]
  /\ base = [l \in Location |-> 0]
  /\ clamped = {}
  /\ posted = [d \in Doc |-> 0]
  /\ overlapped = {}

GrvStep(r) == CreateGrvCount(r) \/ CreateGrvInsert(r) \/ ConfirmRead(r) \/ ConfirmCommit(r)

IbtStep(r) ==
  \/ CreateIbtCount(r) \/ CreateIbtInsert(r)
  \/ ApproveRead(r) \/ ApproveWrite(r)
  \/ DispatchRead(r) \/ DispatchCommit(r)
  \/ ReceiveRead(r) \/ ReceiveCount(r) \/ ReceiveCommit(r)

ManualStep ==
  \E l \in Location :
    \/ \E q \in 0 .. MaxQty : StockUpsert(l, q)
    \/ \E delta \in -MaxQty .. MaxQty : StockAdjust(l, delta)

Next ==
  \/ \E r \in Request : GrvStep(r) \/ IbtStep(r) \/ Fail(r)
  \/ ManualStep

Spec == Init /\ [][Next]_vars

-----------------------------------------------------------------------------
(* Properties.                                                             *)

\* Movements explain the stock: a location holds what it held at its last count
\* plus what came in less what went out, in every interleaving of vouchers,
\* transfers and adjustments.  Only a row whose first write was clamped at zero
\* (stock.service.ts:52, ibt.service.ts:150) may hold more, never less.
LedgerReconciles ==
  \A l \in Location :
    /\ qty[l] >= base[l] + moved[l]
    /\ l \notin clamped => qty[l] = base[l] + moved[l]

\* A document whose requests were handled one at a time moves stock at most
\* once, however often it is confirmed, approved, dispatched or received.
OncePosted == \A d \in Doc \ overlapped : posted[d] <= 1

\* Stock and status change together: a voucher is CONFIRMED exactly when its
\* goods are in stock, and no transfer is RECEIVED without having moved them.
PostedWithStatus ==
  /\ \A g \in Grv : posted[g] > 0 <=> grv[g].status = "CONFIRMED"
  /\ \A i \in Ibt : ibt[i].status = "RECEIVED" => posted[i] > 0

\* Each arrival at a store leaves exactly one dispatch acknowledgement, and a
\* receive that loses the race for an acknowledgement code moves no stock.
ArrivalsAcknowledged ==
  \A i \in Ibt :
    Cardinality({n \in notes : n[2] = i}) =
      IF ibt[i].to \in StoreLocation THEN posted[i] ELSE 0

\* Without overlapping requests a transfer only moves forward, one status at a
\* time, and never leaves RECEIVED.
NextStatus == [NONE |-> "REQUESTED", REQUESTED |-> "APPROVED", APPROVED |-> "DISPATCHED",
               DISPATCHED |-> "RECEIVED", RECEIVED |-> "RECEIVED"]
TransfersAdvance ==
  [][\A i \in Ibt \ overlapped' :
       ibt'[i].status \in {ibt[i].status, NextStatus[ibt[i].status]}]_vars

\* What ibt.service.ts:124 says ('Not in transit'): a transfer is received once.
IbtPostedOnce == \A i \in Ibt : posted[i] <= 1
=============================================================================
