--------------------------- MODULE LogisticsProofs ---------------------------
(***************************************************************************)
(* Proofs about Logistics for every set of locations, documents and        *)
(* requests.                                                               *)
(***************************************************************************)
EXTENDS Logistics, FiniteSetTheorems, TLAPS

LEMMA Defaults == AnyDoc \in Doc /\ AnyLocation \in Location
  BY LogisticsAssumption DEF AnyDoc, AnyLocation, Doc

LEMMA IdleRequest == NoRequest \in ReqRec
  BY Defaults DEF NoRequest, ReqRec

\* A request that is between reading and writing a document names a row of the
\* table its handler works on.
RequestsNameRows ==
  \A r \in Request :
    /\ req[r].op = "confirm" => req[r].doc \in GrvRows
    /\ req[r].op \in IbtOp => req[r].doc \in IbtRows

TypeInv == TypeOK /\ RequestsNameRows

LEMMA Counts ==
  ASSUME TypeOK
  PROVE  /\ Cardinality(GrvRows) \in Nat /\ IsFiniteSet(GrvRows)
         /\ Cardinality(IbtRows) \in Nat /\ IsFiniteSet(IbtRows)
         /\ Cardinality(notes) \in Nat
<1>1. GrvRows \subseteq Grv /\ IbtRows \subseteq Ibt  BY DEF GrvRows, IbtRows
<1>2. IsFiniteSet(GrvRows) /\ IsFiniteSet(IbtRows)
  BY <1>1, FS_Subset, LogisticsAssumption
<1> QED  BY <1>2, FS_CardinalityType DEF TypeOK

LEMMA DoneType ==
  ASSUME TypeOK, NEW r \in Request, Done(r)
  PROVE  /\ req' \in [Request -> ReqRec]
         /\ \A s \in Request : req'[s] = IF s = r THEN NoRequest ELSE req[s]
  BY IdleRequest DEF TypeOK, Done

LEMMA StartType ==
  ASSUME TypeOK, NEW r \in Request, NEW op \in IbtOp \cup {"confirm"},
         NEW d \in Doc, NEW l \in Location, Start(r, op, d, l)
  PROVE  /\ req' \in [Request -> ReqRec]
         /\ \A s \in Request :
              req'[s] = IF s = r THEN [op |-> op, doc |-> d, loc |-> l, seen |-> 0] ELSE req[s]
         /\ overlapped' \subseteq Doc
  BY DEF TypeOK, Start, ReqRec

\* A request that works on a document has its record's fields in range.
LEMMA RequestFields ==
  ASSUME TypeInv, NEW r \in Request
  PROVE  /\ req[r] \in ReqRec
         /\ req[r].op = "confirm" => req[r].doc \in Grv /\ req[r].doc \in GrvRows
         /\ req[r].op \in IbtOp => req[r].doc \in Ibt /\ req[r].doc \in IbtRows
         /\ req[r].loc \in Location /\ req[r].seen \in Nat /\ req[r].doc \in Doc
  BY DEF TypeInv, TypeOK, RequestsNameRows, GrvRows, IbtRows, ReqRec

LEMMA MoveStockType ==
  ASSUME TypeOK, NEW i \in Ibt, MoveStock(i)
  PROVE  /\ rows' \subseteq Location /\ rows' = rows \cup {ibt[i].from, ibt[i].to}
         /\ qty' \in [Location -> Int] /\ moved' \in [Location -> Int]
         /\ clamped' \subseteq rows'
         /\ ibt' \in [Ibt -> [status : IbtStatus, from : Location, to : Location,
                              qty : Qty, code : Nat]]
         /\ posted' \in [Doc -> Nat]
         /\ \A j \in Ibt : ibt'[j].status = IF j = i THEN "RECEIVED" ELSE ibt[j].status
<1>1. ibt[i].from \in Location /\ ibt[i].to \in Location /\ ibt[i].qty \in Int /\ i \in Doc
  BY LogisticsAssumption DEF TypeOK, Qty, Doc
<1> DEFINE taken == Upserted(qty, rows, ibt[i].from, 0, -ibt[i].qty)
<1>2. taken \in [Location -> Int]
  BY <1>1 DEF TypeOK, Upserted
<1>3. Upserted(taken, rows \cup {ibt[i].from}, ibt[i].to, ibt[i].qty, ibt[i].qty)
        \in [Location -> Int]
  <2> HIDE DEF taken
  <2> QED BY <1>1, <1>2 DEF Upserted
<1>4. qty' \in [Location -> Int]
  BY <1>3 DEF MoveStock
<1>5. moved' \in [Location -> Int]
  BY <1>1 DEF MoveStock, TypeOK
<1>6. posted' \in [Doc -> Nat]
  BY <1>1 DEF MoveStock, TypeOK
<1>7. /\ ibt' \in [Ibt -> [status : IbtStatus, from : Location, to : Location,
                           qty : Qty, code : Nat]]
      /\ \A j \in Ibt : ibt'[j].status = IF j = i THEN "RECEIVED" ELSE ibt[j].status
  BY <1>1 DEF MoveStock, TypeOK, IbtStatus
<1>8. rows' \subseteq Location /\ rows' = rows \cup {ibt[i].from, ibt[i].to} /\ clamped' \subseteq rows'
  BY <1>1 DEF MoveStock, TypeOK
<1> QED  BY <1>4, <1>5, <1>6, <1>7, <1>8

LEMMA TypeInvCorrect == Spec => []TypeInv
<1>1. Init => TypeInv
  BY LogisticsAssumption, Defaults, IdleRequest, FS_EmptySet
     DEF Init, TypeInv, TypeOK, RequestsNameRows, NoRequest, IbtOp, GrvStatus, IbtStatus, Qty
<1>2. TypeInv /\ [Next]_vars => TypeInv'
  <2> SUFFICES ASSUME TypeInv, [Next]_vars PROVE TypeInv'
    OBVIOUS
  <2> USE DEF TypeInv, TypeOK, RequestsNameRows, Idle, Doc, tables
  <2>1. ASSUME NEW r \in Request, CreateGrvCount(r) PROVE TypeInv'
    BY ZenonT(60), <2>1, Counts DEF CreateGrvCount, ReqRec, IbtOp, GrvRows, IbtRows
  <2>2. ASSUME NEW r \in Request, CreateGrvInsert(r) PROVE TypeInv'
    BY <2>2, DoneType DEF CreateGrvInsert, ReqRec, IbtOp, GrvRows, IbtRows, NoRequest, GrvStatus
  <2>3. ASSUME NEW r \in Request, ConfirmRead(r) PROVE TypeInv'
    <3>1. PICK g \in GrvRows, l \in Location : Start(r, "confirm", g, l)
      BY <2>3 DEF ConfirmRead
    <3>2. g \in Doc /\ g \in Grv
      BY DEF GrvRows
    <3>3. /\ req' \in [Request -> ReqRec] /\ overlapped' \subseteq Doc
          /\ \A s \in Request : req'[s] =
               IF s = r THEN [op |-> "confirm", doc |-> g, loc |-> l, seen |-> 0] ELSE req[s]
      BY <3>1, <3>2, StartType
    <3> QED  BY <2>3, <3>3 DEF ConfirmRead, IbtOp, GrvRows, IbtRows
  <2>4. ASSUME NEW r \in Request, ConfirmCommit(r) PROVE TypeInv'
    <3> DEFINE g == req[r].doc
               l == req[r].loc
               q == grv[g].qty
    <3>1. g \in Grv /\ g \in GrvRows /\ l \in Location /\ q \in Int
      BY <2>4, RequestFields DEF ConfirmCommit, Qty
    <3>2. qty' \in [Location -> Int]
      BY <2>4, <3>1 DEF ConfirmCommit, Upserted
    <3>3. rows' \subseteq Location /\ moved' \in [Location -> Int] /\ clamped' \subseteq rows'
      BY <2>4, <3>1 DEF ConfirmCommit
    <3>4. grv' \in [Grv -> [status : GrvStatus, qty : Qty, serialsOk : BOOLEAN, code : Nat]]
      BY <2>4, <3>1 DEF ConfirmCommit, GrvStatus
    <3>5. GrvRows' = GrvRows /\ IbtRows' = IbtRows
      BY <2>4, <3>1 DEF ConfirmCommit, GrvRows, IbtRows
    <3>6. posted' \in [Doc -> Nat]
      BY <2>4, <3>1 DEF ConfirmCommit
    <3>7. req' \in [Request -> ReqRec] /\ RequestsNameRows'
      BY <2>4, <3>5, DoneType DEF ConfirmCommit, NoRequest, IbtOp
    <3> QED  BY <2>4, <3>2, <3>3, <3>4, <3>6, <3>7 DEF ConfirmCommit
  <2>5. ASSUME NEW r \in Request, CreateIbtCount(r) PROVE TypeInv'
    BY ZenonT(60), <2>5, Counts DEF CreateIbtCount, ReqRec, IbtOp, GrvRows, IbtRows
  <2>6. ASSUME NEW r \in Request, CreateIbtInsert(r) PROVE TypeInv'
    BY SMTT(30), <2>6, DoneType DEF CreateIbtInsert, ReqRec, IbtOp, GrvRows, IbtRows, NoRequest, IbtStatus
  <2>7. ASSUME NEW r \in Request, NEW op \in IbtOp, NEW s \in IbtStatus \ {"NONE"}, ReadIbt(r, op, s)
        PROVE  TypeInv'
    <3>1. PICK i \in Ibt : ibt[i].status = s /\ Start(r, op, i, ibt[i].to)
      BY <2>7 DEF ReadIbt
    <3>2. i \in Doc /\ i \in IbtRows /\ ibt[i].to \in Location
      BY <3>1 DEF IbtRows
    <3>3. /\ req' \in [Request -> ReqRec] /\ overlapped' \subseteq Doc
          /\ \A t \in Request : req'[t] =
               IF t = r THEN [op |-> op, doc |-> i, loc |-> ibt[i].to, seen |-> 0] ELSE req[t]
      BY <3>1, <3>2, StartType
    <3> QED  BY <2>7, <3>2, <3>3 DEF ReadIbt, IbtOp, GrvRows, IbtRows
  <2>8. ASSUME NEW r \in Request, NEW op \in IbtOp, NEW s \in IbtStatus \ {"NONE"},
               WriteIbtStatus(r, op, s)
        PROVE  TypeInv'
    <3>1. req[r].doc \in Ibt /\ req[r].doc \in IbtRows
      BY <2>8, RequestFields DEF WriteIbtStatus
    <3>2. ibt' \in [Ibt -> [status : IbtStatus, from : Location, to : Location,
                            qty : Qty, code : Nat]]
      BY <2>8, <3>1 DEF WriteIbtStatus
    <3>3. GrvRows' = GrvRows /\ IbtRows' = IbtRows
      BY <2>8, <3>1 DEF WriteIbtStatus, GrvRows, IbtRows
    <3>4. req' \in [Request -> ReqRec] /\ RequestsNameRows'
      BY <2>8, <3>3, DoneType DEF WriteIbtStatus, NoRequest, IbtOp
    <3> QED  BY <2>8, <3>2, <3>4 DEF WriteIbtStatus
  <2>9. ASSUME NEW r \in Request, ReceiveCount(r) PROVE TypeInv'
    BY ZenonT(60), <2>9, Counts, RequestFields DEF ReceiveCount, ReqRec, IbtOp, GrvRows, IbtRows
  <2>10. ASSUME NEW r \in Request, ReceiveCommit(r) PROVE TypeInv'
    <3> DEFINE i == req[r].doc
    <3>1. i \in Ibt /\ i \in IbtRows /\ req[r].seen \in Nat
      BY <2>10, RequestFields DEF ReceiveCommit, IbtOp
    <3>2. MoveStock(i) /\ Done(r) /\ UNCHANGED <<grv, base, overlapped>>
      BY <2>10 DEF ReceiveCommit
    <3>3. notes' = notes \/ notes' = notes \cup {<<req[r].seen + 1, i>>}
      BY <2>10 DEF ReceiveCommit, Acknowledge
    <3>4. notes' \subseteq (Nat \X Ibt) /\ IsFiniteSet(notes')
      <4>1. <<req[r].seen + 1, i>> \in Nat \X Ibt
        BY <3>1
      <4>2. IsFiniteSet(notes \cup {<<req[r].seen + 1, i>>})
        BY FS_AddElement
      <4> QED  BY <3>3, <4>1, <4>2
    <3>5. GrvRows' = GrvRows /\ IbtRows' = IbtRows
      <4>1. \A j \in Ibt : ibt'[j].status = IF j = i THEN "RECEIVED" ELSE ibt[j].status
        BY <3>1, <3>2, MoveStockType
      <4> QED  BY <3>1, <3>2, <4>1 DEF GrvRows, IbtRows
    <3>6. req' \in [Request -> ReqRec] /\ RequestsNameRows'
      BY <3>2, <3>5, DoneType DEF NoRequest, IbtOp
    <3> QED  BY <3>1, <3>2, <3>4, <3>6, MoveStockType
  <2>11. ASSUME NEW r \in Request, Fail(r) PROVE TypeInv'
    BY <2>11, DoneType DEF Fail, NoRequest, IbtOp, GrvRows, IbtRows
  <2>12. ASSUME NEW l \in Location, NEW q \in 0 .. MaxQty, StockUpsert(l, q) PROVE TypeInv'
    BY <2>12, LogisticsAssumption DEF StockUpsert, GrvRows, IbtRows
  <2>13. ASSUME NEW l \in Location, NEW delta \in -MaxQty .. MaxQty, StockAdjust(l, delta)
         PROVE  TypeInv'
    <3>1. qty' \in [Location -> Int]
      BY <2>13, LogisticsAssumption DEF StockAdjust, Upserted
    <3> QED  BY <2>13, <3>1, LogisticsAssumption DEF StockAdjust, GrvRows, IbtRows
  <2>14. CASE UNCHANGED vars
    BY <2>14 DEF vars, GrvRows, IbtRows
  <2> QED
    BY <2>1, <2>2, <2>3, <2>4, <2>5, <2>6, <2>7, <2>8, <2>9, <2>10, <2>11, <2>12, <2>13, <2>14
       DEF Next, GrvStep, IbtStep, ManualStep, IbtOp, IbtStatus,
           ApproveRead, ApproveWrite, DispatchRead, DispatchCommit, ReceiveRead
<1> QED  BY <1>1, <1>2, PTL DEF Spec

\* Every reachable table and request is well formed: known statuses, counts that
\* match the rows, a request that names the rows it works on.
THEOREM TypeCorrect == Spec => []TypeOK
<1>1. TypeInv => TypeOK
  BY DEF TypeInv
<1> QED  BY TypeInvCorrect, <1>1, PTL

-----------------------------------------------------------------------------
(* The ledger.  LedgerReconciles alone is not inductive: the first write to *)
(* a location takes its quantity from nothing, so that an absent row must   *)
(* be known to stand for zero.                                              *)

NoRowNoStock ==
  \A l \in Location \ rows : qty[l] = 0 /\ moved[l] = 0 /\ base[l] = 0

LedgerInv == LedgerReconciles /\ NoRowNoStock

LEMMA MoveStockLedger ==
  ASSUME TypeOK, LedgerInv, NEW i \in Ibt, MoveStock(i), base' = base
  PROVE  LedgerInv'
<1> DEFINE from == ibt[i].from
           to == ibt[i].to
           q == ibt[i].qty
<1>1. from \in Location /\ to \in Location /\ q \in Int /\ q > 0
  BY LogisticsAssumption DEF TypeOK, Qty
<1>2. /\ rows' = rows \cup {from, to}
      /\ clamped' = IF from \in rows THEN clamped ELSE clamped \cup {from}
  BY DEF MoveStock
<1>3. \A l \in Location : moved'[l] = moved[l] - (IF l = from THEN q ELSE 0)
                                              + (IF l = to THEN q ELSE 0)
  BY <1>1 DEF MoveStock, TypeOK
<1>4. \A l \in Location : qty'[l] = (IF l # from THEN qty[l]
                                     ELSE IF from \in rows THEN qty[from] - q ELSE 0)
                                    + (IF l = to THEN q ELSE 0)
  <2>1. \A l \in Location : l # from /\ l # to => qty'[l] = qty[l]
    BY <1>1 DEF MoveStock, TypeOK, Upserted
  <2>2. from # to => qty'[from] = IF from \in rows THEN qty[from] - q ELSE 0
    BY <1>1 DEF MoveStock, TypeOK, Upserted
  <2>3. from # to => qty'[to] = IF to \in rows THEN qty[to] + q ELSE q
    BY <1>1 DEF MoveStock, TypeOK, Upserted
  <2>4. from = to => qty'[to] = (IF from \in rows THEN qty[from] - q ELSE 0) + q
    BY <1>1 DEF MoveStock, TypeOK, Upserted
  <2>5. to \notin rows => qty[to] = 0
    BY <1>1 DEF LedgerInv, NoRowNoStock
  <2> QED  BY <1>1, <2>1, <2>2, <2>3, <2>4, <2>5 DEF TypeOK
<1> QED
  <2> SUFFICES ASSUME NEW l \in Location
               PROVE  /\ qty'[l] >= base[l] + moved'[l]
                      /\ l \notin clamped' => qty'[l] = base[l] + moved'[l]
                      /\ l \notin rows' => qty'[l] = 0 /\ moved'[l] = 0 /\ base[l] = 0
    BY DEF LedgerInv, LedgerReconciles, NoRowNoStock
  <2>1. /\ qty[l] >= base[l] + moved[l]
        /\ l \notin clamped => qty[l] = base[l] + moved[l]
        /\ l \notin rows => qty[l] = 0 /\ moved[l] = 0 /\ base[l] = 0
    BY DEF LedgerInv, LedgerReconciles, NoRowNoStock
  <2>2. /\ moved'[l] = moved[l] - (IF l = from THEN q ELSE 0) + (IF l = to THEN q ELSE 0)
        /\ qty'[l] = (IF l # from THEN qty[l] ELSE IF from \in rows THEN qty[from] - q ELSE 0)
                     + (IF l = to THEN q ELSE 0)
    BY <1>3, <1>4
  <2>3. qty[l] \in Int /\ moved[l] \in Int /\ base[l] \in Int /\ clamped \subseteq rows
    BY DEF TypeOK
  <2> HIDE DEF from, to, q
  <2> QED  BY SMTT(30), <1>1, <1>2, <2>1, <2>2, <2>3

\* Movements explain the stock for any number of locations, documents and
\* overlapping requests.
THEOREM LedgerCorrect == Spec => []LedgerReconciles
<1>1. Init => LedgerInv
  BY DEF Init, LedgerInv, LedgerReconciles, NoRowNoStock
<1>2. TypeInv /\ LedgerInv /\ [Next]_vars => LedgerInv'
  <2> SUFFICES ASSUME TypeInv, LedgerInv, [Next]_vars PROVE LedgerInv'
    OBVIOUS
  <2> USE DEF TypeInv, LedgerInv, LedgerReconciles, NoRowNoStock
  <2>1. ASSUME UNCHANGED <<rows, qty, moved, base, clamped>> PROVE LedgerInv'
    BY <2>1
  <2>2. ASSUME NEW r \in Request, ConfirmCommit(r) PROVE LedgerInv'
    <3> DEFINE l == req[r].loc
               q == grv[req[r].doc].qty
    <3>1. l \in Location /\ q \in Int /\ q > 0
      BY <2>2, RequestFields, LogisticsAssumption DEF ConfirmCommit, TypeOK, Qty
    <3>2. \A k \in Location : moved'[k] = IF k = l THEN moved[l] + q ELSE moved[k]
      BY <2>2, <3>1 DEF ConfirmCommit, TypeOK
    <3>3. \A k \in Location : qty'[k] = IF k # l THEN qty[k]
                                        ELSE IF l \in rows THEN qty[l] + q ELSE q
      BY <2>2, <3>1 DEF ConfirmCommit, TypeOK, Upserted
    <3>4. rows' = rows \cup {l} /\ UNCHANGED <<base, clamped>>
      BY <2>2 DEF ConfirmCommit
    <3> HIDE DEF l, q
    <3>5. ASSUME NEW k \in Location
          PROVE  /\ qty'[k] >= base'[k] + moved'[k]
                 /\ k \notin clamped' => qty'[k] = base'[k] + moved'[k]
                 /\ k \notin rows' => qty'[k] = 0 /\ moved'[k] = 0 /\ base'[k] = 0
      <4>1. qty[k] \in Int /\ moved[k] \in Int /\ base[k] \in Int /\ clamped \subseteq rows
        BY DEF TypeOK
      <4>2. /\ qty[k] >= base[k] + moved[k]
            /\ k \notin clamped => qty[k] = base[k] + moved[k]
            /\ k \notin rows => qty[k] = 0 /\ moved[k] = 0 /\ base[k] = 0
        OBVIOUS
      <4> QED  BY <4>1, <4>2, <3>1, <3>2, <3>3, <3>4
    <3> QED  BY <3>5
  <2>3. ASSUME NEW r \in Request, ReceiveCommit(r) PROVE LedgerInv'
    <3>1. req[r].doc \in Ibt /\ MoveStock(req[r].doc) /\ base' = base
      BY <2>3, RequestFields DEF ReceiveCommit, IbtOp
    <3> QED  BY <3>1, MoveStockLedger
  <2>4. ASSUME NEW l \in Location, NEW q \in 0 .. MaxQty, StockUpsert(l, q) PROVE LedgerInv'
    BY <2>4, LogisticsAssumption DEF StockUpsert, TypeOK
  <2>5. ASSUME NEW l \in Location, NEW delta \in -MaxQty .. MaxQty, StockAdjust(l, delta)
        PROVE  LedgerInv'
    <3>1. delta \in Int
      BY LogisticsAssumption
    <3>2. \A k \in Location : moved'[k] = IF k = l THEN moved[l] + delta ELSE moved[k]
      BY <2>5, <3>1 DEF StockAdjust, TypeOK
    <3>3. \A k \in Location : qty'[k] = IF k # l THEN qty[k]
                                        ELSE IF l \in rows THEN qty[l] + delta
                                        ELSE IF delta > 0 THEN delta ELSE 0
      BY <2>5, <3>1 DEF StockAdjust, TypeOK, Upserted
    <3>4. /\ rows' = rows \cup {l} /\ base' = base
          /\ clamped' = IF l \notin rows /\ delta < 0 THEN clamped \cup {l} ELSE clamped
      BY <2>5 DEF StockAdjust
    <3>5. ASSUME NEW k \in Location
          PROVE  /\ qty'[k] >= base'[k] + moved'[k]
                 /\ k \notin clamped' => qty'[k] = base'[k] + moved'[k]
                 /\ k \notin rows' => qty'[k] = 0 /\ moved'[k] = 0 /\ base'[k] = 0
      <4>1. qty[k] \in Int /\ moved[k] \in Int /\ base[k] \in Int /\ clamped \subseteq rows
        BY DEF TypeOK
      <4>2. /\ qty[k] >= base[k] + moved[k]
            /\ k \notin clamped => qty[k] = base[k] + moved[k]
            /\ k \notin rows => qty[k] = 0 /\ moved[k] = 0 /\ base[k] = 0
        OBVIOUS
      <4> QED  BY <4>1, <4>2, <3>1, <3>2, <3>3, <3>4
    <3> QED  BY <3>5
  <2> QED
    BY <2>1, <2>2, <2>3, <2>4, <2>5
       DEF Next, GrvStep, IbtStep, ManualStep, vars, tables, CreateGrvCount, CreateGrvInsert,
           ConfirmRead, CreateIbtCount, CreateIbtInsert, ApproveRead, ApproveWrite, DispatchRead,
           DispatchCommit, ReceiveRead, ReceiveCount, Fail, ReadIbt, WriteIbtStatus
<1>3. LedgerInv => LedgerReconciles
  BY DEF LedgerInv
<1> QED  BY <1>1, <1>2, <1>3, TypeInvCorrect, PTL DEF Spec

-----------------------------------------------------------------------------
(* What a step may do to a document: one lemma per kind of write.          *)

LEMMA ConfirmWrites ==
  ASSUME TypeInv, NEW r \in Request, ConfirmCommit(r)
  PROVE  /\ req[r].op = "confirm" /\ req[r].doc \in Grv /\ req[r].doc \in Doc
         /\ \A g \in Grv : grv'[g].status = IF g = req[r].doc THEN "CONFIRMED" ELSE grv[g].status
         /\ \A d \in Doc : posted'[d] = IF d = req[r].doc THEN posted[d] + 1 ELSE posted[d]
         /\ Done(r) /\ UNCHANGED <<ibt, overlapped>>
  BY RequestFields DEF ConfirmCommit, TypeInv, TypeOK

LEMMA ReceiveWrites ==
  ASSUME TypeInv, NEW r \in Request, ReceiveCommit(r)
  PROVE  /\ req[r].op \in {"receive", "acknowledge"} /\ req[r].doc \in Ibt /\ req[r].doc \in Doc
         /\ \A i \in Ibt : ibt'[i].status = IF i = req[r].doc THEN "RECEIVED" ELSE ibt[i].status
         /\ \A d \in Doc : posted'[d] = IF d = req[r].doc THEN posted[d] + 1 ELSE posted[d]
         /\ Done(r) /\ UNCHANGED <<grv, overlapped>>
<1>1. req[r].doc \in Ibt /\ MoveStock(req[r].doc) /\ req[r].doc \in Doc
  BY RequestFields DEF ReceiveCommit, IbtOp
<1>2. \A i \in Ibt : ibt'[i].status = IF i = req[r].doc THEN "RECEIVED" ELSE ibt[i].status
  BY <1>1, MoveStockType DEF TypeInv
<1>3. \A d \in Doc : posted'[d] = IF d = req[r].doc THEN posted[d] + 1 ELSE posted[d]
  BY <1>1 DEF MoveStock, TypeInv, TypeOK
<1> QED  BY <1>1, <1>2, <1>3 DEF ReceiveCommit

LEMMA IbtWrites ==
  ASSUME TypeInv, NEW r \in Request, NEW op \in IbtOp, NEW s \in IbtStatus,
         WriteIbtStatus(r, op, s)
  PROVE  /\ req[r].op = op /\ req[r].doc \in Ibt
         /\ \A i \in Ibt : ibt'[i].status = IF i = req[r].doc THEN s ELSE ibt[i].status
         /\ Done(r) /\ UNCHANGED <<grv, posted, overlapped>>
  BY RequestFields DEF WriteIbtStatus, TypeInv, TypeOK

LEMMA GrvInsert ==
  ASSUME TypeInv, NEW r \in Request, CreateGrvInsert(r)
  PROVE  /\ req[r].op = "createGrv"
         /\ \E n \in Grv : /\ n \notin GrvRows
                           /\ \A g \in Grv : grv'[g].status =
                                IF g = n THEN "DRAFT" ELSE grv[g].status
         /\ Done(r) /\ UNCHANGED <<ibt, posted, overlapped>>
  BY DEF CreateGrvInsert, TypeInv, TypeOK

LEMMA IbtInsert ==
  ASSUME TypeInv, NEW r \in Request, CreateIbtInsert(r)
  PROVE  /\ req[r].op = "createIbt"
         /\ \E n \in Ibt : /\ n \notin IbtRows
                           /\ \A i \in Ibt : ibt'[i].status =
                                IF i = n THEN "REQUESTED" ELSE ibt[i].status
         /\ Done(r) /\ UNCHANGED <<grv, posted, overlapped>>
  BY DEF CreateIbtInsert, TypeInv, TypeOK

\* Steps that write no document.
NoWrite(r) ==
  \/ CreateGrvCount(r) \/ CreateIbtCount(r) \/ ConfirmRead(r) \/ Fail(r)
  \/ ApproveRead(r) \/ DispatchRead(r) \/ ReceiveRead(r) \/ ReceiveCount(r)

LEMMA NoWriteKeeps ==
  ASSUME NEW r \in Request, NoWrite(r)
  PROVE  UNCHANGED <<grv, ibt, posted>>
  BY DEF NoWrite, CreateGrvCount, CreateIbtCount, ConfirmRead, Fail, ApproveRead, DispatchRead,
         ReceiveRead, ReceiveCount, ReadIbt, tables

LEMMA ManualKeeps ==
  ASSUME ManualStep
  PROVE  UNCHANGED <<grv, ibt, req, posted, overlapped>>
  BY DEF ManualStep, StockUpsert, StockAdjust

\* Stock and status change together, for any number of documents and requests:
\* PostedWithStatus is inductive relative to the types.
THEOREM StatusCorrect == Spec => []PostedWithStatus
<1>1. Init => PostedWithStatus
  BY DEF Init, PostedWithStatus, Doc
<1>2. TypeInv /\ PostedWithStatus /\ [Next]_vars => PostedWithStatus'
  <2> SUFFICES ASSUME TypeInv, PostedWithStatus, [Next]_vars PROVE PostedWithStatus'
    OBVIOUS
  <2>a. /\ posted \in [Doc -> Nat] /\ Grv \subseteq Doc /\ Ibt \subseteq Doc /\ Grv \cap Ibt = {}
        /\ \A g \in Grv : posted[g] \in Nat
        /\ \A i \in Ibt : posted[i] \in Nat
    BY LogisticsAssumption DEF TypeInv, TypeOK, Doc
  <2>b. /\ \A g \in Grv : posted[g] > 0 <=> grv[g].status = "CONFIRMED"
        /\ \A i \in Ibt : ibt[i].status = "RECEIVED" => posted[i] > 0
    BY DEF PostedWithStatus
  <2>1. ASSUME UNCHANGED <<grv, ibt, posted>> PROVE PostedWithStatus'
    BY <2>1, <2>b DEF PostedWithStatus
  <2>2. ASSUME NEW r \in Request, ConfirmCommit(r) PROVE PostedWithStatus'
    BY <2>2, <2>a, <2>b, ConfirmWrites DEF PostedWithStatus
  <2>3. ASSUME NEW r \in Request, ReceiveCommit(r) PROVE PostedWithStatus'
    BY <2>3, <2>a, <2>b, ReceiveWrites DEF PostedWithStatus
  <2>4. ASSUME NEW r \in Request, NEW op \in IbtOp, NEW s \in IbtStatus \ {"RECEIVED"},
               WriteIbtStatus(r, op, s)
        PROVE  PostedWithStatus'
    BY <2>4, <2>a, <2>b, IbtWrites DEF PostedWithStatus
  <2>5. ASSUME NEW r \in Request, CreateGrvInsert(r) PROVE PostedWithStatus'
    BY <2>5, <2>a, <2>b, GrvInsert DEF PostedWithStatus, GrvRows
  <2>6. ASSUME NEW r \in Request, CreateIbtInsert(r) PROVE PostedWithStatus'
    BY <2>6, <2>a, <2>b, IbtInsert DEF PostedWithStatus, IbtRows
  <2>7. ASSUME NEW r \in Request, NoWrite(r) PROVE PostedWithStatus'
    BY <2>7, <2>1, NoWriteKeeps
  <2>8. ASSUME ManualStep PROVE PostedWithStatus'
    BY <2>8, <2>1, ManualKeeps
  <2> QED
    BY <2>1, <2>2, <2>3, <2>4, <2>5, <2>6, <2>7, <2>8
       DEF Next, GrvStep, IbtStep, vars, NoWrite, ApproveWrite, DispatchCommit, IbtOp, IbtStatus
<1> QED  BY <1>1, <1>2, TypeInvCorrect, PTL DEF Spec

-----------------------------------------------------------------------------
(* A document handled by one request at a time is posted at most once.  The *)
(* status a handler has read is still the status when it writes, because    *)
(* nobody else handles the document, and only the last write of a document  *)
(* posts it.                                                                *)

Unposted(d) ==
  IF d \in Grv THEN grv[d].status # "CONFIRMED" ELSE ibt[d].status # "RECEIVED"

Needed(op) ==
  CASE op = "approve" -> "REQUESTED" [] op = "dispatch" -> "APPROVED" [] OTHER -> "DISPATCHED"

SerialDoc(d) ==
  /\ \A r, s \in Request : Handling(r, d) /\ Handling(s, d) => r = s
  /\ \A r \in Request : Handling(r, d) => Unposted(d)
  /\ \A r \in Request : (Handling(r, d) /\ req[r].op \in IbtOp) => ibt[d].status = Needed(req[r].op)
  /\ posted[d] <= 1
  /\ Unposted(d) => posted[d] = 0

SerialInv == \A d \in Doc \ overlapped : SerialDoc(d)

LEMMA HandlingDone ==
  ASSUME TypeInv, NEW r \in Request, Done(r), NEW d \in Doc, NEW s \in Request
  PROVE  /\ Handling(s, d)' <=> s # r /\ Handling(s, d)
         /\ s # r => req'[s] = req[s]
  BY DoneType DEF TypeInv, Handling, NoRequest

LEMMA StartSerial ==
  ASSUME TypeInv, SerialInv, NEW r \in Request, NEW op \in IbtOp \cup {"confirm"},
         NEW d \in Doc, NEW l \in Location, Idle(r), Start(r, op, d, l),
         Unposted(d), op \in IbtOp => ibt[d].status = Needed(op),
         UNCHANGED <<grv, ibt, posted>>
  PROVE  SerialInv'
<1>1. \A s \in Request :
        req'[s] = IF s = r THEN [op |-> op, doc |-> d, loc |-> l, seen |-> 0] ELSE req[s]
  BY StartType DEF TypeInv
<1>2. overlapped' = IF \E s \in Request : Handling(s, d) THEN overlapped \cup {d} ELSE overlapped
  BY DEF Start
<1> SUFFICES ASSUME NEW e \in Doc \ overlapped' PROVE SerialDoc(e)'
  BY DEF SerialInv
<1>3. SerialDoc(e)
  BY <1>2 DEF SerialInv
<1>4. \A s \in Request : Handling(s, e)' <=> (s = r /\ e = d) \/ (s # r /\ Handling(s, e))
  BY <1>1 DEF Handling, IbtOp
<1>5. ~Handling(r, e)
  BY DEF Idle, Handling
<1>6. Unposted(e)' <=> Unposted(e)
  BY DEF Unposted
<1>7. CASE e # d
  BY <1>1, <1>3, <1>4, <1>6, <1>7 DEF SerialDoc
<1>8. CASE e = d
  <2>1. \A s \in Request : ~Handling(s, d)
    BY <1>2, <1>8
  <2> QED  BY <1>1, <1>3, <1>4, <1>6, <1>8, <2>1 DEF SerialDoc
<1> QED  BY <1>7, <1>8

\* A step that ends request r and leaves document e as it is.
LEMMA DoneSerial ==
  ASSUME TypeInv, NEW r \in Request, Done(r), NEW e \in Doc, SerialDoc(e),
         Unposted(e)' <=> Unposted(e), posted'[e] = posted[e],
         \A s \in Request : (s # r /\ Handling(s, e) /\ req[s].op \in IbtOp)
                              => ibt'[e].status = ibt[e].status
  PROVE  SerialDoc(e)'
<1>1. \A s \in Request : (Handling(s, e)' <=> s # r /\ Handling(s, e)) /\ (s # r => req'[s] = req[s])
  BY HandlingDone
<1> QED  BY <1>1 DEF SerialDoc

\* A step with which request r finishes its own document, alone.
LEMMA FinishSerial ==
  ASSUME TypeInv, NEW r \in Request, Done(r), NEW e \in Doc, SerialDoc(e), Handling(r, e),
         \/ Unposted(e)' /\ posted'[e] = posted[e]
         \/ ~Unposted(e)' /\ posted'[e] = posted[e] + 1
  PROVE  SerialDoc(e)'
<1>1. \A s \in Request : Handling(s, e)' <=> s # r /\ Handling(s, e)
  BY HandlingDone
<1>2. \A s \in Request : ~Handling(s, e)'
  BY <1>1 DEF SerialDoc
<1>3. posted[e] = 0
  BY DEF SerialDoc
<1> QED  BY <1>2, <1>3 DEF SerialDoc

LEMMA SerialInvCorrect == Spec => []SerialInv
<1>1. Init => SerialInv
  BY DEF Init, SerialInv, SerialDoc, Handling, NoRequest, Doc
<1>2. TypeInv /\ SerialInv /\ [Next]_vars => SerialInv'
  <2> SUFFICES ASSUME TypeInv, SerialInv, [Next]_vars PROVE SerialInv'
    OBVIOUS
  <2>a. Grv \subseteq Doc /\ Ibt \subseteq Doc /\ Grv \cap Ibt = {} /\ Doc = Grv \cup Ibt
    BY LogisticsAssumption DEF Doc
  <2>1. ASSUME UNCHANGED <<grv, ibt, req, posted, overlapped>> PROVE SerialInv'
    BY <2>1 DEF SerialInv, SerialDoc, Handling, Unposted
  <2>2. ASSUME NEW r \in Request, CreateGrvCount(r) \/ CreateIbtCount(r) PROVE SerialInv'
    <3>1. /\ UNCHANGED <<grv, ibt, posted, overlapped>>
          /\ \A s \in Request : s # r => req'[s] = req[s]
          /\ req'[r].op \in {"createGrv", "createIbt"}
      BY <2>2 DEF CreateGrvCount, CreateIbtCount, tables, TypeInv, TypeOK, ReqRec
    <3>2. \A s \in Request, d \in Doc : Handling(s, d)' => s # r /\ Handling(s, d)
      BY <3>1 DEF Handling
    <3> QED  BY <3>1, <3>2 DEF SerialInv, SerialDoc, Unposted
  <2>3. ASSUME NEW r \in Request, ConfirmRead(r) PROVE SerialInv'
    <3>1. PICK g \in GrvRows, l \in Location :
            grv[g].status # "CONFIRMED" /\ Start(r, "confirm", g, l)
      BY <2>3 DEF ConfirmRead
    <3>2. g \in Grv /\ g \in Doc /\ Unposted(g) /\ Idle(r) /\ UNCHANGED <<grv, ibt, posted>>
      BY <2>3, <2>a, <3>1 DEF GrvRows, Unposted, ConfirmRead, tables
    <3> QED  BY <3>1, <3>2, StartSerial DEF IbtOp
  <2>4. ASSUME NEW r \in Request, NEW op \in IbtOp, ReadIbt(r, op, Needed(op)) PROVE SerialInv'
    <3>1. PICK i \in Ibt : ibt[i].status = Needed(op) /\ Start(r, op, i, ibt[i].to)
      BY <2>4 DEF ReadIbt
    <3>2. Needed(op) # "RECEIVED"
      BY DEF Needed, IbtOp
    <3>3. i \in Doc /\ ibt[i].to \in Location /\ Unposted(i) /\ Idle(r) /\ UNCHANGED <<grv, ibt, posted>>
      BY <2>4, <2>a, <3>1, <3>2 DEF Unposted, ReadIbt, tables, TypeInv, TypeOK
    <3> QED  BY <3>1, <3>3, StartSerial
  <2>5. ASSUME NEW r \in Request, ReceiveCount(r) PROVE SerialInv'
    <3>1. /\ UNCHANGED <<grv, ibt, posted, overlapped>>
          /\ \A s \in Request : s # r => req'[s] = req[s]
          /\ req[r].op = "receive" /\ req'[r].op = "acknowledge" /\ req'[r].doc = req[r].doc
      BY <2>5 DEF ReceiveCount, tables, TypeInv, TypeOK, ReqRec
    <3>2. \A s \in Request, d \in Doc : /\ Handling(s, d)' <=> Handling(s, d)
                                        /\ Needed(req'[s].op) = Needed(req[s].op)
                                        /\ req'[s].op \in IbtOp <=> req[s].op \in IbtOp
      BY <3>1 DEF Handling, Needed, IbtOp
    <3> QED  BY <3>1, <3>2 DEF SerialInv, SerialDoc, Unposted
  <2>6. ASSUME NEW r \in Request, Fail(r) PROVE SerialInv'
    <3>1. Done(r) /\ UNCHANGED <<grv, ibt, posted, overlapped>>
      BY <2>6 DEF Fail, tables
    <3>2. \A e \in Doc : Unposted(e)' <=> Unposted(e)
      BY <3>1 DEF Unposted
    <3> QED  BY <3>1, <3>2, DoneSerial DEF SerialInv
  <2>7. ASSUME NEW r \in Request, CreateGrvInsert(r) PROVE SerialInv'
    <3>1. \A e \in Doc : Unposted(e)' <=> Unposted(e)
      BY <2>7, <2>a, GrvInsert DEF Unposted, GrvRows
    <3> QED  BY <2>7, <3>1, GrvInsert, DoneSerial DEF SerialInv
  <2>8. ASSUME NEW r \in Request, CreateIbtInsert(r) PROVE SerialInv'
    <3>1. PICK n \in Ibt : /\ n \notin IbtRows
                           /\ \A i \in Ibt : ibt'[i].status = IF i = n THEN "REQUESTED" ELSE ibt[i].status
      BY <2>8, IbtInsert
    <3>2. \A e \in Doc : Unposted(e)' <=> Unposted(e)
      BY <2>8, <2>a, <3>1, IbtInsert DEF Unposted, IbtRows
    <3>3. \A e \in Doc, s \in Request : (Handling(s, e) /\ req[s].op \in IbtOp) => e \in Ibt /\ e # n
      BY <3>1, RequestFields DEF Handling
    <3> QED  BY <2>8, <3>1, <3>2, <3>3, IbtInsert, DoneSerial DEF SerialInv
  <2>9. ASSUME NEW r \in Request, ConfirmCommit(r) PROVE SerialInv'
    <3> SUFFICES ASSUME NEW e \in Doc \ overlapped' PROVE SerialDoc(e)'
      BY DEF SerialInv
    <3>1. SerialDoc(e) /\ Done(r) /\ ibt' = ibt
      BY <2>9, ConfirmWrites DEF SerialInv
    <3>2. CASE e = req[r].doc
      <4>1. Handling(r, e) /\ ~Unposted(e)' /\ posted'[e] = posted[e] + 1
        BY <2>9, <3>2, ConfirmWrites DEF Handling, Unposted
      <4> QED  BY <3>1, <4>1, FinishSerial
    <3>3. CASE e # req[r].doc
      <4>1. (Unposted(e)' <=> Unposted(e)) /\ posted'[e] = posted[e]
        BY <2>9, <3>1, <3>3, ConfirmWrites DEF Unposted
      <4> QED  BY <3>1, <4>1, DoneSerial
    <3> QED  BY <3>2, <3>3
  <2>10. ASSUME NEW r \in Request, ReceiveCommit(r) PROVE SerialInv'
    <3> SUFFICES ASSUME NEW e \in Doc \ overlapped' PROVE SerialDoc(e)'
      BY DEF SerialInv
    <3>1. SerialDoc(e) /\ Done(r) /\ grv' = grv
      BY <2>10, ReceiveWrites DEF SerialInv
    <3>2. CASE e = req[r].doc
      <4>1. Handling(r, e) /\ ~Unposted(e)' /\ posted'[e] = posted[e] + 1
        BY <2>10, <2>a, <3>2, ReceiveWrites DEF Handling, Unposted
      <4> QED  BY <3>1, <4>1, FinishSerial
    <3>3. CASE e # req[r].doc
      <4>1. /\ Unposted(e)' <=> Unposted(e)
            /\ posted'[e] = posted[e]
        BY <2>10, <2>a, <3>1, <3>3, ReceiveWrites DEF Unposted
      <4>2. \A s \in Request : (Handling(s, e) /\ req[s].op \in IbtOp)
                                 => ibt'[e].status = ibt[e].status
        BY <2>10, <3>3, ReceiveWrites, RequestFields DEF Handling
      <4> QED  BY <3>1, <4>1, <4>2, DoneSerial
    <3> QED  BY <3>2, <3>3
  <2>11. ASSUME NEW r \in Request, NEW op \in IbtOp, NEW s \in IbtStatus \ {"RECEIVED"},
                WriteIbtStatus(r, op, s)
         PROVE  SerialInv'
    <3> SUFFICES ASSUME NEW e \in Doc \ overlapped' PROVE SerialDoc(e)'
      BY DEF SerialInv
    <3>1. SerialDoc(e) /\ Done(r) /\ UNCHANGED <<grv, posted>>
      BY <2>11, IbtWrites DEF SerialInv
    <3>2. CASE e = req[r].doc
      <4>1. Handling(r, e) /\ Unposted(e)'
        BY <2>11, <2>a, <3>2, IbtWrites DEF Handling, Unposted, IbtOp
      <4> QED  BY <3>1, <4>1, FinishSerial
    <3>3. CASE e # req[r].doc
      <4>1. Unposted(e)' <=> Unposted(e)
        BY <2>11, <2>a, <3>1, <3>3, IbtWrites DEF Unposted
      <4>2. \A t \in Request : (Handling(t, e) /\ req[t].op \in IbtOp)
                                 => ibt'[e].status = ibt[e].status
        BY <2>11, <3>3, IbtWrites, RequestFields DEF Handling
      <4> QED  BY <3>1, <4>1, <4>2, DoneSerial
    <3> QED  BY <3>2, <3>3
  <2>12. ASSUME ManualStep PROVE SerialInv'
    BY <2>1, <2>12, ManualKeeps
  <2>13. ASSUME NEW r \in Request, GrvStep(r) \/ IbtStep(r) \/ Fail(r) PROVE SerialInv'
    <3>1. /\ Needed("approve") = "REQUESTED" /\ Needed("dispatch") = "APPROVED"
          /\ Needed("receive") = "DISPATCHED"
      BY DEF Needed
    <3> QED
      BY <2>2, <2>3, <2>4, <2>5, <2>6, <2>7, <2>8, <2>9, <2>10, <2>11, <2>13, <3>1
         DEF GrvStep, IbtStep, ApproveRead, ApproveWrite, DispatchRead, DispatchCommit,
             ReceiveRead, IbtOp, IbtStatus
  <2> QED
    BY <2>1, <2>12, <2>13 DEF Next, vars, tables
<1> QED  BY <1>1, <1>2, TypeInvCorrect, PTL DEF Spec

\* No history in which requests handle a document one at a time posts it twice.
THEOREM OnceCorrect == Spec => []OncePosted
<1>1. SerialInv => OncePosted
  BY DEF SerialInv, SerialDoc, OncePosted
<1> QED  BY <1>1, SerialInvCorrect, PTL

\* A transfer whose requests never overlapped takes one status after the other: what a
\* handler has read is still the status when it writes the next one.
THEOREM AdvanceCorrect == Spec => TransfersAdvance
<1> DEFINE Advance(i) == ibt'[i].status \in {ibt[i].status, NextStatus[ibt[i].status]}
<1>1. ASSUME TypeInv, SerialInv, Next, NEW i \in Ibt \ overlapped'
      PROVE  Advance(i)
  <2>a. /\ NextStatus["NONE"] = "REQUESTED" /\ NextStatus["REQUESTED"] = "APPROVED"
        /\ NextStatus["APPROVED"] = "DISPATCHED" /\ NextStatus["DISPATCHED"] = "RECEIVED"
    BY DEF NextStatus
  <2>b. Needed("approve") = "REQUESTED" /\ Needed("dispatch") = "APPROVED"
        /\ Needed("receive") = "DISPATCHED" /\ Needed("acknowledge") = "DISPATCHED"
    BY DEF Needed
  <2>1. ASSUME NEW r \in Request, req[r].op \in IbtOp, req[r].doc = i, overlapped' = overlapped
        PROVE  ibt[i].status = Needed(req[r].op)
    <3>1. SerialDoc(i)
      BY <1>1, <2>1 DEF SerialInv, Doc
    <3> QED  BY <2>1, <3>1 DEF SerialDoc, Handling, IbtOp
  <2>2. ASSUME NEW r \in Request, NEW op \in {"approve", "dispatch"},
               NEW s \in IbtStatus \ {"NONE", "RECEIVED"}, s = NextStatus[Needed(op)],
               WriteIbtStatus(r, op, s)
        PROVE  Advance(i)
    <3>1. /\ req[r].op = op /\ op \in IbtOp /\ overlapped' = overlapped
          /\ \A j \in Ibt : ibt'[j].status = IF j = req[r].doc THEN s ELSE ibt[j].status
      BY <1>1, <2>2, IbtWrites DEF IbtOp
    <3> QED  BY <2>1, <2>2, <3>1
  <2>3. ASSUME NEW r \in Request, ReceiveCommit(r) PROVE Advance(i)
    <3>1. /\ req[r].op \in {"receive", "acknowledge"} /\ overlapped' = overlapped
          /\ \A j \in Ibt : ibt'[j].status = IF j = req[r].doc THEN "RECEIVED" ELSE ibt[j].status
      BY <1>1, <2>3, ReceiveWrites
    <3>2. req[r].op \in IbtOp /\ NextStatus[Needed(req[r].op)] = "RECEIVED"
      BY <2>a, <2>b, <3>1 DEF IbtOp
    <3> QED  BY <2>1, <3>1, <3>2
  <2>4. ASSUME NEW r \in Request, CreateIbtInsert(r) PROVE Advance(i)
    <3>1. PICK n \in Ibt : /\ n \notin IbtRows
                           /\ \A j \in Ibt : ibt'[j].status = IF j = n THEN "REQUESTED" ELSE ibt[j].status
      BY <1>1, <2>4, IbtInsert
    <3>2. ibt[n].status = "NONE"
      BY <3>1 DEF IbtRows
    <3> QED  BY <2>a, <3>1, <3>2
  <2>5. ASSUME ibt' = ibt PROVE Advance(i)
    BY <2>5
  <2>6. ASSUME NEW r \in Request, GrvStep(r) \/ IbtStep(r) \/ Fail(r) PROVE Advance(i)
    <3>1. CASE NoWrite(r)
      BY <2>5, <3>1, NoWriteKeeps
    <3>2. CASE CreateGrvInsert(r) \/ ConfirmCommit(r)
      BY <2>5, <3>2 DEF CreateGrvInsert, ConfirmCommit
    <3> QED
      BY <2>2, <2>3, <2>4, <2>6, <2>a, <2>b, <3>1, <3>2
         DEF GrvStep, IbtStep, NoWrite, ApproveWrite, DispatchCommit, IbtStatus
  <2> QED
    BY <1>1, <2>5, <2>6, ManualKeeps DEF Next
<1>2. TypeInv /\ SerialInv /\ [Next]_vars => [\A i \in Ibt \ overlapped' : Advance(i)]_vars
  BY <1>1
<1> QED  BY <1>2, TypeInvCorrect, SerialInvCorrect, PTL DEF Spec, TransfersAdvance
-----------------------------------------------------------------------------
(* Every arrival at a store is acknowledged once.  The notes of a transfer  *)
(* keep pace with what it posted because the destination of a row never     *)
(* changes, and the branch a receive takes depends on it alone.             *)

NotesOf(i) == {n \in notes : n[2] = i}

ArrivalInv ==
  /\ ArrivalsAcknowledged
  /\ \A i \in Ibt \ IbtRows : posted[i] = 0 /\ NotesOf(i) = {}
  /\ \A r \in Request : req[r].op = "acknowledge" => ibt[req[r].doc].to \in StoreLocation

LEMMA NotesCounted ==
  ASSUME TypeOK, NEW i \in Ibt
  PROVE  /\ IsFiniteSet(NotesOf(i)) /\ Cardinality(NotesOf(i)) \in Nat
         /\ Cardinality(NotesOf(i)) = 0 <=> NotesOf(i) = {}
<1>1. NotesOf(i) \in SUBSET notes /\ IsFiniteSet(notes)
  BY DEF NotesOf, TypeOK
<1>2. IsFiniteSet(NotesOf(i))
  BY <1>1, FS_Subset
<1> QED  BY <1>2, FS_CardinalityType, FS_EmptySet

\* A step that changes neither the notes nor what is posted, nor where a row goes.
LEMMA ArrivalKept ==
  ASSUME ArrivalInv, UNCHANGED <<notes, posted>>, IbtRows \subseteq IbtRows',
         \A i \in IbtRows : ibt'[i].to = ibt[i].to,
         \A r \in Request : req'[r].op = "acknowledge" =>
           ibt'[req'[r].doc].to \in StoreLocation
  PROVE  ArrivalInv'
<1>1. \A i \in Ibt : NotesOf(i)' = NotesOf(i)
  BY DEF NotesOf
<1>2. ASSUME NEW i \in Ibt
      PROVE  Cardinality(NotesOf(i)') = IF ibt'[i].to \in StoreLocation THEN posted'[i] ELSE 0
  <2>1. CASE i \in IbtRows
    BY <1>1, <2>1 DEF ArrivalInv, ArrivalsAcknowledged, NotesOf
  <2>2. CASE i \notin IbtRows
    BY <1>1, <2>2, FS_EmptySet DEF ArrivalInv
  <2> QED  BY <2>1, <2>2
<1> QED  BY <1>1, <1>2 DEF ArrivalInv, ArrivalsAcknowledged, NotesOf

\* A receive leaves a note and posts, or posts where no note is due.
LEMMA ReceiveArrives ==
  ASSUME TypeInv, ArrivalInv, NEW r \in Request, ReceiveCommit(r)
  PROVE  ArrivalInv'
<1>0. PICK d \in Ibt : d = req[r].doc
  BY RequestFields DEF ReceiveCommit, IbtOp
<1>1. d \in Ibt /\ d \in IbtRows /\ d \in Doc /\ MoveStock(d) /\ Done(r)
  BY <1>0, RequestFields DEF ReceiveCommit, IbtOp
<1>2. /\ \A i \in Ibt : ibt'[i].to = ibt[i].to
      /\ \A i \in Doc : posted'[i] = IF i = d THEN posted[i] + 1 ELSE posted[i]
  BY <1>1 DEF MoveStock, TypeInv, TypeOK
<1>3. IbtRows' = IbtRows
  BY <1>1, MoveStockType DEF TypeInv, IbtRows
<1>4. \A s \in Request : req'[s].op = "acknowledge" => req'[s] = req[s] /\ req[s].doc \in Ibt
  BY <1>1, DoneType, RequestFields DEF TypeInv, NoRequest, IbtOp
<1>5. Ibt \subseteq Doc /\ posted[d] \in Nat
  BY <1>1 DEF Doc, TypeInv, TypeOK
<1>k. /\ \A i \in Ibt : Cardinality(NotesOf(i)) = IF ibt[i].to \in StoreLocation THEN posted[i] ELSE 0
      /\ \A i \in Ibt \ IbtRows : posted[i] = 0 /\ NotesOf(i) = {}
      /\ \A s \in Request : req[s].op = "acknowledge" => ibt[req[s].doc].to \in StoreLocation
  BY DEF ArrivalInv, ArrivalsAcknowledged, NotesOf
<1>a. ASSUME \A i \in Ibt : i # d => NotesOf(i)' = NotesOf(i),
             Cardinality(NotesOf(d)') = IF ibt[d].to \in StoreLocation THEN posted[d] + 1 ELSE 0
      PROVE  ArrivalInv'
  <2>1. ASSUME NEW i \in Ibt
        PROVE  Cardinality(NotesOf(i)') = IF ibt'[i].to \in StoreLocation THEN posted'[i] ELSE 0
    <3>1. CASE i = d
      BY <1>1, <1>2, <1>a, <3>1
    <3>2. CASE i # d
      BY <1>2, <1>5, <1>a, <1>k, <3>2
    <3> QED  BY <3>1, <3>2
  <2>2. \A i \in Ibt \ IbtRows' : posted'[i] = 0 /\ NotesOf(i)' = {}
    BY <1>1, <1>2, <1>3, <1>5, <1>a, <1>k
  <2>3. \A s \in Request : req'[s].op = "acknowledge" => ibt'[req'[s].doc].to \in StoreLocation
    BY <1>2, <1>4, <1>k
  <2> QED  BY <2>1, <2>2, <2>3 DEF ArrivalInv, ArrivalsAcknowledged, NotesOf
<1>6. CASE ibt[d].to \notin StoreLocation
  <2>1. UNCHANGED notes
    BY <1>0, <1>1, <1>6 DEF ReceiveCommit, Acknowledge, ArrivalInv
  <2>2. \A i \in Ibt : NotesOf(i)' = NotesOf(i)
    BY <2>1 DEF NotesOf
  <2> QED  BY <1>a, <1>k, <1>6, <2>2
<1>7. CASE ibt[d].to \in StoreLocation
  <2>0. PICK code : code = req[r].seen + 1
    OBVIOUS
  <2> DEFINE note == <<code, d>>
  <2>1. (\A n \in notes : n[1] # code) /\ notes' = notes \cup {note}
    BY <1>0, <1>7, <2>0 DEF ReceiveCommit, Acknowledge
  <2>2. NotesOf(d)' = NotesOf(d) \cup {note} /\ note \notin NotesOf(d)
    <3>1. note[1] = code /\ note[2] = d
      OBVIOUS
    <3> HIDE DEF note
    <3>2. \A n : n \in NotesOf(d)' <=> n \in NotesOf(d) \/ n = note
      BY <2>1, <3>1 DEF NotesOf
    <3>3. note \notin notes
      BY <2>1, <3>1
    <3> QED  BY <3>2, <3>3 DEF NotesOf
  <2>3. ASSUME NEW i \in Ibt, i # d PROVE NotesOf(i)' = NotesOf(i)
    <3>1. note[2] = d
      OBVIOUS
    <3> HIDE DEF note
    <3>2. \A n : n \in NotesOf(i)' <=> n \in NotesOf(i)
      BY <2>1, <2>3, <3>1 DEF NotesOf
    <3> QED  BY <3>2 DEF NotesOf
  <2>4. Cardinality(NotesOf(d)') = Cardinality(NotesOf(d)) + 1
    <3>1. IsFiniteSet(NotesOf(d)) /\ Cardinality(NotesOf(d)) \in Nat
      BY <1>1, NotesCounted DEF TypeInv
    <3> HIDE DEF note
    <3> QED  BY <2>2, <3>1, FS_AddElement
  <2>5. Cardinality(NotesOf(d)) = posted[d]
    BY <1>7, <1>k
  <2> QED  BY <1>a, <1>7, <2>3, <2>4, <2>5
<1> QED  BY <1>6, <1>7

\* For any number of transfers and stores, an arrival at a store leaves one
\* acknowledgement, whatever receives overlap or lose the race for a code.
THEOREM ArrivalsCorrect == Spec => []ArrivalsAcknowledged
<1>1. Init => ArrivalInv
  BY FS_EmptySet DEF Init, ArrivalInv, ArrivalsAcknowledged, NotesOf, NoRequest, Doc
<1>2. TypeInv /\ ArrivalInv /\ [Next]_vars => ArrivalInv'
  <2> SUFFICES ASSUME TypeInv, ArrivalInv, [Next]_vars PROVE ArrivalInv'
    OBVIOUS
  <2>a. \A r \in Request : req[r].op = "acknowledge" =>
          ibt[req[r].doc].to \in StoreLocation /\ req[r].doc \in IbtRows /\ req[r].doc \in Ibt
    BY RequestFields DEF ArrivalInv, IbtOp
  <2>1. ASSUME UNCHANGED <<ibt, notes, posted>>,
               \A r \in Request : req'[r].op = "acknowledge" => ibt[req'[r].doc].to \in StoreLocation
        PROVE  ArrivalInv'
    BY <2>1, ArrivalKept DEF IbtRows
  <2>2. ASSUME NEW r \in Request, CreateGrvCount(r) \/ CreateIbtCount(r) PROVE ArrivalInv'
    <3>1. \A s \in Request : req'[s].op = "acknowledge" => req'[s] = req[s]
      BY <2>2 DEF CreateGrvCount, CreateIbtCount, TypeInv, TypeOK, ReqRec
    <3> QED  BY <2>2, <2>1, <2>a, <3>1 DEF CreateGrvCount, CreateIbtCount, tables
  <2>3. ASSUME NEW r \in Request, ConfirmRead(r) PROVE ArrivalInv'
    <3>1. PICK g \in GrvRows, l \in Location : Start(r, "confirm", g, l)
      BY <2>3 DEF ConfirmRead
    <3>2. \A s \in Request : req'[s].op = "acknowledge" => req'[s] = req[s]
      <4>1. g \in Doc /\ TypeOK
        BY DEF GrvRows, Doc, TypeInv
      <4>2. \A s \in Request :
              req'[s] = IF s = r THEN [op |-> "confirm", doc |-> g, loc |-> l, seen |-> 0] ELSE req[s]
        BY <3>1, <4>1, StartType
      <4> QED  BY <4>2
    <3> QED  BY <2>3, <2>1, <2>a, <3>2 DEF ConfirmRead, tables
  <2>4. ASSUME NEW r \in Request, NEW op \in IbtOp \ {"acknowledge"}, NEW s, ReadIbt(r, op, s)
        PROVE  ArrivalInv'
    <3>1. PICK i \in Ibt : Start(r, op, i, ibt[i].to)
      BY <2>4 DEF ReadIbt
    <3>2. \A t \in Request : req'[t].op = "acknowledge" => req'[t] = req[t]
      <4>1. TypeOK /\ i \in Doc /\ ibt[i].to \in Location
        BY DEF TypeInv, TypeOK, Doc
      <4>2. \A t \in Request :
              req'[t] = IF t = r THEN [op |-> op, doc |-> i, loc |-> ibt[i].to, seen |-> 0] ELSE req[t]
        BY <3>1, <4>1, StartType
      <4> QED  BY <2>4, <4>2
    <3> QED  BY <2>4, <2>1, <2>a, <3>2 DEF ReadIbt, tables
  <2>5. ASSUME NEW r \in Request, ReceiveCount(r) PROVE ArrivalInv'
    <3>1. \A s \in Request : req'[s].op = "acknowledge" =>
            req'[s].doc = req[s].doc /\ (req[s].op = "acknowledge" \/ s = r)
      BY <2>5 DEF ReceiveCount, TypeInv, TypeOK, ReqRec
    <3> QED  BY <2>5, <2>1, <2>a, <3>1 DEF ReceiveCount, tables
  <2>6. ASSUME NEW r \in Request, Done(r), UNCHANGED <<notes, posted>>,
               IbtRows \subseteq IbtRows', \A i \in IbtRows : ibt'[i].to = ibt[i].to
        PROVE  ArrivalInv'
    <3>1. \A s \in Request : req'[s].op = "acknowledge" => req'[s] = req[s]
      BY <2>6, DoneType DEF TypeInv, NoRequest
    <3> QED  BY <2>6, <2>a, <3>1, ArrivalKept
  <2>7. ASSUME NEW r \in Request, Fail(r) \/ CreateGrvInsert(r) \/ ConfirmCommit(r) PROVE ArrivalInv'
    <3>1. CASE Fail(r) \/ CreateGrvInsert(r)
      BY <2>6, <3>1 DEF Fail, CreateGrvInsert, tables, IbtRows
    <3>2. CASE ConfirmCommit(r)
      <4>1. \A s \in Request : req'[s].op = "acknowledge" => req'[s] = req[s]
        BY <3>2, DoneType DEF ConfirmCommit, TypeInv, NoRequest
      <4>2. \A i \in Ibt : posted'[i] = posted[i] /\ NotesOf(i)' = NotesOf(i)
        <5>1. notes' = notes
          BY <3>2 DEF ConfirmCommit
        <5>2. \A i \in Ibt : i \in Doc /\ i # req[r].doc
          BY <3>2, ConfirmWrites, LogisticsAssumption DEF Doc
        <5> QED  BY <3>2, <5>1, <5>2, ConfirmWrites DEF NotesOf
      <4>3. ibt' = ibt
        BY <3>2 DEF ConfirmCommit
      <4> QED  BY <2>a, <4>1, <4>2, <4>3 DEF ArrivalInv, ArrivalsAcknowledged, NotesOf, IbtRows
    <3> QED  BY <2>7, <3>1, <3>2
  <2>8. ASSUME NEW r \in Request, CreateIbtInsert(r) PROVE ArrivalInv'
    <3>1. \E n \in Ibt \ IbtRows : \A i \in Ibt : i # n => ibt'[i] = ibt[i]
      BY <2>8 DEF CreateIbtInsert, TypeInv, TypeOK
    <3>2. IbtRows \subseteq IbtRows' /\ \A i \in IbtRows : ibt'[i].to = ibt[i].to
      BY <3>1 DEF IbtRows
    <3> QED  BY <2>6, <2>8, <3>2 DEF CreateIbtInsert
  <2>9. ASSUME NEW r \in Request, NEW op \in IbtOp, NEW s \in IbtStatus \ {"NONE"},
               WriteIbtStatus(r, op, s)
        PROVE  ArrivalInv'
    <3>1. (\A i \in Ibt : ibt'[i].to = ibt[i].to) /\ IbtRows \subseteq IbtRows'
      BY <2>9 DEF WriteIbtStatus, TypeInv, TypeOK, IbtRows, IbtStatus
    <3>2. IbtRows \subseteq Ibt
      BY DEF IbtRows
    <3> QED  BY <2>6, <2>9, <3>1, <3>2 DEF WriteIbtStatus
  <2>10. ASSUME NEW r \in Request, ReceiveCommit(r) PROVE ArrivalInv'
    BY <2>10, ReceiveArrives
  <2>11. ASSUME ManualStep PROVE ArrivalInv'
    BY <2>11, <2>1, <2>a DEF ManualStep, StockUpsert, StockAdjust
  <2>12. ASSUME UNCHANGED vars PROVE ArrivalInv'
    BY <2>12, <2>1, <2>a DEF vars
  <2> QED
    BY <2>2, <2>3, <2>4, <2>5, <2>7, <2>8, <2>9, <2>10, <2>11, <2>12
       DEF Next, GrvStep, IbtStep, ApproveRead, ApproveWrite, DispatchRead, DispatchCommit,
           ReceiveRead, IbtOp, IbtStatus
<1>3. ArrivalInv => ArrivalsAcknowledged
  BY DEF ArrivalInv
<1> QED  BY <1>1, <1>2, <1>3, TypeInvCorrect, PTL DEF Spec
=============================================================================
