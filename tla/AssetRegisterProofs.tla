------------------------- MODULE AssetRegisterProofs -------------------------
(***************************************************************************)
(* Proofs about AssetRegister for every set of assets, places, documents   *)
(* and requests, and any statuses that may be typed in.                    *)
(***************************************************************************)
EXTENDS AssetRegister, TLAPS

-----------------------------------------------------------------------------
(* Writing one row of a table.                                             *)

LEMMA Put ==
  ASSUME NEW S, NEW T, NEW f \in [S -> T], NEW x \in S, NEW v \in T
  PROVE  /\ [f EXCEPT ![x] = v] \in [S -> T]
         /\ \A y \in S : [f EXCEPT ![x] = v][y] = IF y = x THEN v ELSE f[y]
  OBVIOUS

LEMMA PutStatus ==
  ASSUME NEW f \in [Asset -> AssetRow], NEW a \in Asset, NEW s \in AssetStatus \cup {"NONE"},
         NEW g, g = [f EXCEPT ![a].status = s]
  PROVE  /\ g \in [Asset -> AssetRow]
         /\ \A b \in Asset : /\ g[b].status = IF b = a THEN s ELSE f[b].status
                             /\ g[b].loc = f[b].loc
<1>1. f[a] \in AssetRow
  OBVIOUS
<1>2. PICK v \in AssetRow : v = [f[a] EXCEPT !.status = s] /\ v.status = s /\ v.loc = f[a].loc
  BY <1>1 DEF AssetRow
<1>3. g = [f EXCEPT ![a] = v]
  BY <1>2
<1> QED  BY <1>2, <1>3

LEMMA PutLoc ==
  ASSUME NEW f \in [Asset -> AssetRow], NEW a \in Asset, NEW p \in Location,
         NEW g, g = [f EXCEPT ![a].loc = p]
  PROVE  /\ g \in [Asset -> AssetRow]
         /\ \A b \in Asset : /\ g[b].loc = IF b = a THEN p ELSE f[b].loc
                             /\ g[b].status = f[b].status
<1>1. f[a] \in AssetRow
  OBVIOUS
<1>2. PICK v \in AssetRow : v = [f[a] EXCEPT !.loc = p] /\ v.loc = p /\ v.status = f[a].status
  BY <1>1 DEF AssetRow
<1>3. g = [f EXCEPT ![a] = v]
  BY <1>2
<1> QED  BY <1>2, <1>3

LEMMA PutAsset ==
  ASSUME NEW f \in [Asset -> AssetRow], NEW a \in Asset, NEW s \in AssetStatus, NEW p \in Location,
         NEW g, g = [f EXCEPT ![a] = [status |-> s, loc |-> p]]
  PROVE  /\ g \in [Asset -> AssetRow]
         /\ \A b \in Asset : /\ g[b].status = IF b = a THEN s ELSE f[b].status
                             /\ g[b].loc = IF b = a THEN p ELSE f[b].loc
<1>1. PICK v \in AssetRow : v = [status |-> s, loc |-> p] /\ v.status = s /\ v.loc = p
  BY DEF AssetRow
<1> QED  BY <1>1

LEMMA PutRepair ==
  ASSUME NEW f \in [Repair -> RepairRow], NEW r \in Repair, NEW s \in RepairStatus,
         NEW g, g = [f EXCEPT ![r].status = s]
  PROVE  /\ g \in [Repair -> RepairRow]
         /\ \A d \in Repair : /\ g[d].status = IF d = r THEN s ELSE f[d].status
                              /\ g[d].asset = f[d].asset
<1>1. f[r] \in RepairRow
  OBVIOUS
<1>2. PICK v \in RepairRow : v = [f[r] EXCEPT !.status = s] /\ v.status = s /\ v.asset = f[r].asset
  BY <1>1 DEF RepairRow
<1>3. g = [f EXCEPT ![r] = v]
  BY <1>2
<1> QED  BY <1>2, <1>3

LEMMA PutTransfer ==
  ASSUME NEW f \in [Transfer -> TransferRow], NEW t \in Transfer,
         NEW s \in {"APPROVED", "DISPATCHED", "RECEIVED"}, NEW g, g = [f EXCEPT ![t].status = s]
  PROVE  /\ g \in [Transfer -> TransferRow]
         /\ \A d \in Transfer : /\ g[d].status = IF d = t THEN s ELSE f[d].status
                                /\ g[d].asset = f[d].asset
<1>1. f[t] \in TransferRow
  OBVIOUS
<1>2. PICK v \in TransferRow : v = [f[t] EXCEPT !.status = s] /\ v.status = s /\ v.asset = f[t].asset
  BY <1>1 DEF TransferRow
<1>3. g = [f EXCEPT ![t] = v]
  BY <1>2
<1> QED  BY <1>2, <1>3

LEMMA Fields ==
  ASSUME TypeOK
  PROVE  /\ \A a \in Asset : /\ assets[a].status \in AssetStatus \cup {"NONE"}
                             /\ assets[a].loc \in Location
         /\ \A r \in Repair : /\ repairs[r].asset \in Asset
                              /\ repairs[r].status \in RepairStatus \cup {"NONE"}
         /\ \A t \in Transfer : /\ transfers[t].asset \in Asset
                                /\ transfers[t].from \in Place /\ transfers[t].to \in Place
         /\ \A q \in Request : /\ req[q].loc \in Location
                               /\ req[q].seen \in AssetStatus \cup RepairStatus \cup {"NONE"}
  BY DEF TypeOK, AssetRow, RepairRow, TransferRow, RequestRow

-----------------------------------------------------------------------------
(* What a request slot holds.                                              *)

\* What a repair may become.
Targets == RepairStatus \ {"LOGGED"}

\* A request that has found its asset or its document works on rows that are still
\* there, and the document is still of that asset.
Linked ==
  \A q \in Request :
    /\ req[q].step # "idle" => req[q].asset \in Asset
    /\ req[q].step \in {"move", "assign"} => req[q].seen \in AssetStatus
    /\ req[q].step = "repair" =>
         /\ req[q].doc \in Repair /\ repairs[req[q].doc].asset = req[q].asset
         /\ repairs[req[q].doc].status # "NONE" /\ req[q].seen \in Targets
    /\ req[q].step \in {"approve", "dispatch", "receive"} =>
         req[q].doc \in Transfer /\ transfers[req[q].doc].asset = req[q].asset

IndInv == TypeOK /\ Linked

LEMMA BlankRow == Blank \in RequestRow /\ Blank.step = "idle"
  BY DEF Blank, RequestRow, Location

\* A slot that ends.
LEMMA EndSlot ==
  ASSUME TypeOK, NEW q \in Request, End(q)
  PROVE  /\ req' \in [Request -> RequestRow]
         /\ req'[q].step = "idle"
         /\ \A o \in Request : o # q => req'[o] = req[o]
<1>1. req' = [req EXCEPT ![q] = Blank] /\ req \in [Request -> RequestRow]
  BY DEF End, TypeOK
<1> QED  BY <1>1, BlankRow

\* A slot that has a history row to write.
LEMMA TrailSlot ==
  ASSUME TypeOK, NEW q \in Request, NEW a \in Asset, NEW p \in Location, Trail(q, a, p)
  PROVE  /\ req' \in [Request -> RequestRow]
         /\ req'[q].step = "trail" /\ req'[q].asset = a
         /\ \A o \in Request : o # q => req'[o] = req[o]
<1> DEFINE row == [step |-> "trail", asset |-> a, doc |-> Nowhere, seen |-> "NONE", loc |-> p]
<1>1. row \in RequestRow
  BY DEF RequestRow
<1>2. row.step = "trail" /\ row.asset = a
  OBVIOUS
<1>3. req' = [req EXCEPT ![q] = row] /\ req \in [Request -> RequestRow]
  BY DEF Trail, TypeOK
<1> HIDE DEF row
<1> QED  BY <1>1, <1>2, <1>3

\* A slot that begins.
LEMMA BeginSlot ==
  ASSUME TypeOK, NEW q \in Request,
         NEW step \in {"move", "assign", "report", "dispose", "repair", "approve", "dispatch", "receive"},
         NEW a \in Asset, NEW d \in Repair \cup Transfer \cup {Nowhere},
         NEW s \in AssetStatus \cup RepairStatus \cup {"NONE"}, NEW p \in Location,
         Begin(q, step, a, d, s, p)
  PROVE  /\ req' \in [Request -> RequestRow]
         /\ req'[q].step = step /\ req'[q].asset = a /\ req'[q].doc = d /\ req'[q].seen = s
         /\ \A o \in Request : o # q => req'[o] = req[o]
         /\ req[q].step = "idle"
         /\ UNCHANGED <<tables, retyped, untraced>>
<1> DEFINE row == [step |-> step, asset |-> a, doc |-> d, seen |-> s, loc |-> p]
<1>1. row \in RequestRow
  BY DEF RequestRow
<1>2. row.step = step /\ row.asset = a /\ row.doc = d /\ row.seen = s
  OBVIOUS
<1>3. req' = [req EXCEPT ![q] = row] /\ req \in [Request -> RequestRow]
  BY DEF Begin, TypeOK
<1>4. req[q].step = "idle" /\ UNCHANGED <<tables, retyped, untraced>>
  BY DEF Begin
<1> HIDE DEF row
<1> QED  BY <1>1, <1>2, <1>3, <1>4

\* Linked, from what a step leaves of the documents and from the slot it writes.
LEMMA LinkedStep ==
  ASSUME Linked, NEW q \in Request,
         \A o \in Request : o # q => req'[o] = req[o],
         \A r \in Repair : repairs[r].status # "NONE" =>
           repairs'[r].asset = repairs[r].asset /\ repairs'[r].status # "NONE",
         \A t \in Transfer : transfers'[t].asset = transfers[t].asset,
         req'[q].step # "idle" => req'[q].asset \in Asset,
         req'[q].step \in {"move", "assign"} => req'[q].seen \in AssetStatus,
         req'[q].step = "repair" =>
           /\ req'[q].doc \in Repair /\ repairs'[req'[q].doc].asset = req'[q].asset
           /\ repairs'[req'[q].doc].status # "NONE" /\ req'[q].seen \in Targets,
         req'[q].step \in {"approve", "dispatch", "receive"} =>
           req'[q].doc \in Transfer /\ transfers'[req'[q].doc].asset = req'[q].asset
  PROVE  Linked'
<1> SUFFICES ASSUME NEW o \in Request
             PROVE  /\ req'[o].step # "idle" => req'[o].asset \in Asset
                    /\ req'[o].step \in {"move", "assign"} => req'[o].seen \in AssetStatus
                    /\ req'[o].step = "repair" =>
                         /\ req'[o].doc \in Repair /\ repairs'[req'[o].doc].asset = req'[o].asset
                         /\ repairs'[req'[o].doc].status # "NONE"
                         /\ req'[o].seen \in Targets
                    /\ req'[o].step \in {"approve", "dispatch", "receive"} =>
                         /\ req'[o].doc \in Transfer
                         /\ transfers'[req'[o].doc].asset = req'[o].asset
  BY DEF Linked
<1>1. CASE o = q  BY <1>1
<1>2. CASE o # q
  <2>1. req'[o] = req[o]  BY <1>2
  <2>2. /\ req[o].step # "idle" => req[o].asset \in Asset
        /\ req[o].step \in {"move", "assign"} => req[o].seen \in AssetStatus
        /\ req[o].step = "repair" =>
             /\ req[o].doc \in Repair /\ repairs[req[o].doc].asset = req[o].asset
             /\ repairs[req[o].doc].status # "NONE" /\ req[o].seen \in Targets
        /\ req[o].step \in {"approve", "dispatch", "receive"} =>
             req[o].doc \in Transfer /\ transfers[req[o].doc].asset = req[o].asset
    BY DEF Linked
  <2> QED  BY <2>1, <2>2
<1> QED  BY <1>1, <1>2

-----------------------------------------------------------------------------
(* What a step may do to an asset.                                         *)

Out == {"SENT", "AT_SUPPLIER", "REPLACED"}

\* Asset b is where the history says, or is excused, after the step if it was before.
TraceStep(b) ==
  \/ b \in untraced'
  \/ \E q \in Request : req'[q].step = "trail" /\ req'[q].asset = b
  \/ assets'[b].loc = trail'[b]
  \/ /\ assets'[b].loc = assets[b].loc /\ trail'[b] = trail[b] /\ b \notin untraced
     /\ \A q \in Request : req[q].step = "trail" => req[q].asset # b

\* A status of asset b that a document gives has one after the step if it had before.
DocumentStep(b) ==
  b \notin retyped' =>
    /\ b \notin retyped
    /\ assets'[b].status = "REPAIR" =>
         \/ \E r \in Repair : repairs'[r].asset = b /\ repairs'[r].status \in Out
         \/ /\ assets[b].status = "REPAIR"
            /\ \A r \in Repair : repairs[r].asset = b /\ repairs[r].status \in Out =>
                 repairs'[r].asset = b /\ repairs'[r].status \in Out
    /\ assets'[b].status = "IN_TRANSIT" =>
         \/ \E t \in Transfer : transfers'[t].asset = b /\ transfers'[t].status = "DISPATCHED"
         \/ /\ assets[b].status = "IN_TRANSIT"
            /\ \A t \in Transfer : transfers[t].asset = b /\ transfers[t].status = "DISPATCHED" =>
                 transfers'[t].asset = b /\ transfers'[t].status = "DISPATCHED"
    /\ assets'[b].status = "DISPOSED" =>
         b \in disposals' \/ (assets[b].status = "DISPOSED" /\ disposals \subseteq disposals')

Good == IndInv' /\ \A b \in Asset : TraceStep(b) /\ DocumentStep(b)

LEMMA TraceFollows ==
  ASSUME LocationTraced, \A b \in Asset : TraceStep(b)
  PROVE  LocationTraced'
  BY DEF LocationTraced, TraceStep

LEMMA DocumentFollows ==
  ASSUME StatusHasDocument, \A b \in Asset : DocumentStep(b)
  PROVE  StatusHasDocument'
<1> SUFFICES ASSUME NEW b \in Asset, b \notin retyped'
             PROVE  /\ assets'[b].status = "REPAIR" =>
                         \E r \in Repair : repairs'[r].asset = b /\ repairs'[r].status \in Out
                    /\ assets'[b].status = "IN_TRANSIT" =>
                         \E t \in Transfer :
                           transfers'[t].asset = b /\ transfers'[t].status = "DISPATCHED"
                    /\ assets'[b].status = "DISPOSED" => b \in disposals'
  BY DEF StatusHasDocument, Out
<1>1. DocumentStep(b) /\ b \notin retyped
  BY DEF DocumentStep
<1>2. ASSUME assets'[b].status = "REPAIR"
      PROVE  \E r \in Repair : repairs'[r].asset = b /\ repairs'[r].status \in Out
  BY <1>1, <1>2 DEF DocumentStep, StatusHasDocument, Out
<1>3. ASSUME assets'[b].status = "IN_TRANSIT"
      PROVE  \E t \in Transfer : transfers'[t].asset = b /\ transfers'[t].status = "DISPATCHED"
  BY <1>1, <1>3 DEF DocumentStep, StatusHasDocument
<1>4. ASSUME assets'[b].status = "DISPOSED"
      PROVE  b \in disposals'
  BY <1>1, <1>4 DEF DocumentStep, StatusHasDocument
<1> QED  BY <1>2, <1>3, <1>4

\* Documents that a step leaves alone vouch for an asset as they did.
LEMMA SameDocuments ==
  ASSUME NEW b \in Asset, UNCHANGED <<repairs, transfers, disposals>>,
         b \notin retyped' =>
           b \notin retyped /\ (assets'[b].status = assets[b].status
                                  \/ assets'[b].status \notin {"REPAIR", "IN_TRANSIT", "DISPOSED"})
  PROVE  DocumentStep(b)
  BY DEF DocumentStep

\* A step that leaves the table and its history alone, and no trail behind.
LEMMA SamePlace ==
  ASSUME NEW b \in Asset, UNCHANGED <<trail, untraced>>, assets'[b].loc = assets[b].loc,
         NEW q \in Request, req[q].step # "trail",
         \A o \in Request : o # q => req'[o] = req[o],
         b \notin untraced,
         \A o \in Request : req'[o].step = "trail" => req'[o].asset # b
  PROVE  TraceStep(b)
<1>1. \A o \in Request : req[o].step = "trail" => req[o].asset # b
  OBVIOUS
<1> QED  BY <1>1 DEF TraceStep

LEMMA SamePlaces ==
  ASSUME UNCHANGED <<trail, untraced>>, \A b \in Asset : assets'[b].loc = assets[b].loc,
         NEW q \in Request, req[q].step # "trail",
         \A o \in Request : o # q => req'[o] = req[o]
  PROVE  \A b \in Asset : TraceStep(b)
<1> SUFFICES ASSUME NEW b \in Asset, b \notin untraced,
                    \A o \in Request : req'[o].step = "trail" => req'[o].asset # b
             PROVE  TraceStep(b)
  BY DEF TraceStep
<1> QED  BY SamePlace

-----------------------------------------------------------------------------
(* The actions.                                                            *)

LEMMA CreateGood ==
  ASSUME IndInv, NEW q \in Request, NEW a \in Asset, Create(q, a)
  PROVE  Good
<1>1. PICK s \in {"IN_STOCK", "IN_STORE"}, p \in Location :
        assets' = [assets EXCEPT ![a] = [status |-> s, loc |-> p]] /\ Trail(q, a, p)
  BY DEF Create
<1>2. UNCHANGED <<trail, repairs, transfers, disposals, retyped, untraced>>
      /\ req[q].step = "idle"
  BY DEF Create
<1>3. s \in AssetStatus /\ assets \in [Asset -> AssetRow]
      /\ s \notin {"REPAIR", "IN_TRANSIT", "DISPOSED"}
  BY DEF AssetStatus, IndInv, TypeOK
<1>a. assets' = [assets EXCEPT ![a] = [status |-> s, loc |-> p]] /\ p \in Location
  BY <1>1
<1>4. /\ assets' \in [Asset -> AssetRow]
      /\ \A b \in Asset : /\ assets'[b].status = IF b = a THEN s ELSE assets[b].status
                          /\ assets'[b].loc = IF b = a THEN p ELSE assets[b].loc
  BY ONLY <1>3, <1>a, PutAsset
<1>5. /\ req' \in [Request -> RequestRow]
      /\ req'[q].step = "trail" /\ req'[q].asset = a
      /\ \A o \in Request : o # q => req'[o] = req[o]
  BY <1>1, TrailSlot DEF IndInv
<1>6. TypeOK'  BY <1>2, <1>4, <1>5 DEF IndInv, TypeOK
<1>7. Linked'  BY <1>2, <1>5, LinkedStep DEF IndInv
<1>8. ASSUME NEW b \in Asset PROVE TraceStep(b)
  <2>1. CASE b = a  BY <2>1, <1>5 DEF TraceStep
  <2>2. CASE b # a
    <3>1. CASE b \in untraced \/ \E o \in Request : req'[o].step = "trail" /\ req'[o].asset = b
      BY <3>1, <1>2 DEF TraceStep
    <3>2. CASE b \notin untraced
               /\ \A o \in Request : req'[o].step = "trail" => req'[o].asset # b
      BY <3>2, <2>2, <1>2, <1>4, <1>5, SamePlace
    <3> QED  BY <3>1, <3>2
  <2> QED  BY <2>1, <2>2
<1>9. ASSUME NEW b \in Asset PROVE DocumentStep(b)
  BY <1>2, <1>3, <1>4, SameDocuments
<1> QED  BY <1>6, <1>7, <1>8, <1>9 DEF Good, IndInv

\* Whatever a slot begins, the tables stay as they are.
LEMMA BeginGood ==
  ASSUME IndInv, NEW q \in Request, UNCHANGED <<tables, retyped, untraced>>,
         req' \in [Request -> RequestRow], req[q].step = "idle", req'[q].step # "trail",
         \A o \in Request : o # q => req'[o] = req[o],
         Linked'
  PROVE  Good
<1>1. TypeOK'  BY DEF IndInv, TypeOK, tables
<1>2. \A b \in Asset : TraceStep(b)
  BY SamePlaces DEF tables
<1>3. ASSUME NEW b \in Asset PROVE DocumentStep(b)
  BY SameDocuments DEF tables
<1> QED  BY <1>1, <1>2, <1>3 DEF Good, IndInv

LEMMA FindGood ==
  ASSUME IndInv, NEW q \in Request, NEW a \in Asset,
         NEW step \in {"move", "assign", "report", "dispose"}, Find(q, step, a)
  PROVE  Good
<1> DEFINE s == IF step \in {"move", "assign"} THEN assets[a].status ELSE "NONE"
           p == IF step = "report" THEN assets[a].loc ELSE Nowhere
<1>1. assets[a].status \in AssetStatus /\ assets[a].loc \in Location
  BY Fields DEF Find, Exists, IndInv
<1>2. /\ s \in AssetStatus \cup RepairStatus \cup {"NONE"} /\ p \in Location
      /\ step \in {"move", "assign"} => s \in AssetStatus
  BY <1>1 DEF Location
<1>3. Begin(q, step, a, Nowhere, s, p)
  BY DEF Find
<1> HIDE DEF s, p
<1>4. /\ req' \in [Request -> RequestRow]
      /\ req'[q].step = step /\ req'[q].asset = a /\ req'[q].doc = Nowhere /\ req'[q].seen = s
      /\ \A o \in Request : o # q => req'[o] = req[o]
      /\ req[q].step = "idle"
      /\ UNCHANGED <<tables, retyped, untraced>>
  BY <1>2, <1>3, BeginSlot DEF IndInv
<1>5. Linked'
  BY <1>2, <1>4, LinkedStep DEF IndInv, tables
<1> QED  BY <1>4, <1>5, BeginGood

LEMMA FindRepairGood ==
  ASSUME IndInv, NEW q \in Request, NEW r \in Repair, FindRepair(q, r)
  PROVE  Good
<1>1. repairs[r].status \in RepairStatus /\ repairs[r].asset \in Asset
  BY Fields DEF FindRepair, IndInv
<1>2. allowed[repairs[r].status] \subseteq Targets /\ Targets \subseteq RepairStatus
  BY <1>1 DEF allowed, RepairStatus, Targets
<1>3. PICK target \in Targets : Begin(q, "repair", repairs[r].asset, r, target, Nowhere)
  BY <1>2 DEF FindRepair
<1>4. /\ req' \in [Request -> RequestRow]
      /\ req'[q].step = "repair" /\ req'[q].asset = repairs[r].asset
      /\ req'[q].doc = r /\ req'[q].seen = target
      /\ \A o \in Request : o # q => req'[o] = req[o]
      /\ req[q].step = "idle"
      /\ UNCHANGED <<tables, retyped, untraced>>
  BY <1>1, <1>2, <1>3, BeginSlot DEF IndInv, Location
<1>5. Linked'
  BY <1>1, <1>4, LinkedStep DEF IndInv, tables, FindRepair
<1> QED  BY <1>4, <1>5, BeginGood

LEMMA FindTransferGood ==
  ASSUME IndInv, NEW q \in Request, NEW t \in Transfer,
         NEW step \in {"approve", "dispatch", "receive"}, FindTransfer(q, t, step)
  PROVE  Good
<1>1. transfers[t].asset \in Asset
  BY Fields DEF IndInv
<1>2. PICK s \in AssetStatus \cup RepairStatus \cup {"NONE"}, p \in Location :
        Begin(q, step, transfers[t].asset, t, s, p)
  <2>1. "NONE" \in AssetStatus \cup RepairStatus \cup {"NONE"} /\ Nowhere \in Location
    BY DEF Location
  <2> QED  BY <2>1 DEF FindTransfer
<1>3. PICK d \in Repair \cup Transfer \cup {Nowhere},
           go \in {"move", "assign", "report", "dispose", "repair", "approve", "dispatch", "receive"} :
        d = t /\ go = step
  OBVIOUS
<1>4. /\ req' \in [Request -> RequestRow]
      /\ req'[q].step = step /\ req'[q].asset = transfers[t].asset /\ req'[q].doc = t
      /\ \A o \in Request : o # q => req'[o] = req[o]
      /\ req[q].step = "idle"
      /\ UNCHANGED <<tables, retyped, untraced>>
  <2>1. Begin(q, go, transfers[t].asset, d, s, p) /\ TypeOK
    BY <1>2, <1>3 DEF IndInv
  <2>2. /\ req' \in [Request -> RequestRow]
        /\ req'[q].step = go /\ req'[q].asset = transfers[t].asset /\ req'[q].doc = d
        /\ \A o \in Request : o # q => req'[o] = req[o]
        /\ req[q].step = "idle"
        /\ UNCHANGED <<tables, retyped, untraced>>
    BY <1>1, <1>2, <1>3, <2>1, BeginSlot
  <2> QED  BY <1>3, <2>2
<1>5. Linked'
  BY <1>1, <1>4, LinkedStep DEF IndInv, tables
<1> QED  BY <1>4, <1>5, BeginGood

LEMMA LogRepairGood ==
  ASSUME IndInv, NEW r \in Repair, NEW a \in Asset, LogRepair(r, a)
  PROVE  Good
<1>1. /\ repairs[r].status = "NONE"
      /\ repairs' = [repairs EXCEPT ![r] = [asset |-> a, status |-> "LOGGED"]]
      /\ UNCHANGED <<assets, trail, transfers, disposals, req, retyped, untraced>>
  BY DEF LogRepair
<1>2. PICK v \in RepairRow : v = [asset |-> a, status |-> "LOGGED"]
  BY DEF RepairRow, RepairStatus
<1>3. /\ repairs' \in [Repair -> RepairRow]
      /\ \A d \in Repair : d # r => repairs'[d] = repairs[d]
  BY <1>1, <1>2 DEF IndInv, TypeOK
<1>4. TypeOK'  BY <1>1, <1>3 DEF IndInv, TypeOK
<1>5. Linked'
  <2> SUFFICES ASSUME NEW q \in Request
               PROVE  req[q].step = "repair" =>
                        /\ req[q].doc \in Repair /\ repairs'[req[q].doc].asset = req[q].asset
                        /\ repairs'[req[q].doc].status # "NONE" /\ req[q].seen \in Targets
    BY <1>1 DEF Linked, IndInv
  <2> QED  BY <1>1, <1>3 DEF Linked, IndInv
<1>6. ASSUME NEW b \in Asset PROVE TraceStep(b)
  BY <1>1 DEF TraceStep
<1>7. ASSUME NEW b \in Asset PROVE DocumentStep(b)
  <2>1. \A d \in Repair : repairs[d].asset = b /\ repairs[d].status \in Out =>
          repairs'[d].asset = b /\ repairs'[d].status \in Out
    BY <1>1, <1>3 DEF Out
  <2> QED  BY <1>1, <2>1 DEF DocumentStep
<1> QED  BY <1>4, <1>5, <1>6, <1>7 DEF Good, IndInv

\* What a slot's request works on.
LEMMA Working ==
  ASSUME IndInv, NEW q \in Request
  PROVE  /\ req[q].step # "idle" => req[q].asset \in Asset
         /\ req[q].step \in {"move", "assign"} => req[q].seen \in AssetStatus
         /\ req[q].step = "repair" =>
              /\ req[q].doc \in Repair /\ repairs[req[q].doc].asset = req[q].asset
              /\ repairs[req[q].doc].status # "NONE" /\ req[q].seen \in Targets
         /\ req[q].step \in {"approve", "dispatch", "receive"} =>
              req[q].doc \in Transfer /\ transfers[req[q].doc].asset = req[q].asset
  BY DEF IndInv, Linked

LEMMA MoveGood ==
  ASSUME IndInv, NEW q \in Request, Move(q)
  PROVE  Good
<1> DEFINE a == req[q].asset
<1>1. req[q].step = "move" /\ a \in Asset /\ req[q].seen \in AssetStatus
  BY Working DEF Move
<1>2. PICK p \in Place, s \in Typeable \cup {req[q].seen} :
        /\ assets' = [assets EXCEPT ![a] = [status |-> s, loc |-> p]]
        /\ retyped' = IF s = assets[a].status THEN retyped ELSE retyped \cup {a}
        /\ Trail(q, a, p)
  BY DEF Move
<1>3. UNCHANGED <<trail, repairs, transfers, disposals, untraced>>
  BY DEF Move
<1>4. s \in AssetStatus /\ p \in Location /\ assets \in [Asset -> AssetRow]
  BY <1>1, TypeableAssumption DEF IndInv, TypeOK, Location
<1> HIDE DEF a
<1>5. assets' = [assets EXCEPT ![a] = [status |-> s, loc |-> p]]
  BY <1>2
<1>6. /\ assets' \in [Asset -> AssetRow]
      /\ \A b \in Asset : /\ assets'[b].status = IF b = a THEN s ELSE assets[b].status
                          /\ assets'[b].loc = IF b = a THEN p ELSE assets[b].loc
  BY ONLY <1>1, <1>4, <1>5, PutAsset
<1>7. /\ req' \in [Request -> RequestRow]
      /\ req'[q].step = "trail" /\ req'[q].asset = a
      /\ \A o \in Request : o # q => req'[o] = req[o]
  BY <1>1, <1>2, <1>4, TrailSlot DEF IndInv
<1>8. retyped \subseteq retyped' /\ retyped' \subseteq Asset
      /\ (a \notin retyped' => s = assets[a].status)
  BY <1>1, <1>2 DEF IndInv, TypeOK
<1>9. TypeOK'  BY <1>3, <1>6, <1>7, <1>8 DEF IndInv, TypeOK
<1>10. Linked'  BY <1>1, <1>3, <1>7, LinkedStep DEF IndInv
<1>11. ASSUME NEW b \in Asset PROVE TraceStep(b)
  <2>1. CASE b = a  BY <2>1, <1>7 DEF TraceStep
  <2>2. CASE b # a
    <3>1. CASE b \in untraced \/ \E o \in Request : req'[o].step = "trail" /\ req'[o].asset = b
      BY <3>1, <1>3 DEF TraceStep
    <3>2. CASE b \notin untraced
               /\ \A o \in Request : req'[o].step = "trail" => req'[o].asset # b
      <4>1. assets'[b].loc = assets[b].loc /\ req[q].step # "trail"
        BY <1>1, <1>6, <2>2
      <4> QED  BY <3>2, <4>1, <1>3, <1>7, SamePlace
    <3> QED  BY <3>1, <3>2
  <2> QED  BY <2>1, <2>2
<1>12. ASSUME NEW b \in Asset PROVE DocumentStep(b)
  <2>1. b \notin retyped' => b \notin retyped /\ assets'[b].status = assets[b].status
    BY <1>6, <1>8
  <2> QED  BY <1>3, <2>1, SameDocuments
<1> QED  BY <1>9, <1>10, <1>11, <1>12 DEF Good, IndInv

\* A slot that ends holds on to nothing.
LEMMA EndLinked ==
  ASSUME IndInv, NEW q \in Request, End(q),
         \A r \in Repair : repairs[r].status # "NONE" =>
           repairs'[r].asset = repairs[r].asset /\ repairs'[r].status # "NONE",
         \A t \in Transfer : transfers'[t].asset = transfers[t].asset
  PROVE  Linked'
<1>1. req'[q].step = "idle" /\ \A o \in Request : o # q => req'[o] = req[o]
  BY EndSlot DEF IndInv
<1> QED  BY <1>1, LinkedStep DEF IndInv

LEMMA BookInGood ==
  ASSUME IndInv, NEW a \in Asset, BookIn(a)
  PROVE  Good
<1>1. PICK p \in Place : /\ assets' = [assets EXCEPT ![a] = [status |-> "IN_STOCK", loc |-> p]]
                         /\ trail' = [trail EXCEPT ![a] = p]
  BY DEF BookIn
<1>2. UNCHANGED <<repairs, transfers, disposals, req, retyped, untraced>>
  BY DEF BookIn
<1>3. /\ assets \in [Asset -> AssetRow] /\ trail \in [Asset -> Location]
      /\ "IN_STOCK" \in AssetStatus /\ p \in Location
  BY DEF AssetStatus, Location, IndInv, TypeOK
<1>4. assets' = [assets EXCEPT ![a] = [status |-> "IN_STOCK", loc |-> p]]
  BY <1>1
<1>5. /\ assets' \in [Asset -> AssetRow]
      /\ \A b \in Asset : /\ assets'[b].status = IF b = a THEN "IN_STOCK" ELSE assets[b].status
                          /\ assets'[b].loc = IF b = a THEN p ELSE assets[b].loc
  BY ONLY a \in Asset, <1>3, <1>4, PutAsset
<1>6. trail' \in [Asset -> Location] /\ \A b \in Asset : trail'[b] = IF b = a THEN p ELSE trail[b]
  BY <1>1, <1>3
<1>7. TypeOK'  BY <1>2, <1>5, <1>6 DEF IndInv, TypeOK
<1>8. Linked'  BY <1>2 DEF IndInv, Linked
<1>9. ASSUME NEW b \in Asset PROVE TraceStep(b)
  BY <1>2, <1>5, <1>6 DEF TraceStep
<1>10. ASSUME NEW b \in Asset PROVE DocumentStep(b)
  BY <1>2, <1>5, SameDocuments
<1> QED  BY <1>7, <1>8, <1>9, <1>10 DEF Good, IndInv

LEMMA WriteTrailGood ==
  ASSUME IndInv, NEW q \in Request, WriteTrail(q)
  PROVE  Good
<1> DEFINE a == req[q].asset  p == req[q].loc
<1>1. req[q].step = "trail" /\ a \in Asset /\ p \in Location
  BY Working, Fields DEF WriteTrail, IndInv
<1>2. /\ trail' = [trail EXCEPT ![a] = p]
      /\ untraced' = IF assets[a].loc = p THEN untraced ELSE untraced \cup {a}
      /\ End(q)
      /\ UNCHANGED <<assets, repairs, transfers, disposals, retyped>>
  BY DEF WriteTrail
<1> HIDE DEF a, p
<1>3. /\ trail' \in [Asset -> Location]
      /\ \A b \in Asset : trail'[b] = IF b = a THEN p ELSE trail[b]
  BY <1>1, <1>2 DEF IndInv, TypeOK
<1>4. req' \in [Request -> RequestRow] /\ req'[q].step = "idle"
      /\ \A o \in Request : o # q => req'[o] = req[o]
  BY <1>2, EndSlot DEF IndInv
<1>5. TypeOK'  BY <1>1, <1>2, <1>3, <1>4 DEF IndInv, TypeOK
<1>6. Linked'  BY <1>2, EndLinked
<1>7. ASSUME NEW b \in Asset PROVE TraceStep(b)
  <2>1. CASE b = a  BY <2>1, <1>2, <1>3 DEF TraceStep
  <2>2. CASE b # a
    <3>1. CASE b \in untraced \/ \E o \in Request : req'[o].step = "trail" /\ req'[o].asset = b
      BY <3>1, <1>2 DEF TraceStep
    <3>2. CASE b \notin untraced
               /\ \A o \in Request : req'[o].step = "trail" => req'[o].asset # b
      <4>1. req[q].asset # b  BY <2>2 DEF a
      <4>2. \A o \in Request : req[o].step = "trail" => req[o].asset # b
        BY <3>2, <4>1, <1>4
      <4> QED  BY <3>2, <4>2, <2>2, <1>2, <1>3 DEF TraceStep
    <3> QED  BY <3>1, <3>2
  <2> QED  BY <2>1, <2>2
<1>8. ASSUME NEW b \in Asset PROVE DocumentStep(b)
  BY <1>2, SameDocuments
<1> QED  BY <1>5, <1>6, <1>7, <1>8 DEF Good, IndInv

LEMMA AssignGood ==
  ASSUME IndInv, NEW q \in Request, Assign(q)
  PROVE  Good
<1> DEFINE a == req[q].asset
<1>1. req[q].step = "assign" /\ a \in Asset /\ req[q].seen \in AssetStatus
  BY Working DEF Assign
<1>2. PICK s \in {"IN_STORE", req[q].seen} :
        /\ assets' = [assets EXCEPT ![a].status = s]
        /\ retyped' = IF s \in {"IN_STORE", assets[a].status} THEN retyped ELSE retyped \cup {a}
  BY DEF Assign
<1>3. End(q) /\ UNCHANGED <<trail, repairs, transfers, disposals, untraced>>
  BY DEF Assign
<1>4. s \in AssetStatus \cup {"NONE"} /\ assets \in [Asset -> AssetRow]
  BY <1>1, <1>2 DEF IndInv, TypeOK, AssetStatus
<1> HIDE DEF a
<1>5. /\ assets' \in [Asset -> AssetRow]
      /\ \A b \in Asset : /\ assets'[b].status = IF b = a THEN s ELSE assets[b].status
                          /\ assets'[b].loc = assets[b].loc
  <2>1. assets' = [assets EXCEPT ![a].status = s]  BY <1>2
  <2> QED  BY ONLY <1>1, <1>4, <2>1, PutStatus
<1>6. req' \in [Request -> RequestRow] /\ req'[q].step = "idle"
      /\ \A o \in Request : o # q => req'[o] = req[o]
  BY <1>3, EndSlot DEF IndInv
<1>7. /\ retyped \subseteq retyped' /\ retyped' \subseteq Asset
      /\ a \notin retyped' => s \in {"IN_STORE", assets[a].status}
  BY <1>1, <1>2 DEF IndInv, TypeOK
<1>8. TypeOK'  BY <1>3, <1>5, <1>6, <1>7 DEF IndInv, TypeOK
<1>9. Linked'  BY <1>3, EndLinked
<1>10. \A b \in Asset : TraceStep(b)
  BY <1>1, <1>3, <1>5, <1>6, SamePlaces
<1>11. ASSUME NEW b \in Asset PROVE DocumentStep(b)
  <2>1. b \notin retyped' =>
          b \notin retyped /\ (assets'[b].status = assets[b].status
                                 \/ assets'[b].status \notin {"REPAIR", "IN_TRANSIT", "DISPOSED"})
    BY <1>5, <1>7
  <2> QED  BY <1>3, <2>1, SameDocuments
<1> QED  BY <1>8, <1>9, <1>10, <1>11 DEF Good, IndInv

LEMMA ReportGood ==
  ASSUME IndInv, NEW q \in Request, Report(q)
  PROVE  Good
<1> DEFINE a == req[q].asset
<1>1. req[q].step = "report" /\ a \in Asset /\ req[q].loc \in Location
  BY Working, Fields DEF Report, IndInv
<1>2. PICK p \in Place \cup {req[q].loc} :
        /\ assets' = [assets EXCEPT ![a].loc = p]
        /\ untraced' = IF p = assets[a].loc THEN untraced ELSE untraced \cup {a}
  BY DEF Report
<1>3. End(q) /\ UNCHANGED <<trail, repairs, transfers, disposals, retyped>>
  BY DEF Report
<1>4. p \in Location /\ assets \in [Asset -> AssetRow]
  BY <1>1, <1>2 DEF IndInv, TypeOK, Location
<1> HIDE DEF a
<1>5. /\ assets' \in [Asset -> AssetRow]
      /\ \A b \in Asset : /\ assets'[b].loc = IF b = a THEN p ELSE assets[b].loc
                          /\ assets'[b].status = assets[b].status
  <2>1. assets' = [assets EXCEPT ![a].loc = p]  BY <1>2
  <2> QED  BY ONLY <1>1, <1>4, <2>1, PutLoc
<1>6. req' \in [Request -> RequestRow] /\ req'[q].step = "idle"
      /\ \A o \in Request : o # q => req'[o] = req[o]
  BY <1>3, EndSlot DEF IndInv
<1>7. /\ untraced \subseteq untraced' /\ untraced' \subseteq Asset
      /\ a \notin untraced' => p = assets[a].loc
      /\ \A b \in Asset : b # a => (b \in untraced' <=> b \in untraced)
  BY <1>1, <1>2 DEF IndInv, TypeOK
<1>8. TypeOK'  BY <1>3, <1>5, <1>6, <1>7 DEF IndInv, TypeOK
<1>9. Linked'  BY <1>3, EndLinked
<1>10. ASSUME NEW b \in Asset PROVE TraceStep(b)
  <2> SUFFICES ASSUME b \notin untraced',
                      \A o \in Request : req'[o].step = "trail" => req'[o].asset # b
               PROVE  TraceStep(b)
    BY DEF TraceStep
  <2>1. assets'[b].loc = assets[b].loc /\ b \notin untraced
    BY <1>5, <1>7
  <2>2. \A o \in Request : req[o].step = "trail" => req[o].asset # b
    BY <1>1, <1>6
  <2> QED  BY <1>3, <2>1, <2>2 DEF TraceStep
<1>11. ASSUME NEW b \in Asset PROVE DocumentStep(b)
  BY <1>3, <1>5, SameDocuments
<1> QED  BY <1>8, <1>9, <1>10, <1>11 DEF Good, IndInv

LEMMA Reflected ==
  ASSUME NEW target \in Targets, NEW s \in AssetStatus \cup {"NONE"}
  PROVE  /\ Reflect(target, s) \in AssetStatus \cup {"NONE"}
         /\ target = "SENT" => Reflect(target, s) = "REPAIR"
         /\ target \in {"RETURNED", "WRITTEN_OFF"} =>
              Reflect(target, s) \notin {"REPAIR", "IN_TRANSIT", "DISPOSED"}
         /\ target \in {"AT_SUPPLIER", "REPLACED"} => Reflect(target, s) = s
         /\ target \in {"SENT", "RETURNED", "WRITTEN_OFF", "AT_SUPPLIER", "REPLACED"}
  BY DEF Targets, RepairStatus, AssetStatus, Reflect

LEMMA TransitionGood ==
  ASSUME IndInv, NEW q \in Request, Transition(q)
  PROVE  Good
<1> DEFINE a == req[q].asset  r == req[q].doc  target == req[q].seen
           s == Reflect(target, assets[a].status)
<1>1. /\ a \in Asset /\ r \in Repair /\ target \in Targets
      /\ repairs[r].asset = a /\ req[q].step = "repair"
      /\ repairs[r].status # "NONE"
  BY Working DEF Transition
<1>2. /\ repairs' = [repairs EXCEPT ![r].status = target]
      /\ assets' = [assets EXCEPT ![a].status = Reflect(target, @)]
      /\ End(q)
      /\ UNCHANGED <<trail, transfers, disposals, retyped, untraced>>
  BY DEF Transition
<1>3. assets[a].status \in AssetStatus \cup {"NONE"}
  BY <1>1, Fields DEF IndInv
<1>4. assets' = [assets EXCEPT ![a].status = s]
  BY <1>2
<1> HIDE DEF a, r, target
<1>5. /\ s \in AssetStatus \cup {"NONE"}
      /\ target = "SENT" => s = "REPAIR"
      /\ target \in {"RETURNED", "WRITTEN_OFF"} => s \notin {"REPAIR", "IN_TRANSIT", "DISPOSED"}
      /\ target \in {"AT_SUPPLIER", "REPLACED"} => s = assets[a].status
      /\ target \in {"SENT", "RETURNED", "WRITTEN_OFF", "AT_SUPPLIER", "REPLACED"}
  BY <1>1, <1>3, Reflected
<1> HIDE DEF s
<1>6. /\ assets' \in [Asset -> AssetRow]
      /\ \A b \in Asset : /\ assets'[b].status = IF b = a THEN s ELSE assets[b].status
                          /\ assets'[b].loc = assets[b].loc
  <2>1. assets \in [Asset -> AssetRow]  BY DEF IndInv, TypeOK
  <2>2. s \in AssetStatus \cup {"NONE"}  BY <1>5
  <2>3. a \in Asset  BY <1>1
  <2>4. assets' = [assets EXCEPT ![a].status = s]  BY <1>4
  <2> QED  BY ONLY <2>1, <2>2, <2>3, <2>4, PutStatus
<1>7. /\ repairs' \in [Repair -> RepairRow]
      /\ \A d \in Repair : /\ repairs'[d].status = IF d = r THEN target ELSE repairs[d].status
                           /\ repairs'[d].asset = repairs[d].asset
  <2>1. repairs \in [Repair -> RepairRow]  BY DEF IndInv, TypeOK
  <2>2. target \in RepairStatus  BY <1>1 DEF Targets
  <2>3. repairs' = [repairs EXCEPT ![r].status = target]  BY <1>2
  <2> QED  BY ONLY <1>1, <2>1, <2>2, <2>3, PutRepair
<1>8. req' \in [Request -> RequestRow] /\ req'[q].step = "idle"
      /\ \A o \in Request : o # q => req'[o] = req[o]
  BY <1>2, EndSlot DEF IndInv
<1>9. TypeOK'  BY <1>2, <1>6, <1>7, <1>8 DEF IndInv, TypeOK
<1>10. Linked'
  BY <1>2, <1>5, <1>7, EndLinked
<1>11. \A b \in Asset : TraceStep(b)
  BY <1>1, <1>2, <1>6, <1>8, SamePlaces
<1>12. ASSUME NEW b \in Asset PROVE DocumentStep(b)
  <2>1. CASE b # a
    <3>1. \A d \in Repair : repairs[d].asset = b /\ repairs[d].status \in Out =>
            repairs'[d].asset = b /\ repairs'[d].status \in Out
      BY <1>1, <1>7, <2>1
    <3> QED  BY <1>2, <1>6, <2>1, <3>1 DEF DocumentStep
  <2>2. CASE b = a /\ target = "SENT"
    <3>1. repairs'[r].asset = b /\ repairs'[r].status \in Out
      BY <1>1, <1>7, <2>2 DEF Out
    <3>2. assets'[b].status = "REPAIR"
      BY <1>5, <1>6, <2>2
    <3> QED  BY <1>1, <1>2, <3>1, <3>2 DEF DocumentStep
  <2>3. CASE b = a /\ target \in {"RETURNED", "WRITTEN_OFF"}
    BY <1>2, <1>5, <1>6, <2>3 DEF DocumentStep
  <2>4. CASE b = a /\ target \in {"AT_SUPPLIER", "REPLACED"}
    <3>1. \A d \in Repair : repairs[d].asset = b /\ repairs[d].status \in Out =>
            repairs'[d].asset = b /\ repairs'[d].status \in Out
      BY <1>7, <2>4 DEF Out
    <3>2. assets'[b].status = assets[b].status
      BY <1>5, <1>6, <2>4
    <3> QED  BY <1>2, <3>1, <3>2 DEF DocumentStep
  <2> QED  BY <1>5, <2>1, <2>2, <2>3, <2>4
<1> QED  BY <1>9, <1>10, <1>11, <1>12 DEF Good, IndInv

LEMMA ApproveGood ==
  ASSUME IndInv, NEW q \in Request, Approve(q)
  PROVE  Good
<1> DEFINE a == req[q].asset  t == req[q].doc
<1>1. /\ a \in Asset /\ t \in Transfer /\ transfers[t].asset = a /\ req[q].step = "approve"
  BY Working DEF Approve
<1>2. /\ transfers' = [transfers EXCEPT ![t].status = "APPROVED"]
      /\ retyped' = IF transfers[t].status = "DISPATCHED" THEN retyped \cup {a} ELSE retyped
      /\ End(q)
      /\ UNCHANGED <<assets, trail, repairs, disposals, untraced>>
  BY DEF Approve
<1>3. transfers \in [Transfer -> TransferRow] /\ "APPROVED" \in {"APPROVED", "DISPATCHED", "RECEIVED"}
  BY DEF IndInv, TypeOK
<1> HIDE DEF a, t
<1>4. /\ transfers' \in [Transfer -> TransferRow]
      /\ \A d \in Transfer : /\ transfers'[d].status = IF d = t THEN "APPROVED"
                                                         ELSE transfers[d].status
                             /\ transfers'[d].asset = transfers[d].asset
  <2>1. transfers' = [transfers EXCEPT ![t].status = "APPROVED"]  BY <1>2
  <2>2. t \in Transfer  BY <1>1
  <2> QED  BY ONLY <1>3, <2>1, <2>2, PutTransfer
<1>5. req' \in [Request -> RequestRow] /\ req'[q].step = "idle"
      /\ \A o \in Request : o # q => req'[o] = req[o]
  BY <1>2, EndSlot DEF IndInv
<1>6. /\ retyped \subseteq retyped' /\ retyped' \subseteq Asset
      /\ a \notin retyped' => transfers[t].status # "DISPATCHED"
  BY <1>1, <1>2 DEF IndInv, TypeOK
<1>7. TypeOK'  BY <1>2, <1>4, <1>5, <1>6 DEF IndInv, TypeOK
<1>8. Linked'  BY <1>2, <1>4, EndLinked
<1>9. \A b \in Asset : TraceStep(b)
  BY <1>1, <1>2, <1>5, SamePlaces
<1>10. ASSUME NEW b \in Asset, b \notin retyped' PROVE DocumentStep(b)
  <2>1. b \notin retyped  BY <1>6, <1>10
  <2>2. \A d \in Transfer : transfers[d].asset = b /\ transfers[d].status = "DISPATCHED" =>
          transfers'[d].asset = b /\ transfers'[d].status = "DISPATCHED"
    BY <1>1, <1>4, <1>6, <1>10
  <2> QED  BY <1>2, <2>1, <2>2 DEF DocumentStep
<1>11. ASSUME NEW b \in Asset PROVE DocumentStep(b)
  <2>1. CASE b \in retyped'  BY <2>1 DEF DocumentStep
  <2>2. CASE b \notin retyped'  BY <1>10, <2>2
  <2> QED  BY <2>1, <2>2
<1> QED  BY <1>7, <1>8, <1>9, <1>11 DEF Good, IndInv

\* A dispatch or a receipt writes asset, history and transfer together.
LEMMA CarryGood ==
  ASSUME IndInv, NEW q \in Request, req[q].doc \in Transfer,
         NEW step \in {"dispatch", "receive"}, NEW here \in Place,
         NEW status, status = IF step = "dispatch" THEN "DISPATCHED" ELSE "RECEIVED",
         Carry(q, step, status, here)
  PROVE  Good
<1> DEFINE a == req[q].asset  t == req[q].doc
           s == IF step = "dispatch" THEN "IN_TRANSIT" ELSE "IN_STORE"
<1>1. /\ a \in Asset /\ t \in Transfer /\ transfers[t].asset = a /\ req[q].step = step
  BY Working DEF Carry
<1>2. /\ assets' = [assets EXCEPT ![a] = [status |-> s, loc |-> here]]
      /\ trail' = [trail EXCEPT ![a] = here]
      /\ transfers' = [transfers EXCEPT ![t].status = status]
      /\ End(q)
      /\ UNCHANGED <<repairs, disposals, retyped, untraced>>
  BY DEF Carry
<1>3. s \in AssetStatus /\ here \in Location /\ status \in {"APPROVED", "DISPATCHED", "RECEIVED"}
      /\ assets \in [Asset -> AssetRow] /\ transfers \in [Transfer -> TransferRow]
  BY DEF AssetStatus, Location, IndInv, TypeOK
<1>4. s = "IN_TRANSIT" => status = "DISPATCHED"
  OBVIOUS
<1>5. s \notin {"REPAIR", "DISPOSED"}
  OBVIOUS
<1> HIDE DEF a, t, s
<1>6. /\ assets' \in [Asset -> AssetRow]
      /\ \A b \in Asset : /\ assets'[b].status = IF b = a THEN s ELSE assets[b].status
                          /\ assets'[b].loc = IF b = a THEN here ELSE assets[b].loc
  <2>1. assets' = [assets EXCEPT ![a] = [status |-> s, loc |-> here]]  BY <1>2
  <2> QED  BY ONLY <1>1, <1>3, <2>1, PutAsset
<1>7. /\ transfers' \in [Transfer -> TransferRow]
      /\ \A d \in Transfer : /\ transfers'[d].status = IF d = t THEN status ELSE transfers[d].status
                             /\ transfers'[d].asset = transfers[d].asset
  <2>1. transfers' = [transfers EXCEPT ![t].status = status]  BY <1>2
  <2> QED  BY ONLY <1>1, <1>3, <2>1, PutTransfer
<1>8. /\ trail' \in [Asset -> Location]
      /\ \A b \in Asset : trail'[b] = IF b = a THEN here ELSE trail[b]
  BY <1>1, <1>2, <1>3 DEF IndInv, TypeOK
<1>9. req' \in [Request -> RequestRow] /\ req'[q].step = "idle"
      /\ \A o \in Request : o # q => req'[o] = req[o]
  BY <1>2, EndSlot DEF IndInv
<1>10. TypeOK'  BY <1>2, <1>6, <1>7, <1>8, <1>9 DEF IndInv, TypeOK
<1>11. Linked'  BY <1>2, <1>7, EndLinked
<1>12. ASSUME NEW b \in Asset PROVE TraceStep(b)
  <2>1. CASE b = a  BY <2>1, <1>6, <1>8 DEF TraceStep
  <2>2. CASE b # a
    <3> SUFFICES ASSUME b \notin untraced',
                        \A o \in Request : req'[o].step = "trail" => req'[o].asset # b
                 PROVE  TraceStep(b)
      BY DEF TraceStep
    <3>1. assets'[b].loc = assets[b].loc /\ trail'[b] = trail[b] /\ b \notin untraced
      BY <1>2, <1>6, <1>8, <2>2
    <3>2. \A o \in Request : req[o].step = "trail" => req[o].asset # b
      BY <1>1, <1>9
    <3> QED  BY <3>1, <3>2 DEF TraceStep
  <2> QED  BY <2>1, <2>2
<1>13. ASSUME NEW b \in Asset PROVE DocumentStep(b)
  <2>1. CASE b = a
    <3>1. assets'[b].status = "IN_TRANSIT" =>
            transfers'[t].asset = b /\ transfers'[t].status = "DISPATCHED"
      BY <1>1, <1>4, <1>6, <1>7, <2>1
    <3>2. assets'[b].status \notin {"REPAIR", "DISPOSED"}
      BY <1>5, <1>6, <2>1
    <3> QED  BY <1>1, <1>2, <3>1, <3>2 DEF DocumentStep
  <2>2. CASE b # a
    <3>1. \A d \in Transfer : transfers[d].asset = b /\ transfers[d].status = "DISPATCHED" =>
            transfers'[d].asset = b /\ transfers'[d].status = "DISPATCHED"
      BY <1>1, <1>7, <2>2
    <3> QED  BY <1>2, <1>6, <2>2, <3>1 DEF DocumentStep
  <2> QED  BY <2>1, <2>2
<1> QED  BY <1>10, <1>11, <1>12, <1>13 DEF Good, IndInv

LEMMA DisposeGood ==
  ASSUME IndInv, NEW q \in Request, Dispose(q)
  PROVE  Good
<1> DEFINE a == req[q].asset
<1>1. req[q].step = "dispose" /\ a \in Asset
  BY Working DEF Dispose
<1>2. /\ disposals' = disposals \cup {a}
      /\ assets' = [assets EXCEPT ![a].status = "DISPOSED"]
      /\ End(q)
      /\ UNCHANGED <<trail, repairs, transfers, retyped, untraced>>
  BY DEF Dispose
<1>3. "DISPOSED" \in AssetStatus \cup {"NONE"} /\ assets \in [Asset -> AssetRow]
  BY DEF AssetStatus, IndInv, TypeOK
<1> HIDE DEF a
<1>4. /\ assets' \in [Asset -> AssetRow]
      /\ \A b \in Asset : /\ assets'[b].status = IF b = a THEN "DISPOSED" ELSE assets[b].status
                          /\ assets'[b].loc = assets[b].loc
  <2>1. assets' = [assets EXCEPT ![a].status = "DISPOSED"]  BY <1>2
  <2> QED  BY ONLY <1>1, <1>3, <2>1, PutStatus
<1>5. req' \in [Request -> RequestRow] /\ req'[q].step = "idle"
      /\ \A o \in Request : o # q => req'[o] = req[o]
  BY <1>2, EndSlot DEF IndInv
<1>6. TypeOK'  BY <1>1, <1>2, <1>4, <1>5 DEF IndInv, TypeOK
<1>7. Linked'  BY <1>2, EndLinked
<1>8. \A b \in Asset : TraceStep(b)
  BY <1>1, <1>2, <1>4, <1>5, SamePlaces
<1>9. ASSUME NEW b \in Asset PROVE DocumentStep(b)
  BY <1>2, <1>4 DEF DocumentStep
<1> QED  BY <1>6, <1>7, <1>8, <1>9 DEF Good, IndInv

LEMMA FailGood ==
  ASSUME IndInv, NEW q \in Request, Fail(q)
  PROVE  Good
<1> DEFINE a == req[q].asset
<1>1. req[q].step # "idle" /\ a \in Asset
  BY Working DEF Fail
<1>2. /\ untraced' = IF req[q].step = "trail" THEN untraced \cup {a} ELSE untraced
      /\ End(q)
      /\ UNCHANGED <<assets, trail, repairs, transfers, disposals, retyped>>
  BY DEF Fail, tables
<1>3. req' \in [Request -> RequestRow] /\ req'[q].step = "idle"
      /\ \A o \in Request : o # q => req'[o] = req[o]
  BY <1>2, EndSlot DEF IndInv
<1>4. TypeOK'  BY <1>1, <1>2, <1>3 DEF IndInv, TypeOK
<1>5. Linked'  BY <1>2, EndLinked
<1>6. ASSUME NEW b \in Asset PROVE TraceStep(b)
  <2> SUFFICES ASSUME b \notin untraced',
                      \A o \in Request : req'[o].step = "trail" => req'[o].asset # b
               PROVE  TraceStep(b)
    BY DEF TraceStep
  <2>1. b \notin untraced /\ (req[q].step = "trail" => req[q].asset # b)
    BY <1>2
  <2>2. \A o \in Request : req[o].step = "trail" => req[o].asset # b
    BY <1>3, <2>1
  <2> QED  BY <1>2, <2>1, <2>2 DEF TraceStep
<1>7. ASSUME NEW b \in Asset PROVE DocumentStep(b)
  BY <1>2, SameDocuments
<1> QED  BY <1>4, <1>5, <1>6, <1>7 DEF Good, IndInv

-----------------------------------------------------------------------------
(* Every step is good.                                                     *)

LEMMA NextGood ==
  ASSUME IndInv, Next
  PROVE  Good
<1>1. ASSUME NEW q \in Request, NEW a \in Asset, Create(q, a) PROVE Good
  BY <1>1, CreateGood
<1>2. ASSUME NEW q \in Request, NEW a \in Asset,
             NEW step \in {"move", "assign", "report", "dispose"}, Find(q, step, a)
      PROVE  Good
  BY <1>2, FindGood
<1>3. ASSUME NEW q \in Request, NEW r \in Repair, FindRepair(q, r) PROVE Good
  BY <1>3, FindRepairGood
<1>4. ASSUME NEW q \in Request, NEW t \in Transfer,
             NEW step \in {"approve", "dispatch", "receive"}, FindTransfer(q, t, step)
      PROVE  Good
  BY <1>4, FindTransferGood
<1>5. ASSUME NEW q \in Request, Dispatch(q) PROVE Good
  <2>1. req[q].doc \in Transfer
        /\ Carry(q, "dispatch", "DISPATCHED", transfers[req[q].doc].from)
    BY <1>5 DEF Dispatch
  <2>2. transfers[req[q].doc].from \in Place
    BY <2>1, Fields DEF IndInv
  <2>3. "DISPATCHED" = IF "dispatch" = "dispatch" THEN "DISPATCHED" ELSE "RECEIVED"
    OBVIOUS
  <2> QED  BY <2>1, <2>2, <2>3, CarryGood
<1>6. ASSUME NEW q \in Request, Receive(q) PROVE Good
  <2>1. req[q].doc \in Transfer
        /\ Carry(q, "receive", "RECEIVED", transfers[req[q].doc].to)
    BY <1>6 DEF Receive
  <2>2. transfers[req[q].doc].to \in Place
    BY <2>1, Fields DEF IndInv
  <2>3. "RECEIVED" = IF "receive" = "dispatch" THEN "DISPATCHED" ELSE "RECEIVED"
    OBVIOUS
  <2> QED  BY <2>1, <2>2, <2>3, CarryGood
<1>7. ASSUME NEW q \in Request,
             Move(q) \/ WriteTrail(q) \/ Assign(q) \/ Report(q) \/ Transition(q) \/ Approve(q)
               \/ Dispose(q) \/ Fail(q)
      PROVE  Good
  BY <1>7, MoveGood, WriteTrailGood, AssignGood, ReportGood, TransitionGood, ApproveGood,
     DisposeGood, FailGood
<1>8. ASSUME NEW r \in Repair, NEW a \in Asset, LogRepair(r, a) PROVE Good
  BY <1>8, LogRepairGood
<1>9. ASSUME NEW a \in Asset, BookIn(a) PROVE Good
  BY <1>9, BookInGood
<1> QED  BY <1>1, <1>2, <1>3, <1>4, <1>5, <1>6, <1>7, <1>8, <1>9 DEF Next

LEMMA InitInv == Init => IndInv /\ LocationTraced /\ StatusHasDocument
<1> SUFFICES ASSUME Init PROVE IndInv /\ LocationTraced /\ StatusHasDocument
  OBVIOUS
<1>1. [status |-> "NONE", loc |-> Nowhere] \in AssetRow
  BY DEF AssetRow, Location
<1>2. assets \in [Asset -> AssetRow] /\ trail \in [Asset -> Location]
  BY <1>1 DEF Init, Location
<1>3. repairs \in [Repair -> RepairRow]
  <2>1. [asset : Asset, status : {"NONE"}] \subseteq RepairRow
    BY DEF RepairRow
  <2> QED  BY <2>1 DEF Init
<1>4. transfers \in [Transfer -> TransferRow]
  <2>1. {t \in [asset : Asset, from : Place, to : Place, status : {"REQUESTED"}] : t.from # t.to}
          \subseteq TransferRow
    BY DEF TransferRow
  <2> QED  BY <2>1 DEF Init
<1>5. /\ req \in [Request -> RequestRow]
      /\ \A q \in Request : req[q].step = "idle"
  BY BlankRow DEF Init
<1>6. TypeOK
  BY <1>2, <1>3, <1>4, <1>5 DEF Init, TypeOK
<1>7. Linked
  BY <1>5 DEF Linked
<1>8. LocationTraced
  BY DEF Init, LocationTraced
<1>9. StatusHasDocument
  BY DEF Init, StatusHasDocument
<1> QED  BY <1>6, <1>7, <1>8, <1>9 DEF IndInv

\* A request that is under way works on rows that are still there: its asset, and a
\* document which is of that asset.  Nothing deletes an asset, a repair or a transfer.
THEOREM RequestsStayLinked == Spec => []IndInv
<1>1. Init => IndInv  BY InitInv
<1>2. IndInv /\ [Next]_vars => IndInv'
  <2>1. ASSUME IndInv, Next PROVE IndInv'
    BY <2>1, NextGood DEF Good
  <2>2. ASSUME IndInv, UNCHANGED vars PROVE IndInv'
    <3>1. TypeOK'  BY <2>2 DEF IndInv, TypeOK, vars, tables
    <3>2. Linked'  BY <2>2 DEF IndInv, Linked, vars, tables
    <3> QED  BY <3>1, <3>2 DEF IndInv
  <2> QED  BY <2>1, <2>2
<1> QED  BY <1>1, <1>2, PTL DEF Spec

\* The register has an asset where its history last put it, unless a report moved it,
\* its history row was lost or late, or one is still to come.
THEOREM LocationIsTraced == Spec => []LocationTraced
<1>1. Init => LocationTraced  BY InitInv
<1>2. IndInv /\ LocationTraced /\ [Next]_vars => LocationTraced'
  <2>1. ASSUME IndInv, LocationTraced, Next PROVE LocationTraced'
    BY <2>1, NextGood, TraceFollows DEF Good
  <2>2. ASSUME LocationTraced, UNCHANGED vars PROVE LocationTraced'
    BY <2>2 DEF LocationTraced, vars, tables
  <2> QED  BY <2>1, <2>2
<1> QED  BY <1>1, <1>2, RequestsStayLinked, PTL DEF Spec

\* A status that a document gives is accounted for by one, unless a move or an
\* assignment has written a status that was typed in or read before it changed.
THEOREM StatusIsDocumented == Spec => []StatusHasDocument
<1>1. Init => StatusHasDocument  BY InitInv
<1>2. IndInv /\ StatusHasDocument /\ [Next]_vars => StatusHasDocument'
  <2>1. ASSUME IndInv, StatusHasDocument, Next PROVE StatusHasDocument'
    BY <2>1, NextGood, DocumentFollows DEF Good
  <2>2. ASSUME StatusHasDocument, UNCHANGED vars PROVE StatusHasDocument'
    BY <2>2 DEF StatusHasDocument, vars, tables
  <2> QED  BY <2>1, <2>2
<1> QED  BY <1>1, <1>2, RequestsStayLinked, PTL DEF Spec
=============================================================================
