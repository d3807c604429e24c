--------------------------- MODULE BackOfficeProofs ---------------------------
(***************************************************************************)
(* Proofs about the components of the back office, for tables of any size, *)
(* any number of overlapping requests and any bounds.  A behaviour of      *)
(* MCBackOffice is, for each component, one of that component: its steps   *)
(* are the component's, or leave its tables alone.                         *)
(***************************************************************************)
EXTENDS MCBackOffice, AssetRegisterProofs, Sequences, FiniteSetTheorems, WellFoundedInduction, TLAPS

LEMMA Steps ==
  ASSUME [BackNext]_AllVars
  PROVE  /\ [Plan!Next]_planVars /\ [Buying!Next]_buyVars /\ [Tills!Next]_tillVars /\ [Pool!Next]_poolVars
         /\ [Fleet!Next]_fleetVars /\ [Shops!Next]_shopVars /\ [Audits!Next]_auditVars
         /\ [Toner!Next]_tonerVars /\ [Values!Next]_valueVars /\ [Web!Next]_webVars
         /\ [Clock!Next]_clockVars /\ [Next]_vars
  BY DEF BackNext, AllVars, OnAssets, OnValues, OnAudits, OnShops, OnFleet, OnToner, OnPool, OnPlan,
         OnClock, OnBuying, OnTills, OnWeb

\* Writing one field of one row of a table of tables.
Table(A, B, C) == [A -> [B -> C]]
With(T, a, b, c) == [T EXCEPT ![a][b] = c]

LEMMA PutIn ==
  ASSUME NEW A, NEW B, NEW C, NEW T \in Table(A, B, C), NEW a \in A, NEW b \in B, NEW c \in C
  PROVE  /\ With(T, a, b, c) \in Table(A, B, C)
         /\ \A x \in A, y \in B : With(T, a, b, c)[x][y] = IF x = a /\ y = b THEN c ELSE T[x][y]
<1>1. T \in [A -> [B -> C]] /\ T[a] \in [B -> C]
  BY DEF Table
<1>2. DEFINE R == [T[a] EXCEPT ![b] = c]
<1>3. R \in [B -> C] /\ \A y \in B : R[y] = IF y = b THEN c ELSE T[a][y]
  BY <1>1
<1>4. With(T, a, b, c) = [T EXCEPT ![a] = R]
  BY DEF With
<1> HIDE DEF R
<1>5. /\ [T EXCEPT ![a] = R] \in [A -> [B -> C]]
      /\ \A x \in A : [T EXCEPT ![a] = R][x] = IF x = a THEN R ELSE T[x]
  BY <1>1, <1>3
<1> QED  BY <1>3, <1>4, <1>5 DEF Table

-----------------------------------------------------------------------------
(* Scheduled tickets.  A schedule whose ticket may still be opened today -  *)
(* it is due, or the pass has it ahead - has as many of today as saves of   *)
(* it were cut short; the one that is being saved may have one more.        *)

PlanRows ==
  /\ schedule \in [Item -> [state : {"none", "active", "off", "deleted"}, due : 0..MaxDay + 1]]
  /\ day \in 0..MaxDay
  /\ pass.step \in {"idle", "create", "save"} /\ pass.ahead \subseteq Item
  /\ pass.at = {} \/ \E s \in Item : pass.at = {s}
  /\ tickets \in [Item -> [0..MaxDay -> Nat]] /\ cuts \in [Item -> 0..MaxCuts]

PassOrdered ==
  /\ pass.step # "save" => pass.at = {}
  /\ pass.at \cap pass.ahead = {}
  /\ \A s \in pass.ahead \cup pass.at : schedule[s].state # "none"

\* No ticket before there is a schedule, and none of a day to come.
TicketsSoFar ==
  \A s \in Item, d \in 0..MaxDay :
    /\ tickets[s][d] <= 1 + cuts[s]
    /\ d > day \/ schedule[s].state = "none" => tickets[s][d] = 0

MayFire(s) == s \in pass.ahead \/ (schedule[s].state \in {"active", "off"} /\ schedule[s].due <= day)

NotYetToday == \A s \in Item \ pass.at : MayFire(s) => tickets[s][day] <= cuts[s]

PlanInv == PlanRows /\ PassOrdered /\ TicketsSoFar /\ NotYetToday

LEMMA PlanInitial == Plan!Init => PlanInv
<1> SUFFICES ASSUME Plan!Init PROVE PlanInv
  OBVIOUS
<1>1. /\ schedule = [s \in Item |-> [state |-> "none", due |-> 0]] /\ day = 0
      /\ pass = [step |-> "idle", ahead |-> {}, at |-> {}]
      /\ tickets = [s \in Item |-> [d \in 0..MaxDay |-> 0]] /\ cuts = [s \in Item |-> 0]
  BY DEF Plan!Init, Plan!NoRow, Plan!NoPass, Plan!Day
<1>2. 0 \in 0..MaxDay /\ 0 \in 0..MaxDay + 1 /\ 0 \in 0..MaxCuts
  BY BackOfficeAssumption
<1>3. PlanRows
  BY <1>1, <1>2 DEF PlanRows
<1>4. \A s \in Item : schedule[s].state = "none" /\ cuts[s] = 0 /\ \A d \in 0..MaxDay : tickets[s][d] = 0
  BY <1>1
<1>5. PassOrdered
  BY <1>1 DEF PassOrdered
<1>6. TicketsSoFar
  BY <1>4 DEF TicketsSoFar
<1>7. NotYetToday
  BY <1>1, <1>2, <1>4 DEF NotYetToday, MayFire
<1> QED  BY <1>3, <1>5, <1>6, <1>7 DEF PlanInv

\* What a pass is after one of its schedules.
LEMMA PassGoesOn ==
  ASSUME NEW A \in SUBSET Item
  PROVE  /\ Plan!On(A).step \in {"idle", "create"}
         /\ Plan!On(A).ahead = A /\ Plan!On(A).at = {}
  BY DEF Plan!On, Plan!NoPass

LEMMA PlanStep == PlanInv /\ [Plan!Next]_planVars => PlanInv'
<1> SUFFICES ASSUME PlanInv, [Plan!Next]_planVars PROVE PlanInv'
  OBVIOUS
<1>a. PlanRows /\ MaxDay \in Nat /\ MaxCuts \in Nat
  BY BackOfficeAssumption DEF PlanInv
<1>b. PassOrdered /\ TicketsSoFar /\ NotYetToday
  BY DEF PlanInv
<1>t. \A s \in Item, d \in 0..MaxDay : tickets[s][d] \in Nat /\ cuts[s] \in Nat /\ cuts[s] <= MaxCuts
  BY <1>a DEF PlanRows
<1>d. day \in Nat /\ day <= MaxDay /\ day \in 0..MaxDay /\ \A s \in Item : schedule[s].due \in Nat
  BY <1>a DEF PlanRows
<1>1. ASSUME NEW s \in Item, Plan!createScheduled(s) PROVE PlanInv'
  <2>1. /\ schedule[s].state = "none" /\ UNCHANGED <<day, pass, tickets, cuts>>
        /\ schedule' = [schedule EXCEPT ![s] = [state |-> "active", due |-> day]]
    BY <1>1 DEF Plan!createScheduled
  <2>2. PlanRows'
    BY SMTT(30), <1>1, <1>a, <1>d, <2>1 DEF PlanRows
  <2>3. \A t \in Item : t # s => schedule'[t] = schedule[t]
    BY <1>1, <1>a, <2>1 DEF PlanRows
  <2>4. schedule'[s].state = "active"
    BY <1>1, <1>a, <2>1 DEF PlanRows
  <2>5. s \notin pass.ahead \cup pass.at /\ \A d \in 0..MaxDay : tickets[s][d] = 0
    BY <1>1, <1>b, <2>1 DEF PassOrdered, TicketsSoFar
  <2>6. PassOrdered'
    BY <1>a, <1>b, <2>1, <2>3, <2>4 DEF PassOrdered, PlanRows
  <2>7. TicketsSoFar'
    BY <1>1, <1>b, <1>t, <2>1, <2>3, <2>5 DEF TicketsSoFar
  <2>8. NotYetToday'
    <3> SUFFICES ASSUME NEW t \in Item \ pass'.at, MayFire(t)' PROVE tickets'[t][day'] <= cuts'[t]
      BY DEF NotYetToday
    <3>1. CASE t = s
      BY <3>1, <1>d, <1>t, <2>1, <2>5
    <3>2. CASE t # s
      BY <3>2, <1>b, <2>1, <2>3 DEF NotYetToday, MayFire
    <3> QED  BY <3>1, <3>2
  <2> QED  BY <2>2, <2>6, <2>7, <2>8 DEF PlanInv
<1>2. ASSUME NEW s \in Item, Plan!updateScheduled(s) \/ Plan!deleteScheduled(s) PROVE PlanInv'
  <2>1. UNCHANGED <<day, pass, tickets, cuts>> /\ schedule[s].state \in {"active", "off"}
    BY <1>2 DEF Plan!updateScheduled, Plan!deleteScheduled
  <2>2. /\ schedule' \in [Item -> [state : {"none", "active", "off", "deleted"}, due : 0..MaxDay + 1]]
        /\ schedule'[s].state # "none"
        /\ schedule'[s].state \in {"active", "off"} => schedule'[s].due = schedule[s].due
        /\ \A t \in Item : t # s => schedule'[t] = schedule[t]
    <3>1. CASE Plan!updateScheduled(s)
      BY ZenonT(60), <1>2, <1>a, <3>1 DEF Plan!updateScheduled, PlanRows
    <3>2. CASE Plan!deleteScheduled(s)
      <4>1. schedule' = [schedule EXCEPT ![s] = [state |-> "deleted", due |-> 0]] /\ 0 \in 0..MaxDay + 1
        BY <1>a, <3>2 DEF Plan!deleteScheduled
      <4> QED  BY <1>2, <1>a, <4>1 DEF PlanRows
    <3> QED  BY <1>2, <3>1, <3>2
  <2>3. PlanRows'
    BY <1>a, <2>1, <2>2 DEF PlanRows
  <2>4. PassOrdered'
    BY ZenonT(60), <1>a, <1>b, <2>1, <2>2 DEF PassOrdered, PlanRows
  <2>5. TicketsSoFar'
    BY <1>b, <2>1, <2>2 DEF TicketsSoFar
  <2>6. NotYetToday'
    BY <1>b, <2>1, <2>2 DEF NotYetToday, MayFire
  <2> QED  BY <2>3, <2>4, <2>5, <2>6 DEF PlanInv
<1>3. ASSUME Plan!runScheduledTicketsCron PROVE PlanInv'
  <2>1. /\ pass.at = {} /\ pass'.step = "create" /\ pass'.ahead = Plan!Due /\ pass'.at = {}
        /\ UNCHANGED <<schedule, day, tickets, cuts>>
    BY <1>3 DEF Plan!runScheduledTicketsCron, Plan!NoPass
  <2>2. \A s \in Plan!Due : s \in Item /\ schedule[s].state = "active" /\ schedule[s].due <= day
    BY DEF Plan!Due
  <2>3. PlanRows'
    BY <1>a, <2>1, <2>2 DEF PlanRows
  <2>4. PassOrdered'
    BY <2>1, <2>2 DEF PassOrdered
  <2>5. TicketsSoFar'
    BY <1>b, <2>1 DEF TicketsSoFar
  <2>6. NotYetToday'
    BY <1>b, <2>1, <2>2 DEF NotYetToday, MayFire
  <2> QED  BY <2>3, <2>4, <2>5, <2>6 DEF PlanInv
<1>4. ASSUME Plan!Tomorrow PROVE PlanInv'
  <2>1. day' = day + 1 /\ day < MaxDay /\ UNCHANGED <<schedule, pass, tickets, cuts>>
    BY <1>4 DEF Plan!Tomorrow
  <2>2. day' \in 0..MaxDay
    BY <1>a, <1>d, <2>1
  <2>3. PlanRows'
    BY <1>a, <2>1, <2>2 DEF PlanRows
  <2>4. PassOrdered'
    BY <1>b, <2>1 DEF PassOrdered
  <2>5. TicketsSoFar'
    BY <1>b, <1>d, <2>1 DEF TicketsSoFar
  <2>6. NotYetToday'
    BY <1>b, <1>d, <1>t, <2>1, <2>2 DEF NotYetToday, TicketsSoFar
  <2> QED  BY <2>3, <2>4, <2>5, <2>6 DEF PlanInv
<1>5. ASSUME NEW s \in Item, Plan!CreateTicket(s) PROVE PlanInv'
  <2>1. /\ pass.step = "create" /\ s \in pass.ahead /\ pass.at = {}
        /\ pass'.step = "save" /\ pass'.ahead = pass.ahead \ {s} /\ pass'.at = {s}
        /\ tickets' = [tickets EXCEPT ![s][day] = tickets[s][day] + 1]
        /\ UNCHANGED <<schedule, day, cuts>>
    BY <1>5, <1>b DEF Plan!CreateTicket, PassOrdered
  <2>2. /\ tickets' \in [Item -> [0..MaxDay -> Nat]]
        /\ \A t \in Item, d \in 0..MaxDay :
             tickets'[t][d] = IF t = s /\ d = day THEN tickets[s][day] + 1 ELSE tickets[t][d]
    <3>1. tickets[s][day] + 1 \in Nat
      BY <1>5, <1>t, <1>d
    <3>2. tickets \in Table(Item, 0..MaxDay, Nat)
      BY <1>a DEF PlanRows, Table
    <3>3. tickets' = With(tickets, s, day, tickets[s][day] + 1)
      BY <2>1 DEF With
    <3>4. /\ tickets' \in Table(Item, 0..MaxDay, Nat)
          /\ \A t \in Item, d \in 0..MaxDay :
               tickets'[t][d] = IF t = s /\ d = day THEN tickets[s][day] + 1 ELSE tickets[t][d]
      <4> DEFINE D == 0..MaxDay
      <4> DEFINE n == tickets[s][day] + 1
      <4>1. day \in D /\ s \in Item /\ n \in Nat /\ tickets \in Table(Item, D, Nat) /\ tickets' = With(tickets, s, day, n)
        BY <1>5, <1>d, <3>1, <3>2, <3>3
      <4> HIDE DEF D, n
      <4>2. /\ tickets' \in Table(Item, D, Nat)
            /\ \A t \in Item, d \in D : tickets'[t][d] = IF t = s /\ d = day THEN n ELSE tickets[t][d]
        BY <4>1, PutIn
      <4> QED  BY <4>2 DEF D, n
    <3> QED  BY <3>4 DEF Table
  <2>3. PlanRows'
    BY <1>5, <1>a, <2>1, <2>2 DEF PlanRows
  <2>4. tickets[s][day] <= cuts[s] /\ schedule[s].state # "none"
    BY <1>5, <1>b, <2>1 DEF NotYetToday, MayFire, PassOrdered
  <2>5. PassOrdered'
    BY <1>5, <1>b, <2>1, <2>4 DEF PassOrdered
  <2>6. TicketsSoFar'
    <3> SUFFICES ASSUME NEW t \in Item, NEW d \in 0..MaxDay
                 PROVE /\ tickets'[t][d] <= 1 + cuts[t]
                       /\ d > day \/ schedule[t].state = "none" => tickets'[t][d] = 0
      BY <2>1 DEF TicketsSoFar
    <3>1. CASE t = s /\ d = day
      BY <3>1, <1>5, <1>d, <1>t, <2>2, <2>4
    <3>2. CASE ~(t = s /\ d = day)
      BY <3>2, <1>b, <2>2 DEF TicketsSoFar
    <3> QED  BY <3>1, <3>2
  <2>7. NotYetToday'
    BY <1>5, <1>b, <1>d, <2>1, <2>2 DEF NotYetToday, MayFire
  <2> QED  BY <2>3, <2>5, <2>6, <2>7 DEF PlanInv
<1>6. ASSUME NEW s \in Item, Plan!CreateFails(s) PROVE PlanInv'
  <2>1. /\ pass'.step \in {"idle", "create"} /\ pass'.ahead \subseteq pass.ahead /\ pass'.at = {} /\ pass.at = {}
        /\ UNCHANGED <<schedule, day, tickets, cuts>>
    BY ZenonT(60), <1>6, <1>a, <1>b, PassGoesOn DEF Plan!CreateFails, PlanRows, PassOrdered
  <2>2. PlanRows'
    BY <1>a, <2>1 DEF PlanRows
  <2>3. PassOrdered' /\ TicketsSoFar'
    BY <1>b, <2>1 DEF PassOrdered, TicketsSoFar
  <2>4. NotYetToday'
    BY <1>b, <2>1 DEF NotYetToday, MayFire
  <2> QED  BY <2>2, <2>3, <2>4 DEF PlanInv
<1>7. ASSUME NEW s \in Item, Plan!SaveNext(s) PROVE PlanInv'
  <2>1. /\ pass'.step \in {"idle", "create"} /\ pass'.ahead = pass.ahead /\ pass'.at = {}
        /\ s \in pass.at /\ UNCHANGED <<day, tickets, cuts>>
    BY <1>7, <1>a, PassGoesOn DEF Plan!SaveNext, PlanRows
  <2>2. pass.at = {s} /\ s \notin pass.ahead
    BY <1>a, <1>b, <2>1 DEF PlanRows, PassOrdered
  <2>3. /\ schedule' \in [Item -> [state : {"none", "active", "off", "deleted"}, due : 0..MaxDay + 1]]
        /\ schedule'[s].state = schedule[s].state
        /\ schedule[s].state # "deleted" => schedule'[s].due = day + 1
        /\ \A t \in Item : t # s => schedule'[t] = schedule[t]
    <3>1. day + 1 \in 0..MaxDay + 1
      BY <1>a, <1>d
    <3>2. schedule' = IF schedule[s].state = "deleted" THEN schedule ELSE [schedule EXCEPT ![s].due = day + 1]
      BY <1>7 DEF Plan!SaveNext, Plan!nextCronRun
    <3> QED  BY <1>7, <1>a, <3>1, <3>2 DEF PlanRows
  <2>4. PlanRows'
    BY <1>a, <2>1, <2>3 DEF PlanRows
  <2>5. PassOrdered'
    BY <1>b, <2>1, <2>2, <2>3, <1>a DEF PassOrdered, PlanRows
  <2>6. TicketsSoFar'
    BY <1>b, <2>1, <2>3 DEF TicketsSoFar
  <2>7. NotYetToday'
    <3> SUFFICES ASSUME NEW t \in Item, MayFire(t)' PROVE tickets'[t][day'] <= cuts'[t]
      BY DEF NotYetToday
    <3>1. t # s
      BY <1>d, <2>1, <2>2, <2>3 DEF MayFire
    <3> QED  BY <1>b, <2>1, <2>2, <2>3, <3>1 DEF NotYetToday, MayFire
  <2> QED  BY <2>4, <2>5, <2>6, <2>7 DEF PlanInv
<1>8. ASSUME NEW s \in Item, Plan!Cut(s) PROVE PlanInv'
  <2>1. /\ pass'.step \in {"idle", "create"} /\ pass'.ahead \subseteq pass.ahead /\ pass'.at = {}
        /\ s \in pass.at /\ cuts[s] < MaxCuts /\ UNCHANGED <<schedule, day, tickets>>
    <3>1. /\ pass' = Plan!On(pass.ahead) \/ pass' = Plan!NoPass
          /\ s \in pass.at /\ cuts[s] < MaxCuts /\ UNCHANGED <<schedule, day, tickets>>
      BY <1>8 DEF Plan!Cut
    <3>2. CASE pass' = Plan!On(pass.ahead)
      BY <1>a, <3>1, <3>2, PassGoesOn DEF PlanRows
    <3>3. CASE pass' = Plan!NoPass
      BY <3>1, <3>3 DEF Plan!NoPass
    <3> QED  BY <3>1, <3>2, <3>3
  <2>2. pass.at = {s}
    BY <1>a, <2>1 DEF PlanRows
  <2>3. /\ cuts' \in [Item -> 0..MaxCuts]
        /\ \A t \in Item : cuts'[t] = IF t = s THEN cuts[s] + 1 ELSE cuts[t]
    <3>1. cuts' = [cuts EXCEPT ![s] = cuts[s] + 1] /\ cuts[s] + 1 \in 0..MaxCuts
      BY <1>8, <1>a, <2>1 DEF Plan!Cut, PlanRows
    <3> QED  BY <1>8, <1>a, <3>1 DEF PlanRows
  <2>4. PlanRows'
    BY <1>a, <2>1, <2>3 DEF PlanRows
  <2>5. PassOrdered'
    BY <1>b, <2>1 DEF PassOrdered
  <2>6. TicketsSoFar'
    BY <1>8, <1>b, <1>t, <2>1, <2>3 DEF TicketsSoFar
  <2>7. NotYetToday'
    <3> SUFFICES ASSUME NEW t \in Item, MayFire(t)' PROVE tickets'[t][day'] <= cuts'[t]
      BY DEF NotYetToday
    <3>1. CASE t = s
      BY <3>1, <1>8, <1>b, <1>d, <1>t, <2>1, <2>3 DEF TicketsSoFar
    <3>2. CASE t # s
      BY <3>2, <1>b, <2>1, <2>2, <2>3 DEF NotYetToday, MayFire
    <3> QED  BY <3>1, <3>2
  <2> QED  BY <2>4, <2>5, <2>6, <2>7 DEF PlanInv
<1>9. ASSUME UNCHANGED planVars PROVE PlanInv'
  BY <1>9 DEF planVars, PlanInv, PlanRows, PassOrdered, TicketsSoFar, NotYetToday, MayFire
<1> QED  BY <1>1, <1>2, <1>3, <1>4, <1>5, <1>6, <1>7, <1>8, <1>9 DEF Plan!Next

\* A schedule opens one ticket a day for any number of schedules, but for those opened
\* again because saving its next day failed.
THEOREM ScheduledCorrect == BackSpec => []ScheduledOnce
<1>1. PlanInv => ScheduledOnce
  BY DEF PlanInv, TicketsSoFar, ScheduledOnce, Plan!ScheduledOnce, Plan!Day
<1>2. BackInit => PlanInv
  BY PlanInitial DEF BackInit
<1> QED  BY <1>1, <1>2, PlanStep, Steps, PTL DEF BackSpec

-----------------------------------------------------------------------------
(* Procurement.  A request that still waits to mark an order has the order, *)
(* one that still waits to approve for finance found the approval of IT,    *)
(* and a request that is ORDERED and was not crossed has no transition left *)
(* under way: none starts on it.                                            *)

\* An instance's counts are those of the library's theorems.
LEMMA BuyingCounts ==
  ASSUME NEW S PROVE Buying!Cardinality(S) = Cardinality(S)
<1>1. Buying!IsFiniteSet(S) = IsFiniteSet(S)
  BY DEF Buying!IsFiniteSet, IsFiniteSet
<1> QED  BY <1>1 DEF Buying!Cardinality, Cardinality, Buying!IsFiniteSet, IsFiniteSet

LEMMA CountsBounded ==
  /\ Buying!Requests \in 0..Buying!Cardinality(Pr) + Buying!Cardinality(Po)
  /\ Buying!Orders \in 0..Buying!Cardinality(Pr) + Buying!Cardinality(Po)
  /\ 0 \in 0..Buying!Cardinality(Pr) + Buying!Cardinality(Po)
<1>1. /\ Cardinality({p \in Pr : prs[p] # "none"}) \in Nat /\ Cardinality(Pr) \in Nat
      /\ Cardinality({p \in Pr : prs[p] # "none"}) <= Cardinality(Pr)
  BY BackOfficeAssumption, FS_Subset, FS_CardinalityType
<1>2. /\ Cardinality({o \in Po : pos[o] # Nowhere}) \in Nat /\ Cardinality(Po) \in Nat
      /\ Cardinality({o \in Po : pos[o] # Nowhere}) <= Cardinality(Po)
  BY BackOfficeAssumption, FS_Subset, FS_CardinalityType
<1>3. /\ Buying!Requests = Cardinality({p \in Pr : prs[p] # "none"})
      /\ Buying!Orders = Cardinality({o \in Po : pos[o] # Nowhere})
      /\ Buying!Cardinality(Pr) = Cardinality(Pr) /\ Buying!Cardinality(Po) = Cardinality(Po)
  BY BuyingCounts DEF Buying!Requests, Buying!Orders
<1> QED  BY <1>1, <1>2, <1>3

RequestsLinked ==
  \A q \in Slot :
    /\ prReq[q].step \in {"mark", "insert", "transition"} => prReq[q].pr \in Pr
    /\ prReq[q].step = "mark" => Buying!Ordered(prReq[q].pr)
    /\ prReq[q].step = "transition" =>
         /\ prReq[q].target \in {"SUBMITTED", "IT_APPROVED", "FINANCE_APPROVED", "REJECTED"}
         /\ prReq[q].target = "FINANCE_APPROVED" => "IT_APPROVED" \in given[prReq[q].pr]

StatusExplained ==
  \A p \in Pr :
    /\ prs[p] = "ORDERED" => Buying!Ordered(p)
    /\ prs[p] = "IT_APPROVED" => "IT_APPROVED" \in given[p]
    /\ prs[p] = "FINANCE_APPROVED" => {"IT_APPROVED", "FINANCE_APPROVED"} \subseteq given[p]
    /\ p \notin crossed =>
         /\ Buying!Ordered(p) /\ ~Buying!Busy("mark", p) => prs[p] = "ORDERED"
         /\ prs[p] = "ORDERED" => ~Buying!Busy("transition", p)

BuyInv == Buying!TypeOK /\ RequestsLinked /\ StatusExplained

LEMMA BuyInitial == Buying!Init => BuyInv
<1> SUFFICES ASSUME Buying!Init PROVE BuyInv
  OBVIOUS
<1>1. /\ prs = [p \in Pr |-> "none"] /\ pos = [o \in Po |-> Nowhere]
      /\ prReq = [q \in Slot |-> [step |-> "idle", pr |-> Nowhere, target |-> "none", count |-> 0]]
      /\ given = [p \in Pr |-> {}] /\ crossed = {}
  BY DEF Buying!Init, Buying!Idle
<1>2. 0 \in 0..Buying!Cardinality(Pr) + Buying!Cardinality(Po)
  BY CountsBounded
<1>3. Buying!TypeOK
  BY <1>1, <1>2 DEF Buying!TypeOK, Buying!PrStatus
<1>4. \A q \in Slot : prReq[q].step = "idle"
  BY <1>1
<1>5. \A p \in Pr : prs[p] = "none" /\ ~Buying!Ordered(p)
  BY <1>1, BackOfficeAssumption DEF Buying!Ordered
<1> QED  BY <1>3, <1>4, <1>5 DEF BuyInv, RequestsLinked, StatusExplained

LEMMA BuyStep == BuyInv /\ [Buying!Next]_buyVars => BuyInv'
<1> SUFFICES ASSUME BuyInv, [Buying!Next]_buyVars PROVE BuyInv'
  OBVIOUS
<1>t. /\ prs \in [Pr -> Buying!PrStatus] /\ pos \in [Po -> Pr \cup {Nowhere}]
      /\ prReq \in [Slot -> [step : {"idle", "create", "transition", "insert", "mark"},
                             pr : Pr \cup {Nowhere}, target : Buying!PrStatus,
                             count : 0..Buying!Cardinality(Pr) + Buying!Cardinality(Po)]]
      /\ given \in [Pr -> SUBSET {"IT_APPROVED", "FINANCE_APPROVED"}] /\ crossed \subseteq Pr
  BY DEF BuyInv, Buying!TypeOK
<1>n. Nowhere \notin Pr
  BY BackOfficeAssumption
<1>l. RequestsLinked
  BY DEF BuyInv
<1>s. StatusExplained
  BY DEF BuyInv
<1>i. /\ Buying!Idle \in [step : {"idle", "create", "transition", "insert", "mark"},
                          pr : Pr \cup {Nowhere}, target : Buying!PrStatus,
                          count : 0..Buying!Cardinality(Pr) + Buying!Cardinality(Po)]
      /\ Buying!Idle.step = "idle"
  BY CountsBounded DEF Buying!Idle, Buying!PrStatus
<1>1. ASSUME NEW q \in Slot, Buying!CountPr(q) PROVE BuyInv'
  <2>1. /\ prReq' = [prReq EXCEPT ![q].step = "create", ![q].count = Buying!Requests]
        /\ prReq[q].step = "idle" /\ UNCHANGED <<prs, pos, given, crossed>>
    BY <1>1, <1>i DEF Buying!CountPr
  <2>2. Buying!TypeOK'
    <3> DEFINE row == [prReq[q] EXCEPT !.step = "create", !.count = Buying!Requests]
    <3>1. row \in [step : {"idle", "create", "transition", "insert", "mark"},
                  pr : Pr \cup {Nowhere}, target : Buying!PrStatus,
                  count : 0..Buying!Cardinality(Pr) + Buying!Cardinality(Po)]
      BY <1>1, <1>t, CountsBounded
    <3>2. prReq' = [prReq EXCEPT ![q] = row]
      BY <1>1, <1>t, <2>1
    <3> HIDE DEF row
    <3>3. prReq' \in [Slot -> [step : {"idle", "create", "transition", "insert", "mark"},
                              pr : Pr \cup {Nowhere}, target : Buying!PrStatus,
                              count : 0..Buying!Cardinality(Pr) + Buying!Cardinality(Po)]]
      BY <1>1, <1>t, <3>1, <3>2
    <3> QED  BY <1>t, <2>1, <3>3 DEF Buying!TypeOK
  <2>3. prReq'[q].step = "create" /\ \A r \in Slot : r # q => prReq'[r] = prReq[r]
    BY <1>1, <1>t, <2>1
  <2>4. RequestsLinked'
    BY ZenonT(60), <1>l, <2>1, <2>3 DEF RequestsLinked, Buying!Ordered
  <2>5. \A r \in Pr : /\ Buying!Ordered(r)' <=> Buying!Ordered(r)
                      /\ Buying!Busy("mark", r)' <=> Buying!Busy("mark", r)
                      /\ Buying!Busy("transition", r)' <=> Buying!Busy("transition", r)
    BY <1>1, <2>1, <2>3 DEF Buying!Ordered, Buying!Busy
  <2>6. StatusExplained'
    BY <1>s, <2>1, <2>5 DEF StatusExplained
  <2> QED  BY <2>2, <2>4, <2>6 DEF BuyInv
<1>2. ASSUME NEW q \in Slot, NEW p \in Pr, Buying!CreatePr(q, p) PROVE BuyInv'
  <2>1. /\ prReq' = [prReq EXCEPT ![q] = Buying!Idle] /\ prs' = [prs EXCEPT ![p] = "DRAFT"]
        /\ prReq[q].step = "create" /\ prs[p] = "none" /\ UNCHANGED <<pos, given, crossed>>
    BY <1>2 DEF Buying!CreatePr
  <2>2. Buying!TypeOK'
    BY <1>2, <1>t, <1>i, <2>1 DEF Buying!TypeOK, Buying!PrStatus
  <2>3. prReq'[q].step = "idle" /\ \A r \in Slot : r # q => prReq'[r] = prReq[r]
    BY <1>2, <1>t, <1>i, <2>1
  <2>4. prs'[p] = "DRAFT" /\ \A r \in Pr : r # p => prs'[r] = prs[r]
    BY <1>2, <1>t, <2>1
  <2>5. RequestsLinked'
    BY <1>l, <2>1, <2>3 DEF RequestsLinked, Buying!Ordered
  <2>6. StatusExplained'
    BY <1>s, <2>1, <2>3, <2>4 DEF StatusExplained, Buying!Ordered, Buying!Busy
  <2> QED  BY <2>2, <2>5, <2>6 DEF BuyInv
<1>3. ASSUME NEW q \in Slot, NEW p \in Pr, Buying!FindPr(q, p) PROVE BuyInv'
  <2>1. PICK target \in Buying!allowed(prs[p]) :
          /\ prReq' = [prReq EXCEPT ![q] = [Buying!Idle EXCEPT !.step = "transition", !.pr = p, !.target = target]]
          /\ prReq[q].step = "idle" /\ UNCHANGED <<prs, pos, given, crossed>>
    BY <1>3, <1>i DEF Buying!FindPr
  <2>2. /\ target \in {"SUBMITTED", "IT_APPROVED", "FINANCE_APPROVED", "REJECTED"}
        /\ prs[p] # "ORDERED" /\ (target = "FINANCE_APPROVED" => prs[p] = "IT_APPROVED")
    BY <2>1 DEF Buying!allowed
  <2> DEFINE row == [Buying!Idle EXCEPT !.step = "transition", !.pr = p, !.target = target]
  <2>3. /\ row \in [step : {"idle", "create", "transition", "insert", "mark"},
                    pr : Pr \cup {Nowhere}, target : Buying!PrStatus,
                    count : 0..Buying!Cardinality(Pr) + Buying!Cardinality(Po)]
        /\ row.step = "transition" /\ row.pr = p /\ row.target = target
    BY <1>3, <2>2, CountsBounded DEF Buying!Idle, Buying!PrStatus
  <2> HIDE DEF row
  <2>4. prReq' = [prReq EXCEPT ![q] = row]
    BY <2>1 DEF row
  <2>5. Buying!TypeOK'
    <3>1. prReq' \in [Slot -> [step : {"idle", "create", "transition", "insert", "mark"},
                              pr : Pr \cup {Nowhere}, target : Buying!PrStatus,
                              count : 0..Buying!Cardinality(Pr) + Buying!Cardinality(Po)]]
      BY <1>3, <1>t, <2>3, <2>4
    <3> QED  BY <1>t, <2>1, <3>1 DEF Buying!TypeOK
  <2>6. prReq'[q] = row /\ \A r \in Slot : r # q => prReq'[r] = prReq[r]
    BY <1>3, <1>t, <2>4
  <2>7. RequestsLinked'
    BY <1>3, <1>l, <1>s, <2>1, <2>2, <2>3, <2>6 DEF RequestsLinked, StatusExplained, Buying!Ordered
  <2>8. StatusExplained'
    BY <1>s, <2>1, <2>2, <2>3, <2>6 DEF StatusExplained, Buying!Ordered, Buying!Busy
  <2> QED  BY <2>5, <2>7, <2>8 DEF BuyInv
<1>4. ASSUME NEW q \in Slot, Buying!transition(q) PROVE BuyInv'
  <2>1. PICK p, target : p = prReq[q].pr /\ target = prReq[q].target
    OBVIOUS
  <2>2. /\ prReq' = [prReq EXCEPT ![q] = Buying!Idle] /\ prs' = [prs EXCEPT ![p] = target]
        /\ prReq[q].step = "transition" /\ UNCHANGED <<pos, crossed>>
        /\ given' = IF target \in {"IT_APPROVED", "FINANCE_APPROVED"}
                    THEN [given EXCEPT ![p] = given[p] \cup {target}] ELSE given
    BY <1>4, <2>1 DEF Buying!transition
  <2>3. /\ p \in Pr /\ target \in {"SUBMITTED", "IT_APPROVED", "FINANCE_APPROVED", "REJECTED"}
        /\ (target = "FINANCE_APPROVED" => "IT_APPROVED" \in given[p])
    BY <1>4, <1>l, <2>1, <2>2 DEF RequestsLinked
  <2>4. prReq'[q].step = "idle" /\ \A r \in Slot : r # q => prReq'[r] = prReq[r]
    BY <1>4, <1>t, <1>i, <2>2
  <2>5. prs'[p] = target /\ \A r \in Pr : r # p => prs'[r] = prs[r]
    BY <1>t, <2>2, <2>3
  <2>6. /\ given' \in [Pr -> SUBSET {"IT_APPROVED", "FINANCE_APPROVED"}]
        /\ (target \in {"IT_APPROVED", "FINANCE_APPROVED"} => target \in given'[p])
        /\ \A r \in Pr : given[r] \subseteq given'[r]
    BY <1>t, <2>2, <2>3
  <2>7. Buying!TypeOK'
    BY <1>4, <1>t, <1>i, <2>2, <2>3, <2>6 DEF Buying!TypeOK, Buying!PrStatus
  <2>8. RequestsLinked'
    BY <1>l, <2>2, <2>4, <2>6 DEF RequestsLinked, Buying!Ordered
  <2>9. p \notin crossed => prs[p] # "ORDERED" /\ (Buying!Ordered(p) => Buying!Busy("mark", p))
    BY <1>4, <1>s, <2>1, <2>2, <2>3 DEF StatusExplained, Buying!Busy
  <2>10. \A r \in Pr : /\ Buying!Ordered(r)' <=> Buying!Ordered(r)
                       /\ Buying!Busy("mark", r)' <=> Buying!Busy("mark", r)
                       /\ Buying!Busy("transition", r)' => Buying!Busy("transition", r)
    BY <1>4, <2>2, <2>4 DEF Buying!Ordered, Buying!Busy
  <2>11. StatusExplained'
    BY <1>s, <2>2, <2>3, <2>5, <2>6, <2>9, <2>10 DEF StatusExplained
  <2> QED  BY <2>7, <2>8, <2>11 DEF BuyInv
<1>5. ASSUME NEW q \in Slot, NEW p \in Pr, Buying!CountPo(q, p) PROVE BuyInv'
  <2> DEFINE row == [Buying!Idle EXCEPT !.step = "insert", !.pr = p, !.count = Buying!Orders]
  <2>1. prReq' = [prReq EXCEPT ![q] = row] /\ prReq[q].step = "idle" /\ UNCHANGED <<prs, pos, given, crossed>>
    BY <1>5, <1>i DEF Buying!CountPo
  <2>2. /\ row \in [step : {"idle", "create", "transition", "insert", "mark"},
                    pr : Pr \cup {Nowhere}, target : Buying!PrStatus,
                    count : 0..Buying!Cardinality(Pr) + Buying!Cardinality(Po)]
        /\ row.step = "insert" /\ row.pr = p
    BY <1>5, CountsBounded DEF Buying!Idle, Buying!PrStatus
  <2> HIDE DEF row
  <2>3. Buying!TypeOK'
    BY <1>5, <1>t, <2>1, <2>2 DEF Buying!TypeOK
  <2>4. prReq'[q] = row /\ \A r \in Slot : r # q => prReq'[r] = prReq[r]
    BY <1>5, <1>t, <2>1
  <2>5. RequestsLinked'
    BY <1>5, <1>l, <2>1, <2>2, <2>4 DEF RequestsLinked, Buying!Ordered
  <2>6. StatusExplained'
    BY <1>s, <2>1, <2>2, <2>4 DEF StatusExplained, Buying!Ordered, Buying!Busy
  <2> QED  BY <2>3, <2>5, <2>6 DEF BuyInv
<1>6. ASSUME NEW q \in Slot, NEW o \in Po, Buying!CreatePo(q, o) PROVE BuyInv'
  <2>1. PICK p : p = prReq[q].pr
    OBVIOUS
  <2>2. /\ prReq' = [prReq EXCEPT ![q].step = "mark"] /\ pos' = [pos EXCEPT ![o] = p]
        /\ prReq[q].step = "insert" /\ pos[o] = Nowhere /\ UNCHANGED <<prs, given, crossed>>
    BY <1>6, <2>1 DEF Buying!CreatePo
  <2>3. p \in Pr
    BY <1>6, <1>l, <2>1, <2>2 DEF RequestsLinked
  <2>4. Buying!TypeOK'
    BY <1>6, <1>t, <2>2, <2>3 DEF Buying!TypeOK
  <2>5. prReq'[q].step = "mark" /\ prReq'[q].pr = p /\ \A r \in Slot : r # q => prReq'[r] = prReq[r]
    BY <1>6, <1>t, <2>1, <2>2
  <2>6. pos'[o] = p /\ \A r \in Po : r # o => pos'[r] = pos[r]
    BY <1>6, <1>t, <2>2
  <2>7. \A r \in Pr : Buying!Ordered(r)' <=> (Buying!Ordered(r) \/ r = p)
    BY <1>6, <1>n, <2>2, <2>6 DEF Buying!Ordered
  <2>8. RequestsLinked'
    BY <1>6, <1>l, <2>2, <2>3, <2>5, <2>7 DEF RequestsLinked
  <2>9. \A r \in Pr : /\ Buying!Busy("mark", r) => Buying!Busy("mark", r)'
                      /\ Buying!Busy("transition", r)' => Buying!Busy("transition", r)
    BY <1>6, <2>2, <2>5 DEF Buying!Busy
  <2>10. Buying!Busy("mark", p)'
    BY <1>6, <2>5 DEF Buying!Busy
  <2>11. StatusExplained'
    BY <1>s, <2>2, <2>7, <2>9, <2>10 DEF StatusExplained
  <2> QED  BY <2>4, <2>8, <2>11 DEF BuyInv
<1>7. ASSUME NEW q \in Slot, Buying!MarkOrdered(q) PROVE BuyInv'
  <2>1. PICK p : p = prReq[q].pr
    OBVIOUS
  <2>2. /\ prReq' = [prReq EXCEPT ![q] = Buying!Idle] /\ prs' = [prs EXCEPT ![p] = "ORDERED"]
        /\ crossed' = IF Buying!Busy("transition", p) THEN crossed \cup {p} ELSE crossed
        /\ prReq[q].step = "mark" /\ UNCHANGED <<pos, given>>
    BY <1>7, <2>1 DEF Buying!MarkOrdered
  <2>3. p \in Pr /\ Buying!Ordered(p)
    BY <1>7, <1>l, <2>1, <2>2 DEF RequestsLinked
  <2>4. Buying!TypeOK'
    BY <1>7, <1>t, <1>i, <2>2, <2>3 DEF Buying!TypeOK, Buying!PrStatus
  <2>5. prReq'[q].step = "idle" /\ \A r \in Slot : r # q => prReq'[r] = prReq[r]
    BY <1>7, <1>t, <1>i, <2>2
  <2>6. prs'[p] = "ORDERED" /\ \A r \in Pr : r # p => prs'[r] = prs[r]
    BY <1>t, <2>2, <2>3
  <2>7. RequestsLinked'
    BY <1>l, <2>2, <2>5 DEF RequestsLinked, Buying!Ordered
  <2>8. \A r \in Pr : /\ Buying!Ordered(r)' <=> Buying!Ordered(r)
                      /\ r # p => (Buying!Busy("mark", r)' <=> Buying!Busy("mark", r))
                      /\ Buying!Busy("transition", r)' => Buying!Busy("transition", r)
    BY <1>7, <2>1, <2>2, <2>5 DEF Buying!Ordered, Buying!Busy
  <2>9. StatusExplained'
    BY <1>s, <2>2, <2>3, <2>6, <2>8 DEF StatusExplained
  <2> QED  BY <2>4, <2>7, <2>9 DEF BuyInv
<1>8. ASSUME NEW q \in Slot, Buying!Fail(q) PROVE BuyInv'
  <2>1. PICK p : p = prReq[q].pr
    OBVIOUS
  <2>2. /\ prReq' = [prReq EXCEPT ![q] = Buying!Idle] /\ UNCHANGED <<prs, pos, given>>
        /\ crossed' = IF prReq[q].step = "mark" THEN crossed \cup {p} ELSE crossed
    BY <1>8, <2>1 DEF Buying!Fail
  <2>3. prReq[q].step = "mark" => p \in Pr
    BY <1>8, <1>l, <2>1 DEF RequestsLinked
  <2>4. Buying!TypeOK'
    BY <1>8, <1>t, <1>i, <2>2, <2>3 DEF Buying!TypeOK
  <2>5. prReq'[q].step = "idle" /\ \A r \in Slot : r # q => prReq'[r] = prReq[r]
    BY <1>8, <1>t, <1>i, <2>2
  <2>6. RequestsLinked'
    BY <1>l, <2>2, <2>5 DEF RequestsLinked, Buying!Ordered
  <2>7. \A r \in Pr : /\ Buying!Ordered(r)' <=> Buying!Ordered(r)
                      /\ r \notin crossed' => (Buying!Busy("mark", r) => Buying!Busy("mark", r)')
                      /\ Buying!Busy("transition", r)' => Buying!Busy("transition", r)
    BY <1>8, <2>1, <2>2, <2>5 DEF Buying!Ordered, Buying!Busy
  <2>8. StatusExplained'
    BY <1>s, <2>2, <2>7 DEF StatusExplained
  <2> QED  BY <2>4, <2>6, <2>8 DEF BuyInv
<1>9. ASSUME UNCHANGED buyVars PROVE BuyInv'
  BY <1>9 DEF buyVars, BuyInv, Buying!TypeOK, RequestsLinked, StatusExplained, Buying!Ordered, Buying!Busy
<1> QED  BY <1>1, <1>2, <1>3, <1>4, <1>5, <1>6, <1>7, <1>8, <1>9 DEF Buying!Next

\* For any number of requests and orders: a purchase request is ORDERED exactly when it has
\* an order, and approved by finance only after IT, but where its mark was lost or crossed.
THEOREM OrdersCorrect == BackSpec => []OrdersAgree
<1>1. BuyInv => OrdersAgree
  BY DEF BuyInv, Buying!TypeOK, StatusExplained, OrdersAgree, Buying!OrdersAgree
<1>2. BackInit => BuyInv
  BY BuyInitial DEF BackInit
<1> QED  BY <1>1, <1>2, BuyStep, Steps, PTL DEF BackSpec

-----------------------------------------------------------------------------
(* PIN pads.  What the sweep has read was silent for a week; a pad that is  *)
(* away, and was not returned across another handler, is RETURNED and held  *)
(* by neither the sweep nor a confirmation.                                 *)

PadReq == [step : {"idle", "detect", "confirm", "return"},
           pad : Pad \cup {Nowhere}, seen : Tills!Row, store : Store \cup {Nowhere}]

PadsHeld == \A q \in Slot : padReq[q].step # "idle" => padReq[q].pad \in Pad

Confirming(p) == \E q \in Slot : padReq[q].step = "confirm" /\ padReq[q].pad = p

SilenceSeen ==
  /\ sweep \subseteq lapsed
  /\ \A p \in Pad : pads[p].stale \/ pads[p].status = "MISSING" => p \in lapsed

ReturnKept == \A p \in away \ raced : pads[p].status = "RETURNED" /\ p \notin sweep /\ ~Confirming(p)

PadInv == Tills!TypeOK /\ PadsHeld /\ SilenceSeen /\ ReturnKept

LEMMA PadInitial == Tills!Init => PadInv
<1> SUFFICES ASSUME Tills!Init PROVE PadInv
  OBVIOUS
<1>1. /\ pads = [p \in Pad |-> [status |-> "none", store |-> Nowhere, stale |-> FALSE]]
      /\ padReq = [q \in Slot |-> Tills!Idle]
      /\ sweep = {} /\ lapsed = {} /\ away = {} /\ raced = {}
  BY DEF Tills!Init, Tills!NoRow
<1>2. [status |-> "none", store |-> Nowhere, stale |-> FALSE] \in Tills!Row
  BY DEF Tills!Row
<1>3. Tills!Idle \in PadReq /\ Tills!Idle.step = "idle"
  BY <1>2 DEF Tills!Idle, Tills!NoRow, PadReq
<1>4. Tills!TypeOK
  BY <1>1, <1>2, <1>3 DEF Tills!TypeOK, PadReq
<1>5. PadsHeld
  BY <1>1, <1>3 DEF PadsHeld
<1> QED  BY <1>1, <1>4, <1>5 DEF PadInv, SilenceSeen, ReturnKept

LEMMA PadStep == PadInv /\ [Tills!Next]_tillVars => PadInv'
<1> SUFFICES ASSUME PadInv, [Tills!Next]_tillVars PROVE PadInv'
  OBVIOUS
<1>t. /\ pads \in [Pad -> Tills!Row] /\ padReq \in [Slot -> PadReq]
      /\ sweep \subseteq Pad /\ lapsed \subseteq Pad /\ away \subseteq Pad /\ raced \subseteq Pad
  BY DEF PadInv, Tills!TypeOK, PadReq
<1>r. \A p \in Pad : /\ pads[p].status \in {"none", "DETECTED", "ASSIGNED", "MISSING", "RETURNED", "UNKNOWN"}
                     /\ pads[p].store \in Store \cup {Nowhere} /\ pads[p].stale \in BOOLEAN
  BY <1>t DEF Tills!Row
<1>h. PadsHeld
  BY DEF PadInv
<1>s. SilenceSeen
  BY DEF PadInv
<1>k. ReturnKept
  BY DEF PadInv
<1>i. Tills!Idle \in PadReq /\ Tills!Idle.step = "idle"
  BY DEF Tills!Idle, Tills!NoRow, PadReq, Tills!Row
<1>1. ASSUME NEW p \in Pad, NEW s \in Store \cup {Nowhere}, Tills!manualCreate(p, s) PROVE PadInv'
  <2>1. PICK row : row = [status |-> IF s = Nowhere THEN "UNKNOWN" ELSE "ASSIGNED", store |-> s, stale |-> FALSE]
    OBVIOUS
  <2>2. row \in Tills!Row /\ row.status # "MISSING" /\ ~row.stale
    BY <1>1, <2>1 DEF Tills!Row
  <2>3. /\ pads' = [pads EXCEPT ![p] = row] /\ pads[p].status = "none"
        /\ UNCHANGED <<padReq, sweep, lapsed, away, raced>>
    BY <1>1, <2>1 DEF Tills!manualCreate, Tills!Exists
  <2>4. pads' \in [Pad -> Tills!Row] /\ pads'[p] = row /\ \A r \in Pad : r # p => pads'[r] = pads[r]
    BY <1>1, <1>t, <2>2, <2>3
  <2>5. Tills!TypeOK' /\ PadsHeld'
    BY <1>t, <1>h, <2>3, <2>4 DEF Tills!TypeOK, PadsHeld, PadReq
  <2>6. SilenceSeen'
    BY <1>s, <2>2, <2>3, <2>4 DEF SilenceSeen
  <2>7. ReturnKept'
    BY <1>1, <1>t, <1>k, <2>3, <2>4 DEF ReturnKept, Confirming
  <2> QED  BY <2>5, <2>6, <2>7 DEF PadInv
<1>2. ASSUME NEW p \in Pad, Tills!Silence(p) PROVE PadInv'
  <2>1. /\ pads' = [pads EXCEPT ![p].stale = TRUE] /\ lapsed' = lapsed \cup {p}
        /\ UNCHANGED <<padReq, sweep, away, raced>>
    BY <1>2 DEF Tills!Silence
  <2>2. /\ pads' \in [Pad -> Tills!Row] /\ pads'[p].status = pads[p].status
        /\ \A r \in Pad : r # p => pads'[r] = pads[r]
    BY <1>2, <1>t, <2>1 DEF Tills!Row
  <2>3. Tills!TypeOK' /\ PadsHeld'
    BY <1>2, <1>t, <1>h, <2>1, <2>2 DEF Tills!TypeOK, PadsHeld, PadReq
  <2>4. SilenceSeen'
    BY <1>s, <2>1, <2>2 DEF SilenceSeen
  <2>5. ReturnKept'
    BY <1>t, <1>k, <2>1, <2>2 DEF ReturnKept, Confirming
  <2> QED  BY <2>3, <2>4, <2>5 DEF PadInv
<1>3. ASSUME NEW q \in Slot, NEW step \in {"detect", "confirm", "return"}, NEW p \in Pad,
             NEW s \in Store \cup {Nowhere}, Tills!Find(q, step, p, s)
      PROVE  PadInv'
  <2>1. PICK row : row = [step |-> step, pad |-> p, seen |-> pads[p], store |-> s]
    OBVIOUS
  <2>2. row \in PadReq /\ row.step = step /\ row.pad = p
    BY <1>3, <1>t, <2>1 DEF PadReq
  <2>3. /\ padReq' = [padReq EXCEPT ![q] = row] /\ (step = "confirm" => pads[p].status # "RETURNED")
        /\ UNCHANGED <<pads, sweep, lapsed, away, raced>>
    BY <1>3, <2>1 DEF Tills!Find
  <2>4. /\ padReq' \in [Slot -> PadReq] /\ padReq'[q] = row
        /\ \A r \in Slot : r # q => padReq'[r] = padReq[r]
    BY <1>3, <1>t, <2>2, <2>3
  <2>5. Tills!TypeOK' /\ SilenceSeen'
    BY <1>t, <1>s, <2>3, <2>4 DEF Tills!TypeOK, SilenceSeen, PadReq
  <2>6. PadsHeld'
    BY <1>3, <1>h, <2>2, <2>4 DEF PadsHeld
  <2>7. \A r \in Pad : Confirming(r)' => Confirming(r) \/ (step = "confirm" /\ r = p)
    BY <2>2, <2>4 DEF Confirming
  <2>8. ReturnKept'
    BY <1>t, <1>k, <2>3, <2>7 DEF ReturnKept
  <2> QED  BY <2>5, <2>6, <2>8 DEF PadInv
\* What a handler leaves that ends: no request holds more than before.
<1>e. ASSUME NEW q \in Slot, padReq' = [padReq EXCEPT ![q] = Tills!Idle]
      PROVE  /\ padReq' \in [Slot -> PadReq] /\ PadsHeld'
             /\ \A p \in Pad : Confirming(p)' => Confirming(p)
             /\ \A p \in Pad : Confirming(p)' => \E r \in Slot : r # q /\ padReq[r].step = "confirm" /\ padReq[r].pad = p
  <2>1. /\ padReq' \in [Slot -> PadReq] /\ padReq'[q].step = "idle"
        /\ \A r \in Slot : r # q => padReq'[r] = padReq[r]
    BY <1>e, <1>t, <1>i
  <2>2. PadsHeld'
    BY <1>h, <2>1 DEF PadsHeld
  <2> QED  BY <2>1, <2>2 DEF Confirming
<1>4. ASSUME NEW q \in Slot, Tills!Detect(q) PROVE PadInv'
  <2>1. PICK p, row : /\ p = padReq[q].pad
                      /\ row = [status |-> Tills!nextStatus(padReq[q].seen.status),
                                store |-> padReq[q].store, stale |-> FALSE]
    OBVIOUS
  <2>2. /\ padReq[q].step = "detect" /\ pads' = [pads EXCEPT ![p] = row]
        /\ padReq' = [padReq EXCEPT ![q] = Tills!Idle] /\ away' = away \ {p} /\ UNCHANGED <<sweep, lapsed, raced>>
    BY <1>4, <2>1 DEF Tills!Detect
  <2>3. p \in Pad
    BY <1>4, <1>h, <2>1, <2>2 DEF PadsHeld
  <2>4. Tills!nextStatus(padReq[q].seen.status) \in {"UNKNOWN", "DETECTED", "ASSIGNED"}
    BY DEF Tills!nextStatus
  <2>5. row \in Tills!Row /\ row.status # "MISSING" /\ ~row.stale
    BY <1>4, <1>t, <2>1, <2>4 DEF Tills!Row, PadReq
  <2>6. pads' \in [Pad -> Tills!Row] /\ pads'[p] = row /\ \A r \in Pad : r # p => pads'[r] = pads[r]
    BY <1>t, <2>2, <2>3, <2>5
  <2>7. Tills!TypeOK' /\ PadsHeld'
    BY <1>4, <1>t, <1>e, <2>2, <2>6 DEF Tills!TypeOK, PadReq
  <2>8. SilenceSeen'
    BY <1>s, <2>2, <2>5, <2>6 DEF SilenceSeen
  <2>9. ReturnKept'
    BY <1>4, <1>t, <1>k, <1>e, <2>2, <2>6 DEF ReturnKept
  <2> QED  BY <2>7, <2>8, <2>9 DEF PadInv
<1>5. ASSUME NEW q \in Slot, Tills!confirm(q) PROVE PadInv'
  <2>1. PICK p : p = padReq[q].pad
    OBVIOUS
  <2>2. /\ padReq[q].step = "confirm" /\ pads' = [pads EXCEPT ![p].status = "ASSIGNED"]
        /\ padReq' = [padReq EXCEPT ![q] = Tills!Idle] /\ UNCHANGED <<sweep, lapsed, away, raced>>
    BY <1>5, <2>1 DEF Tills!confirm
  <2>3. p \in Pad /\ Confirming(p)
    BY <1>5, <1>h, <2>1, <2>2 DEF PadsHeld, Confirming
  <2>4. /\ pads' \in [Pad -> Tills!Row] /\ pads'[p].status = "ASSIGNED" /\ pads'[p].stale = pads[p].stale
        /\ \A r \in Pad : r # p => pads'[r] = pads[r]
    BY <1>t, <2>2, <2>3 DEF Tills!Row
  <2>5. Tills!TypeOK' /\ PadsHeld'
    BY <1>5, <1>t, <1>e, <2>2, <2>4 DEF Tills!TypeOK, PadReq
  <2>6. SilenceSeen'
    BY <1>s, <2>2, <2>4 DEF SilenceSeen
  <2>7. ReturnKept'
    <3>1. \A r \in away \ raced : r \in Pad /\ r # p
      BY <1>t, <1>k, <2>3 DEF ReturnKept
    <3>2. \A r \in away \ raced : pads'[r] = pads[r] /\ ~Confirming(r)'
      BY <1>5, <1>k, <1>e, <2>2, <2>4, <3>1 DEF ReturnKept
    <3> QED  BY <1>k, <2>2, <3>2 DEF ReturnKept
  <2> QED  BY <2>5, <2>6, <2>7 DEF PadInv
<1>6. ASSUME NEW q \in Slot, Tills!markReturned(q) PROVE PadInv'
  <2>1. PICK p : p = padReq[q].pad
    OBVIOUS
  <2>2. /\ padReq[q].step = "return" /\ pads' = [pads EXCEPT ![p].status = "RETURNED"]
        /\ padReq' = [padReq EXCEPT ![q] = Tills!Idle] /\ UNCHANGED <<sweep, lapsed>>
        /\ away' = away \cup {p}
        /\ raced' = IF p \in sweep \/ \E r \in Slot : r # q /\ padReq[r].step = "confirm" /\ padReq[r].pad = p
                    THEN raced \cup {p} ELSE raced
    BY <1>6, <2>1 DEF Tills!markReturned
  <2>3. p \in Pad
    BY <1>6, <1>h, <2>1, <2>2 DEF PadsHeld
  <2>4. /\ pads' \in [Pad -> Tills!Row] /\ pads'[p].status = "RETURNED" /\ pads'[p].stale = pads[p].stale
        /\ \A r \in Pad : r # p => pads'[r] = pads[r]
    BY <1>t, <2>2, <2>3 DEF Tills!Row
  <2>5. Tills!TypeOK' /\ PadsHeld'
    BY <1>6, <1>t, <1>e, <2>2, <2>3, <2>4 DEF Tills!TypeOK, PadReq
  <2>6. SilenceSeen'
    BY <1>s, <2>2, <2>4 DEF SilenceSeen
  <2>7. ASSUME NEW r \in away' \ raced' PROVE pads'[r].status = "RETURNED" /\ r \notin sweep' /\ ~Confirming(r)'
    <3>1. CASE r = p
      <4>1. p \notin sweep /\ ~\E o \in Slot : o # q /\ padReq[o].step = "confirm" /\ padReq[o].pad = p
        BY <2>2, <2>7, <3>1
      <4> QED  BY <1>6, <1>e, <2>2, <2>3, <2>4, <3>1, <4>1
    <3>2. CASE r # p
      <4>1. r \in away \ raced /\ r \in Pad
        BY <1>t, <2>2, <2>7, <3>2
      <4> QED  BY <1>6, <1>k, <1>e, <2>2, <2>4, <3>2, <4>1 DEF ReturnKept
    <3> QED  BY <3>1, <3>2
  <2>8. ReturnKept'
    BY <2>7 DEF ReturnKept
  <2> QED  BY <2>5, <2>6, <2>8 DEF PadInv
<1>7. ASSUME NEW q \in Slot, Tills!Fail(q) PROVE PadInv'
  <2>1. padReq' = [padReq EXCEPT ![q] = Tills!Idle] /\ UNCHANGED <<pads, sweep, lapsed, away, raced>>
    BY <1>7 DEF Tills!Fail
  <2>2. Tills!TypeOK' /\ PadsHeld' /\ SilenceSeen'
    BY <1>7, <1>t, <1>s, <1>e, <2>1 DEF Tills!TypeOK, SilenceSeen, PadReq
  <2>3. ReturnKept'
    BY <1>7, <1>t, <1>k, <1>e, <2>1 DEF ReturnKept
  <2> QED  BY <2>2, <2>3 DEF PadInv
<1>8. ASSUME Tills!ReadStale PROVE PadInv'
  <2>1. /\ sweep' = Tills!Stale /\ UNCHANGED <<pads, padReq, lapsed, away, raced>>
        /\ \A p \in Tills!Stale : p \in Pad /\ pads[p].stale /\ pads[p].status # "RETURNED"
    BY <1>8 DEF Tills!ReadStale, Tills!Stale
  <2>2. Tills!TypeOK' /\ PadsHeld'
    BY <1>t, <1>h, <2>1 DEF Tills!TypeOK, PadsHeld, PadReq
  <2>3. SilenceSeen'
    BY <1>s, <2>1 DEF SilenceSeen
  <2>4. ReturnKept'
    BY <1>k, <2>1 DEF ReturnKept, Confirming
  <2> QED  BY <2>2, <2>3, <2>4 DEF PadInv
<1>9. ASSUME Tills!markStaleMissing PROVE PadInv'
  <2>1. /\ pads' = [p \in Pad |-> IF p \in sweep THEN [pads[p] EXCEPT !.status = "MISSING"] ELSE pads[p]]
        /\ sweep' = {} /\ UNCHANGED <<padReq, lapsed, away, raced>>
    BY <1>9 DEF Tills!markStaleMissing
  <2>2. /\ pads' \in [Pad -> Tills!Row]
        /\ \A p \in Pad : /\ pads'[p].stale = pads[p].stale
                          /\ p \notin sweep => pads'[p] = pads[p]
    BY <1>t, <2>1 DEF Tills!Row
  <2>3. Tills!TypeOK' /\ PadsHeld'
    BY <1>t, <1>h, <2>1, <2>2 DEF Tills!TypeOK, PadsHeld, PadReq
  <2>4. SilenceSeen'
    BY <1>s, <2>1, <2>2 DEF SilenceSeen
  <2>5. ReturnKept'
    BY <1>t, <1>k, <2>1, <2>2 DEF ReturnKept, Confirming
  <2> QED  BY <2>3, <2>4, <2>5 DEF PadInv
<1>10. ASSUME Tills!SweepFails PROVE PadInv'
  <2>1. sweep' = {} /\ UNCHANGED <<pads, padReq, lapsed, away, raced>>
    BY <1>10 DEF Tills!SweepFails
  <2>2. Tills!TypeOK' /\ PadsHeld' /\ SilenceSeen' /\ ReturnKept'
    BY <1>t, <1>h, <1>s, <1>k, <2>1 DEF Tills!TypeOK, PadsHeld, SilenceSeen, ReturnKept, Confirming, PadReq
  <2> QED  BY <2>2 DEF PadInv
<1>11. ASSUME UNCHANGED tillVars PROVE PadInv'
  BY <1>11 DEF tillVars, PadInv, Tills!TypeOK, PadsHeld, SilenceSeen, ReturnKept, Confirming
<1> QED  BY <1>1, <1>2, <1>3, <1>4, <1>5, <1>6, <1>7, <1>8, <1>9, <1>10, <1>11 DEF Tills!Next

\* For any number of pads and requests: a pad is MISSING only after a week of silence, and
\* one that was returned stays RETURNED until it is detected, but where a confirmation or a
\* sweep that had read it wrote after its return.
THEOREM PadsCorrect == BackSpec => []PadStatusExplained
<1>1. PadInv => PadStatusExplained
  BY DEF PadInv, Tills!TypeOK, SilenceSeen, ReturnKept, PadStatusExplained, Tills!PadStatusExplained
<1>2. BackInit => PadInv
  BY PadInitial DEF BackInit
<1> QED  BY <1>1, <1>2, PadStep, Steps, PTL DEF BackSpec

-----------------------------------------------------------------------------
(* Router subnets.  A configuration has an octet the pool has passed, or    *)
(* one that was typed in; a request that generates one holds the octet after*)
(* the last it read, or one that was typed in.                              *)

LEMMA LeastNatural ==
  ASSUME NEW T \in SUBSET Nat, T # {} PROVE \E x \in T : \A y \in T : x <= y
<1>1. PICK x \in T : \A y \in T : <<y, x>> \notin OpToRel(<, Nat)
  BY WFMin, NatLessThanWellFounded
<1>2. \A y \in T : <<y, x>> \in Nat \X Nat
  OBVIOUS
<1>3. \A y \in T : ~(y < x)
  BY <1>1, <1>2 DEF OpToRel
<1> QED  BY <1>3

\* The largest of a bounded set of numbers is one of them, and no other exceeds it.
LEMMA Largest ==
  ASSUME NEW m \in Nat, NEW S \in SUBSET (0..m), S # {}
  PROVE  Pool!Max(S) \in S /\ \A y \in S : y <= Pool!Max(S)
<1> DEFINE T == {m - y : y \in S}
<1>1. T \in SUBSET Nat /\ T # {}
  <2>1. \A y \in S : m - y \in Nat
    OBVIOUS
  <2> QED  BY <2>1
<1>2. PICK x \in T : \A y \in T : x <= y
  BY <1>1, LeastNatural
<1>3. PICK z \in S : x = m - z
  BY <1>2
<1>4. \A y \in S : z >= y
  BY <1>2, <1>3
<1> QED  BY <1>3, <1>4 DEF Pool!Max

PoolReq == [step : {"idle", "generate", "delete"}, config : Config \cup {Nowhere},
            octet : -1..MaxOctet, last : -1..MaxOctet]

PoolHeld ==
  \A q \in Slot :
    /\ poolReq[q].step = "generate" =>
         /\ poolReq[q].octet \in 0..MaxOctet /\ poolReq[q].last \in 0..MaxOctet
         /\ poolReq[q].octet \in chosen \/ poolReq[q].octet = poolReq[q].last + 1
    /\ poolReq[q].step = "delete" => poolReq[q].config \in Config /\ poolReq[q].octet \in 0..MaxOctet

PoolPassed ==
  \A c \in Config : configs[c] = -1 \/ configs[c] <= lastThirdOctet \/ configs[c] \in chosen

PoolInv == Pool!TypeOK /\ PoolHeld /\ (~stale => PoolPassed) /\ Pool!SubnetsDistinct

LEMMA PoolInitial == Pool!Init => PoolInv
<1> SUFFICES ASSUME Pool!Init PROVE PoolInv
  OBVIOUS
<1>1. /\ lastThirdOctet = 0 /\ configs = [c \in Config |-> -1] /\ chosen = {} /\ stale = FALSE
      /\ poolReq = [q \in Slot |-> [step |-> "idle", config |-> Nowhere, octet |-> -1, last |-> -1]]
  BY DEF Pool!Init, Pool!Idle
<1>2. 0 \in 0..MaxOctet /\ -1 \in -1..MaxOctet
  BY BackOfficeAssumption
<1>3. Pool!TypeOK
  BY <1>1, <1>2 DEF Pool!TypeOK
<1>4. \A c \in Config : configs[c] = -1
  BY <1>1
<1>5. \A q \in Slot : poolReq[q].step = "idle"
  BY <1>1
<1> QED  BY <1>3, <1>4, <1>5 DEF PoolInv, PoolHeld, PoolPassed, Pool!SubnetsDistinct

\* A rewound pool has passed every octet that remains and that it had passed.
LEMMA RewoundPasses ==
  ASSUME Pool!TypeOK, NEW c \in Config
  PROVE  /\ Pool!Rewound(c) \in 0..MaxOctet
         /\ \A d \in Config : d # c /\ configs[d] # -1 /\ configs[d] <= lastThirdOctet
                                => configs[d] <= Pool!Rewound(c)
<1> DEFINE rest == Pool!Octets([configs EXCEPT ![c] = -1])
<1>1. /\ configs \in [Config -> -1..MaxOctet] /\ lastThirdOctet \in 0..MaxOctet /\ MaxOctet \in Nat
  BY BackOfficeAssumption DEF Pool!TypeOK
<1>2. \A d \in Config : [configs EXCEPT ![c] = -1][d] = IF d = c THEN -1 ELSE configs[d]
  BY <1>1
<1>3. rest \in SUBSET (0..MaxOctet)
  BY <1>1, <1>2 DEF Pool!Octets
<1>4. \A d \in Config : d # c /\ configs[d] # -1 => configs[d] \in rest
  BY <1>2 DEF Pool!Octets
<1>5. Pool!Rewound(c) = IF configs[c] # lastThirdOctet THEN lastThirdOctet
                        ELSE IF rest # {} THEN Pool!Max(rest) ELSE Pool!Max({lastThirdOctet - 1, 0})
  BY DEF Pool!Rewound
<1> HIDE DEF rest
<1>6. rest # {} => Pool!Max(rest) \in 0..MaxOctet /\ \A o \in rest : o <= Pool!Max(rest)
  BY <1>1, <1>3, Largest
<1>7. Pool!Max({lastThirdOctet - 1, 0}) \in 0..MaxOctet
  <2>1. CASE lastThirdOctet = 0
    <3>1. Pool!Max({-1, 0}) = 0
      BY DEF Pool!Max
    <3>2. lastThirdOctet - 1 = -1
      BY <2>1
    <3> QED  BY <1>1, <3>1, <3>2
  <2>2. CASE lastThirdOctet # 0
    <3>1. {lastThirdOctet - 1, 0} \in SUBSET (0..MaxOctet)
      BY <1>1, <2>2
    <3> QED  BY <1>1, <3>1, Largest
  <2> QED  BY <2>1, <2>2
<1> QED  BY <1>1, <1>4, <1>5, <1>6, <1>7

LEMMA PoolStep == PoolInv /\ [Pool!Next]_poolVars => PoolInv'
<1> SUFFICES ASSUME PoolInv, [Pool!Next]_poolVars PROVE PoolInv'
  OBVIOUS
<1>t. /\ lastThirdOctet \in 0..MaxOctet /\ configs \in [Config -> -1..MaxOctet]
      /\ poolReq \in [Slot -> PoolReq] /\ chosen \subseteq 0..MaxOctet /\ stale \in BOOLEAN
      /\ MaxOctet \in Nat
  BY BackOfficeAssumption DEF PoolInv, Pool!TypeOK, PoolReq
<1>c. \A c \in Config : configs[c] \in Int /\ configs[c] >= -1
  BY <1>t
<1>h. PoolHeld
  BY DEF PoolInv
<1>p. ~stale => PoolPassed
  BY DEF PoolInv
<1>d. ~stale => \A c, d \in Config : c # d /\ configs[c] # -1 /\ configs[c] = configs[d] => configs[c] \in chosen
  BY DEF PoolInv, Pool!SubnetsDistinct
<1>i. Pool!Idle \in PoolReq /\ Pool!Idle.step = "idle"
  BY <1>t DEF Pool!Idle, PoolReq
<1>1. ASSUME NEW n \in 0..MaxOctet, Pool!updatePool(n) PROVE PoolInv'
  <2>1. /\ lastThirdOctet' = n /\ chosen' = chosen \cup (n + 1)..lastThirdOctet
        /\ UNCHANGED <<configs, poolReq, stale>>
    BY <1>1 DEF Pool!updatePool
  <2>2. (n + 1)..lastThirdOctet \subseteq 0..MaxOctet
    BY <1>1, <1>t
  <2>3. Pool!TypeOK'
    BY <1>1, <1>t, <2>1, <2>2 DEF Pool!TypeOK, PoolReq
  <2>4. PoolHeld'
    BY <1>h, <2>1 DEF PoolHeld
  <2>5. ~stale' => PoolPassed'
    BY <1>1, <1>t, <1>c, <1>p, <2>1 DEF PoolPassed
  <2>6. Pool!SubnetsDistinct'
    BY <1>d, <2>1 DEF Pool!SubnetsDistinct
  <2> QED  BY <2>3, <2>4, <2>5, <2>6 DEF PoolInv
\* A request reads the pool, or ends: the tables stay.
<1>2. ASSUME NEW q \in Slot, NEW row \in PoolReq, poolReq' = [poolReq EXCEPT ![q] = row],
             NEW more \in SUBSET (0..MaxOctet), chosen' = chosen \cup more,
             UNCHANGED <<lastThirdOctet, configs, stale>>,
             row.step = "generate" => /\ row.octet \in 0..MaxOctet /\ row.last \in 0..MaxOctet
                                      /\ row.octet \in chosen' \/ row.octet = row.last + 1,
             row.step = "delete" => row.config \in Config /\ row.octet \in 0..MaxOctet
      PROVE  PoolInv'
  <2>1. /\ poolReq' \in [Slot -> PoolReq] /\ poolReq'[q] = row
        /\ \A r \in Slot : r # q => poolReq'[r] = poolReq[r]
    BY <1>2, <1>t
  <2>2. Pool!TypeOK'
    BY <1>2, <1>t, <2>1 DEF Pool!TypeOK, PoolReq
  <2>3. PoolHeld'
    BY <1>2, <1>h, <2>1 DEF PoolHeld
  <2>4. ~stale' => PoolPassed'
    BY <1>2, <1>p DEF PoolPassed
  <2>5. Pool!SubnetsDistinct'
    BY <1>2, <1>d DEF Pool!SubnetsDistinct
  <2> QED  BY <2>2, <2>3, <2>4, <2>5 DEF PoolInv
<1>3. ASSUME NEW q \in Slot, Pool!generate(q) PROVE PoolInv'
  <2> DEFINE row == [poolReq[q] EXCEPT !.step = "generate", !.octet = lastThirdOctet + 1, !.last = lastThirdOctet]
  <2>1. /\ poolReq' = [poolReq EXCEPT ![q] = row]
        /\ lastThirdOctet + 1 \in 0..MaxOctet /\ lastThirdOctet + 1 \in -1..MaxOctet
        /\ lastThirdOctet \in -1..MaxOctet /\ UNCHANGED <<lastThirdOctet, configs, chosen, stale>>
    <3>1. /\ poolReq' = [poolReq EXCEPT ![q].step = "generate", ![q].octet = lastThirdOctet + 1,
                                      ![q].last = lastThirdOctet]
          /\ lastThirdOctet + 1 <= MaxOctet /\ UNCHANGED <<lastThirdOctet, configs, chosen, stale>>
      BY <1>3 DEF Pool!generate
    <3>2. poolReq' = [poolReq EXCEPT ![q] = row]
      BY <1>3, <1>t, <3>1
    <3>3. lastThirdOctet \in Nat /\ lastThirdOctet <= MaxOctet /\ MaxOctet \in Nat
      BY <1>t
    <3>4. /\ lastThirdOctet + 1 \in 0..MaxOctet /\ lastThirdOctet + 1 \in -1..MaxOctet
          /\ lastThirdOctet \in -1..MaxOctet
      BY <3>1, <3>3
    <3> QED  BY <3>1, <3>2, <3>4
  <2>2. /\ row \in PoolReq /\ row.step = "generate"
        /\ row.octet = lastThirdOctet + 1 /\ row.last = lastThirdOctet
    <3>1. poolReq[q] \in PoolReq
      BY <1>3, <1>t
    <3> QED  BY <2>1, <3>1 DEF PoolReq
  <2> HIDE DEF row
  <2>3. chosen' = chosen \cup {} /\ {} \in SUBSET (0..MaxOctet)
    BY <2>1
  <2> QED  BY <1>2, <1>3, <1>t, <2>1, <2>2, <2>3
<1>4. ASSUME NEW q \in Slot, NEW n \in 0..MaxOctet, Pool!generateOverride(q, n) PROVE PoolInv'
  <2> DEFINE row == [poolReq[q] EXCEPT !.step = "generate", !.octet = n, !.last = lastThirdOctet]
  <2>1. /\ poolReq' = [poolReq EXCEPT ![q] = row] /\ chosen' = chosen \cup {n}
        /\ UNCHANGED <<lastThirdOctet, configs, stale>>
    BY <1>4, <1>t DEF Pool!generateOverride, PoolReq
  <2>2. row \in PoolReq /\ row.step = "generate" /\ row.octet = n /\ row.last = lastThirdOctet
    <3>1. poolReq[q] \in PoolReq /\ n \in -1..MaxOctet /\ lastThirdOctet \in -1..MaxOctet
      BY <1>4, <1>t
    <3> QED  BY <3>1 DEF PoolReq
  <2> HIDE DEF row
  <2>3. {n} \in SUBSET (0..MaxOctet) /\ n \in chosen'
    BY <1>4, <2>1
  <2> QED  BY <1>2, <1>4, <1>t, <2>1, <2>2, <2>3
<1>5. ASSUME NEW q \in Slot, NEW c \in Config, Pool!SaveConfig(q, c) PROVE PoolInv'
  <2>1. PICK n, l : n = poolReq[q].octet /\ l = poolReq[q].last
    OBVIOUS
  <2>2. /\ poolReq[q].step = "generate" /\ configs' = [configs EXCEPT ![c] = n]
        /\ lastThirdOctet' = IF n > l THEN n ELSE lastThirdOctet
        /\ stale' = (stale \/ lastThirdOctet # l)
        /\ poolReq' = [poolReq EXCEPT ![q] = Pool!Idle] /\ chosen' = chosen
    BY <1>5, <2>1 DEF Pool!SaveConfig
  <2>3. n \in 0..MaxOctet /\ l \in 0..MaxOctet /\ (n \in chosen \/ n = l + 1)
    BY <1>5, <1>h, <2>1, <2>2 DEF PoolHeld
  <2>4. /\ poolReq' \in [Slot -> PoolReq] /\ poolReq'[q].step = "idle"
        /\ \A r \in Slot : r # q => poolReq'[r] = poolReq[r]
    BY <1>5, <1>t, <1>i, <2>2
  <2>5. /\ configs' \in [Config -> -1..MaxOctet] /\ configs'[c] = n
        /\ \A d \in Config : d # c => configs'[d] = configs[d]
    BY <1>5, <1>t, <2>2, <2>3
  <2>6. Pool!TypeOK'
    BY <1>t, <2>2, <2>3, <2>4, <2>5 DEF Pool!TypeOK, PoolReq
  <2>7. PoolHeld'
    BY <1>h, <2>2, <2>4 DEF PoolHeld
  <2>8. ASSUME ~stale' PROVE PoolPassed' /\ \A d \in Config : d # c /\ configs[d] = n => n \in chosen
    <3>1. ~stale /\ lastThirdOctet = l /\ PoolPassed
      BY <1>t, <1>p, <2>2, <2>8
    <3>2. n \in chosen \/ (n = lastThirdOctet + 1 /\ lastThirdOctet' = n)
      BY <2>2, <2>3, <3>1
    <3>3. lastThirdOctet' >= lastThirdOctet
      BY <1>t, <2>2, <2>3, <3>1
    <3>4. PoolPassed'
      BY <1>5, <1>t, <1>c, <2>2, <2>3, <2>5, <3>1, <3>2, <3>3 DEF PoolPassed
    <3> QED  BY <1>t, <1>c, <2>3, <3>1, <3>2, <3>4 DEF PoolPassed
  <2>9. Pool!SubnetsDistinct'
    <3> SUFFICES ASSUME ~stale', NEW a \in Config, NEW b \in Config, a # b,
                        configs'[a] # -1, configs'[a] = configs'[b]
                 PROVE  configs'[a] \in chosen'
      BY DEF Pool!SubnetsDistinct
    <3>1. CASE a = c \/ b = c
      BY <2>2, <2>5, <2>8, <3>1
    <3>2. CASE a # c /\ b # c
      BY <1>d, <2>2, <2>5, <3>2
    <3> QED  BY <3>1, <3>2
  <2> QED  BY <2>6, <2>7, <2>8, <2>9 DEF PoolInv
<1>6. ASSUME NEW q \in Slot, NEW c \in Config, Pool!deleteConfig(q, c) PROVE PoolInv'
  <2>1. PICK row : row = [step |-> "delete", config |-> c, octet |-> Pool!Rewound(c), last |-> lastThirdOctet]
    OBVIOUS
  <2>2. poolReq' = [poolReq EXCEPT ![q] = row] /\ UNCHANGED <<lastThirdOctet, configs, chosen, stale>>
    BY <1>6, <2>1 DEF Pool!deleteConfig
  <2>3. Pool!Rewound(c) \in 0..MaxOctet
    BY <1>6, RewoundPasses DEF PoolInv
  <2>4. row \in PoolReq /\ row.step = "delete" /\ row.config = c /\ row.octet \in 0..MaxOctet
    BY <1>6, <1>t, <2>1, <2>3 DEF PoolReq
  <2>5. chosen' = chosen \cup {} /\ {} \in SUBSET (0..MaxOctet)
    BY <2>2
  <2> QED  BY <1>2, <1>6, <2>2, <2>4, <2>5
<1>7. ASSUME NEW q \in Slot, Pool!CommitDelete(q) PROVE PoolInv'
  <2>1. PICK c, last : /\ c = poolReq[q].config
                       /\ last = IF poolReq[q].octet # poolReq[q].last THEN poolReq[q].octet ELSE lastThirdOctet
    OBVIOUS
  <2>2. /\ poolReq[q].step = "delete" /\ configs' = [configs EXCEPT ![c] = -1] /\ lastThirdOctet' = last
        /\ stale' = (stale \/ Pool!Rewound(c) # last)
        /\ poolReq' = [poolReq EXCEPT ![q] = Pool!Idle] /\ chosen' = chosen
    BY <1>7, <2>1 DEF Pool!CommitDelete
  <2>3. c \in Config /\ last \in 0..MaxOctet
    BY <1>7, <1>h, <1>t, <2>1, <2>2 DEF PoolHeld
  <2>4. /\ poolReq' \in [Slot -> PoolReq] /\ poolReq'[q].step = "idle"
        /\ \A r \in Slot : r # q => poolReq'[r] = poolReq[r]
    BY <1>7, <1>t, <1>i, <2>2
  <2>5. /\ configs' \in [Config -> -1..MaxOctet] /\ configs'[c] = -1
        /\ \A d \in Config : d # c => configs'[d] = configs[d]
    BY <1>t, <2>2, <2>3
  <2>6. Pool!TypeOK'
    BY <1>t, <2>2, <2>3, <2>4, <2>5 DEF Pool!TypeOK, PoolReq
  <2>7. PoolHeld'
    BY <1>h, <2>2, <2>4 DEF PoolHeld
  <2>8. ASSUME ~stale' PROVE PoolPassed'
    <3>1. ~stale /\ lastThirdOctet' = Pool!Rewound(c) /\ PoolPassed
      BY <1>t, <1>p, <2>2, <2>8
    <3>2. \A d \in Config : d # c /\ configs[d] # -1 /\ configs[d] <= lastThirdOctet
                              => configs[d] <= Pool!Rewound(c)
      BY <2>3, RewoundPasses DEF PoolInv
    <3> QED  BY <2>2, <2>5, <3>1, <3>2 DEF PoolPassed
  <2>9. Pool!SubnetsDistinct'
    BY <1>t, <1>d, <2>2, <2>3, <2>5 DEF Pool!SubnetsDistinct
  <2> QED  BY <2>6, <2>7, <2>8, <2>9 DEF PoolInv
<1>8. ASSUME NEW q \in Slot, Pool!Fail(q) PROVE PoolInv'
  <2>1. poolReq' = [poolReq EXCEPT ![q] = Pool!Idle] /\ UNCHANGED <<lastThirdOctet, configs, chosen, stale>>
    BY <1>8 DEF Pool!Fail
  <2>2. chosen' = chosen \cup {} /\ {} \in SUBSET (0..MaxOctet)
    BY <2>1
  <2> QED  BY <1>2, <1>8, <1>i, <2>1, <2>2
<1>9. ASSUME UNCHANGED poolVars PROVE PoolInv'
  BY <1>9 DEF poolVars, PoolInv, Pool!TypeOK, PoolHeld, PoolPassed, Pool!SubnetsDistinct
<1> QED  BY <1>1, <1>3, <1>4, <1>5, <1>6, <1>7, <1>8, <1>9 DEF Pool!Next

\* For any number of configurations and any range of octets: no two stores of a brand share a
\* subnet, but for the octets typed in, those below which the pool was set back by hand, and
\* what was worked out before another request changed the pool.
THEOREM SubnetsCorrect == BackSpec => []SubnetsDistinct
<1>1. PoolInv => SubnetsDistinct
  BY DEF PoolInv, SubnetsDistinct
<1>2. BackInit => PoolInv
  BY PoolInitial DEF BackInit
<1> QED  BY <1>1, <1>2, PoolStep, Steps, PTL DEF BackSpec

-----------------------------------------------------------------------------
(* PCs and their keys.  Types first; then the keys; then the tokens.        *)

FleetReq == [step : {"idle", "upsert", "revoke", "mint", "bind", "link", "spend"},
             token : Token \cup {Nowhere}, pc : Pc \cup {Nowhere},
             old : Fleet!Key \cup {Nowhere}, new : Fleet!Key \cup {Nowhere}]

\* An enrolment at work has a token; one that replaces a key has its PC, and in the
\* end the new key.
EnrolmentsHeld ==
  \A q \in Slot :
    /\ pcReq[q].step = "idle" <=> pcReq[q].token \notin Token
    /\ Fleet!Rekeying(q) => pcReq[q].pc \in Pc
    /\ pcReq[q].step \in {"bind", "link"} => pcReq[q].new \in Fleet!Key

FleetTyped == Fleet!TypeOK /\ EnrolmentsHeld

LEMMA FleetInitial == Fleet!Init => FleetTyped
<1> SUFFICES ASSUME Fleet!Init PROVE FleetTyped
  OBVIOUS
<1>1. /\ tokens = [t \in Token |-> [left |-> 0, state |-> "none"]]
      /\ pcs = [p \in Pc |-> [state |-> "none", key |-> Nowhere]]
      /\ keys = [k \in Fleet!Key |-> [state |-> "none", pc |-> Nowhere]]
      /\ pcReq = [q \in Slot |-> [step |-> "idle", token |-> Nowhere, pc |-> Nowhere,
                                  old |-> Nowhere, new |-> Nowhere]]
      /\ byHand = {} /\ disturbed = {}
  BY DEF Fleet!Init, Fleet!Idle
<1>2. Fleet!TypeOK
  BY <1>1 DEF Fleet!TypeOK
<1>3. \A q \in Slot : pcReq[q].step = "idle" /\ pcReq[q].token \notin Token
  BY <1>1, BackOfficeAssumption
<1> QED  BY <1>2, <1>3 DEF FleetTyped, EnrolmentsHeld, Fleet!Rekeying

\* What the tables are made of, spelled out.
LEMMA FleetRows ==
  Fleet!TypeOK <=>
    /\ tokens \in [Token -> [left : Int, state : {"none", "live", "expired", "revoked"}]]
    /\ pcs \in [Pc -> [state : {"none", "enrolled", "deleted"}, key : Fleet!Key \cup {Nowhere}]]
    /\ keys \in [Fleet!Key -> [state : {"none", "live", "revoked"}, pc : Pc \cup {Nowhere}]]
    /\ pcReq \in [Slot -> FleetReq] /\ byHand \subseteq Fleet!Key /\ disturbed \subseteq Pc
  BY DEF Fleet!TypeOK, FleetReq

LEMMA FleetTypedStep == FleetTyped /\ [Fleet!Next]_fleetVars => FleetTyped'
<1> SUFFICES ASSUME FleetTyped, [Fleet!Next]_fleetVars PROVE FleetTyped'
  OBVIOUS
<1>t. /\ tokens \in [Token -> [left : Int, state : {"none", "live", "expired", "revoked"}]]
      /\ pcs \in [Pc -> [state : {"none", "enrolled", "deleted"}, key : Fleet!Key \cup {Nowhere}]]
      /\ keys \in [Fleet!Key -> [state : {"none", "live", "revoked"}, pc : Pc \cup {Nowhere}]]
      /\ pcReq \in [Slot -> FleetReq] /\ byHand \subseteq Fleet!Key /\ disturbed \subseteq Pc
  BY FleetRows DEF FleetTyped
<1>h. EnrolmentsHeld
  BY DEF FleetTyped
<1>u. Uses \in Int /\ Nowhere \notin Token
  BY BackOfficeAssumption
\* The tables may change within their types while the requests stay.
<1>1. ASSUME UNCHANGED pcReq,
             tokens' \in [Token -> [left : Int, state : {"none", "live", "expired", "revoked"}]],
             pcs' \in [Pc -> [state : {"none", "enrolled", "deleted"}, key : Fleet!Key \cup {Nowhere}]],
             keys' \in [Fleet!Key -> [state : {"none", "live", "revoked"}, pc : Pc \cup {Nowhere}]],
             byHand' \subseteq Fleet!Key, disturbed' \subseteq Pc
      PROVE  FleetTyped'
  BY <1>1, <1>t, <1>h DEF FleetTyped, Fleet!TypeOK, FleetReq, EnrolmentsHeld, Fleet!Rekeying
\* A request goes on with a row that is held as well.
<1>2. ASSUME NEW q \in Slot, NEW row \in FleetReq, pcReq' = [pcReq EXCEPT ![q] = row],
             row.step = "idle" <=> row.token \notin Token,
             row.step \in {"revoke", "mint", "bind", "link"} => row.pc \in Pc,
             row.step \in {"bind", "link"} => row.new \in Fleet!Key,
             tokens' \in [Token -> [left : Int, state : {"none", "live", "expired", "revoked"}]],
             pcs' \in [Pc -> [state : {"none", "enrolled", "deleted"}, key : Fleet!Key \cup {Nowhere}]],
             keys' \in [Fleet!Key -> [state : {"none", "live", "revoked"}, pc : Pc \cup {Nowhere}]],
             byHand' \subseteq Fleet!Key, disturbed' \subseteq Pc
      PROVE  FleetTyped'
  <2>1. /\ pcReq' \in [Slot -> FleetReq] /\ pcReq'[q] = row
        /\ \A r \in Slot : r # q => pcReq'[r] = pcReq[r]
    BY <1>2, <1>t
  <2>2. Fleet!TypeOK'
    BY <1>2, <2>1 DEF Fleet!TypeOK, FleetReq
  <2>3. EnrolmentsHeld'
    BY <1>2, <1>h, <2>1 DEF EnrolmentsHeld, Fleet!Rekeying
  <2> QED  BY <2>2, <2>3 DEF FleetTyped
<1>3. ASSUME NEW t \in Token, Fleet!issueToken(t) \/ Fleet!Expire(t) \/ Fleet!revokeToken(t) PROVE FleetTyped'
  <2>1. tokens' \in [Token -> [left : Int, state : {"none", "live", "expired", "revoked"}]]
    BY <1>3, <1>t, <1>u DEF Fleet!issueToken, Fleet!Expire, Fleet!revokeToken
  <2>2. UNCHANGED <<pcs, keys, pcReq, byHand, disturbed>>
    BY <1>3 DEF Fleet!issueToken, Fleet!Expire, Fleet!revokeToken
  <2> QED  BY <1>1, <1>t, <2>1, <2>2
<1>4. ASSUME NEW k \in Fleet!Key, Fleet!revokeKey(k) PROVE FleetTyped'
  <2>1. keys' \in [Fleet!Key -> [state : {"none", "live", "revoked"}, pc : Pc \cup {Nowhere}]]
    BY <1>4, <1>t DEF Fleet!revokeKey
  <2>2. UNCHANGED <<tokens, pcs, pcReq, disturbed>> /\ byHand' = byHand \cup {k}
    BY <1>4 DEF Fleet!revokeKey
  <2> QED  BY <1>1, <1>4, <1>t, <2>1, <2>2
<1>5. ASSUME NEW p \in Pc, Fleet!DeletePc(p) PROVE FleetTyped'
  <2>1. pcs' \in [Pc -> [state : {"none", "enrolled", "deleted"}, key : Fleet!Key \cup {Nowhere}]]
    BY <1>5, <1>t DEF Fleet!DeletePc
  <2>2. UNCHANGED <<tokens, keys, pcReq, byHand, disturbed>>
    BY <1>5 DEF Fleet!DeletePc
  <2> QED  BY <1>1, <1>t, <2>1, <2>2
<1>6. ASSUME NEW q \in Slot, NEW t \in Token, Fleet!Redeem(q, t) PROVE FleetTyped'
  <2> DEFINE row == [pcReq[q] EXCEPT !.step = "upsert", !.token = t]
  <2>1. row \in FleetReq /\ row.step = "upsert" /\ row.token = t
    BY ZenonT(60), <1>6, <1>t DEF FleetReq
  <2>2. pcReq' = [pcReq EXCEPT ![q] = row] /\ UNCHANGED <<tokens, pcs, keys, byHand, disturbed>>
    BY <1>6, <1>t DEF Fleet!Redeem
  <2> HIDE DEF row
  <2> QED  BY <1>2, <1>6, <1>t, <2>1, <2>2
<1>7. ASSUME NEW q \in Slot, NEW p \in Pc, Fleet!UpsertPc(q, p) PROVE FleetTyped'
  <2> DEFINE row == [pcReq[q] EXCEPT !.step = "revoke", !.pc = p, !.old = pcs[p].key]
  <2>1. row \in FleetReq /\ row.step = "revoke" /\ row.token = pcReq[q].token /\ row.pc = p
    BY ZenonT(60), <1>7, <1>t DEF FleetReq
  <2>2. /\ pcReq[q].step = "upsert" /\ pcReq' = [pcReq EXCEPT ![q] = row]
        /\ pcs' = [pcs EXCEPT ![p].state = "enrolled"]
        /\ disturbed' \in {disturbed, disturbed \cup {p}} /\ UNCHANGED <<tokens, keys, byHand>>
    BY <1>7, <1>t DEF Fleet!UpsertPc
  <2>3. pcReq[q].token \in Token
    BY <1>7, <1>h, <2>2 DEF EnrolmentsHeld
  <2>4. pcs' \in [Pc -> [state : {"none", "enrolled", "deleted"}, key : Fleet!Key \cup {Nowhere}]]
    BY <1>7, <1>t, <2>2
  <2> HIDE DEF row
  <2> QED  BY ZenonT(60), <1>2, <1>7, <1>t, <2>1, <2>2, <2>3, <2>4
<1>8. ASSUME NEW q \in Slot, Fleet!RevokeOld(q) PROVE FleetTyped'
  <2> DEFINE row == [pcReq[q] EXCEPT !.step = "mint", !.old = Nowhere]
  <2>1. row \in FleetReq /\ row.step = "mint" /\ row.token = pcReq[q].token /\ row.pc = pcReq[q].pc
    BY ZenonT(60), <1>8, <1>t DEF FleetReq
  <2>2. /\ pcReq[q].step = "revoke" /\ pcReq' = [pcReq EXCEPT ![q] = row]
        /\ keys' = [k \in Fleet!Key |-> IF k = pcReq[q].old THEN [keys[k] EXCEPT !.state = "revoked"] ELSE keys[k]]
        /\ UNCHANGED <<tokens, pcs, byHand, disturbed>>
    BY <1>8, <1>t DEF Fleet!RevokeOld
  <2>3. pcReq[q].token \in Token /\ pcReq[q].pc \in Pc
    BY <1>8, <1>h, <2>2 DEF EnrolmentsHeld, Fleet!Rekeying
  <2>4. keys' \in [Fleet!Key -> [state : {"none", "live", "revoked"}, pc : Pc \cup {Nowhere}]]
    BY <1>t, <2>2
  <2> HIDE DEF row
  <2> QED  BY <1>2, <1>8, <1>t, <2>1, <2>2, <2>3, <2>4
<1>9. ASSUME NEW q \in Slot, NEW k \in Fleet!Key, Fleet!Mint(q, k) PROVE FleetTyped'
  <2> DEFINE row == [pcReq[q] EXCEPT !.step = "bind", !.new = k]
  <2>1. row \in FleetReq /\ row.step = "bind" /\ row.token = pcReq[q].token /\ row.pc = pcReq[q].pc /\ row.new = k
    BY ZenonT(60), <1>9, <1>t DEF FleetReq
  <2>2. /\ pcReq[q].step = "mint" /\ pcReq' = [pcReq EXCEPT ![q] = row]
        /\ keys' = [keys EXCEPT ![k].state = "live"] /\ UNCHANGED <<tokens, pcs, byHand, disturbed>>
    BY <1>9, <1>t DEF Fleet!Mint
  <2>3. pcReq[q].token \in Token /\ pcReq[q].pc \in Pc
    BY <1>9, <1>h, <2>2 DEF EnrolmentsHeld, Fleet!Rekeying
  <2>4. keys' \in [Fleet!Key -> [state : {"none", "live", "revoked"}, pc : Pc \cup {Nowhere}]]
    BY <1>9, <1>t, <2>2
  <2> HIDE DEF row
  <2> QED  BY <1>2, <1>9, <1>t, <2>1, <2>2, <2>3, <2>4
<1>10. ASSUME NEW q \in Slot, Fleet!Bind(q) PROVE FleetTyped'
  <2> DEFINE row == [pcReq[q] EXCEPT !.step = "link"]
  <2>1. /\ row \in FleetReq /\ row.step = "link" /\ row.token = pcReq[q].token /\ row.pc = pcReq[q].pc
        /\ row.new = pcReq[q].new
    BY ZenonT(60), <1>10, <1>t DEF FleetReq
  <2>2. /\ pcReq[q].step = "bind" /\ pcReq' = [pcReq EXCEPT ![q] = row]
        /\ keys' = [keys EXCEPT ![pcReq[q].new].pc = pcReq[q].pc] /\ UNCHANGED <<tokens, pcs, byHand, disturbed>>
    BY <1>10, <1>t DEF Fleet!Bind
  <2>3. pcReq[q].token \in Token /\ pcReq[q].pc \in Pc /\ pcReq[q].new \in Fleet!Key
    BY <1>10, <1>h, <2>2 DEF EnrolmentsHeld, Fleet!Rekeying
  <2>4. keys' \in [Fleet!Key -> [state : {"none", "live", "revoked"}, pc : Pc \cup {Nowhere}]]
    BY <1>t, <2>2, <2>3
  <2> HIDE DEF row
  <2> QED  BY <1>2, <1>10, <1>t, <2>1, <2>2, <2>3, <2>4
<1>11. ASSUME NEW q \in Slot, Fleet!Link(q) PROVE FleetTyped'
  <2> DEFINE row == [Fleet!Idle EXCEPT !.step = "spend", !.token = pcReq[q].token]
  <2>1. /\ pcReq[q].step = "link" /\ pcReq' = [pcReq EXCEPT ![q] = row]
        /\ pcs' = [pcs EXCEPT ![pcReq[q].pc].key = pcReq[q].new] /\ UNCHANGED <<tokens, keys, byHand, disturbed>>
    BY <1>11 DEF Fleet!Link
  <2>2. pcReq[q].token \in Token /\ pcReq[q].pc \in Pc /\ pcReq[q].new \in Fleet!Key
    BY <1>11, <1>h, <2>1 DEF EnrolmentsHeld, Fleet!Rekeying
  <2>3. row \in FleetReq /\ row.step = "spend" /\ row.token = pcReq[q].token
    BY <2>2 DEF FleetReq, Fleet!Idle
  <2>4. pcs' \in [Pc -> [state : {"none", "enrolled", "deleted"}, key : Fleet!Key \cup {Nowhere}]]
    BY <1>t, <2>1, <2>2
  <2> HIDE DEF row
  <2> QED  BY <1>2, <1>11, <1>t, <2>1, <2>2, <2>3, <2>4
<1>12. ASSUME NEW q \in Slot, Fleet!Spend(q) \/ Fleet!Fail(q) PROVE FleetTyped'
  <2>1. Fleet!Idle \in FleetReq /\ Fleet!Idle.step = "idle" /\ Fleet!Idle.token = Nowhere
    BY DEF Fleet!Idle, FleetReq
  <2>2. pcReq' = [pcReq EXCEPT ![q] = Fleet!Idle] /\ UNCHANGED <<pcs, keys, byHand>>
    BY <1>12 DEF Fleet!Spend, Fleet!Fail
  <2>3. tokens' \in [Token -> [left : Int, state : {"none", "live", "expired", "revoked"}]]
    BY <1>12, <1>t, <1>h DEF Fleet!Spend, Fleet!Fail, EnrolmentsHeld
  <2>4. disturbed' \subseteq Pc
    BY <1>12, <1>t, <1>h DEF Fleet!Spend, Fleet!Fail, EnrolmentsHeld
  <2> QED  BY <1>2, <1>12, <1>t, <1>u, <2>1, <2>2, <2>3, <2>4
<1>13. ASSUME UNCHANGED fleetVars PROVE FleetTyped'
  BY <1>13, <1>1, <1>t DEF fleetVars
<1> QED  BY <1>3, <1>4, <1>5, <1>6, <1>7, <1>8, <1>9, <1>10, <1>11, <1>12, <1>13 DEF Fleet!Next

-----------------------------------------------------------------------------
(* The keys of the PCs.  A linked key is bound to its PC; a fresh key is    *)
(* bound to none and in one request's hands.  Of a PC that is enrolled and  *)
(* undisturbed, the key to be replaced, then none, then the new one is the  *)
(* only key in force.                                                       *)

Rekeyed(p) == \E q \in Slot : Fleet!Rekeying(q) /\ pcReq[q].pc = p

KeysBound ==
  /\ \A k \in Fleet!Key : /\ keys[k].state = "none" => keys[k].pc = Nowhere
                          /\ \A p \in Pc : keys[k].pc = p => pcs[p].state # "none"
  /\ \A p \in Pc : /\ pcs[p].state # "enrolled" => pcs[p].key = Nowhere
                   /\ pcs[p].key \in Fleet!Key => keys[pcs[p].key].pc = p
                   /\ Rekeyed(p) => pcs[p].state # "none"

FreshKeys ==
  /\ \A q \in Slot :
       /\ pcReq[q].step = "bind" => keys[pcReq[q].new].state # "none" /\ keys[pcReq[q].new].pc = Nowhere
       /\ pcReq[q].step = "link" => keys[pcReq[q].new].pc = pcReq[q].pc
       /\ pcReq[q].step = "revoke" /\ pcReq[q].old \in Fleet!Key => keys[pcReq[q].old].pc = pcReq[q].pc
  /\ \A q, r \in Slot : q # r /\ pcReq[q].step = "bind" /\ pcReq[r].step = "bind" => pcReq[q].new # pcReq[r].new

OneAtATime ==
  \A q, r \in Slot : q # r /\ Fleet!Rekeying(q) /\ Fleet!Rekeying(r) /\ pcReq[q].pc = pcReq[r].pc
                       => pcReq[q].pc \in disturbed

OnlyKey(p, k) == \A j \in Fleet!Key : keys[j].state = "live" /\ keys[j].pc = p => j = k
Valid(k) == keys[k].state = "live" \/ k \in byHand

\* The key a request leaves its PC for the time being.
KeyMeanwhile(q) ==
  IF pcReq[q].step = "revoke" THEN pcReq[q].old ELSE IF pcReq[q].step = "link" THEN pcReq[q].new ELSE Nowhere

InForce ==
  \A p \in Pc \ disturbed : pcs[p].state = "enrolled" =>
    /\ ~Rekeyed(p) => OnlyKey(p, pcs[p].key) /\ (pcs[p].key \in Fleet!Key => Valid(pcs[p].key))
    /\ \A q \in Slot : Fleet!Rekeying(q) /\ pcReq[q].pc = p =>
         /\ OnlyKey(p, KeyMeanwhile(q))
         /\ pcReq[q].step \in {"bind", "link"} => Valid(pcReq[q].new)

KeyInv == KeysBound /\ FreshKeys /\ OneAtATime /\ InForce

LEMMA KeyInitial == Fleet!Init => KeyInv
<1> SUFFICES ASSUME Fleet!Init PROVE KeyInv
  OBVIOUS
<1>1. /\ \A p \in Pc : pcs[p].state = "none" /\ pcs[p].key = Nowhere
      /\ \A k \in Fleet!Key : keys[k].state = "none" /\ keys[k].pc = Nowhere
      /\ \A q \in Slot : pcReq[q].step = "idle"
  BY DEF Fleet!Init, Fleet!Idle
<1>2. Nowhere \notin Fleet!Key /\ Nowhere \notin Pc
  BY BackOfficeAssumption DEF Fleet!Key
<1>3. \A p \in Pc : ~Rekeyed(p)
  BY <1>1 DEF Rekeyed, Fleet!Rekeying
<1>4. KeysBound /\ FreshKeys
  BY <1>1, <1>2, <1>3 DEF KeysBound, FreshKeys
<1>5. OneAtATime /\ InForce
  BY <1>1 DEF OneAtATime, InForce, Fleet!Rekeying
<1> QED  BY <1>4, <1>5 DEF KeyInv

LEMMA KeyStep == FleetTyped /\ KeyInv /\ [Fleet!Next]_fleetVars => KeyInv'
<1> SUFFICES ASSUME FleetTyped, KeyInv, [Fleet!Next]_fleetVars PROVE KeyInv'
  OBVIOUS
<1>t. /\ pcs \in [Pc -> [state : {"none", "enrolled", "deleted"}, key : Fleet!Key \cup {Nowhere}]]
      /\ keys \in [Fleet!Key -> [state : {"none", "live", "revoked"}, pc : Pc \cup {Nowhere}]]
      /\ pcReq \in [Slot -> FleetReq] /\ byHand \subseteq Fleet!Key /\ disturbed \subseteq Pc
  BY FleetRows DEF FleetTyped
<1>h. EnrolmentsHeld
  BY DEF FleetTyped
<1>n. Nowhere \notin Fleet!Key /\ Nowhere \notin Pc
  BY BackOfficeAssumption DEF Fleet!Key
<1>b. KeysBound
  BY DEF KeyInv
<1>f. FreshKeys
  BY DEF KeyInv
<1>o. OneAtATime
  BY DEF KeyInv
<1>g. InForce
  BY DEF KeyInv
\* Steps of a request outside the replacement of a key.
<1>1. ASSUME NEW q \in Slot, ~Fleet!Rekeying(q), ~Fleet!Rekeying(q)',
             \A r \in Slot : r # q => pcReq'[r] = pcReq[r],
             UNCHANGED <<pcs, keys, byHand, disturbed>>
      PROVE  KeyInv'
  <2>1. \A r \in Slot : /\ Fleet!Rekeying(r)' <=> Fleet!Rekeying(r)
                        /\ Fleet!Rekeying(r) \/ Fleet!Rekeying(r)' => pcReq'[r] = pcReq[r]
    BY <1>1 DEF Fleet!Rekeying
  <2>2. \A r \in Slot : pcReq'[r].step \in {"revoke", "bind", "link"} => pcReq'[r] = pcReq[r]
    BY <2>1 DEF Fleet!Rekeying
  <2>3. \A p \in Pc : Rekeyed(p)' <=> Rekeyed(p)
    BY <2>1 DEF Rekeyed
  <2>4. KeysBound'
    BY <1>1, <1>b, <2>3 DEF KeysBound
  <2>5. FreshKeys'
    BY <1>1, <1>f, <2>2 DEF FreshKeys
  <2>6. OneAtATime'
    BY <1>1, <1>o, <2>1 DEF OneAtATime
  <2>7. InForce'
    BY <1>1, <1>g, <2>1, <2>3 DEF InForce, OnlyKey, Valid, KeyMeanwhile
  <2> QED  BY <2>4, <2>5, <2>6, <2>7 DEF KeyInv
<1>2. ASSUME UNCHANGED <<pcs, keys, pcReq, byHand, disturbed>> PROVE KeyInv'
  BY <1>2 DEF KeyInv, KeysBound, FreshKeys, OneAtATime, InForce, OnlyKey, Valid, KeyMeanwhile, Rekeyed, Fleet!Rekeying
<1>3. ASSUME NEW k \in Fleet!Key, Fleet!revokeKey(k) PROVE KeyInv'
  <2>1. /\ keys[k].state # "none" /\ keys' = [keys EXCEPT ![k].state = "revoked"]
        /\ byHand' = byHand \cup {k} /\ UNCHANGED <<pcs, pcReq, disturbed>>
    BY <1>3 DEF Fleet!revokeKey
  <2>2. /\ \A j \in Fleet!Key : /\ keys'[j].pc = keys[j].pc
                                /\ keys'[j].state = "none" <=> keys[j].state = "none"
                                /\ keys'[j].state = "live" => keys[j].state = "live"
        /\ \A j \in Fleet!Key : Valid(j) => Valid(j)'
    BY <1>3, <1>t, <2>1 DEF Valid
  <2>3. \A p : Rekeyed(p)' <=> Rekeyed(p)
    BY <2>1 DEF Rekeyed, Fleet!Rekeying
  <2>4. KeysBound'
    BY <1>b, <2>1, <2>2, <2>3 DEF KeysBound
  <2>5. FreshKeys'
    BY <1>f, <1>h, <2>1, <2>2 DEF FreshKeys, EnrolmentsHeld
  <2>6. OneAtATime'
    BY <1>o, <2>1 DEF OneAtATime, Fleet!Rekeying
  <2>7. InForce'
    <3>1. \A p, j : OnlyKey(p, j) => OnlyKey(p, j)'
      BY <2>2 DEF OnlyKey
    <3>2. \A q \in Slot : KeyMeanwhile(q)' = KeyMeanwhile(q) /\ (Fleet!Rekeying(q)' <=> Fleet!Rekeying(q))
      BY <2>1 DEF KeyMeanwhile, Fleet!Rekeying
    <3> QED  BY <1>g, <1>h, <2>1, <2>2, <2>3, <3>1, <3>2 DEF InForce, EnrolmentsHeld
  <2> QED  BY <2>4, <2>5, <2>6, <2>7 DEF KeyInv
<1>4. ASSUME NEW p \in Pc, Fleet!DeletePc(p) PROVE KeyInv'
  <2>1. /\ pcs[p].state = "enrolled" /\ pcs' = [pcs EXCEPT ![p] = [state |-> "deleted", key |-> Nowhere]]
        /\ UNCHANGED <<keys, pcReq, byHand, disturbed>>
    BY <1>4 DEF Fleet!DeletePc
  <2>2. /\ pcs'[p].state = "deleted" /\ pcs'[p].key = Nowhere
        /\ \A r \in Pc : r # p => pcs'[r] = pcs[r]
    BY <1>4, <1>t, <2>1
  <2>3. \A r : Rekeyed(r)' <=> Rekeyed(r)
    BY <2>1 DEF Rekeyed, Fleet!Rekeying
  <2>4. KeysBound'
    BY <1>4, <1>b, <1>n, <2>1, <2>2, <2>3 DEF KeysBound
  <2>5. FreshKeys' /\ OneAtATime'
    BY <1>f, <1>o, <2>1 DEF FreshKeys, OneAtATime, Fleet!Rekeying
  <2>6. InForce'
    BY <1>4, <1>g, <2>1, <2>2, <2>3 DEF InForce, OnlyKey, Valid, KeyMeanwhile, Fleet!Rekeying
  <2> QED  BY <2>4, <2>5, <2>6 DEF KeyInv
<1>5. ASSUME NEW q \in Slot, NEW p \in Pc, Fleet!UpsertPc(q, p) PROVE KeyInv'
  <2>1. /\ pcReq[q].step = "upsert"
        /\ pcReq' = [pcReq EXCEPT ![q].step = "revoke", ![q].pc = p, ![q].old = pcs[p].key]
        /\ pcs[p].state \in {"enrolled", "none"} /\ pcs' = [pcs EXCEPT ![p].state = "enrolled"]
        /\ disturbed' = IF Rekeyed(p) THEN disturbed \cup {p} ELSE disturbed
        /\ UNCHANGED <<keys, byHand>>
    BY <1>5 DEF Fleet!UpsertPc, Rekeyed
  <2>2. /\ pcReq'[q].step = "revoke" /\ pcReq'[q].pc = p /\ pcReq'[q].old = pcs[p].key
        /\ \A r \in Slot : r # q => pcReq'[r] = pcReq[r]
    BY <1>5, <1>t, <2>1 DEF FleetReq
  <2>u. /\ pcReq[q].step = "upsert" /\ pcs[p].state \in {"enrolled", "none"}
        /\ disturbed' = IF Rekeyed(p) THEN disturbed \cup {p} ELSE disturbed
        /\ UNCHANGED <<keys, byHand>>
    BY <2>1
  <2>3. /\ pcs'[p].state = "enrolled" /\ pcs'[p].key = pcs[p].key
        /\ \A r \in Pc : r # p => pcs'[r] = pcs[r]
    BY <1>5, <1>t, <2>1
  <2>4. /\ ~Fleet!Rekeying(q) /\ Fleet!Rekeying(q)'
        /\ \A r \in Slot : r # q => (Fleet!Rekeying(r)' <=> Fleet!Rekeying(r))
    BY <2>u, <2>2 DEF Fleet!Rekeying
  <2>5. \A r : Rekeyed(r)' <=> (Rekeyed(r) \/ r = p)
    BY <1>5, <2>2, <2>4 DEF Rekeyed
  <2>6. KeysBound'
    BY <1>5, <1>b, <2>u, <2>3, <2>5 DEF KeysBound
  <2>7. FreshKeys'
    BY <1>5, <1>b, <1>f, <2>u, <2>2 DEF FreshKeys, KeysBound
  <2>8. OneAtATime'
    <3> SUFFICES ASSUME NEW a \in Slot, NEW b \in Slot, a # b, Fleet!Rekeying(a)', Fleet!Rekeying(b)',
                        pcReq'[a].pc = pcReq'[b].pc
                 PROVE  pcReq'[a].pc \in disturbed'
      BY DEF OneAtATime
    <3>1. CASE a = q \/ b = q
      <4>1. Rekeyed(p)
        BY <2>2, <2>4, <3>1 DEF Rekeyed
      <4> QED  BY <2>u, <2>2, <3>1, <4>1
    <3>2. CASE a # q /\ b # q
      BY <1>o, <2>u, <2>2, <2>4, <3>2 DEF OneAtATime
    <3> QED  BY <3>1, <3>2
  <2>9. p \notin disturbed' => OnlyKey(p, pcs[p].key)
    <3> SUFFICES ASSUME p \notin disturbed' PROVE OnlyKey(p, pcs[p].key)
      OBVIOUS
    <3>1. p \notin disturbed /\ ~Rekeyed(p)
      BY <2>u
    <3>2. CASE pcs[p].state = "enrolled"
      BY <1>5, <1>g, <3>1, <3>2 DEF InForce
    <3>3. CASE pcs[p].state = "none"
      BY <1>5, <1>b, <3>3 DEF KeysBound, OnlyKey
    <3> QED  BY <2>u, <3>2, <3>3
  <2>10. InForce'
    <3> SUFFICES ASSUME NEW r \in Pc \ disturbed', pcs'[r].state = "enrolled"
                 PROVE  /\ ~Rekeyed(r)' => OnlyKey(r, pcs[r].key)' /\ (pcs'[r].key \in Fleet!Key => Valid(pcs[r].key)')
                        /\ \A o \in Slot : Fleet!Rekeying(o)' /\ pcReq'[o].pc = r =>
                             /\ OnlyKey(r, KeyMeanwhile(o))'
                             /\ pcReq'[o].step \in {"bind", "link"} => Valid(pcReq[o].new)'
      BY DEF InForce
    <3>0. r \notin disturbed
      BY <2>u
    <3>1. CASE r = p
      <4>1. ~Rekeyed(p)
        BY <2>u, <3>1
      <4>2. \A o \in Slot : Fleet!Rekeying(o)' /\ pcReq'[o].pc = p => o = q
        BY <2>2, <2>4, <4>1 DEF Rekeyed
      <4>3. OnlyKey(p, KeyMeanwhile(q))'
        BY <2>u, <2>2, <2>9, <3>1 DEF OnlyKey, KeyMeanwhile
      <4> QED  BY <2>2, <2>5, <3>1, <4>2, <4>3
    <3>2. CASE r # p
      <4>1. pcs'[r] = pcs[r] /\ (Rekeyed(r)' <=> Rekeyed(r))
        BY <2>3, <2>5, <3>2
      <4>2. \A o \in Slot : Fleet!Rekeying(o)' /\ pcReq'[o].pc = r => Fleet!Rekeying(o) /\ pcReq'[o] = pcReq[o]
        BY <2>2, <2>4, <3>2
      <4>3. /\ ~Rekeyed(r) => OnlyKey(r, pcs[r].key) /\ (pcs[r].key \in Fleet!Key => Valid(pcs[r].key))
            /\ \A o \in Slot : Fleet!Rekeying(o) /\ pcReq[o].pc = r =>
                 /\ OnlyKey(r, KeyMeanwhile(o))
                 /\ pcReq[o].step \in {"bind", "link"} => Valid(pcReq[o].new)
        BY <1>g, <3>0, <4>1 DEF InForce
      <4> QED  BY <2>u, <4>1, <4>2, <4>3 DEF OnlyKey, Valid, KeyMeanwhile
    <3> QED  BY <3>1, <3>2
  <2> QED  BY <2>6, <2>7, <2>8, <2>10 DEF KeyInv
<1>6. ASSUME NEW q \in Slot, Fleet!RevokeOld(q) PROVE KeyInv'
  <2>1. PICK p, old : p = pcReq[q].pc /\ old = pcReq[q].old
    OBVIOUS
  <2>2. /\ pcReq[q].step = "revoke" /\ pcReq' = [pcReq EXCEPT ![q].step = "mint", ![q].old = Nowhere]
        /\ keys' = [k \in Fleet!Key |-> IF k = old THEN [keys[k] EXCEPT !.state = "revoked"] ELSE keys[k]]
        /\ UNCHANGED <<pcs, byHand, disturbed>>
    BY <1>6, <2>1 DEF Fleet!RevokeOld
  <2>3. /\ pcReq'[q].step = "mint" /\ pcReq'[q].pc = p
        /\ \A r \in Slot : r # q => pcReq'[r] = pcReq[r]
    BY <1>6, <1>t, <2>1, <2>2 DEF FleetReq
  <2>u. pcReq[q].step = "revoke" /\ UNCHANGED <<pcs, byHand, disturbed>>
    BY <2>2
  <2>4. /\ p \in Pc /\ old \in Fleet!Key \cup {Nowhere} /\ (old \in Fleet!Key => keys[old].pc = p)
        /\ (old \in Fleet!Key => keys[old].state # "none")
    <3>1. pcReq[q] \in FleetReq /\ p \in Pc
      BY <1>6, <1>t, <1>h, <2>1, <2>2 DEF EnrolmentsHeld, Fleet!Rekeying
    <3> QED  BY <1>6, <1>b, <1>f, <1>n, <2>1, <2>2, <3>1 DEF FleetReq, FreshKeys, KeysBound
  <2>5. \A j \in Fleet!Key : /\ keys'[j].pc = keys[j].pc
                             /\ keys'[j].state = "none" <=> keys[j].state = "none"
                             /\ keys'[j].state = "live" <=> keys[j].state = "live" /\ j # old
    BY <1>t, <2>2, <2>4
  <2>6. \A r \in Slot : Fleet!Rekeying(r)' <=> Fleet!Rekeying(r)
    BY <2>u, <2>3 DEF Fleet!Rekeying
  <2>7. \A r : Rekeyed(r)' <=> Rekeyed(r)
    BY <1>6, <2>1, <2>3, <2>6 DEF Rekeyed
  <2>8. KeysBound'
    BY <1>b, <2>u, <2>5, <2>7 DEF KeysBound
  <2>9. FreshKeys'
    BY <1>f, <1>h, <2>u, <2>3, <2>5 DEF FreshKeys, EnrolmentsHeld
  <2>10. OneAtATime'
    BY <1>6, <1>o, <2>1, <2>u, <2>3, <2>6 DEF OneAtATime
  <2>11. \A r, j : OnlyKey(r, j) => OnlyKey(r, j)'
    BY <2>5 DEF OnlyKey
  <2>12. \A j \in Fleet!Key : keys[j].pc # p => (Valid(j) => Valid(j)')
    BY <2>u, <2>4, <2>5 DEF Valid
  <2>13. ASSUME NEW r \in Pc \ disturbed, pcs[r].state = "enrolled"
         PROVE  /\ ~Rekeyed(r)' => OnlyKey(r, pcs[r].key)' /\ (pcs'[r].key \in Fleet!Key => Valid(pcs[r].key)')
                /\ \A o \in Slot : Fleet!Rekeying(o)' /\ pcReq'[o].pc = r =>
                     /\ OnlyKey(r, KeyMeanwhile(o))'
                     /\ pcReq'[o].step \in {"bind", "link"} => Valid(pcReq[o].new)'
    <3>1. CASE r = p
      <4>1. Rekeyed(p)
        BY <1>6, <2>1, <2>u DEF Rekeyed, Fleet!Rekeying
      <4>2. \A o \in Slot : Fleet!Rekeying(o)' /\ pcReq'[o].pc = p => o = q
        BY <1>6, <1>o, <2>1, <2>u, <2>3, <2>6, <2>13, <3>1 DEF OneAtATime, Fleet!Rekeying
      <4>3. OnlyKey(p, old)
        BY <1>6, <1>g, <2>1, <2>u, <2>13, <3>1 DEF InForce, KeyMeanwhile, Fleet!Rekeying
      <4>4. OnlyKey(p, KeyMeanwhile(q))'
        BY <2>3, <2>5, <4>3 DEF OnlyKey, KeyMeanwhile
      <4> QED  BY <2>3, <2>7, <3>1, <4>1, <4>2, <4>4
    <3>2. CASE r # p
      <4>1. pcs'[r] = pcs[r] /\ (Rekeyed(r)' <=> Rekeyed(r))
        BY <2>u, <2>7
      <4>2. \A o \in Slot : Fleet!Rekeying(o)' /\ pcReq'[o].pc = r => Fleet!Rekeying(o) /\ pcReq'[o] = pcReq[o]
        BY <2>3, <2>6, <3>2
      <4>3. pcs[r].key \in Fleet!Key => keys[pcs[r].key].pc = r
        BY <1>b, <2>13 DEF KeysBound
      <4>4. \A o \in Slot : pcReq[o].step \in {"bind", "link"} /\ pcReq[o].pc = r =>
              pcReq[o].new \in Fleet!Key /\ keys[pcReq[o].new].pc # p
        BY <1>f, <1>h, <1>n, <2>4, <3>2 DEF FreshKeys, EnrolmentsHeld
      <4>5. /\ ~Rekeyed(r) => OnlyKey(r, pcs[r].key) /\ (pcs[r].key \in Fleet!Key => Valid(pcs[r].key))
            /\ \A o \in Slot : Fleet!Rekeying(o) /\ pcReq[o].pc = r =>
                 /\ OnlyKey(r, KeyMeanwhile(o))
                 /\ pcReq[o].step \in {"bind", "link"} => Valid(pcReq[o].new)
        BY <1>g, <2>13 DEF InForce
      <4>6. ~Rekeyed(r)' => OnlyKey(r, pcs[r].key)' /\ (pcs'[r].key \in Fleet!Key => Valid(pcs[r].key)')
        <5>1. PICK j : j = pcs[r].key
          OBVIOUS
        <5>2. pcs'[r].key = j
          BY <4>1, <5>1
        <5>3. ~Rekeyed(r) => OnlyKey(r, j)' /\ (j \in Fleet!Key => Valid(j)')
          BY <2>11, <2>12, <3>2, <4>3, <4>5, <5>1
        <5> QED  BY <4>1, <5>1, <5>2, <5>3 DEF OnlyKey, Valid
      <4>7. ASSUME NEW o \in Slot, Fleet!Rekeying(o)', pcReq'[o].pc = r
            PROVE  /\ OnlyKey(r, KeyMeanwhile(o))'
                   /\ pcReq'[o].step \in {"bind", "link"} => Valid(pcReq[o].new)'
        <5>1. PICK j, k : j = KeyMeanwhile(o) /\ k = pcReq[o].new
          OBVIOUS
        <5>2. KeyMeanwhile(o)' = j /\ pcReq'[o].new = k
          BY <4>2, <4>7, <5>1 DEF KeyMeanwhile
        <5>3. OnlyKey(r, j)' /\ (pcReq'[o].step \in {"bind", "link"} => Valid(k)')
          BY <2>11, <2>12, <4>2, <4>4, <4>5, <4>7, <5>1
        <5> QED  BY <5>2, <5>3 DEF OnlyKey, Valid
      <4> QED  BY <4>6, <4>7
    <3> QED  BY <3>1, <3>2
  <2>14. InForce'
    BY <2>u, <2>13 DEF InForce
  <2> QED  BY <2>8, <2>9, <2>10, <2>14 DEF KeyInv
<1>7. ASSUME NEW q \in Slot, NEW k \in Fleet!Key, Fleet!Mint(q, k) PROVE KeyInv'
  <2>1. /\ pcReq[q].step = "mint" /\ keys[k].state = "none" /\ keys' = [keys EXCEPT ![k].state = "live"]
        /\ pcReq' = [pcReq EXCEPT ![q].step = "bind", ![q].new = k] /\ UNCHANGED <<pcs, byHand, disturbed>>
    BY <1>7 DEF Fleet!Mint
  <2>2. /\ pcReq'[q].step = "bind" /\ pcReq'[q].new = k /\ pcReq'[q].pc = pcReq[q].pc
        /\ \A r \in Slot : r # q => pcReq'[r] = pcReq[r]
    BY <1>7, <1>t, <2>1 DEF FleetReq
  <2>u. pcReq[q].step = "mint" /\ keys[k].state = "none" /\ UNCHANGED <<pcs, byHand, disturbed>>
    BY <2>1
  <2>3. /\ keys[k].pc = Nowhere /\ keys'[k].state = "live" /\ keys'[k].pc = Nowhere
        /\ \A j \in Fleet!Key : j # k => keys'[j] = keys[j]
    BY <1>7, <1>t, <1>b, <2>1 DEF KeysBound
  <2>4. \A r \in Slot : /\ Fleet!Rekeying(r)' <=> Fleet!Rekeying(r)
                        /\ pcReq'[r].pc = pcReq[r].pc
                        /\ KeyMeanwhile(r)' = KeyMeanwhile(r)
    BY <2>u, <2>2 DEF Fleet!Rekeying, KeyMeanwhile
  <2>5. \A r : Rekeyed(r)' <=> Rekeyed(r)
    BY <2>4 DEF Rekeyed
  <2>6. KeysBound'
    BY <1>7, <1>b, <1>n, <2>u, <2>3, <2>5 DEF KeysBound
  <2>7. FreshKeys'
    BY <1>7, <1>f, <1>h, <2>u, <2>2, <2>3 DEF FreshKeys, EnrolmentsHeld
  <2>8. OneAtATime'
    BY <1>o, <2>u, <2>4 DEF OneAtATime
  <2>9. \A r \in Pc : \A j : OnlyKey(r, j) => OnlyKey(r, j)'
    BY <1>7, <1>n, <2>3 DEF OnlyKey
  <2>10. Valid(k)' /\ \A j \in Fleet!Key : Valid(j) => Valid(j)'
    BY <1>7, <2>u, <2>3 DEF Valid
  <2>11. \A o \in Slot : pcReq[o].step \in {"bind", "link"} => pcReq[o].new \in Fleet!Key
    BY <1>h DEF EnrolmentsHeld
  <2>12. ASSUME NEW r \in Pc \ disturbed, pcs[r].state = "enrolled"
         PROVE  /\ ~Rekeyed(r)' => OnlyKey(r, pcs[r].key)' /\ (pcs'[r].key \in Fleet!Key => Valid(pcs[r].key)')
                /\ \A o \in Slot : Fleet!Rekeying(o)' /\ pcReq'[o].pc = r =>
                     /\ OnlyKey(r, KeyMeanwhile(o))'
                     /\ pcReq'[o].step \in {"bind", "link"} => Valid(pcReq[o].new)'
    <3>1. /\ ~Rekeyed(r) => OnlyKey(r, pcs[r].key) /\ (pcs[r].key \in Fleet!Key => Valid(pcs[r].key))
          /\ \A o \in Slot : Fleet!Rekeying(o) /\ pcReq[o].pc = r =>
               /\ OnlyKey(r, KeyMeanwhile(o))
               /\ pcReq[o].step \in {"bind", "link"} => Valid(pcReq[o].new)
      BY <1>g, <2>12 DEF InForce
    <3>2. ~Rekeyed(r)' => OnlyKey(r, pcs[r].key)' /\ (pcs'[r].key \in Fleet!Key => Valid(pcs[r].key)')
      BY ZenonT(60), <2>u, <2>5, <2>9, <2>10, <3>1 DEF OnlyKey, Valid
    <3>3. ASSUME NEW o \in Slot, Fleet!Rekeying(o)', pcReq'[o].pc = r
          PROVE  /\ OnlyKey(r, KeyMeanwhile(o))'
                 /\ pcReq'[o].step \in {"bind", "link"} => Valid(pcReq[o].new)'
      <4>1. OnlyKey(r, KeyMeanwhile(o))'
        BY <2>4, <2>9, <3>1, <3>3 DEF OnlyKey
      <4>2. pcReq'[o].step \in {"bind", "link"} => Valid(pcReq[o].new)'
        BY <2>2, <2>4, <2>10, <2>11, <3>1, <3>3 DEF Valid
      <4> QED  BY <4>1, <4>2
    <3> QED  BY <3>2, <3>3
  <2>13. InForce'
    BY <2>u, <2>12 DEF InForce
  <2> QED  BY <2>6, <2>7, <2>8, <2>13 DEF KeyInv
<1>8. ASSUME NEW q \in Slot, Fleet!Bind(q) PROVE KeyInv'
  <2>1. PICK p, k : p = pcReq[q].pc /\ k = pcReq[q].new
    OBVIOUS
  <2>2. /\ pcReq[q].step = "bind" /\ keys' = [keys EXCEPT ![k].pc = p]
        /\ pcReq' = [pcReq EXCEPT ![q].step = "link"] /\ UNCHANGED <<pcs, byHand, disturbed>>
    BY <1>8, <2>1 DEF Fleet!Bind
  <2>3. /\ pcReq'[q].step = "link" /\ pcReq'[q].new = k /\ pcReq'[q].pc = p
        /\ \A r \in Slot : r # q => pcReq'[r] = pcReq[r]
    BY <1>8, <1>t, <2>1, <2>2 DEF FleetReq
  <2>4. p \in Pc /\ k \in Fleet!Key /\ keys[k].state # "none" /\ keys[k].pc = Nowhere
    BY <1>8, <1>f, <1>h, <2>1, <2>2 DEF FreshKeys, EnrolmentsHeld, Fleet!Rekeying
  <2>5. /\ keys'[k].pc = p /\ keys'[k].state = keys[k].state
        /\ \A j \in Fleet!Key : j # k => keys'[j] = keys[j]
    BY <1>t, <2>2, <2>4
  <2>6. \A r \in Slot : (Fleet!Rekeying(r)' <=> Fleet!Rekeying(r)) /\ pcReq'[r].pc = pcReq[r].pc
    BY <2>1, <2>2, <2>3 DEF Fleet!Rekeying
  <2>7. (\A r : Rekeyed(r)' <=> Rekeyed(r)) /\ Rekeyed(p)
    BY <1>8, <2>1, <2>2, <2>6 DEF Rekeyed, Fleet!Rekeying
  <2>8. KeysBound'
    BY SMTT(30), <1>b, <1>n, <2>2, <2>4, <2>5, <2>7 DEF KeysBound
  <2>9. FreshKeys'
    BY <1>8, <1>f, <1>h, <1>n, <2>1, <2>2, <2>3, <2>4, <2>5 DEF FreshKeys, EnrolmentsHeld, Fleet!Rekeying
  <2>10. OneAtATime'
    BY <1>o, <2>2, <2>6 DEF OneAtATime
  <2>11. \A r \in Pc : \A j : r # p /\ OnlyKey(r, j) => OnlyKey(r, j)'
    BY <2>4, <2>5 DEF OnlyKey
  <2>12. \A j \in Fleet!Key : Valid(j) => Valid(j)'
    BY <2>2, <2>4, <2>5 DEF Valid
  <2>13. ASSUME NEW r \in Pc \ disturbed, pcs[r].state = "enrolled"
         PROVE  /\ ~Rekeyed(r)' => OnlyKey(r, pcs[r].key)' /\ (pcs'[r].key \in Fleet!Key => Valid(pcs[r].key)')
                /\ \A o \in Slot : Fleet!Rekeying(o)' /\ pcReq'[o].pc = r =>
                     /\ OnlyKey(r, KeyMeanwhile(o))'
                     /\ pcReq'[o].step \in {"bind", "link"} => Valid(pcReq[o].new)'
    <3>1. /\ ~Rekeyed(r) => OnlyKey(r, pcs[r].key) /\ (pcs[r].key \in Fleet!Key => Valid(pcs[r].key))
          /\ \A o \in Slot : Fleet!Rekeying(o) /\ pcReq[o].pc = r =>
               /\ OnlyKey(r, KeyMeanwhile(o))
               /\ pcReq[o].step \in {"bind", "link"} => Valid(pcReq[o].new)
      BY <1>g, <2>13 DEF InForce
    <3>2. CASE r = p
      <4>1. \A o \in Slot : Fleet!Rekeying(o)' /\ pcReq'[o].pc = p => o = q
        BY <1>8, <1>o, <2>1, <2>2, <2>6, <2>13, <3>2 DEF OneAtATime, Fleet!Rekeying
      <4>2. OnlyKey(p, Nowhere) /\ Valid(k)
        BY <1>8, <2>1, <2>2, <3>1, <3>2 DEF KeyMeanwhile, Fleet!Rekeying
      <4>3. OnlyKey(p, KeyMeanwhile(q))'
        BY <1>n, <2>3, <2>5, <4>2 DEF OnlyKey, KeyMeanwhile
      <4>4. Valid(pcReq[q].new)'
        BY <2>3, <2>4, <2>12, <4>2 DEF Valid
      <4> QED  BY <2>7, <3>2, <4>1, <4>3, <4>4
    <3>3. CASE r # p
      <4>1. ~Rekeyed(r)' => OnlyKey(r, pcs[r].key)' /\ (pcs'[r].key \in Fleet!Key => Valid(pcs[r].key)')
        BY <2>2, <2>7, <2>11, <2>12, <3>1, <3>3 DEF OnlyKey, Valid
      <4>2. ASSUME NEW o \in Slot, Fleet!Rekeying(o)', pcReq'[o].pc = r
            PROVE  /\ OnlyKey(r, KeyMeanwhile(o))'
                   /\ pcReq'[o].step \in {"bind", "link"} => Valid(pcReq[o].new)'
        <5>1. pcReq'[o] = pcReq[o] /\ Fleet!Rekeying(o)
          BY <2>3, <2>6, <3>3, <4>2
        <5>2. pcReq[o].step \in {"bind", "link"} => pcReq[o].new \in Fleet!Key
          BY <1>h, <4>2 DEF EnrolmentsHeld
        <5>3. PICK j, new : j = KeyMeanwhile(o) /\ new = pcReq[o].new
          OBVIOUS
        <5>4. KeyMeanwhile(o)' = j /\ pcReq'[o].new = new
          BY <5>1, <5>3 DEF KeyMeanwhile
        <5>5. OnlyKey(r, j)' /\ (pcReq'[o].step \in {"bind", "link"} => Valid(new)')
          BY <2>11, <2>12, <3>1, <3>3, <4>2, <5>1, <5>2, <5>3
        <5> QED  BY <5>4, <5>5 DEF OnlyKey, Valid
      <4> QED  BY <4>1, <4>2
    <3> QED  BY <3>2, <3>3
  <2>14. InForce'
    BY <2>2, <2>13 DEF InForce
  <2> QED  BY <2>8, <2>9, <2>10, <2>14 DEF KeyInv
<1>9. ASSUME NEW q \in Slot, Fleet!Link(q) PROVE KeyInv'
  <2>1. PICK p, k : p = pcReq[q].pc /\ k = pcReq[q].new
    OBVIOUS
  <2>2. /\ pcReq[q].step = "link" /\ pcs[p].state = "enrolled" /\ pcs' = [pcs EXCEPT ![p].key = k]
        /\ pcReq' = [pcReq EXCEPT ![q] = [Fleet!Idle EXCEPT !.step = "spend", !.token = pcReq[q].token]]
        /\ UNCHANGED <<keys, byHand, disturbed>>
    BY <1>9, <2>1 DEF Fleet!Link
  <2>3. pcReq'[q].step = "spend" /\ \A r \in Slot : r # q => pcReq'[r] = pcReq[r]
    BY <1>9, <1>t, <2>2 DEF Fleet!Idle
  <2>4. p \in Pc /\ k \in Fleet!Key /\ keys[k].pc = p
    BY <1>9, <1>f, <1>h, <2>1, <2>2 DEF FreshKeys, EnrolmentsHeld, Fleet!Rekeying
  <2>5. /\ pcs'[p].key = k /\ pcs'[p].state = "enrolled"
        /\ \A r \in Pc : r # p => pcs'[r] = pcs[r]
    BY <1>t, <2>2, <2>4
  <2>6. /\ ~Fleet!Rekeying(q)' /\ \A r \in Slot : r # q => (Fleet!Rekeying(r)' <=> Fleet!Rekeying(r))
        /\ \A r : Rekeyed(r)' => Rekeyed(r)
        /\ \A r : r # p => (Rekeyed(r)' <=> Rekeyed(r))
    BY <2>1, <2>3 DEF Fleet!Rekeying, Rekeyed
  <2>7. KeysBound'
    BY <1>b, <2>2, <2>4, <2>5, <2>6 DEF KeysBound
  <2>8. FreshKeys'
    BY <1>f, <2>2, <2>3 DEF FreshKeys
  <2>9. OneAtATime'
    BY <1>o, <2>2, <2>3, <2>6 DEF OneAtATime
  <2>10. ASSUME NEW r \in Pc \ disturbed, pcs'[r].state = "enrolled"
         PROVE  /\ ~Rekeyed(r)' => OnlyKey(r, pcs[r].key)' /\ (pcs'[r].key \in Fleet!Key => Valid(pcs[r].key)')
                /\ \A o \in Slot : Fleet!Rekeying(o)' /\ pcReq'[o].pc = r =>
                     /\ OnlyKey(r, KeyMeanwhile(o))'
                     /\ pcReq'[o].step \in {"bind", "link"} => Valid(pcReq[o].new)'
    <3>1. pcs[r].state = "enrolled"
      BY <2>2, <2>5, <2>10
    <3>2. /\ ~Rekeyed(r) => OnlyKey(r, pcs[r].key) /\ (pcs[r].key \in Fleet!Key => Valid(pcs[r].key))
          /\ \A o \in Slot : Fleet!Rekeying(o) /\ pcReq[o].pc = r =>
               /\ OnlyKey(r, KeyMeanwhile(o))
               /\ pcReq[o].step \in {"bind", "link"} => Valid(pcReq[o].new)
      BY <1>g, <2>10, <3>1 DEF InForce
    <3>3. CASE r = p
      <4>1. \A o \in Slot : ~(Fleet!Rekeying(o)' /\ pcReq'[o].pc = p)
        BY <1>9, <1>o, <2>1, <2>2, <2>3, <2>6, <2>10, <3>3 DEF OneAtATime, Fleet!Rekeying
      <4>2. OnlyKey(p, k) /\ Valid(k)
        BY <1>9, <2>1, <2>2, <3>2, <3>3 DEF KeyMeanwhile, Fleet!Rekeying
      <4> QED  BY <2>2, <2>5, <3>3, <4>1, <4>2 DEF OnlyKey, Valid
    <3>4. CASE r # p
      <4>1. \A o \in Slot : Fleet!Rekeying(o)' /\ pcReq'[o].pc = r => Fleet!Rekeying(o) /\ pcReq'[o] = pcReq[o]
        BY <2>3, <2>6
      <4> QED  BY <2>2, <2>5, <2>6, <3>2, <3>4, <4>1 DEF OnlyKey, Valid, KeyMeanwhile
    <3> QED  BY <3>3, <3>4
  <2>11. InForce'
    BY <2>2, <2>10 DEF InForce
  <2> QED  BY <2>7, <2>8, <2>9, <2>11 DEF KeyInv
<1>10. ASSUME NEW q \in Slot, Fleet!Fail(q) PROVE KeyInv'
  <2>1. PICK p : p = pcReq[q].pc
    OBVIOUS
  <2>2. /\ disturbed' = IF Fleet!Rekeying(q) THEN disturbed \cup {p} ELSE disturbed
        /\ pcReq' = [pcReq EXCEPT ![q] = Fleet!Idle] /\ UNCHANGED <<pcs, keys, byHand>>
    BY <1>10, <2>1 DEF Fleet!Fail
  <2>3. /\ pcReq'[q].step = "idle" /\ ~Fleet!Rekeying(q)'
        /\ \A r \in Slot : r # q => pcReq'[r] = pcReq[r] /\ (Fleet!Rekeying(r)' <=> Fleet!Rekeying(r))
    BY <1>10, <1>t, <2>2 DEF Fleet!Idle, Fleet!Rekeying
  <2>4. CASE ~Fleet!Rekeying(q)
    BY <1>1, <1>10, <2>2, <2>3, <2>4
  <2>5. CASE Fleet!Rekeying(q)
    <3>1. /\ \A r : Rekeyed(r)' => Rekeyed(r)
          /\ \A r : r # p => (Rekeyed(r)' <=> Rekeyed(r))
      BY <2>1, <2>3 DEF Rekeyed
    <3>2. KeysBound'
      BY <1>b, <2>2, <3>1 DEF KeysBound
    <3>3. FreshKeys'
      BY <1>f, <2>2, <2>3 DEF FreshKeys
    <3>4. OneAtATime'
      BY <1>o, <2>2, <2>3 DEF OneAtATime
    <3>5. \A o \in Slot : Fleet!Rekeying(o)' => Fleet!Rekeying(o) /\ pcReq'[o] = pcReq[o]
      BY <2>3
    <3>6. InForce'
      BY <1>g, <2>2, <2>5, <3>1, <3>5 DEF InForce, OnlyKey, Valid, KeyMeanwhile
    <3> QED  BY <3>2, <3>3, <3>4, <3>6 DEF KeyInv
  <2> QED  BY <2>4, <2>5
<1>11. ASSUME NEW t \in Token, Fleet!issueToken(t) \/ Fleet!Expire(t) \/ Fleet!revokeToken(t) PROVE KeyInv'
  BY <1>2, <1>11 DEF Fleet!issueToken, Fleet!Expire, Fleet!revokeToken
<1>12. ASSUME NEW q \in Slot, NEW t \in Token, Fleet!Redeem(q, t) PROVE KeyInv'
  <2>1. /\ pcReq[q] = Fleet!Idle /\ pcReq' = [pcReq EXCEPT ![q].step = "upsert", ![q].token = t]
        /\ UNCHANGED <<pcs, keys, byHand, disturbed>>
    BY <1>12 DEF Fleet!Redeem
  <2>2. /\ pcReq[q].step = "idle" /\ pcReq'[q].step = "upsert"
        /\ \A r \in Slot : r # q => pcReq'[r] = pcReq[r]
    BY <1>12, <1>t, <2>1 DEF Fleet!Idle, FleetReq
  <2> QED  BY <1>1, <1>12, <2>1, <2>2 DEF Fleet!Rekeying
<1>13. ASSUME NEW q \in Slot, Fleet!Spend(q) PROVE KeyInv'
  <2>1. /\ pcReq[q].step = "spend" /\ pcReq' = [pcReq EXCEPT ![q] = Fleet!Idle]
        /\ UNCHANGED <<pcs, keys, byHand, disturbed>>
    BY <1>13 DEF Fleet!Spend
  <2>2. pcReq'[q].step = "idle" /\ \A r \in Slot : r # q => pcReq'[r] = pcReq[r]
    BY <1>13, <1>t, <2>1 DEF Fleet!Idle
  <2> QED  BY <1>1, <1>13, <2>1, <2>2 DEF Fleet!Rekeying
<1>14. ASSUME UNCHANGED fleetVars PROVE KeyInv'
  BY <1>2, <1>14 DEF fleetVars
<1> QED  BY <1>3, <1>4, <1>5, <1>6, <1>7, <1>8, <1>9, <1>10, <1>11, <1>12, <1>13, <1>14 DEF Fleet!Next

\* For any number of PCs, keys and overlapping enrolments: an enrolled PC has one key in
\* force, the one linked to it, but while it is replaced or after an enrolment of it died
\* half way or overlapped another.
THEOREM KeysCorrect == BackSpec => []OneKeyInForce
<1>1. FleetTyped /\ KeyInv => OneKeyInForce
  <2> SUFFICES ASSUME FleetTyped, KeyInv, NEW p \in Pc \ disturbed, pcs[p].state = "enrolled",
                      \A q \in Slot : Fleet!Rekeying(q) => pcReq[q].pc # p
               PROVE  /\ \A k \in Fleet!Key : keys[k].state = "live" /\ keys[k].pc = p => k = pcs[p].key
                      /\ pcs[p].key # Nowhere => keys[pcs[p].key].state = "live" \/ pcs[p].key \in byHand
    BY DEF OneKeyInForce, Fleet!OneKeyInForce
  <2>1. ~Rekeyed(p)
    BY DEF Rekeyed
  <2>2. pcs[p].key \in Fleet!Key \cup {Nowhere}
    BY FleetRows DEF FleetTyped
  <2> QED  BY <2>1, <2>2 DEF KeyInv, InForce, OnlyKey, Valid
<1>2. BackInit => FleetTyped /\ KeyInv
  BY FleetInitial, KeyInitial DEF BackInit
<1> QED  BY <1>1, <1>2, FleetTypedStep, KeyStep, Steps, PTL DEF BackSpec

-----------------------------------------------------------------------------
(* The tokens.  Every enrolment under way had found its token good, so what *)
(* is left of a token covers all but its users beyond the first.            *)

UsersOf(t) == {q \in Slot : pcReq[q].token = t}

TokenInv ==
  \A t \in Token :
    /\ tokens[t].state = "none" => UsersOf(t) = {} /\ tokens[t].left = 0
    /\ tokens[t].state # "revoked" => tokens[t].left >= 1 - Cardinality(Slot) + Cardinality(UsersOf(t))

LEMMA FleetCounts ==
  ASSUME NEW S PROVE Fleet!Cardinality(S) = Cardinality(S)
<1>1. Fleet!IsFiniteSet(S) = IsFiniteSet(S)
  BY DEF Fleet!IsFiniteSet, IsFiniteSet
<1> QED  BY <1>1 DEF Fleet!Cardinality, Cardinality, Fleet!IsFiniteSet, IsFiniteSet

LEMMA SomeSlots ==
  /\ IsFiniteSet(Slot) /\ Cardinality(Slot) \in Nat /\ Cardinality(Slot) >= 1
  /\ \A S \in SUBSET Slot : IsFiniteSet(S) /\ Cardinality(S) \in Nat /\ Cardinality(S) <= Cardinality(Slot)
  /\ \A S \in SUBSET Slot : \A R \in SUBSET S : Cardinality(R) <= Cardinality(S)
<1>1. IsFiniteSet(Slot) /\ Slot # {}
  BY BackOfficeAssumption
<1>2. \A S \in SUBSET Slot : IsFiniteSet(S) /\ Cardinality(S) <= Cardinality(Slot)
  BY <1>1, FS_Subset
<1>3. \A S : IsFiniteSet(S) => Cardinality(S) \in Nat
  BY FS_CardinalityType
<1>4. Cardinality(Slot) # 0
  BY <1>1, FS_EmptySet
<1>5. \A S \in SUBSET Slot : \A R \in SUBSET S : Cardinality(R) <= Cardinality(S)
  BY <1>2, FS_Subset
<1> QED  BY <1>1, <1>2, <1>3, <1>4, <1>5

LEMMA TokenInitial == Fleet!Init => TokenInv
<1> SUFFICES ASSUME Fleet!Init PROVE TokenInv
  OBVIOUS
<1>1. /\ \A t \in Token : tokens[t].state = "none" /\ tokens[t].left = 0
      /\ \A q \in Slot : pcReq[q].token = Nowhere
  BY DEF Fleet!Init, Fleet!Idle
<1>2. \A t \in Token : UsersOf(t) = {}
  BY <1>1, BackOfficeAssumption DEF UsersOf
<1>3. Cardinality({}) = 0 /\ Cardinality(Slot) \in Nat /\ Cardinality(Slot) >= 1
  BY FS_EmptySet, SomeSlots
<1>4. \A t \in Token : Cardinality(UsersOf(t)) = 0
  BY <1>2, <1>3
<1>5. \A t \in Token : tokens[t].left >= 1 - Cardinality(Slot) + Cardinality(UsersOf(t))
  BY <1>1, <1>3, <1>4
<1> QED  BY <1>1, <1>2, <1>5 DEF TokenInv

LEMMA TokenStep == FleetTyped /\ TokenInv /\ [Fleet!Next]_fleetVars => TokenInv'
<1> SUFFICES ASSUME FleetTyped, TokenInv, [Fleet!Next]_fleetVars PROVE TokenInv'
  OBVIOUS
<1>t. /\ tokens \in [Token -> [left : Int, state : {"none", "live", "expired", "revoked"}]]
      /\ pcReq \in [Slot -> FleetReq]
  BY FleetRows DEF FleetTyped
<1>h. EnrolmentsHeld
  BY DEF FleetTyped
<1>u. Uses \in Nat /\ Nowhere \notin Token
  BY BackOfficeAssumption
<1>c. \A t : UsersOf(t) \in SUBSET Slot
  BY DEF UsersOf
\* Enrolments may end, while no token has less left.
<1>1. ASSUME \A t \in Token : UsersOf(t)' \subseteq UsersOf(t),
             \A t \in Token :
               /\ tokens'[t].state = "none" => tokens[t].state = "none" /\ tokens'[t].left = tokens[t].left
               /\ tokens'[t].state # "revoked" =>
                    tokens[t].state # "revoked" /\ tokens'[t].left >= tokens[t].left /\ tokens'[t].left \in Int
      PROVE  TokenInv'
  <2> SUFFICES ASSUME NEW t \in Token
               PROVE  /\ tokens'[t].state = "none" => UsersOf(t)' = {} /\ tokens'[t].left = 0
                      /\ tokens'[t].state # "revoked" =>
                           tokens'[t].left >= 1 - Cardinality(Slot) + Cardinality(UsersOf(t)')
    BY DEF TokenInv
  <2>1. UsersOf(t)' \subseteq UsersOf(t)
    BY <1>1
  <2>2. /\ Cardinality(UsersOf(t)') <= Cardinality(UsersOf(t)) /\ Cardinality(UsersOf(t)) \in Nat
        /\ Cardinality(UsersOf(t)') \in Nat /\ Cardinality(Slot) \in Nat
    BY <1>c, <2>1, SomeSlots
  <2>3. /\ tokens[t].state = "none" => UsersOf(t) = {} /\ tokens[t].left = 0
        /\ tokens[t].state # "revoked" => tokens[t].left >= 1 - Cardinality(Slot) + Cardinality(UsersOf(t))
    BY DEF TokenInv
  <2>4. tokens[t].left \in Int
    BY <1>t
  <2> QED  BY <1>1, <2>1, <2>2, <2>3, <2>4
<1>2. ASSUME NEW t \in Token, Fleet!issueToken(t) PROVE TokenInv'
  <2>1. /\ tokens[t].state = "none" /\ tokens' = [tokens EXCEPT ![t] = [left |-> Uses, state |-> "live"]]
        /\ pcReq' = pcReq
    BY <1>2 DEF Fleet!issueToken
  <2>2. \A s \in Token : UsersOf(s)' = UsersOf(s)
    BY <2>1 DEF UsersOf
  <2>3. tokens[t].left = 0
    BY <1>2, <2>1 DEF TokenInv
  <2>4. /\ tokens'[t].state = "live" /\ tokens'[t].left = Uses
        /\ \A s \in Token : s # t => tokens'[s] = tokens[s]
    BY <1>2, <1>t, <2>1
  <2>5. \A s \in Token : tokens[s].left \in Int
    BY <1>t
  <2> QED  BY <1>1, <1>u, <2>1, <2>2, <2>3, <2>4, <2>5
<1>3. ASSUME NEW t \in Token, Fleet!Expire(t) \/ Fleet!revokeToken(t) PROVE TokenInv'
  <2>1. /\ pcReq' = pcReq /\ \A s \in Token : s # t => tokens'[s] = tokens[s]
        /\ \/ tokens'[t].state = "revoked"
           \/ tokens[t].state = "live" /\ tokens'[t].state = "expired" /\ tokens'[t].left = tokens[t].left
    BY <1>3, <1>t DEF Fleet!Expire, Fleet!revokeToken
  <2>2. \A s \in Token : UsersOf(s)' = UsersOf(s)
    BY <2>1 DEF UsersOf
  <2>3. \A s \in Token : tokens[s].left \in Int
    BY <1>t
  <2> QED  BY <1>1, <2>1, <2>2, <2>3
<1>4. ASSUME NEW q \in Slot, NEW t \in Token, Fleet!Redeem(q, t) PROVE TokenInv'
  <2>1. /\ tokens[t].state = "live" /\ tokens[t].left > 0 /\ pcReq[q] = Fleet!Idle
        /\ pcReq' = [pcReq EXCEPT ![q].step = "upsert", ![q].token = t] /\ UNCHANGED tokens
    BY <1>4 DEF Fleet!Redeem
  <2>2. /\ pcReq'[q].token = t /\ pcReq[q].token = Nowhere
        /\ \A r \in Slot : r # q => pcReq'[r] = pcReq[r]
    BY <1>4, <1>t, <2>1 DEF FleetReq, Fleet!Idle
  <2>3. \A s \in Token : s # t => UsersOf(s)' = UsersOf(s)
    BY <1>u, <2>2 DEF UsersOf
  <2>4. UsersOf(t)' \in SUBSET Slot
    BY DEF UsersOf
  <2>5. /\ Cardinality(UsersOf(t)') <= Cardinality(Slot) /\ Cardinality(UsersOf(t)') \in Nat
        /\ Cardinality(Slot) \in Nat
    BY <2>4, SomeSlots
  <2>6. tokens'[t].left >= 1 - Cardinality(Slot) + Cardinality(UsersOf(t)')
    <3>1. tokens[t].left \in Int /\ tokens'[t].left = tokens[t].left
      BY <1>4, <1>t, <2>1
    <3> QED  BY <2>1, <2>5, <3>1
  <2>7. tokens'[t].state = "live" /\ \A s \in Token : tokens'[s] = tokens[s]
    BY <2>1
  <2> QED  BY <2>3, <2>6, <2>7 DEF TokenInv
<1>5. ASSUME NEW q \in Slot, Fleet!Spend(q) PROVE TokenInv'
  <2>1. PICK t : t = pcReq[q].token
    OBVIOUS
  <2>2. /\ pcReq[q].step = "spend" /\ tokens' = [tokens EXCEPT ![t].left = tokens[t].left - 1]
        /\ pcReq' = [pcReq EXCEPT ![q] = Fleet!Idle]
    BY <1>5, <2>1 DEF Fleet!Spend
  <2>3. t \in Token
    BY <1>5, <1>h, <2>1, <2>2 DEF EnrolmentsHeld
  <2>4. /\ pcReq'[q].token = Nowhere /\ \A r \in Slot : r # q => pcReq'[r] = pcReq[r]
    BY <1>5, <1>t, <2>2 DEF Fleet!Idle
  <2>5. UsersOf(t)' = UsersOf(t) \ {q} /\ q \in UsersOf(t)
    BY <1>5, <1>u, <2>1, <2>3, <2>4 DEF UsersOf
  <2>6. \A s \in Token : s # t => UsersOf(s)' = UsersOf(s)
    BY <1>5, <1>u, <2>1, <2>4 DEF UsersOf
  <2>7. /\ Cardinality(UsersOf(t)') = Cardinality(UsersOf(t)) - 1 /\ Cardinality(UsersOf(t)) \in Nat
        /\ Cardinality(Slot) \in Nat
    <3>1. IsFiniteSet(UsersOf(t)) /\ Cardinality(UsersOf(t)) \in Nat /\ Cardinality(Slot) \in Nat
      BY <1>c, SomeSlots
    <3>2. Cardinality(UsersOf(t) \ {q}) = Cardinality(UsersOf(t)) - 1
      BY <2>5, <3>1, FS_RemoveElement
    <3> QED  BY <2>5, <3>1, <3>2
  <2>8. /\ tokens'[t].state = tokens[t].state /\ tokens'[t].left = tokens[t].left - 1 /\ tokens[t].left \in Int
        /\ \A s \in Token : s # t => tokens'[s] = tokens[s]
    BY <1>t, <2>2, <2>3
  <2>9. /\ tokens[t].state # "none"
        /\ tokens[t].state # "revoked" => tokens[t].left >= 1 - Cardinality(Slot) + Cardinality(UsersOf(t))
    BY <2>3, <2>5 DEF TokenInv
  <2>10. tokens'[t].state # "revoked" => tokens'[t].left >= 1 - Cardinality(Slot) + Cardinality(UsersOf(t)')
    BY <2>7, <2>8, <2>9
  <2> QED  BY <2>6, <2>8, <2>9, <2>10 DEF TokenInv
\* The other steps leave the tokens, and a request its token unless it ends.
<1>6. ASSUME UNCHANGED tokens, NEW q \in Slot, \A r \in Slot : r # q => pcReq'[r] = pcReq[r],
             pcReq'[q].token = pcReq[q].token \/ pcReq'[q].token \notin Token
      PROVE  TokenInv'
  <2>1. \A t \in Token : UsersOf(t)' \subseteq UsersOf(t)
    BY <1>6 DEF UsersOf
  <2>2. \A t \in Token : tokens'[t] = tokens[t] /\ tokens[t].left \in Int
    BY <1>6, <1>t
  <2> QED  BY <1>1, <2>1, <2>2
<1>7. ASSUME NEW q \in Slot, Fleet!Fail(q) \/ Fleet!Link(q) PROVE TokenInv'
  <2>1. tokens' = tokens
    BY <1>7 DEF Fleet!Fail, Fleet!Link
  <2>2. PICK row : /\ pcReq' = [pcReq EXCEPT ![q] = row]
                   /\ row.token \in {Nowhere, pcReq[q].token}
    <3>1. Fleet!Idle.token = Nowhere
      BY DEF Fleet!Idle
    <3>2. [Fleet!Idle EXCEPT !.step = "spend", !.token = pcReq[q].token].token = pcReq[q].token
      BY DEF Fleet!Idle
    <3> QED  BY <1>7, <3>1, <3>2 DEF Fleet!Fail, Fleet!Link
  <2>3. /\ \A r \in Slot : r # q => pcReq'[r] = pcReq[r]
        /\ pcReq'[q].token \in {Nowhere, pcReq[q].token}
    BY <1>7, <1>t, <2>2
  <2> QED  BY <1>6, <1>7, <1>u, <2>1, <2>3
<1>8. ASSUME NEW q \in Slot, NEW p \in Pc, Fleet!UpsertPc(q, p) PROVE TokenInv'
  <2>1. tokens' = tokens /\ pcReq' = [pcReq EXCEPT ![q].step = "revoke", ![q].pc = p, ![q].old = pcs[p].key]
    BY <1>8 DEF Fleet!UpsertPc
  <2>2. pcReq'[q].token = pcReq[q].token /\ \A r \in Slot : r # q => pcReq'[r] = pcReq[r]
    BY <1>8, <1>t, <2>1 DEF FleetReq
  <2>3. tokens' = tokens
    BY <2>1
  <2> QED  BY <1>6, <1>8, <2>2, <2>3
<1>9. ASSUME NEW q \in Slot, NEW k \in Fleet!Key, Fleet!Mint(q, k) PROVE TokenInv'
  <2>1. tokens' = tokens /\ pcReq' = [pcReq EXCEPT ![q].step = "bind", ![q].new = k]
    BY <1>9 DEF Fleet!Mint
  <2>2. pcReq'[q].token = pcReq[q].token /\ \A r \in Slot : r # q => pcReq'[r] = pcReq[r]
    BY <1>9, <1>t, <2>1 DEF FleetReq
  <2>3. tokens' = tokens
    BY <2>1
  <2> QED  BY <1>6, <1>9, <2>2, <2>3
<1>10. ASSUME NEW q \in Slot, Fleet!RevokeOld(q) \/ Fleet!Bind(q) PROVE TokenInv'
  <2>1. /\ tokens' = tokens
        /\ \/ pcReq' = [pcReq EXCEPT ![q].step = "mint", ![q].old = Nowhere]
           \/ pcReq' = [pcReq EXCEPT ![q].step = "link"]
    BY <1>10 DEF Fleet!RevokeOld, Fleet!Bind
  <2>2. pcReq'[q].token = pcReq[q].token /\ \A r \in Slot : r # q => pcReq'[r] = pcReq[r]
    BY <1>10, <1>t, <2>1 DEF FleetReq
  <2>3. tokens' = tokens
    BY <2>1
  <2> QED  BY <1>6, <1>10, <2>2, <2>3
<1>11. ASSUME UNCHANGED <<tokens, pcReq>> PROVE TokenInv'
  BY <1>11 DEF TokenInv, UsersOf
<1>12. ASSUME NEW k \in Fleet!Key, Fleet!revokeKey(k) PROVE TokenInv'
  BY <1>11, <1>12 DEF Fleet!revokeKey
<1>13. ASSUME NEW p \in Pc, Fleet!DeletePc(p) PROVE TokenInv'
  BY <1>11, <1>13 DEF Fleet!DeletePc
<1>14. ASSUME UNCHANGED fleetVars PROVE TokenInv'
  BY <1>11, <1>14 DEF fleetVars
<1> QED  BY <1>2, <1>3, <1>4, <1>5, <1>7, <1>8, <1>9, <1>10, <1>12, <1>13, <1>14 DEF Fleet!Next

\* For any number of tokens and of enrolments at one time: a token is overdrawn only by
\* enrolments that found it good beside the one that used it up.
THEOREM TokensCorrect == BackSpec => []TokenNotOverdrawn
<1>1. FleetTyped /\ TokenInv => TokenNotOverdrawn
  <2> SUFFICES ASSUME FleetTyped, TokenInv, NEW t \in Token, tokens[t].state # "revoked"
               PROVE  tokens[t].left >= 1 - Fleet!Cardinality(Slot)
    BY DEF TokenNotOverdrawn, Fleet!TokenNotOverdrawn
  <2>1. tokens[t].left \in Int
    BY FleetRows DEF FleetTyped
  <2>2. tokens[t].left >= 1 - Cardinality(Slot) + Cardinality(UsersOf(t))
    BY DEF TokenInv
  <2>3. Cardinality(UsersOf(t)) \in Nat /\ Cardinality(Slot) \in Nat
    BY SomeSlots DEF UsersOf
  <2>4. Fleet!Cardinality(Slot) = Cardinality(Slot)
    BY FleetCounts
  <2> QED  BY <2>1, <2>2, <2>3, <2>4
<1>2. BackInit => FleetTyped /\ TokenInv
  BY FleetInitial, TokenInitial DEF BackInit
<1> QED  BY <1>1, <1>2, FleetTypedStep, TokenStep, Steps, PTL DEF BackSpec

-----------------------------------------------------------------------------
(* The stores.  Two stores have not the same location.  While a store is    *)
(* edited its location carries the store's code until the edit has written  *)
(* it, and then the new one; a create that has found its location finds its *)
(* code there.                                                              *)

ShopReq == [step : {"idle", "locate", "create", "job", "login", "grant", "relocate", "edit"},
            store : Store \cup {Nowhere}, code : Code \cup {Nowhere},
            loc : Room \cup {Nowhere}, email : Email \cup {Nowhere}]

ShopRows ==
  /\ stores \in [Store -> [code : Code \cup {Nowhere, Gone}, loc : Room \cup {Nowhere}]]
  /\ locations \in [Room -> Code \cup {Nowhere}]
  /\ storeReq \in [Slot -> ShopReq]

\* A request works on rows that have been there.
ShopLinked ==
  /\ \A s \in Store : Shops!Exists(s) => stores[s].loc \in Room
  /\ \A q \in Slot :
       /\ storeReq[q].step \in {"job", "login", "grant", "relocate", "edit"} =>
            storeReq[q].store \in Store /\ stores[storeReq[q].store].code # Nowhere
       /\ storeReq[q].step \in {"login", "grant"} => storeReq[q].email \in Email
       /\ storeReq[q].step \in {"locate", "create", "relocate", "edit"} => storeReq[q].code \in Code
       /\ storeReq[q].step \in {"create", "relocate", "edit"} => storeReq[q].loc \in Room

EditOf(q, s) == storeReq[q].step \in {"relocate", "edit"} /\ storeReq[q].store = s

OneRoomEach ==
  \A s, t \in Store : Shops!Exists(s) /\ Shops!Exists(t) /\ stores[s].loc = stores[t].loc => s = t

OfItsRoom ==
  \A q \in Slot, s \in Store : EditOf(q, s) /\ Shops!Exists(s) => stores[s].loc = storeReq[q].loc

\* An edit that is alone is of a store that still exists.
EditsAlone ==
  \A q \in Slot, s \in Store : EditOf(q, s) /\ storeReq[q].loc \notin skewed =>
    /\ Shops!Exists(s)
    /\ \A r \in Slot : EditOf(r, s) => r = q

RoomOfEdited ==
  \A q \in Slot, s \in Store : EditOf(q, s) /\ storeReq[q].loc \notin skewed =>
    locations[storeReq[q].loc] = IF storeReq[q].step = "edit" THEN storeReq[q].code ELSE stores[s].code

RoomOfCreated ==
  \A q \in Slot : storeReq[q].step = "create" /\ storeReq[q].loc \notin skewed =>
    locations[storeReq[q].loc] = storeReq[q].code

ShopTyped == ShopRows /\ ShopLinked /\ Shops!TypeOK

ShopInv == OneRoomEach /\ OfItsRoom /\ EditsAlone /\ RoomOfEdited /\ RoomOfCreated /\ Shops!LocationInStep

LEMMA ShopInitial == Shops!Init => ShopTyped /\ ShopInv
<1> SUFFICES ASSUME Shops!Init PROVE ShopTyped /\ ShopInv
  OBVIOUS
<1>1. /\ stores = [s \in Store |-> [code |-> Nowhere, loc |-> Nowhere]]
      /\ locations = [l \in Room |-> Nowhere] /\ storeReq = [q \in Slot |-> Shops!Idle]
      /\ jobs = {} /\ skewed = {} /\ access = {} /\ logins = [e \in Email |-> Nowhere]
  BY DEF Shops!Init
<1>2. Shops!Idle \in ShopReq /\ Shops!Idle.step = "idle"
  BY DEF Shops!Idle, ShopReq
<1>3. ShopRows
  BY <1>1, <1>2 DEF ShopRows
<1>4. Shops!TypeOK
  BY <1>1, <1>3 DEF Shops!TypeOK, ShopRows, ShopReq
<1>5. /\ \A s \in Store : ~Shops!Exists(s)
      /\ \A q \in Slot : storeReq[q].step = "idle"
  BY <1>1, <1>2, BackOfficeAssumption DEF Shops!Exists
<1>6. ShopLinked
  BY <1>5 DEF ShopLinked
<1>7. ShopInv
  BY <1>5 DEF ShopInv, OneRoomEach, OfItsRoom, EditsAlone, RoomOfEdited, RoomOfCreated, EditOf, Shops!LocationInStep
<1> QED  BY <1>3, <1>4, <1>6, <1>7 DEF ShopTyped

\* A row that goes on to another step.
LEMMA ShopRowNext ==
  ASSUME NEW r \in ShopReq,
         NEW step \in {"idle", "locate", "create", "job", "login", "grant", "relocate", "edit"}
  PROVE  /\ [r EXCEPT !.step = step] \in ShopReq /\ [r EXCEPT !.step = step].step = step
         /\ [r EXCEPT !.step = step].store = r.store /\ [r EXCEPT !.step = step].code = r.code
         /\ [r EXCEPT !.step = step].loc = r.loc /\ [r EXCEPT !.step = step].email = r.email
  BY DEF ShopReq

LEMMA ShopRowFinds ==
  ASSUME NEW r \in ShopReq, NEW l \in Room
  PROVE  LET row == [r EXCEPT !.step = "create", !.loc = l] IN
         row \in ShopReq /\ row.step = "create" /\ row.loc = l /\ row.code = r.code
  BY DEF ShopReq

LEMMA ShopTypedStep == ShopTyped /\ [Shops!Next]_shopVars => ShopTyped'
<1> SUFFICES ASSUME ShopTyped, [Shops!Next]_shopVars PROVE ShopTyped'
  OBVIOUS
<1>t. /\ stores \in [Store -> [code : Code \cup {Nowhere, Gone}, loc : Room \cup {Nowhere}]]
      /\ locations \in [Room -> Code \cup {Nowhere}]
      /\ storeReq \in [Slot -> ShopReq]
  BY DEF ShopTyped, ShopRows
<1>k. ShopLinked
  BY DEF ShopTyped
<1>o. /\ jobs \subseteq Store /\ skewed \subseteq Room
      /\ logins \in [Email -> Store \cup {Nowhere}] /\ access \subseteq Email \X Store
  BY DEF ShopTyped, Shops!TypeOK
<1>u. Nowhere \notin Code \cup Email /\ Gone \notin Code \cup {Nowhere}
  BY BackOfficeAssumption
<1>b. Shops!Idle \in ShopReq /\ Shops!Idle.step = "idle"
  BY DEF Shops!Idle, ShopReq
\* The tables keep their types, and a request's row its links.
<1>1. ASSUME NEW q \in Slot, NEW row \in ShopReq, storeReq' = [storeReq EXCEPT ![q] = row],
             stores' \in [Store -> [code : Code \cup {Nowhere, Gone}, loc : Room \cup {Nowhere}]],
             locations' \in [Room -> Code \cup {Nowhere}],
             jobs' \subseteq Store, skewed' \subseteq Room,
             logins' \in [Email -> Store \cup {Nowhere}], access' \subseteq Email \X Store,
             \A s \in Store : /\ stores[s].code # Nowhere => stores'[s].code # Nowhere
                              /\ stores'[s].code \in Code => stores'[s].loc \in Room,
             row.step \in {"job", "login", "grant", "relocate", "edit"} =>
               row.store \in Store /\ stores'[row.store].code # Nowhere,
             row.step \in {"login", "grant"} => row.email \in Email,
             row.step \in {"locate", "create", "relocate", "edit"} => row.code \in Code,
             row.step \in {"create", "relocate", "edit"} => row.loc \in Room
      PROVE  ShopTyped'
  <2>1. /\ storeReq' \in [Slot -> ShopReq] /\ storeReq'[q] = row
        /\ \A r \in Slot : r # q => storeReq'[r] = storeReq[r]
    BY <1>1, <1>t
  <2>2. ShopRows'
    BY <1>1, <2>1 DEF ShopRows
  <2>3. ShopLinked'
    BY <1>1, <1>k, <2>1 DEF ShopLinked, Shops!Exists
  <2>4. Shops!TypeOK'
    BY <1>1, <2>1 DEF Shops!TypeOK, ShopReq
  <2> QED  BY <2>2, <2>3, <2>4 DEF ShopTyped
\* Where the stores stay as they are.
<1>2. ASSUME NEW q \in Slot, NEW row \in ShopReq, storeReq' = [storeReq EXCEPT ![q] = row], stores' = stores,
             locations' \in [Room -> Code \cup {Nowhere}],
             jobs' \subseteq Store, skewed' \subseteq Room,
             logins' \in [Email -> Store \cup {Nowhere}], access' \subseteq Email \X Store,
             row.step \in {"job", "login", "grant", "relocate", "edit"} =>
               row.store \in Store /\ stores[row.store].code # Nowhere,
             row.step \in {"login", "grant"} => row.email \in Email,
             row.step \in {"locate", "create", "relocate", "edit"} => row.code \in Code,
             row.step \in {"create", "relocate", "edit"} => row.loc \in Room
      PROVE  ShopTyped'
  <2>1. \A s \in Store : stores'[s].code \in Code => stores'[s].loc \in Room
    BY <1>2, <1>k DEF ShopLinked, Shops!Exists
  <2> QED  BY <1>1, <1>2, <1>t, <2>1
<1>3. ASSUME NEW q \in Slot, NEW c \in Code, NEW e \in Email \cup {Nowhere}, Shops!StartCreate(q, c, e)
      PROVE  ShopTyped'
  <2>1. PICK row : /\ row \in ShopReq /\ row.step = "locate" /\ row.code = c
                   /\ storeReq' = [storeReq EXCEPT ![q] = row]
    BY <1>3 DEF Shops!StartCreate, Shops!Idle, ShopReq
  <2>u. UNCHANGED <<stores, locations, jobs, logins, access, skewed>>
    BY <1>3 DEF Shops!StartCreate
  <2> QED  BY <1>2, <1>3, <1>t, <1>o, <2>1, <2>u
<1>4. ASSUME NEW q \in Slot, Shops!UpsertLocation(q) PROVE ShopTyped'
  <2>1. storeReq[q].step = "locate" /\ storeReq[q].code \in Code
    BY <1>4, <1>k DEF Shops!UpsertLocation, ShopLinked
  <2>2. PICK l \in Room : /\ locations' = [locations EXCEPT ![l] = storeReq[q].code]
                          /\ storeReq' = [storeReq EXCEPT ![q].step = "create", ![q].loc = l]
    BY <1>4 DEF Shops!UpsertLocation
  <2>3. PICK row : /\ row \in ShopReq /\ row.step = "create" /\ row.loc = l /\ row.code = storeReq[q].code
                   /\ storeReq' = [storeReq EXCEPT ![q] = row]
    <3> DEFINE row == [storeReq[q] EXCEPT !.step = "create", !.loc = l]
    <3>1. row \in ShopReq /\ row.step = "create" /\ row.loc = l /\ row.code = storeReq[q].code
      BY <1>4, <1>t, ShopRowFinds
    <3>2. storeReq' = [storeReq EXCEPT ![q] = row]
      BY <1>4, <1>t, <2>2
    <3> QED  BY <3>1, <3>2
  <2>4. locations' \in [Room -> Code \cup {Nowhere}]
    BY <1>t, <2>1, <2>2
  <2>u. UNCHANGED <<stores, jobs, logins, access, skewed>>
    BY <1>4 DEF Shops!UpsertLocation
  <2> QED  BY <1>2, <1>4, <1>o, <2>1, <2>3, <2>4, <2>u
<1>5. ASSUME NEW q \in Slot, NEW s \in Store, Shops!CreateStore(q, s) PROVE ShopTyped'
  <2>1. storeReq[q].code \in Code /\ storeReq[q].loc \in Room
    BY <1>5, <1>k DEF Shops!CreateStore, ShopLinked
  <2>2. PICK row : /\ row \in ShopReq /\ row.step = "job" /\ row.store = s
                   /\ storeReq' = [storeReq EXCEPT ![q] = row]
    BY <1>5, <1>t DEF Shops!CreateStore, Shops!Idle, ShopReq
  <2>3. stores' = [stores EXCEPT ![s] = [code |-> storeReq[q].code, loc |-> storeReq[q].loc]]
    BY <1>5 DEF Shops!CreateStore
  <2>4. /\ stores' \in [Store -> [code : Code \cup {Nowhere, Gone}, loc : Room \cup {Nowhere}]]
        /\ stores'[s].code \in Code /\ stores'[s].loc \in Room
        /\ \A r \in Store : r # s => stores'[r] = stores[r]
    BY <1>5, <1>t, <2>1, <2>3
  <2>5. \A r \in Store : /\ stores[r].code # Nowhere => stores'[r].code # Nowhere
                         /\ stores'[r].code \in Code => stores'[r].loc \in Room
    BY <1>k, <1>u, <2>4 DEF ShopLinked, Shops!Exists
  <2>u. UNCHANGED <<locations, jobs, logins, access, skewed>>
    BY <1>5 DEF Shops!CreateStore
  <2>6. stores'[s].code # Nowhere
    BY <1>u, <2>4
  <2> QED  BY <1>1, <1>5, <1>t, <1>o, <2>2, <2>4, <2>5, <2>6, <2>u
<1>6. ASSUME NEW q \in Slot, Shops!CreateJob(q) PROVE ShopTyped'
  <2>1. PICK s : s = storeReq[q].store /\ s \in Store /\ stores[s].code # Nowhere
    BY <1>6, <1>k DEF Shops!CreateJob, ShopLinked
  <2>2. jobs' = jobs \cup {s} /\ UNCHANGED <<stores, locations, logins, access, skewed>>
    BY <1>6, <2>1 DEF Shops!CreateJob
  <2>3. storeReq[q].email = Nowhere \/ storeReq[q].email \in Email
    BY <1>6, <1>t DEF ShopReq
  <2>4. CASE storeReq[q].email = Nowhere
    <3>1. storeReq' = [storeReq EXCEPT ![q] = Shops!Idle]
      BY <1>6, <2>4 DEF Shops!CreateJob, Shops!End
    <3> QED  BY <1>2, <1>6, <1>t, <1>o, <1>b, <2>1, <2>2, <3>1
  <2>5. CASE storeReq[q].email # Nowhere
    <3> DEFINE row == [storeReq[q] EXCEPT !.step = "login"]
    <3>1. row \in ShopReq /\ row.step = "login" /\ row.store = s /\ row.email \in Email
      BY <1>6, <1>t, <2>1, <2>3, <2>5, ShopRowNext
    <3>2. storeReq' = [storeReq EXCEPT ![q] = row]
      BY <1>6, <1>t, <2>5 DEF Shops!CreateJob, Shops!Goto
    <3> HIDE DEF row
    <3> QED  BY <1>2, <1>6, <1>t, <1>o, <2>1, <2>2, <3>1, <3>2
  <2> QED  BY <2>4, <2>5
<1>7. ASSUME NEW q \in Slot, NEW s \in Store, NEW e \in Email, Shops!provisionLogin(q, s, e) PROVE ShopTyped'
  <2>1. PICK row : /\ row \in ShopReq /\ row.step = "login" /\ row.store = s /\ row.email = e
                   /\ storeReq' = [storeReq EXCEPT ![q] = row]
    BY <1>7 DEF Shops!provisionLogin, Shops!Idle, ShopReq
  <2>u. UNCHANGED <<stores, locations, jobs, logins, access, skewed>> /\ stores[s].code # Nowhere
    BY <1>7, <1>u DEF Shops!provisionLogin, Shops!Exists
  <2> QED  BY <1>2, <1>7, <1>t, <1>o, <2>1, <2>u
<1>8. ASSUME NEW q \in Slot, Shops!WriteLogin(q) PROVE ShopTyped'
  <2>1. PICK s, e : /\ s = storeReq[q].store /\ s \in Store /\ stores[s].code # Nowhere
                    /\ e = storeReq[q].email /\ e \in Email
    BY <1>8, <1>k DEF Shops!WriteLogin, ShopLinked
  <2>2. logins' = [logins EXCEPT ![e] = s] /\ UNCHANGED <<stores, locations, jobs, access, skewed>>
    BY <1>8, <2>1 DEF Shops!WriteLogin
  <2>3. PICK row : /\ row \in ShopReq /\ storeReq' = [storeReq EXCEPT ![q] = row]
                   /\ row.step = "grant" /\ row.store = s /\ row.email = e
    <3> DEFINE row == [storeReq[q] EXCEPT !.step = "grant"]
    <3>1. /\ row \in ShopReq /\ row.step = "grant" /\ row.store = storeReq[q].store
          /\ row.loc = storeReq[q].loc /\ row.code = storeReq[q].code /\ row.email = storeReq[q].email
      BY <1>8, <1>t, ShopRowNext
    <3>2. storeReq' = [storeReq EXCEPT ![q] = row]
      BY <1>8, <1>t DEF Shops!WriteLogin, Shops!UpdateLocation, Shops!Goto
    <3> HIDE DEF row
    <3> QED  BY <2>1, <3>1, <3>2
  <2> QED  BY <1>2, <1>8, <1>t, <1>o, <2>1, <2>2, <2>3
<1>9. ASSUME NEW q \in Slot, Shops!GrantAccess(q) PROVE ShopTyped'
  <2>1. PICK s, e : s = storeReq[q].store /\ s \in Store /\ e = storeReq[q].email /\ e \in Email
    BY <1>9, <1>k DEF Shops!GrantAccess, ShopLinked
  <2>2. access' = access \cup {<<e, s>>} /\ UNCHANGED <<stores, locations, jobs, logins, skewed>>
    BY <1>9, <2>1 DEF Shops!GrantAccess
  <2>3. storeReq' = [storeReq EXCEPT ![q] = Shops!Idle]
    BY <1>9 DEF Shops!GrantAccess, Shops!End
  <2>4. access' \subseteq Email \X Store
    BY <1>o, <2>1, <2>2
  <2> QED  BY <1>2, <1>9, <1>t, <1>o, <1>b, <2>2, <2>3, <2>4
<1>10. ASSUME NEW q \in Slot, NEW s \in Store, NEW c \in Code, Shops!StartUpdate(q, s, c) PROVE ShopTyped'
  <2>1. stores[s].code # Nowhere /\ stores[s].loc \in Room
    BY <1>10, <1>k, <1>u DEF Shops!StartUpdate, Shops!Exists, ShopLinked
  <2>2. PICK row : /\ row \in ShopReq /\ row.step = "relocate" /\ row.store = s /\ row.code = c
                   /\ row.loc = stores[s].loc /\ storeReq' = [storeReq EXCEPT ![q] = row]
    BY <1>10, <2>1 DEF Shops!StartUpdate, Shops!Idle, ShopReq
  <2>u. UNCHANGED <<stores, locations, jobs, logins, access>> /\ skewed' \subseteq skewed \cup {stores[s].loc}
    BY <1>10 DEF Shops!StartUpdate
  <2>3. skewed' \subseteq Room
    BY <1>o, <2>1, <2>u
  <2> QED  BY <1>2, <1>10, <1>t, <1>o, <2>1, <2>2, <2>3, <2>u
<1>11. ASSUME NEW q \in Slot, Shops!UpdateLocation(q) PROVE ShopTyped'
  <2>1. PICK s, l, c : /\ s = storeReq[q].store /\ s \in Store /\ stores[s].code # Nowhere
                       /\ l = storeReq[q].loc /\ l \in Room /\ c = storeReq[q].code /\ c \in Code
    BY <1>11, <1>k DEF Shops!UpdateLocation, ShopLinked
  <2>2. /\ locations' = [locations EXCEPT ![l] = c] /\ skewed' \subseteq skewed \cup {l}
        /\ UNCHANGED <<stores, jobs, logins, access>>
    BY <1>11, <2>1 DEF Shops!UpdateLocation
  <2>3. PICK row : /\ row \in ShopReq /\ storeReq' = [storeReq EXCEPT ![q] = row]
                   /\ row.step = "edit" /\ row.store = s /\ row.loc = l /\ row.code = c
    <3> DEFINE row == [storeReq[q] EXCEPT !.step = "edit"]
    <3>1. /\ row \in ShopReq /\ row.step = "edit" /\ row.store = storeReq[q].store
          /\ row.loc = storeReq[q].loc /\ row.code = storeReq[q].code /\ row.email = storeReq[q].email
      BY <1>11, <1>t, ShopRowNext
    <3>2. storeReq' = [storeReq EXCEPT ![q] = row]
      BY <1>11, <1>t DEF Shops!WriteLogin, Shops!UpdateLocation, Shops!Goto
    <3> HIDE DEF row
    <3> QED  BY <2>1, <3>1, <3>2
  <2>4. locations' \in [Room -> Code \cup {Nowhere}] /\ skewed' \subseteq Room
    BY <1>t, <1>o, <2>1, <2>2
  <2> QED  BY ZenonT(60), <1>2, <1>11, <1>o, <2>1, <2>2, <2>3, <2>4
<1>12. ASSUME NEW q \in Slot, Shops!UpdateStore(q) PROVE ShopTyped'
  <2>1. PICK s, c : /\ s = storeReq[q].store /\ s \in Store /\ c = storeReq[q].code /\ c \in Code
                    /\ stores[s].code \in Code
    BY <1>12, <1>k DEF Shops!UpdateStore, Shops!Exists, ShopLinked
  <2>2. /\ stores' = [stores EXCEPT ![s].code = c] /\ storeReq' = [storeReq EXCEPT ![q] = Shops!Idle]
        /\ UNCHANGED <<locations, jobs, logins, access, skewed>>
    BY <1>12, <2>1 DEF Shops!UpdateStore, Shops!End
  <2>3. /\ stores' \in [Store -> [code : Code \cup {Nowhere, Gone}, loc : Room \cup {Nowhere}]]
        /\ stores'[s].code = c /\ stores'[s].loc = stores[s].loc
        /\ \A r \in Store : r # s => stores'[r] = stores[r]
    BY <1>t, <2>1, <2>2
  <2>4. \A r \in Store : /\ stores[r].code # Nowhere => stores'[r].code # Nowhere
                         /\ stores'[r].code \in Code => stores'[r].loc \in Room
    BY <1>k, <1>u, <2>1, <2>3 DEF ShopLinked, Shops!Exists
  <2> QED  BY <1>1, <1>12, <1>t, <1>o, <1>b, <2>2, <2>3, <2>4
<1>13. ASSUME NEW q \in Slot, Shops!Fail(q) PROVE ShopTyped'
  <2>1. /\ storeReq' = [storeReq EXCEPT ![q] = Shops!Idle]
        /\ UNCHANGED <<stores, locations, jobs, logins, access>>
    BY <1>13 DEF Shops!Fail, Shops!End
  <2>2. skewed' \subseteq Room
    BY <1>13, <1>k, <1>o DEF Shops!Fail, ShopLinked
  <2> QED  BY <1>2, <1>13, <1>t, <1>o, <1>b, <2>1, <2>2
<1>14. ASSUME UNCHANGED <<storeReq, locations>>, skewed' \subseteq Room, jobs' \subseteq Store,
              logins' \in [Email -> Store \cup {Nowhere}], access' \subseteq Email \X Store,
              stores' \in [Store -> [code : Code \cup {Nowhere, Gone}, loc : Room \cup {Nowhere}]],
              \A s \in Store : /\ stores[s].code # Nowhere => stores'[s].code # Nowhere
                               /\ stores'[s].code \in Code => stores'[s] = stores[s]
       PROVE  ShopTyped'
  <2>1. ShopRows'
    BY <1>14, <1>t DEF ShopRows
  <2>2. ShopLinked'
    BY <1>14, <1>k DEF ShopLinked, Shops!Exists
  <2>3. Shops!TypeOK'
    BY <1>14, <1>t DEF Shops!TypeOK, ShopReq
  <2> QED  BY <2>1, <2>2, <2>3 DEF ShopTyped
<1>15. ASSUME NEW s \in Store, Shops!remove(s) PROVE ShopTyped'
  <2>1. stores[s].loc \in Room
    BY <1>15, <1>k DEF Shops!remove, ShopLinked
  <2>2. /\ stores' = [stores EXCEPT ![s] = [code |-> Gone, loc |-> Nowhere]]
        /\ jobs' \subseteq jobs /\ access' \subseteq access /\ skewed' \subseteq skewed \cup {stores[s].loc}
        /\ logins' = [e \in Email |-> IF logins[e] = s THEN Nowhere ELSE logins[e]]
        /\ UNCHANGED <<storeReq, locations>>
    BY <1>15 DEF Shops!remove
  <2>3. /\ stores' \in [Store -> [code : Code \cup {Nowhere, Gone}, loc : Room \cup {Nowhere}]]
        /\ stores'[s].code = Gone /\ \A r \in Store : r # s => stores'[r] = stores[r]
    BY <1>15, <1>t, <2>2
  <2>4. logins' \in [Email -> Store \cup {Nowhere}]
    BY <1>o, <2>2
  <2>5. skewed' \subseteq Room /\ jobs' \subseteq Store /\ access' \subseteq Email \X Store
    BY <1>o, <2>1, <2>2
  <2>6. \A r \in Store : /\ stores[r].code # Nowhere => stores'[r].code # Nowhere
                         /\ stores'[r].code \in Code => stores'[r] = stores[r]
    BY <1>u, <2>3
  <2>7. UNCHANGED <<storeReq, locations>>
    BY <2>2
  <2> QED  BY <1>14, <2>3, <2>4, <2>5, <2>6, <2>7
<1>16. ASSUME NEW s \in Store, Shops!HealJob(s) PROVE ShopTyped'
  BY <1>14, <1>16, <1>t, <1>o DEF Shops!HealJob
<1>17. ASSUME NEW e \in Email, NEW S \in SUBSET Store, Shops!setStoreAccess(e, S) PROVE ShopTyped'
  <2>1. access' \subseteq Email \X Store
    BY <1>17, <1>o DEF Shops!setStoreAccess
  <2>2. UNCHANGED <<stores, locations, jobs, logins, storeReq, skewed>>
    BY <1>17 DEF Shops!setStoreAccess
  <2> QED  BY <1>14, <1>t, <1>o, <2>1, <2>2
<1>18. ASSUME UNCHANGED shopVars PROVE ShopTyped'
  BY <1>14, <1>18, <1>t, <1>o DEF shopVars
<1> QED  BY <1>3, <1>4, <1>5, <1>6, <1>7, <1>8, <1>9, <1>10, <1>11, <1>12, <1>13, <1>15, <1>16, <1>17, <1>18
         DEF Shops!Next

LEMMA ShopStep == ShopTyped /\ ShopInv /\ [Shops!Next]_shopVars => ShopInv'
<1> SUFFICES ASSUME ShopTyped, ShopInv, [Shops!Next]_shopVars PROVE ShopInv'
  OBVIOUS
<1>t. /\ stores \in [Store -> [code : Code \cup {Nowhere, Gone}, loc : Room \cup {Nowhere}]]
      /\ locations \in [Room -> Code \cup {Nowhere}]
      /\ storeReq \in [Slot -> ShopReq]
  BY DEF ShopTyped, ShopRows
<1>k. ShopLinked
  BY DEF ShopTyped
<1>u. Nowhere \notin Code /\ Gone \notin Code
  BY BackOfficeAssumption
<1>b. Shops!Idle.step = "idle"
  BY DEF Shops!Idle
<1>o. OneRoomEach
  BY DEF ShopInv
<1>i. OfItsRoom
  BY DEF ShopInv
<1>a. EditsAlone
  BY DEF ShopInv
<1>e. RoomOfEdited
  BY DEF ShopInv
<1>c. RoomOfCreated
  BY DEF ShopInv
<1>l. \A s \in Store : Shops!Exists(s) /\ (\A q \in Slot : ~EditOf(q, s)) /\ stores[s].loc \notin skewed =>
        locations[stores[s].loc] = stores[s].code
  BY DEF ShopInv, Shops!LocationInStep, Shops!Editing, EditOf
\* A request that neither edits nor has a location, before and after.
<1>1. ASSUME NEW q \in Slot, UNCHANGED <<stores, locations, skewed>>,
             \A r \in Slot : r # q => storeReq'[r] = storeReq[r],
             storeReq[q].step \notin {"relocate", "edit"}, storeReq'[q].step \notin {"create", "relocate", "edit"}
      PROVE  ShopInv'
  <2>1. \A r \in Slot, s \in Store : EditOf(r, s)' <=> EditOf(r, s)
    BY <1>1 DEF EditOf
  <2>2. \A r \in Slot, s \in Store : EditOf(r, s) => storeReq'[r] = storeReq[r]
    BY <1>1 DEF EditOf
  <2>3. \A s \in Store : Shops!Exists(s)' <=> Shops!Exists(s)
    BY <1>1 DEF Shops!Exists
  <2>4. \A s \in Store : Shops!Editing(s)' <=> \E r \in Slot : EditOf(r, s)
    BY <2>1 DEF Shops!Editing, EditOf
  <2>5. OneRoomEach' /\ OfItsRoom' /\ EditsAlone' /\ RoomOfEdited'
    BY <1>1, <1>o, <1>i, <1>a, <1>e, <2>1, <2>2, <2>3 DEF OneRoomEach, OfItsRoom, EditsAlone, RoomOfEdited
  <2>6. RoomOfCreated'
    BY <1>1, <1>c DEF RoomOfCreated
  <2>7. Shops!LocationInStep'
    BY <1>1, <1>l, <2>3, <2>4 DEF Shops!LocationInStep
  <2> QED  BY <2>5, <2>6, <2>7 DEF ShopInv
<1>2. ASSUME UNCHANGED <<stores, locations, skewed, storeReq>> PROVE ShopInv'
  BY <1>2 DEF ShopInv, OneRoomEach, OfItsRoom, EditsAlone, RoomOfEdited, RoomOfCreated, EditOf,
              Shops!LocationInStep, Shops!Exists, Shops!Editing
<1>3. ASSUME NEW q \in Slot, NEW c \in Code, NEW e \in Email \cup {Nowhere}, Shops!StartCreate(q, c, e)
      PROVE  ShopInv'
  <2>1. /\ storeReq'[q].step = "locate" /\ storeReq[q].step = "idle"
        /\ \A r \in Slot : r # q => storeReq'[r] = storeReq[r]
    BY <1>3, <1>t DEF Shops!StartCreate, Shops!Idle
  <2>u. UNCHANGED <<stores, locations, skewed>>
    BY <1>3 DEF Shops!StartCreate
  <2> QED  BY <1>1, <1>3, <2>1, <2>u
<1>4. ASSUME NEW q \in Slot, Shops!UpsertLocation(q) PROVE ShopInv'
  <2>1. storeReq[q].step = "locate" /\ storeReq[q].code \in Code
    BY <1>4, <1>k DEF Shops!UpsertLocation, ShopLinked
  <2>2. PICK l \in Room : /\ locations[l] \in {storeReq[q].code, Nowhere}
                          /\ locations' = [locations EXCEPT ![l] = storeReq[q].code]
                          /\ storeReq' = [storeReq EXCEPT ![q].step = "create", ![q].loc = l]
    BY <1>4 DEF Shops!UpsertLocation
  <2>3. /\ storeReq'[q].step = "create" /\ storeReq'[q].loc = l /\ storeReq'[q].code = storeReq[q].code
        /\ \A r \in Slot : r # q => storeReq'[r] = storeReq[r]
    <3> DEFINE row == [storeReq[q] EXCEPT !.step = "create", !.loc = l]
    <3>1. row \in ShopReq /\ row.step = "create" /\ row.loc = l /\ row.code = storeReq[q].code
      BY <1>4, <1>t, ShopRowFinds
    <3>2. storeReq' = [storeReq EXCEPT ![q] = row]
      BY <1>4, <1>t, <2>2
    <3> HIDE DEF row
    <3> QED  BY <1>4, <1>t, <3>1, <3>2
  <2>4. /\ locations'[l] = storeReq[q].code
        /\ \A m \in Room : locations[m] # Nowhere => locations'[m] = locations[m]
    BY <1>t, <2>2
  <2>u. UNCHANGED <<stores, skewed>>
    BY <1>4 DEF Shops!UpsertLocation
  <2>5. \A r \in Slot, s \in Store : (EditOf(r, s)' <=> EditOf(r, s)) /\ (EditOf(r, s) => storeReq'[r] = storeReq[r])
    BY <2>1, <2>3 DEF EditOf
  <2>6. \A s \in Store : (Shops!Exists(s)' <=> Shops!Exists(s)) /\ (Shops!Editing(s)' <=> \E r \in Slot : EditOf(r, s))
    BY <2>5, <2>u DEF Shops!Exists, Shops!Editing, EditOf
  <2>7. OneRoomEach' /\ OfItsRoom' /\ EditsAlone'
    BY <1>o, <1>i, <1>a, <2>5, <2>6, <2>u DEF OneRoomEach, OfItsRoom, EditsAlone
  <2>8. RoomOfEdited'
    <3> SUFFICES ASSUME NEW r \in Slot, NEW s \in Store, EditOf(r, s), storeReq[r].loc \notin skewed
                 PROVE  locations'[storeReq[r].loc] =
                          IF storeReq[r].step = "edit" THEN storeReq[r].code ELSE stores[s].code
      BY <2>5, <2>u DEF RoomOfEdited
    <3>1. /\ locations[storeReq[r].loc] = IF storeReq[r].step = "edit" THEN storeReq[r].code ELSE stores[s].code
          /\ Shops!Exists(s) /\ storeReq[r].loc \in Room /\ storeReq[r].code \in Code
      BY <1>a, <1>e, <1>k DEF EditsAlone, RoomOfEdited, EditOf, ShopLinked
    <3>2. locations[storeReq[r].loc] # Nowhere
      BY <1>u, <3>1 DEF Shops!Exists
    <3> QED  BY <2>4, <3>1, <3>2
  <2>9. RoomOfCreated'
    <3> SUFFICES ASSUME NEW r \in Slot, storeReq'[r].step = "create", storeReq'[r].loc \notin skewed
                 PROVE  locations'[storeReq'[r].loc] = storeReq'[r].code
      BY <2>u DEF RoomOfCreated
    <3>1. CASE r = q
      BY <2>3, <2>4, <3>1
    <3>2. CASE r # q
      <4>1. /\ storeReq'[r] = storeReq[r] /\ storeReq[r].code \in Code /\ storeReq[r].loc \in Room
            /\ locations[storeReq[r].loc] = storeReq[r].code
        BY <1>c, <1>k, <2>3, <3>2 DEF RoomOfCreated, ShopLinked
      <4> QED  BY <1>u, <2>4, <4>1
    <3> QED  BY <3>1, <3>2
  <2>10. Shops!LocationInStep'
    <3> SUFFICES ASSUME NEW s \in Store, Shops!Exists(s), \A r \in Slot : ~EditOf(r, s), stores[s].loc \notin skewed
                 PROVE  locations'[stores[s].loc] = stores[s].code
      BY <2>6, <2>u DEF Shops!LocationInStep
    <3>1. locations[stores[s].loc] = stores[s].code /\ stores[s].loc \in Room /\ stores[s].code \in Code
      BY <1>l, <1>k DEF ShopLinked, Shops!Exists
    <3> QED  BY <1>u, <2>4, <3>1
  <2> QED  BY <2>7, <2>8, <2>9, <2>10 DEF ShopInv
<1>5. ASSUME NEW q \in Slot, NEW s \in Store, Shops!CreateStore(q, s) PROVE ShopInv'
  <2>1. PICK c, l : /\ c = storeReq[q].code /\ c \in Code /\ l = storeReq[q].loc /\ l \in Room
                    /\ storeReq[q].step = "create"
    BY <1>5, <1>k DEF Shops!CreateStore, ShopLinked
  <2>2. /\ stores[s].code = Nowhere /\ \A t \in Store : Shops!Exists(t) => stores[t].loc # l
        /\ stores' = [stores EXCEPT ![s] = [code |-> c, loc |-> l]]
    BY <1>5, <2>1 DEF Shops!CreateStore
  <2>3. /\ stores'[s].code = c /\ stores'[s].loc = l
        /\ \A r \in Store : r # s => stores'[r] = stores[r]
    BY <1>5, <1>t, <2>2
  <2>4. /\ storeReq'[q].step = "job" /\ \A r \in Slot : r # q => storeReq'[r] = storeReq[r]
    BY <1>5, <1>t DEF Shops!CreateStore, Shops!Idle
  <2>u. UNCHANGED <<locations, skewed>>
    BY <1>5 DEF Shops!CreateStore
  <2>5. \A r \in Slot, t \in Store : /\ EditOf(r, t)' <=> EditOf(r, t)
                                     /\ EditOf(r, t) => storeReq'[r] = storeReq[r] /\ t # s
    BY <1>k, <2>1, <2>2, <2>4 DEF EditOf, ShopLinked
  <2>6. /\ Shops!Exists(s)' /\ ~Shops!Exists(s)
        /\ \A t \in Store : t # s => (Shops!Exists(t)' <=> Shops!Exists(t))
        /\ \A t \in Store : Shops!Editing(t)' <=> \E r \in Slot : EditOf(r, t)
    BY <1>u, <2>1, <2>2, <2>3, <2>5 DEF Shops!Exists, Shops!Editing, EditOf
  <2>7. OneRoomEach'
    BY <1>o, <2>2, <2>3, <2>6 DEF OneRoomEach
  <2>8. OfItsRoom' /\ EditsAlone' /\ RoomOfEdited'
    BY <1>i, <1>a, <1>e, <2>3, <2>5, <2>6, <2>u DEF OfItsRoom, EditsAlone, RoomOfEdited
  <2>9. RoomOfCreated'
    BY <1>c, <2>4, <2>u DEF RoomOfCreated
  <2>10. Shops!LocationInStep'
    <3> SUFFICES ASSUME NEW t \in Store, Shops!Exists(t)', \A r \in Slot : ~EditOf(r, t), stores'[t].loc \notin skewed
                 PROVE  locations[stores'[t].loc] = stores'[t].code
      BY <2>6, <2>u DEF Shops!LocationInStep
    <3>1. CASE t = s
      BY <1>c, <2>1, <2>3, <3>1 DEF RoomOfCreated
    <3>2. CASE t # s
      BY <1>l, <2>3, <2>6, <3>2
    <3> QED  BY <3>1, <3>2
  <2> QED  BY <2>7, <2>8, <2>9, <2>10 DEF ShopInv
<1>6. ASSUME NEW q \in Slot, Shops!CreateJob(q) \/ Shops!WriteLogin(q) \/ Shops!GrantAccess(q) PROVE ShopInv'
  <2>1. UNCHANGED <<stores, locations, skewed>> /\ storeReq[q].step \in {"job", "login", "grant"}
    BY <1>6 DEF Shops!CreateJob, Shops!WriteLogin, Shops!GrantAccess
  <2>2. \/ storeReq' = [storeReq EXCEPT ![q] = Shops!Idle]
        \/ storeReq' = [storeReq EXCEPT ![q].step = "login"]
        \/ storeReq' = [storeReq EXCEPT ![q].step = "grant"]
    BY <1>6 DEF Shops!CreateJob, Shops!WriteLogin, Shops!GrantAccess, Shops!End, Shops!Goto
  <2>3. storeReq[q] \in ShopReq
    BY <1>6, <1>t
  <2>4. /\ storeReq'[q].step \in {"idle", "login", "grant"}
        /\ \A r \in Slot : r # q => storeReq'[r] = storeReq[r]
    <3>1. CASE storeReq' = [storeReq EXCEPT ![q] = Shops!Idle]
      BY <1>6, <1>t, <1>b, <3>1
    <3>2. CASE storeReq' = [storeReq EXCEPT ![q].step = "login"]
      BY <1>6, <1>t, <2>3, <3>2 DEF ShopReq
    <3>3. CASE storeReq' = [storeReq EXCEPT ![q].step = "grant"]
      BY <1>6, <1>t, <2>3, <3>3 DEF ShopReq
    <3> QED  BY <2>2, <3>1, <3>2, <3>3
  <2> QED  BY <1>1, <1>6, <2>1, <2>4
<1>7. ASSUME NEW q \in Slot, NEW s \in Store, NEW e \in Email, Shops!provisionLogin(q, s, e) PROVE ShopInv'
  <2>1. /\ storeReq'[q].step = "login" /\ storeReq[q].step = "idle"
        /\ \A r \in Slot : r # q => storeReq'[r] = storeReq[r]
    BY <1>7, <1>t DEF Shops!provisionLogin, Shops!Idle
  <2>u. UNCHANGED <<stores, locations, skewed>>
    BY <1>7 DEF Shops!provisionLogin
  <2> QED  BY <1>1, <1>7, <2>1, <2>u
<1>8. ASSUME NEW q \in Slot, NEW s \in Store, NEW c \in Code, Shops!StartUpdate(q, s, c) PROVE ShopInv'
  <2>1. PICK l : l = stores[s].loc
    OBVIOUS
  <2>2. /\ storeReq'[q].step = "relocate" /\ storeReq'[q].store = s /\ storeReq'[q].loc = l
        /\ storeReq[q].step = "idle" /\ \A r \in Slot : r # q => storeReq'[r] = storeReq[r]
    BY <1>8, <1>t, <2>1 DEF Shops!StartUpdate, Shops!Idle
  <2>3. /\ Shops!Exists(s) /\ UNCHANGED <<stores, locations>>
        /\ skewed \subseteq skewed'
        /\ (\E r \in Slot : EditOf(r, s)) => l \in skewed'
    BY <1>8, <2>1 DEF Shops!StartUpdate, Shops!Editing, EditOf
  <2>4. /\ \A t \in Store : EditOf(q, t)' <=> t = s
        /\ \A r \in Slot, t \in Store : /\ r # q => (EditOf(r, t)' <=> EditOf(r, t))
                                        /\ EditOf(r, t) => r # q
    BY <2>2 DEF EditOf
  <2>5. \A t \in Store : /\ Shops!Exists(t)' <=> Shops!Exists(t)
                         /\ Shops!Editing(t)' <=> \E r \in Slot : EditOf(r, t)'
    BY <2>3 DEF Shops!Exists, Shops!Editing, EditOf
  <2>6. OneRoomEach'
    BY <1>o, <2>3, <2>5 DEF OneRoomEach
  <2>7. OfItsRoom'
    BY <1>i, <2>1, <2>2, <2>3, <2>4, <2>5 DEF OfItsRoom
  <2>8. ASSUME NEW r \in Slot, NEW t \in Store, EditOf(r, t)', storeReq'[r].loc \notin skewed'
        PROVE  /\ Shops!Exists(t)' /\ \A z \in Slot : EditOf(z, t)' => z = r
               /\ locations'[storeReq'[r].loc] =
                    IF storeReq'[r].step = "edit" THEN storeReq'[r].code ELSE stores'[t].code
    <3>1. CASE r = q
      <4>1. t = s /\ storeReq'[r].loc = l /\ l \notin skewed /\ \A z \in Slot : ~EditOf(z, s)
        BY <2>2, <2>3, <2>4, <2>8, <3>1
      <4>2. locations[l] = stores[s].code
        BY <1>l, <2>1, <2>3, <4>1
      <4> QED  BY <2>2, <2>3, <2>4, <2>5, <3>1, <4>1, <4>2
    <3>2. CASE r # q
      <4>1. storeReq'[r] = storeReq[r] /\ EditOf(r, t) /\ storeReq[r].loc \notin skewed
        BY <2>2, <2>3, <2>4, <2>8, <3>2
      <4>2. /\ Shops!Exists(t) /\ \A z \in Slot : EditOf(z, t) => z = r
            /\ locations[storeReq[r].loc] = IF storeReq[r].step = "edit" THEN storeReq[r].code ELSE stores[t].code
        BY <1>a, <1>e, <4>1 DEF EditsAlone, RoomOfEdited
      <4>3. t # s
        BY <1>i, <2>1, <2>3, <2>8, <4>1 DEF OfItsRoom
      <4> QED  BY <2>3, <2>4, <2>5, <4>1, <4>2, <4>3
    <3> QED  BY <3>1, <3>2
  <2>9. EditsAlone' /\ RoomOfEdited'
    BY <2>8 DEF EditsAlone, RoomOfEdited
  <2>10. RoomOfCreated'
    BY <1>c, <2>2, <2>3 DEF RoomOfCreated
  <2>11. Shops!LocationInStep'
    <3> SUFFICES ASSUME NEW t \in Store, Shops!Exists(t), \A r \in Slot : ~EditOf(r, t)', stores[t].loc \notin skewed
                 PROVE  locations[stores[t].loc] = stores[t].code
      BY <2>3, <2>5 DEF Shops!LocationInStep
    <3>1. \A r \in Slot : ~EditOf(r, t)
      BY <2>4
    <3> QED  BY <1>l, <3>1
  <2> QED  BY <2>6, <2>7, <2>9, <2>10, <2>11 DEF ShopInv
<1>9. ASSUME NEW q \in Slot, Shops!UpdateLocation(q) PROVE ShopInv'
  <2>1. PICK s, l, c : /\ s = storeReq[q].store /\ s \in Store /\ l = storeReq[q].loc /\ l \in Room
                       /\ c = storeReq[q].code /\ storeReq[q].step = "relocate"
    BY <1>9, <1>k DEF Shops!UpdateLocation, ShopLinked
  <2>2. /\ locations' = [locations EXCEPT ![l] = c] /\ UNCHANGED stores
        /\ skewed \subseteq skewed'
        /\ Shops!Claimed(l) => l \in skewed'
    BY <1>9, <2>1 DEF Shops!UpdateLocation
  <2>3. /\ storeReq'[q].step = "edit" /\ storeReq'[q].store = s /\ storeReq'[q].loc = l /\ storeReq'[q].code = c
        /\ \A r \in Slot : r # q => storeReq'[r] = storeReq[r]
    <3> DEFINE row == [storeReq[q] EXCEPT !.step = "edit"]
    <3>1. /\ row \in ShopReq /\ row.step = "edit" /\ row.store = storeReq[q].store
          /\ row.loc = storeReq[q].loc /\ row.code = storeReq[q].code
      BY <1>9, <1>t, ShopRowNext
    <3>2. storeReq' = [storeReq EXCEPT ![q] = row]
      BY <1>9, <1>t DEF Shops!UpdateLocation, Shops!Goto
    <3> HIDE DEF row
    <3> QED  BY <1>9, <1>t, <2>1, <3>1, <3>2
  <2>4. /\ locations'[l] = c /\ \A m \in Room : m # l => locations'[m] = locations[m]
    BY <1>t, <2>1, <2>2
  <2>5. /\ EditOf(q, s) /\ \A r \in Slot, t \in Store : EditOf(r, t)' <=> EditOf(r, t)
        /\ \A t \in Store : EditOf(q, t) => t = s
    BY <2>1, <2>3 DEF EditOf
  <2>6. \A t \in Store : /\ Shops!Exists(t)' <=> Shops!Exists(t)
                         /\ Shops!Editing(t)' <=> \E r \in Slot : EditOf(r, t)
    BY <2>2, <2>5 DEF Shops!Exists, Shops!Editing, EditOf
  <2>7. OneRoomEach' /\ OfItsRoom'
    BY <1>o, <1>i, <2>1, <2>2, <2>3, <2>5, <2>6 DEF OneRoomEach, OfItsRoom
  <2>8. EditsAlone'
    BY <1>a, <2>1, <2>2, <2>3, <2>5, <2>6 DEF EditsAlone
  \* No other store is at the location, unless it is skewed.
  <2>9. ASSUME l \notin skewed, NEW t \in Store, Shops!Exists(t), stores[t].loc = l PROVE t = s
    BY <1>a, <1>i, <1>o, <2>1, <2>5, <2>9 DEF EditsAlone, OfItsRoom, OneRoomEach
  <2>10. RoomOfEdited'
    <3> SUFFICES ASSUME NEW r \in Slot, NEW t \in Store, EditOf(r, t), storeReq'[r].loc \notin skewed
                 PROVE  locations'[storeReq'[r].loc] =
                          IF storeReq'[r].step = "edit" THEN storeReq'[r].code ELSE stores[t].code
      BY <2>2, <2>5 DEF RoomOfEdited
    <3>1. CASE r = q
      BY <2>3, <2>4, <3>1
    <3>2. CASE r # q
      <4>1. /\ storeReq'[r] = storeReq[r] /\ Shops!Exists(t) /\ storeReq[r].loc \in Room
            /\ stores[t].loc = storeReq[r].loc /\ \A z \in Slot : EditOf(z, t) => z = r
            /\ locations[storeReq[r].loc] = IF storeReq[r].step = "edit" THEN storeReq[r].code ELSE stores[t].code
        BY <1>a, <1>i, <1>e, <1>k, <2>3, <3>2 DEF EditsAlone, OfItsRoom, RoomOfEdited, ShopLinked, EditOf
      <4>2. storeReq[r].loc # l
        BY <2>5, <2>9, <3>2, <4>1
      <4> QED  BY <2>4, <4>1, <4>2
    <3> QED  BY <3>1, <3>2
  <2>11. RoomOfCreated'
    <3> SUFFICES ASSUME NEW r \in Slot, storeReq'[r].step = "create", storeReq'[r].loc \notin skewed'
                 PROVE  locations'[storeReq'[r].loc] = storeReq'[r].code
      BY DEF RoomOfCreated
    <3>1. /\ storeReq'[r] = storeReq[r] /\ storeReq[r].loc \in Room
          /\ locations[storeReq[r].loc] = storeReq[r].code
      BY <1>c, <1>k, <2>2, <2>3 DEF RoomOfCreated, ShopLinked
    <3>2. storeReq[r].loc # l
      BY <2>2, <3>1 DEF Shops!Claimed
    <3> QED  BY <2>4, <3>1, <3>2
  <2>12. Shops!LocationInStep'
    <3> SUFFICES ASSUME NEW t \in Store, Shops!Exists(t), \A r \in Slot : ~EditOf(r, t), stores[t].loc \notin skewed
                 PROVE  locations'[stores[t].loc] = stores[t].code
      BY <2>2, <2>6 DEF Shops!LocationInStep
    <3>1. stores[t].loc # l /\ stores[t].loc \in Room
      BY <1>9, <1>k, <2>5, <2>9 DEF ShopLinked
    <3> QED  BY <1>l, <2>4, <3>1
  <2> QED  BY <2>7, <2>8, <2>10, <2>11, <2>12 DEF ShopInv
<1>10. ASSUME NEW q \in Slot, Shops!UpdateStore(q) PROVE ShopInv'
  <2>1. PICK s, c : /\ s = storeReq[q].store /\ s \in Store /\ c = storeReq[q].code /\ c \in Code
                    /\ storeReq[q].step = "edit" /\ Shops!Exists(s)
    BY <1>10, <1>k DEF Shops!UpdateStore, ShopLinked
  <2>2. /\ stores' = [stores EXCEPT ![s].code = c] /\ storeReq' = [storeReq EXCEPT ![q] = Shops!Idle]
        /\ UNCHANGED <<locations, skewed>>
    BY <1>10, <2>1 DEF Shops!UpdateStore, Shops!End
  <2>3. /\ stores'[s].code = c /\ stores'[s].loc = stores[s].loc
        /\ \A t \in Store : t # s => stores'[t] = stores[t]
    BY <1>t, <2>1, <2>2
  <2>4. /\ storeReq'[q].step = "idle" /\ \A r \in Slot : r # q => storeReq'[r] = storeReq[r]
    BY <1>10, <1>t, <1>b, <2>2
  <2>5. /\ EditOf(q, s) /\ \A t \in Store : EditOf(q, t) => t = s
        /\ \A r \in Slot, t \in Store : EditOf(r, t)' <=> EditOf(r, t) /\ r # q
    BY <2>1, <2>4 DEF EditOf
  <2>6. \A t \in Store : /\ Shops!Exists(t)' <=> Shops!Exists(t)
                         /\ stores'[t].loc = stores[t].loc
                         /\ Shops!Editing(t)' <=> \E r \in Slot : EditOf(r, t)'
    BY <2>1, <2>3 DEF Shops!Exists, Shops!Editing, EditOf
  <2>7. OneRoomEach' /\ OfItsRoom'
    BY <1>o, <1>i, <2>4, <2>5, <2>6 DEF OneRoomEach, OfItsRoom
  <2>8. EditsAlone'
    BY <1>a, <2>2, <2>4, <2>5, <2>6 DEF EditsAlone
  <2>9. RoomOfEdited'
    <3> SUFFICES ASSUME NEW r \in Slot, NEW t \in Store, EditOf(r, t), r # q, storeReq[r].loc \notin skewed
                 PROVE  locations[storeReq[r].loc] =
                          IF storeReq[r].step = "edit" THEN storeReq[r].code ELSE stores'[t].code
      BY <2>2, <2>4, <2>5 DEF RoomOfEdited
    <3>1. t # s
      BY <1>10, <1>a, <2>5 DEF EditsAlone
    <3> QED  BY <1>e, <2>3, <3>1 DEF RoomOfEdited
  <2>10. RoomOfCreated'
    BY <1>c, <2>2, <2>4 DEF RoomOfCreated
  <2>11. Shops!LocationInStep'
    <3> SUFFICES ASSUME NEW t \in Store, Shops!Exists(t), \A r \in Slot : ~EditOf(r, t)', stores[t].loc \notin skewed
                 PROVE  locations[stores[t].loc] = stores'[t].code
      BY <2>2, <2>6 DEF Shops!LocationInStep
    <3>1. CASE t = s
      BY <1>10, <1>i, <1>e, <2>1, <2>3, <2>5, <3>1 DEF OfItsRoom, RoomOfEdited
    <3>2. CASE t # s
      BY <1>l, <2>3, <2>5, <3>2
    <3> QED  BY <3>1, <3>2
  <2> QED  BY <2>7, <2>8, <2>9, <2>10, <2>11 DEF ShopInv
<1>11. ASSUME NEW s \in Store, Shops!remove(s) PROVE ShopInv'
  <2>1. /\ stores' = [stores EXCEPT ![s] = [code |-> Gone, loc |-> Nowhere]] /\ UNCHANGED <<storeReq, locations>>
        /\ Shops!Exists(s) /\ skewed \subseteq skewed'
        /\ (\E r \in Slot : EditOf(r, s)) => stores[s].loc \in skewed'
    BY <1>11 DEF Shops!remove, Shops!Editing, EditOf
  <2>2. ~Shops!Exists(s)' /\ \A t \in Store : t # s => stores'[t] = stores[t] /\ (Shops!Exists(t)' <=> Shops!Exists(t))
    BY <1>11, <1>t, <1>u, <2>1 DEF Shops!Exists
  <2>3. /\ \A r \in Slot, t \in Store : EditOf(r, t)' <=> EditOf(r, t)
        /\ \A t \in Store : Shops!Editing(t)' <=> \E r \in Slot : EditOf(r, t)
    BY <2>1 DEF EditOf, Shops!Editing
  <2>4. OneRoomEach' /\ OfItsRoom'
    BY <1>o, <1>i, <2>1, <2>2, <2>3 DEF OneRoomEach, OfItsRoom
  <2>5. ASSUME NEW r \in Slot, NEW t \in Store, EditOf(r, t), storeReq[r].loc \notin skewed' PROVE t # s
    BY <1>i, <2>1, <2>5 DEF OfItsRoom
  <2>6. EditsAlone' /\ RoomOfEdited'
    BY <1>a, <1>e, <2>1, <2>2, <2>3, <2>5 DEF EditsAlone, RoomOfEdited
  <2>7. RoomOfCreated'
    BY <1>c, <2>1 DEF RoomOfCreated
  <2>8. Shops!LocationInStep'
    BY <1>l, <2>1, <2>2, <2>3 DEF Shops!LocationInStep
  <2> QED  BY <2>4, <2>6, <2>7, <2>8 DEF ShopInv
<1>12. ASSUME NEW q \in Slot, Shops!Fail(q) PROVE ShopInv'
  <2>1. /\ storeReq' = [storeReq EXCEPT ![q] = Shops!Idle] /\ UNCHANGED <<stores, locations>>
        /\ skewed \subseteq skewed'
        /\ storeReq[q].step = "edit" => storeReq[q].loc \in skewed'
    BY <1>12 DEF Shops!Fail, Shops!End
  <2>2. storeReq'[q].step = "idle" /\ \A r \in Slot : r # q => storeReq'[r] = storeReq[r]
    BY <1>12, <1>t, <1>b, <2>1
  <2>3. /\ \A r \in Slot, t \in Store : EditOf(r, t)' <=> EditOf(r, t) /\ r # q
        /\ \A t \in Store : /\ Shops!Editing(t)' <=> \E r \in Slot : EditOf(r, t)'
                            /\ Shops!Exists(t)' <=> Shops!Exists(t)
    BY <2>1, <2>2 DEF EditOf, Shops!Editing, Shops!Exists
  <2>4. OneRoomEach' /\ OfItsRoom'
    BY <1>o, <1>i, <2>1, <2>2, <2>3 DEF OneRoomEach, OfItsRoom
  <2>5. EditsAlone' /\ RoomOfEdited'
    BY <1>a, <1>e, <2>1, <2>2, <2>3 DEF EditsAlone, RoomOfEdited
  <2>6. RoomOfCreated'
    BY <1>c, <2>1, <2>2 DEF RoomOfCreated
  <2>7. Shops!LocationInStep'
    <3> SUFFICES ASSUME NEW t \in Store, Shops!Exists(t), \A r \in Slot : ~EditOf(r, t)', stores[t].loc \notin skewed'
                 PROVE  locations[stores[t].loc] = stores[t].code
      BY <2>1, <2>3 DEF Shops!LocationInStep
    <3>1. CASE EditOf(q, t)
      <4>1. stores[t].loc = storeReq[q].loc
        BY <1>12, <1>i, <3>1 DEF OfItsRoom
      <4>2. storeReq[q].step = "relocate" /\ storeReq[q].loc \notin skewed
        BY <2>1, <3>1, <4>1 DEF EditOf
      <4> QED  BY <1>12, <1>e, <3>1, <4>1, <4>2 DEF RoomOfEdited
    <3>2. CASE ~EditOf(q, t)
      BY <1>l, <2>1, <2>3, <3>2
    <3> QED  BY <3>1, <3>2
  <2> QED  BY <2>4, <2>5, <2>6, <2>7 DEF ShopInv
<1>13. ASSUME NEW s \in Store, Shops!HealJob(s) PROVE ShopInv'
  BY <1>2, <1>13 DEF Shops!HealJob
<1>14. ASSUME NEW e \in Email, NEW S \in SUBSET Store, Shops!setStoreAccess(e, S) PROVE ShopInv'
  BY <1>2, <1>14 DEF Shops!setStoreAccess
<1>15. ASSUME UNCHANGED shopVars PROVE ShopInv'
  BY <1>2, <1>15 DEF shopVars
<1> QED  BY <1>3, <1>4, <1>5, <1>6, <1>7, <1>8, <1>9, <1>10, <1>11, <1>12, <1>13, <1>14, <1>15 DEF Shops!Next

\* For any number of stores, codes and overlapping requests: a store and its location carry
\* the same code, but while the store is edited or after an edit of it was cut short or
\* overlapped another one, a deletion or a create.
THEOREM LocationsCorrect == BackSpec => []LocationInStep
<1>1. ShopInv => LocationInStep
  BY DEF ShopInv, LocationInStep
<1>2. BackInit => ShopTyped /\ ShopInv
  BY ShopInitial DEF BackInit
<1> QED  BY <1>1, <1>2, ShopTypedStep, ShopStep, Steps, PTL DEF BackSpec

-----------------------------------------------------------------------------
(* The stock takes.  A scan in progress is of an audit that exists, and of  *)
(* a line that is still there.                                              *)

ScanRow == {<< >>} \cup (Audit \X Item \X (0..MaxLines))

AuditRows ==
  /\ inStore \subseteq Item
  /\ audits \in [Audit -> {"none", "SCHEDULED", "COMPLETED"}]
  /\ lines \in Table(Audit, Item, Seq(Audits!AuditLine))
  /\ scans \in [Slot -> ScanRow]
  /\ marked \subseteq Audit \X Item \X (1..MaxLines)

LinesBounded ==
  \A u \in Audit, a \in Item :
    Len(lines[u][a]) <= MaxLines /\ (audits[u] = "none" => lines[u][a] = << >>)

ScansFound ==
  \A c \in Slot, u \in Audit, a \in Item, k \in 0..MaxLines : scans[c] = <<u, a, k>> =>
    audits[u] # "none" /\ k <= Len(lines[u][a])

\* What AuditExplained says of one line.
Explains(completed, l, byMark) ==
  /\ completed /\ l.expected => l.found \/ l.variance # "none"
  /\ l.found /\ l.variance = "MISSING" => byMark

AuditInv == AuditRows /\ LinesBounded /\ ScansFound /\ Audits!AuditExplained

LEMMA LineWritten ==
  ASSUME NEW L \in Seq(Audits!AuditLine), NEW k \in 1..Len(L), NEW row \in Audits!AuditLine
  PROVE  /\ [L EXCEPT ![k] = row] \in Seq(Audits!AuditLine)
         /\ Len([L EXCEPT ![k] = row]) = Len(L)
         /\ \A j \in 1..Len(L) : [L EXCEPT ![k] = row][j] = IF j = k THEN row ELSE L[j]
  OBVIOUS

LEMMA LineAdded ==
  ASSUME NEW L \in Seq(Audits!AuditLine), NEW row \in Audits!AuditLine
  PROVE  /\ Append(L, row) \in Seq(Audits!AuditLine)
         /\ Len(Append(L, row)) = Len(L) + 1
         /\ Append(L, row)[Len(L) + 1] = row
         /\ \A j \in 1..Len(L) : Append(L, row)[j] = L[j]
  OBVIOUS

LEMMA LinesRewritten ==
  ASSUME NEW L \in Seq(Audits!AuditLine), NEW Ls, Ls = [k \in DOMAIN L |-> Ls[k]],
         \A k \in 1..Len(L) : Ls[k] \in Audits!AuditLine
  PROVE  Ls \in Seq(Audits!AuditLine) /\ Len(Ls) = Len(L)
<1>1. DOMAIN L = 1..Len(L) /\ Len(L) \in Nat
  OBVIOUS
<1>2. Ls = [k \in 1..Len(L) |-> Ls[k]]
  BY <1>1
<1>3. Ls \in [1..Len(L) -> Audits!AuditLine]
  BY <1>2
<1> QED  BY <1>1, <1>3

\* The lines of one asset, in a table of them.
LEMMA LineLists ==
  ASSUME AuditRows, NEW u \in Audit, NEW a \in Item
  PROVE  /\ lines[u][a] \in Seq(Audits!AuditLine) /\ Len(lines[u][a]) \in Nat
         /\ DOMAIN lines[u][a] = 1..Len(lines[u][a])
         /\ \A k \in 1..Len(lines[u][a]) : lines[u][a][k] \in Audits!AuditLine
<1>1. lines[u][a] \in Seq(Audits!AuditLine)
  BY DEF AuditRows, Table
<1> QED  BY <1>1

LinesExplained ==
  \A u \in Audit, a \in Item : \A k \in 1..Len(lines[u][a]) :
    Explains(audits[u] = "COMPLETED", lines[u][a][k], <<u, a, k>> \in marked)

LEMMA ExplainedLines == AuditRows => (Audits!AuditExplained <=> LinesExplained)
  BY LineLists DEF Audits!AuditExplained, LinesExplained, Explains

LEMMA ScanForms ==
  ASSUME NEW s \in ScanRow
  PROVE  \/ s = << >>
         \/ /\ s # << >>
            /\ \E u \in Audit, a \in Item, k \in 0..MaxLines :
                 s = <<u, a, k>> /\ s[1] = u /\ s[2] = a /\ s[3] = k
  BY DEF ScanRow

LEMMA AuditInitial == Audits!Init => AuditInv
<1> SUFFICES ASSUME Audits!Init PROVE AuditInv
  OBVIOUS
<1>1. /\ inStore = {} /\ marked = {} /\ audits = [u \in Audit |-> "none"]
      /\ lines = [u \in Audit |-> [a \in Item |-> << >>]] /\ scans = [c \in Slot |-> << >>]
  BY DEF Audits!Init, Audits!Idle
<1>2. << >> \in Seq(Audits!AuditLine) /\ Len(<< >>) = 0 /\ 0 <= MaxLines
  BY BackOfficeAssumption
<1>3. AuditRows
  BY <1>1, <1>2 DEF AuditRows, Table, ScanRow
<1>4. \A u \in Audit, a \in Item : lines[u][a] = << >>
  BY <1>1
<1>5. LinesBounded
  BY <1>2, <1>4 DEF LinesBounded
<1>6. ScansFound
  <2>1. \A u, a, k : <<u, a, k>> # << >>
    OBVIOUS
  <2> QED  BY <1>1, <2>1 DEF ScansFound
<1>7. Audits!AuditExplained
  BY <1>2, <1>3, <1>4, ExplainedLines DEF LinesExplained
<1> QED  BY <1>3, <1>5, <1>6, <1>7 DEF AuditInv

LEMMA AuditStep == AuditInv /\ [Audits!Next]_auditVars => AuditInv'
<1> SUFFICES ASSUME AuditInv, [Audits!Next]_auditVars PROVE AuditInv'
  OBVIOUS
<1>a. AuditRows
  BY DEF AuditInv
<1>b. LinesBounded
  BY DEF AuditInv
<1>s. ScansFound
  BY DEF AuditInv
<1>x. \A u \in Audit, a \in Item : \A k \in 1..Len(lines[u][a]) :
        Explains(audits[u] = "COMPLETED", lines[u][a][k], <<u, a, k>> \in marked)
  BY <1>a, ExplainedLines DEF AuditInv, LinesExplained
<1>m. MaxLines \in Nat /\ MaxLines >= 1
  BY BackOfficeAssumption
<1>l. \A u \in Audit, a \in Item :
        /\ lines[u][a] \in Seq(Audits!AuditLine) /\ Len(lines[u][a]) \in Nat
        /\ DOMAIN lines[u][a] = 1..Len(lines[u][a])
        /\ \A k \in 1..Len(lines[u][a]) : lines[u][a][k] \in Audits!AuditLine
  BY <1>a, LineLists
<1>t. /\ inStore \subseteq Item /\ audits \in [Audit -> {"none", "SCHEDULED", "COMPLETED"}]
      /\ scans \in [Slot -> ScanRow] /\ marked \subseteq Audit \X Item \X (1..MaxLines)
      /\ lines \in Table(Audit, Item, Seq(Audits!AuditLine))
  BY <1>a DEF AuditRows
\* The lines of one asset in one audit are written; a scan may end with that.
<1>1. ASSUME NEW u \in Audit, NEW a \in Item, NEW n \in Seq(Audits!AuditLine), lines' = With(lines, u, a, n),
             audits[u] # "none", Len(n) >= Len(lines[u][a]), Len(n) <= MaxLines, UNCHANGED <<inStore, audits>>,
             scans' \in [Slot -> ScanRow], \A c \in Slot : scans'[c] \in {scans[c], << >>},
             marked' \subseteq Audit \X Item \X (1..MaxLines),
             \A v \in Audit, b \in Item, k \in 1..MaxLines : ~(v = u /\ b = a) =>
               (<<v, b, k>> \in marked => <<v, b, k>> \in marked'),
             \A k \in 1..Len(n) : Explains(audits[u] = "COMPLETED", n[k], <<u, a, k>> \in marked')
      PROVE  AuditInv'
  <2>1. /\ lines' \in Table(Audit, Item, Seq(Audits!AuditLine))
        /\ \A v \in Audit, b \in Item : lines'[v][b] = IF v = u /\ b = a THEN n ELSE lines[v][b]
    <3> DEFINE S == Seq(Audits!AuditLine)
    <3>1. lines \in Table(Audit, Item, S) /\ n \in S
      BY <1>1, <1>t
    <3> HIDE DEF S
    <3>2. /\ With(lines, u, a, n) \in Table(Audit, Item, S)
          /\ \A v \in Audit, b \in Item : With(lines, u, a, n)[v][b] = IF v = u /\ b = a THEN n ELSE lines[v][b]
      BY <1>1, <3>1, PutIn
    <3> QED  BY <1>1, <3>2 DEF S
  <2>2. AuditRows'
    BY <1>1, <1>t, <2>1 DEF AuditRows
  <2>3. LinesBounded'
    BY <1>1, <1>b, <2>1 DEF LinesBounded
  <2>4. ScansFound'
    <3> SUFFICES ASSUME NEW c \in Slot, NEW v \in Audit, NEW b \in Item, NEW k \in 0..MaxLines,
                        scans'[c] = <<v, b, k>>
                 PROVE  audits[v] # "none" /\ k <= Len(lines'[v][b])
      BY <1>1 DEF ScansFound
    <3>1. scans[c] = <<v, b, k>>
      <4>1. <<v, b, k>> # << >>
        OBVIOUS
      <4> QED  BY <1>1, <4>1
    <3>2. audits[v] # "none" /\ k <= Len(lines[v][b])
      BY <1>s, <3>1 DEF ScansFound
    <3>3. Len(n) \in Nat /\ Len(lines[v][b]) \in Nat /\ k \in Nat
      BY <1>1, <1>l
    <3> QED  BY SMTT(30), <1>1, <2>1, <3>2, <3>3
  <2>5. LinesExplained'
    <3> SUFFICES ASSUME NEW v \in Audit, NEW b \in Item, NEW k \in 1..Len(lines'[v][b])
                 PROVE  Explains(audits[v] = "COMPLETED", lines'[v][b][k], <<v, b, k>> \in marked')
      BY <1>1 DEF LinesExplained, Explains
    <3>1. CASE v = u /\ b = a
      BY <1>1, <2>1, <3>1
    <3>2. CASE ~(v = u /\ b = a)
      <4>1. k \in 1..Len(lines[v][b]) /\ lines'[v][b] = lines[v][b] /\ k \in 1..MaxLines
        BY <1>b, <1>l, <1>m, <2>1, <3>2 DEF LinesBounded
      <4>2. Explains(audits[v] = "COMPLETED", lines[v][b][k], <<v, b, k>> \in marked)
        BY <1>x, <4>1
      <4> QED  BY <1>1, <3>2, <4>1, <4>2 DEF Explains
    <3> QED  BY <3>1, <3>2
  <2>6. Audits!AuditExplained'
    BY <2>2, <2>5, ExplainedLines, PTL
  <2> QED  BY <2>2, <2>3, <2>4, <2>6 DEF AuditInv
\* The other steps leave the lines.
<1>2. ASSUME UNCHANGED <<audits, lines, marked>>, inStore' \subseteq Item, scans' \in [Slot -> ScanRow],
             \A c \in Slot, u \in Audit, a \in Item, k \in 0..MaxLines : scans'[c] = <<u, a, k>> =>
               audits[u] # "none" /\ k <= Len(lines[u][a])
      PROVE  AuditInv'
  <2>1. AuditRows'
    BY <1>2, <1>t DEF AuditRows
  <2>2. LinesBounded' /\ ScansFound'
    BY <1>2, <1>b DEF LinesBounded, ScansFound
  <2>3. Audits!AuditExplained'
    BY ZenonT(60), <1>2 DEF AuditInv, Audits!AuditExplained
  <2> QED  BY <2>1, <2>2, <2>3 DEF AuditInv
<1>3. ASSUME NEW a \in Item, Audits!MoveAsset(a) PROVE AuditInv'
  <2>1. inStore' \subseteq Item /\ UNCHANGED <<audits, lines, scans, marked>>
    BY <1>3, <1>t DEF Audits!MoveAsset
  <2> QED  BY <1>2, <1>s, <1>t, <2>1 DEF ScansFound
<1>4. ASSUME NEW c \in Slot, NEW u \in Audit, NEW a \in Item, Audits!FindLine(c, u, a) PROVE AuditInv'
  <2>1. audits[u] # "none" /\ UNCHANGED <<inStore, audits, lines, marked>>
    BY <1>4 DEF Audits!FindLine
  <2>2. PICK k : /\ k \in IF lines[u][a] = << >> THEN {0} ELSE DOMAIN lines[u][a]
                 /\ scans' = [scans EXCEPT ![c] = <<u, a, k>>]
    BY <1>4 DEF Audits!FindLine
  <2>3. k \in 0..MaxLines /\ k <= Len(lines[u][a])
    BY <1>b, <1>l, <1>m, <2>2 DEF LinesBounded
  <2>4. /\ scans' \in [Slot -> ScanRow] /\ scans'[c] = <<u, a, k>>
        /\ \A d \in Slot : d # c => scans'[d] = scans[d]
    BY <1>4, <1>t, <2>2, <2>3 DEF ScanRow
  <2>5. ASSUME NEW d \in Slot, NEW v \in Audit, NEW b \in Item, NEW j \in 0..MaxLines, scans'[d] = <<v, b, j>>
        PROVE  audits[v] # "none" /\ j <= Len(lines[v][b])
    <3>1. CASE d = c
      BY <2>1, <2>3, <2>4, <2>5, <3>1
    <3>2. CASE d # c
      BY <1>s, <2>4, <2>5, <3>2 DEF ScansFound
    <3> QED  BY <3>1, <3>2
  <2> QED  BY <1>2, <1>t, <2>1, <2>4, <2>5
<1>5. ASSUME NEW c \in Slot, Audits!WriteScan(c) PROVE AuditInv'
  <2>1. PICK u \in Audit, a \in Item, k \in 0..MaxLines :
          scans[c] = <<u, a, k>> /\ scans[c][1] = u /\ scans[c][2] = a /\ scans[c][3] = k
    <3>1. scans[c] # << >> /\ scans[c] \in ScanRow
      BY <1>5, <1>t DEF Audits!WriteScan, Audits!Idle
    <3> QED  BY <3>1, ScanForms
  <2>2. audits[u] # "none" /\ k <= Len(lines[u][a])
    BY <1>5, <1>s, <2>1 DEF ScansFound
  <2> DEFINE L == lines[u][a]
  <2> DEFINE n == IF k = 0
                  THEN Append(L, [expected |-> FALSE, found |-> TRUE, variance |-> "UNRECORDED"])
                  ELSE [L EXCEPT ![k].found = TRUE, ![k].variance = "none"]
  <2>3. /\ lines' = With(lines, u, a, n) /\ Len(lines'[u][a]) <= MaxLines
        /\ marked' = marked \ {<<u, a, k>>} /\ UNCHANGED <<inStore, audits>>
    BY <1>5, <2>1 DEF Audits!WriteScan, With
  <2>4. /\ L \in Seq(Audits!AuditLine) /\ Len(L) \in Nat
        /\ \A j \in 1..Len(L) : L[j] \in Audits!AuditLine
        /\ \A j \in 1..Len(L) : Explains(audits[u] = "COMPLETED", L[j], <<u, a, j>> \in marked)
    BY SMTT(30), <1>l, <1>x
  <2>5. scans' \in [Slot -> ScanRow] /\ \A d \in Slot : scans'[d] \in {scans[d], << >>}
    BY <1>5, <1>t DEF Audits!WriteScan, Audits!Idle, ScanRow
  <2>6. marked' \subseteq Audit \X Item \X (1..MaxLines)
    BY <1>t, <2>3
  <2>7. \A v \in Audit, b \in Item, j \in 1..MaxLines : ~(v = u /\ b = a) =>
          (<<v, b, j>> \in marked => <<v, b, j>> \in marked')
    BY SMTT(30), <2>3
  <2>8. /\ n \in Seq(Audits!AuditLine) /\ Len(n) >= Len(L)
        /\ \A j \in 1..Len(n) : Explains(audits[u] = "COMPLETED", n[j], <<u, a, j>> \in marked')
    <3>1. CASE k = 0
      <4> DEFINE row == [expected |-> FALSE, found |-> TRUE, variance |-> "UNRECORDED"]
      <4>1. row \in Audits!AuditLine /\ ~row.expected /\ row.variance # "MISSING"
        BY DEF Audits!AuditLine, Audits!Variance
      <4>2. n = Append(L, row)
        BY <3>1
      <4> HIDE DEF row, n, L
      <4>3. /\ n \in Seq(Audits!AuditLine) /\ Len(n) = Len(L) + 1 /\ n[Len(L) + 1] = row
            /\ \A j \in 1..Len(L) : n[j] = L[j]
        BY <2>4, <4>1, <4>2, LineAdded
      <4>4. \A j \in 1..Len(L) : <<u, a, j>> \in marked => <<u, a, j>> \in marked'
        BY <2>3, <2>4, <3>1
      <4>5. ASSUME NEW j \in 1..Len(n) PROVE Explains(audits[u] = "COMPLETED", n[j], <<u, a, j>> \in marked')
        <5>1. CASE j \in 1..Len(L)
          BY <2>4, <4>3, <4>4, <5>1 DEF Explains
        <5>2. CASE j = Len(L) + 1
          BY <4>1, <4>3, <5>2 DEF Explains
        <5> QED  BY <2>4, <4>3, <5>1, <5>2
      <4> QED  BY <2>4, <4>3, <4>5
    <3>2. CASE k # 0
      <4> DEFINE row == [L[k] EXCEPT !.found = TRUE, !.variance = "none"]
      <4>1. k \in 1..Len(L)
        BY <2>2, <2>4, <3>2
      <4>2. row \in Audits!AuditLine /\ row.found /\ row.variance # "MISSING"
        BY <2>4, <4>1 DEF Audits!AuditLine, Audits!Variance
      <4>3. n = [L EXCEPT ![k] = row]
        BY <2>4, <3>2, <4>1 DEF Audits!AuditLine
      <4> HIDE DEF row, n, L
      <4>4. /\ n \in Seq(Audits!AuditLine) /\ Len(n) = Len(L)
            /\ \A j \in 1..Len(L) : n[j] = IF j = k THEN row ELSE L[j]
        BY <2>4, <4>1, <4>2, <4>3, LineWritten
      <4>5. \A j \in 1..Len(L) : j # k => (<<u, a, j>> \in marked => <<u, a, j>> \in marked')
        BY <2>3
      <4>6. ASSUME NEW j \in 1..Len(n) PROVE Explains(audits[u] = "COMPLETED", n[j], <<u, a, j>> \in marked')
        <5>1. CASE j = k
          BY <4>1, <4>2, <4>4, <5>1 DEF Explains
        <5>2. CASE j # k
          BY <2>4, <4>4, <4>5, <5>2 DEF Explains
        <5> QED  BY <5>1, <5>2
      <4> QED  BY <2>4, <4>4, <4>6
    <3> QED  BY <3>1, <3>2
  <2>9. Len(n) <= MaxLines
    <3> HIDE DEF n, L
    <3> DEFINE S == Seq(Audits!AuditLine)
    <3>1. lines \in Table(Audit, Item, S) /\ n \in S
      BY <1>t, <2>8
    <3> HIDE DEF S
    <3>2. With(lines, u, a, n)[u][a] = n
      BY <3>1, PutIn
    <3> QED  BY <2>3, <3>2
  <2> HIDE DEF n
  <2> QED  BY <1>1, <2>2, <2>3, <2>5, <2>6, <2>7, <2>8, <2>9
<1>6. ASSUME NEW u \in Audit, NEW a \in Item, NEW k \in 1..MaxLines, Audits!markVariance(u, a, k) PROVE AuditInv'
  <2> DEFINE L == lines[u][a]
  <2>1. k \in DOMAIN L /\ marked' = marked \cup {<<u, a, k>>} /\ UNCHANGED <<inStore, audits, scans>>
    BY <1>6 DEF Audits!markVariance
  <2>2. PICK v \in {"MISSING", "DAMAGED", "UNRECORDED"} : lines' = [lines EXCEPT ![u][a][k].variance = v]
    BY <1>6 DEF Audits!markVariance, Audits!Variance
  <2> DEFINE row == [L[k] EXCEPT !.variance = v]
  <2> DEFINE n == [L EXCEPT ![k] = row]
  <2>3. lines' = With(lines, u, a, n)
    BY <2>2 DEF With
  <2>4. /\ L \in Seq(Audits!AuditLine) /\ Len(L) \in Nat /\ k \in 1..Len(L) /\ Len(L) <= MaxLines
        /\ \A j \in 1..Len(L) : L[j] \in Audits!AuditLine
        /\ \A j \in 1..Len(L) : Explains(audits[u] = "COMPLETED", L[j], <<u, a, j>> \in marked)
        /\ audits[u] = "none" => L = << >>
    BY <1>b, <1>l, <1>x, <2>1 DEF LinesBounded
  <2>5. row \in Audits!AuditLine /\ row.variance = v
    BY <2>4 DEF Audits!AuditLine, Audits!Variance
  <2> HIDE DEF row, L
  <2>6. /\ n \in Seq(Audits!AuditLine) /\ Len(n) = Len(L)
        /\ \A j \in 1..Len(L) : n[j] = IF j = k THEN row ELSE L[j]
    BY <2>4, <2>5, LineWritten
  <2> HIDE DEF n
  <2>7. marked' \subseteq Audit \X Item \X (1..MaxLines) /\ <<u, a, k>> \in marked'
    BY <1>6, <1>t, <2>1
  <2>8. \A j \in 1..Len(n) : Explains(audits[u] = "COMPLETED", n[j], <<u, a, j>> \in marked')
    BY <2>1, <2>4, <2>5, <2>6, <2>7 DEF Explains
  <2>9. audits[u] # "none"
    BY <2>4
  <2>10. \A w \in Audit, b \in Item, j \in 1..MaxLines : <<w, b, j>> \in marked => <<w, b, j>> \in marked'
    BY <2>1
  <2>11. Len(n) >= Len(L) /\ Len(n) <= MaxLines
    BY <2>4, <2>6
  <2>12. UNCHANGED <<inStore, audits, scans>>
    BY <2>1
  <2> QED  BY <1>1, <1>6, <1>t, <2>3, <2>6, <2>7, <2>8, <2>9, <2>10, <2>11, <2>12 DEF L
\* The lines of a whole audit are written.
<1>7. ASSUME NEW u \in Audit, NEW D \in [Item -> Seq(Audits!AuditLine)], lines' = [lines EXCEPT ![u] = D],
             UNCHANGED <<inStore, scans, marked>>, audits' \in [Audit -> {"none", "SCHEDULED", "COMPLETED"}],
             audits'[u] # "none", \A v \in Audit : v # u => audits'[v] = audits[v],
             \A a \in Item : /\ Len(D[a]) >= Len(lines[u][a]) /\ Len(D[a]) <= MaxLines
                             /\ \A k \in 1..Len(D[a]) :
                                  Explains(audits'[u] = "COMPLETED", D[a][k], <<u, a, k>> \in marked)
      PROVE  AuditInv'
  <2>1. /\ lines' \in Table(Audit, Item, Seq(Audits!AuditLine)) /\ lines'[u] = D
        /\ \A v \in Audit : v # u => lines'[v] = lines[v]
    <3> DEFINE S == Seq(Audits!AuditLine)
    <3>1. lines \in [Audit -> [Item -> S]] /\ D \in [Item -> S]
      BY <1>7, <1>t DEF Table
    <3> HIDE DEF S
    <3>2. /\ lines' \in [Audit -> [Item -> S]] /\ lines'[u] = D
          /\ \A v \in Audit : v # u => lines'[v] = lines[v]
      BY <1>7, <3>1
    <3> QED  BY <3>2 DEF Table, S
  <2>2. AuditRows'
    BY <1>7, <1>t, <2>1 DEF AuditRows
  <2>3. LinesBounded'
    BY <1>7, <1>b, <2>1 DEF LinesBounded
  <2>4. ScansFound'
    <3> SUFFICES ASSUME NEW c \in Slot, NEW v \in Audit, NEW b \in Item, NEW k \in 0..MaxLines,
                        scans[c] = <<v, b, k>>
                 PROVE  audits'[v] # "none" /\ k <= Len(lines'[v][b])
      BY <1>7 DEF ScansFound
    <3>1. audits[v] # "none" /\ k <= Len(lines[v][b])
      BY <1>s DEF ScansFound
    <3>2. D[b] \in Seq(Audits!AuditLine) /\ Len(D[b]) \in Nat /\ Len(lines[v][b]) \in Nat
      BY <1>7, <1>l
    <3> QED  BY <1>7, <2>1, <3>1, <3>2
  <2>5. LinesExplained'
    <3> SUFFICES ASSUME NEW v \in Audit, NEW b \in Item, NEW k \in 1..Len(lines'[v][b])
                 PROVE  Explains(audits'[v] = "COMPLETED", lines'[v][b][k], <<v, b, k>> \in marked)
      BY <1>7 DEF LinesExplained, Explains
    <3>1. CASE v = u
      BY <1>7, <2>1, <3>1
    <3>2. CASE v # u
      BY <1>7, <1>x, <2>1, <3>2
    <3> QED  BY <3>1, <3>2
  <2>6. Audits!AuditExplained'
    BY <2>2, <2>5, ExplainedLines, PTL
  <2> QED  BY <2>2, <2>3, <2>4, <2>6 DEF AuditInv
<1>8. ASSUME NEW u \in Audit, Audits!Create(u) PROVE AuditInv'
  <2> DEFINE row == [expected |-> TRUE, found |-> FALSE, variance |-> "none"]
  <2> DEFINE D == [a \in Item |-> IF a \in inStore THEN <<row>> ELSE << >>]
  <2>1. /\ audits[u] = "none" /\ audits' = [audits EXCEPT ![u] = "SCHEDULED"] /\ lines' = [lines EXCEPT ![u] = D]
        /\ UNCHANGED <<inStore, scans, marked>>
    BY <1>8 DEF Audits!Create
  <2>2. row \in Audits!AuditLine /\ ~row.found
    BY DEF Audits!AuditLine, Audits!Variance
  <2>3. \A a \in Item : /\ D[a] \in Seq(Audits!AuditLine) /\ Len(D[a]) \in {0, 1}
                        /\ \A k \in 1..Len(D[a]) : D[a][k] = row
    <3> HIDE DEF row
    <3> QED  BY <2>2
  <2>4. D \in [Item -> Seq(Audits!AuditLine)]
    <3> DEFINE S == Seq(Audits!AuditLine)
    <3> DEFINE E(a) == IF a \in inStore THEN <<row>> ELSE << >>
    <3>1. D = [a \in Item |-> E(a)] /\ \A a \in Item : D[a] = E(a) /\ D[a] \in S
      BY <2>3
    <3> HIDE DEF S, E
    <3>2. \A a \in Item : E(a) \in S
      BY <3>1
    <3> QED  BY <3>1, <3>2 DEF S
  <2>5. /\ audits' \in [Audit -> {"none", "SCHEDULED", "COMPLETED"}] /\ audits'[u] = "SCHEDULED"
        /\ \A v \in Audit : v # u => audits'[v] = audits[v]
    BY <1>8, <1>t, <2>1
  <2>6. \A a \in Item : Len(lines[u][a]) = 0
    BY <1>8, <1>b, <2>1 DEF LinesBounded
  <2> HIDE DEF D
  <2>7. ASSUME NEW a \in Item
        PROVE  /\ Len(D[a]) >= Len(lines[u][a]) /\ Len(D[a]) <= MaxLines
               /\ \A k \in 1..Len(D[a]) : Explains(audits'[u] = "COMPLETED", D[a][k], <<u, a, k>> \in marked)
    <3>1. Len(D[a]) >= 0 /\ Len(D[a]) <= MaxLines
      BY <1>m, <2>3
    <3>2. \A k \in 1..Len(D[a]) : D[a][k] = row
      BY <2>3
    <3>3. audits'[u] # "COMPLETED" /\ ~row.found
      BY <2>2, <2>5
    <3> HIDE DEF row
    <3> QED  BY <2>6, <3>1, <3>2, <3>3 DEF Explains
  <2>u. UNCHANGED <<inStore, scans, marked>>
    BY <2>1
  <2> QED  BY <1>7, <1>8, <2>1, <2>4, <2>5, <2>7, <2>u
<1>9. ASSUME NEW u \in Audit, Audits!complete(u) PROVE AuditInv'
  <2> DEFINE Row(l) == IF l.expected /\ ~l.found /\ l.variance = "none" THEN [l EXCEPT !.variance = "MISSING"] ELSE l
  <2> DEFINE D == [a \in Item |-> [k \in DOMAIN lines[u][a] |-> Row(lines[u][a][k])]]
  <2>1. /\ audits[u] # "none" /\ audits' = [audits EXCEPT ![u] = "COMPLETED"] /\ lines' = [lines EXCEPT ![u] = D]
    BY <1>9 DEF Audits!complete
  <2>u. UNCHANGED <<inStore, scans, marked>>
    BY <1>9 DEF Audits!complete
  <2>2. \A l \in Audits!AuditLine :
          /\ Row(l) \in Audits!AuditLine
          /\ Row(l).found = l.found /\ Row(l).expected = l.expected
          /\ l.expected => l.found \/ Row(l).variance # "none"
          /\ Row(l).variance = "MISSING" => l.variance = "MISSING" \/ ~l.found
    BY DEF Audits!AuditLine, Audits!Variance
  <2> HIDE DEF Row
  <2>3. ASSUME NEW a \in Item
        PROVE  /\ D[a] \in Seq(Audits!AuditLine) /\ Len(D[a]) = Len(lines[u][a])
               /\ \A k \in 1..Len(lines[u][a]) : D[a][k] = Row(lines[u][a][k])
    <3> DEFINE L == lines[u][a]
    <3> DEFINE Ls == [k \in DOMAIN L |-> Row(L[k])]
    <3>1. D[a] = Ls
      OBVIOUS
    <3>2. /\ L \in Seq(Audits!AuditLine) /\ DOMAIN L = 1..Len(L)
          /\ \A k \in 1..Len(L) : L[k] \in Audits!AuditLine
      BY <1>l
    <3> HIDE DEF L, D
    <3>3. \A k \in 1..Len(L) : Ls[k] = Row(L[k]) /\ Ls[k] \in Audits!AuditLine
      BY <2>2, <3>2
    <3>4. Ls = [k \in DOMAIN L |-> Ls[k]]
      OBVIOUS
    <3> HIDE DEF Ls
    <3>5. Ls \in Seq(Audits!AuditLine) /\ Len(Ls) = Len(L)
      BY <3>2, <3>3, <3>4, LinesRewritten
    <3> QED  BY <3>1, <3>3, <3>5 DEF L
  <2>4. D \in [Item -> Seq(Audits!AuditLine)]
    <3> DEFINE S == Seq(Audits!AuditLine)
    <3> DEFINE E(a) == [k \in DOMAIN lines[u][a] |-> Row(lines[u][a][k])]
    <3>1. D = [a \in Item |-> E(a)] /\ \A a \in Item : D[a] = E(a) /\ D[a] \in S
      BY <2>3
    <3> HIDE DEF S, E
    <3>2. \A a \in Item : E(a) \in S
      BY <3>1
    <3> QED  BY <3>1, <3>2 DEF S
  <2>5. /\ audits' \in [Audit -> {"none", "SCHEDULED", "COMPLETED"}] /\ audits'[u] = "COMPLETED"
        /\ \A v \in Audit : v # u => audits'[v] = audits[v]
    BY <1>9, <1>t, <2>1
  <2> HIDE DEF D
  <2>6. ASSUME NEW a \in Item
        PROVE  /\ Len(D[a]) >= Len(lines[u][a]) /\ Len(D[a]) <= MaxLines
               /\ \A k \in 1..Len(D[a]) : Explains(audits'[u] = "COMPLETED", D[a][k], <<u, a, k>> \in marked)
    <3>1. Len(D[a]) = Len(lines[u][a]) /\ Len(lines[u][a]) \in Nat /\ Len(lines[u][a]) <= MaxLines
      BY <1>b, <1>l, <2>3 DEF LinesBounded
    <3>2. ASSUME NEW k \in 1..Len(lines[u][a])
          PROVE  Explains(TRUE, D[a][k], <<u, a, k>> \in marked)
      <4>1. PICK l : l = lines[u][a][k] /\ l \in Audits!AuditLine
        BY <1>l
      <4>2. D[a][k] = Row(l) /\ Explains(audits[u] = "COMPLETED", l, <<u, a, k>> \in marked)
        BY <1>x, <2>3, <4>1
      <4> QED  BY <2>2, <4>1, <4>2 DEF Explains
    <3>3. \A k \in 1..Len(D[a]) : Explains(audits'[u] = "COMPLETED", D[a][k], <<u, a, k>> \in marked)
      BY <2>5, <3>1, <3>2 DEF Explains
    <3>4. Len(D[a]) >= Len(lines[u][a]) /\ Len(D[a]) <= MaxLines
      BY <3>1
    <3> QED  BY <3>3, <3>4
  <2> QED  BY <1>7, <1>9, <2>1, <2>4, <2>5, <2>6, <2>u
<1>10. ASSUME UNCHANGED auditVars PROVE AuditInv'
  <2>1. UNCHANGED <<inStore, audits, lines, scans, marked>>
    BY <1>10 DEF auditVars
  <2> QED  BY <1>2, <1>s, <1>t, <2>1 DEF ScansFound
<1> QED  BY <1>3, <1>4, <1>5, <1>6, <1>8, <1>9, <1>10 DEF Audits!Next

\* For any number of assets, audits and overlapping scans: a completed audit accounts for
\* every asset it expected, and calls none missing that was found, but by the auditor's mark.
THEOREM AuditsCorrect == BackSpec => []AuditExplained
<1>1. AuditInv => AuditExplained
  BY DEF AuditInv, AuditExplained
<1>2. BackInit => AuditInv
  BY AuditInitial DEF BackInit
<1> QED  BY <1>1, <1>2, AuditStep, Steps, PTL DEF BackSpec

-----------------------------------------------------------------------------
(* The toner orders.  What a dispatch has found when it counted the lines   *)
(* is what it writes, or the order is marked.                               *)

TonerLine == [planned : 0..Qty, sent : 0..Qty, got : 0..Qty]
TonerReq == [step : {"idle", "create", "write", "check", "commit"},
             order : Order \cup {Nowhere}, line : Line \cup {Nowhere}, seen : 0..Qty, qty : 0..Qty,
             next : {"none", "DISPATCHED", "RECEIVED"}]

TonerLinked ==
  \A q \in Slot : tonerReq[q].step \in {"write", "check", "commit"} =>
    tonerReq[q].order \in Order /\ tonerReq[q].line \in Line

TonerInv == Toner!TypeOK /\ TonerLinked /\ Toner!OrderAdvances

LEMMA TonerInitial == Toner!Init => TonerInv
<1> SUFFICES ASSUME Toner!Init PROVE TonerInv
  OBVIOUS
<1>1. /\ orders = [o \in Order |-> "none"] /\ orderLines = [o \in Order |-> [l \in Line |-> Toner!NoLine]]
      /\ hqStock = 0 /\ bought = 0 /\ twice = FALSE /\ missed = {}
      /\ tonerReq = [q \in Slot |-> Toner!Idle]
  BY DEF Toner!Init
<1>2. 0 \in 0..Qty /\ 0 \in 0..MaxStock
  BY BackOfficeAssumption
<1>3. Toner!NoLine \in TonerLine /\ Toner!Idle \in TonerReq /\ Toner!Idle.step = "idle"
  BY <1>2 DEF Toner!NoLine, Toner!Idle, TonerLine, TonerReq
<1>4. Toner!TypeOK
  <2>1. /\ orders \in [Order -> {"none", "DRAFT", "DISPATCHED", "RECEIVED", "CLOSED", "CANCELLED"}]
        /\ orderLines \in [Order -> [Line -> TonerLine]] /\ tonerReq \in [Slot -> TonerReq]
    BY <1>1, <1>3
  <2>2. hqStock \in Int /\ bought \in 0..MaxStock /\ twice \in BOOLEAN /\ missed \subseteq Order
    <3>1. hqStock = 0 /\ bought = 0 /\ missed = {}
      BY <1>1
    <3>2. twice \in BOOLEAN
      BY <1>1
    <3> QED  BY <1>2, <3>1, <3>2
  <2> QED  BY <2>1, <2>2 DEF Toner!TypeOK, TonerLine, TonerReq
<1>5. TonerLinked /\ Toner!OrderAdvances
  BY <1>1, <1>3 DEF TonerLinked, Toner!OrderAdvances
<1> QED  BY <1>4, <1>5 DEF TonerInv

LEMMA TonerStep == TonerInv /\ [Toner!Next]_tonerVars => TonerInv'
<1> SUFFICES ASSUME TonerInv, [Toner!Next]_tonerVars PROVE TonerInv'
  OBVIOUS
<1>t. /\ orders \in [Order -> {"none", "DRAFT", "DISPATCHED", "RECEIVED", "CLOSED", "CANCELLED"}]
      /\ orderLines \in [Order -> [Line -> TonerLine]]
      /\ tonerReq \in [Slot -> TonerReq]
  BY DEF TonerInv, Toner!TypeOK, TonerLine, TonerReq
<1>o. hqStock \in Int /\ bought \in 0..MaxStock /\ twice \in BOOLEAN /\ missed \subseteq Order
  BY DEF TonerInv, Toner!TypeOK
<1>k. TonerLinked
  BY DEF TonerInv
<1>a. Toner!OrderAdvances
  BY DEF TonerInv
<1>m. Qty \in Nat /\ MaxStock \in Nat /\ 0 \in 0..Qty
  BY BackOfficeAssumption
<1>b. Toner!Idle \in TonerReq /\ Toner!Idle.step = "idle"
  BY <1>m DEF Toner!Idle, TonerReq
\* The types, once each table has its own.
<1>1. ASSUME orders' \in [Order -> {"none", "DRAFT", "DISPATCHED", "RECEIVED", "CLOSED", "CANCELLED"}],
             orderLines' \in [Order -> [Line -> TonerLine]], tonerReq' \in [Slot -> TonerReq],
             hqStock' \in Int, bought' \in 0..MaxStock, twice' \in BOOLEAN, missed' \subseteq Order
      PROVE  Toner!TypeOK'
  BY <1>1 DEF Toner!TypeOK, TonerLine, TonerReq
\* A request goes on; orders and lines stay.
<1>2. ASSUME NEW q \in Slot, NEW row \in TonerReq, tonerReq' = [tonerReq EXCEPT ![q] = row],
             row.step \in {"write", "check", "commit"} => row.order \in Order /\ row.line \in Line,
             UNCHANGED <<orders, orderLines, hqStock, bought, missed>>, twice' \in BOOLEAN
      PROVE  TonerInv'
  <2>1. /\ tonerReq' \in [Slot -> TonerReq] /\ tonerReq'[q] = row
        /\ \A r \in Slot : r # q => tonerReq'[r] = tonerReq[r]
    BY <1>2, <1>t
  <2>2. Toner!TypeOK'
    BY <1>1, <1>2, <1>t, <1>o, <2>1
  <2>3. TonerLinked'
    BY <1>2, <1>k, <2>1 DEF TonerLinked
  <2>4. Toner!OrderAdvances'
    BY <1>2, <1>a DEF Toner!OrderAdvances, Toner!AllSent
  <2> QED  BY <2>2, <2>3, <2>4 DEF TonerInv
<1>3. ASSUME Toner!adjustStock PROVE TonerInv'
  <2>1. /\ hqStock' = hqStock + 1 /\ bought' = bought + 1 /\ bought < MaxStock
        /\ UNCHANGED <<orders, orderLines, tonerReq, twice, missed>>
    BY <1>3 DEF Toner!adjustStock
  <2>2. hqStock' \in Int /\ bought' \in 0..MaxStock
    BY <1>o, <1>m, <2>1
  <2>3. Toner!TypeOK'
    BY <1>1, <1>t, <1>o, <2>1, <2>2
  <2>4. TonerLinked' /\ Toner!OrderAdvances'
    BY <1>k, <1>a, <2>1 DEF TonerLinked, Toner!OrderAdvances, Toner!AllSent
  <2> QED  BY <2>3, <2>4 DEF TonerInv
<1>4. ASSUME NEW q \in Slot, Toner!StartGenerate(q) PROVE TonerInv'
  <2> DEFINE row == [tonerReq[q] EXCEPT !.step = "create"]
  <2>1. row \in TonerReq /\ row.step = "create"
    BY <1>4, <1>t DEF TonerReq
  <2>2. tonerReq' = [tonerReq EXCEPT ![q] = row]
    BY <1>4, <1>t DEF Toner!StartGenerate
  <2>u. UNCHANGED <<orders, orderLines, hqStock, bought, twice, missed>>
    BY <1>4 DEF Toner!StartGenerate
  <2> HIDE DEF row
  <2> QED  BY <1>2, <1>4, <1>o, <2>1, <2>2, <2>u
<1>5. ASSUME NEW q \in Slot, NEW o \in Order, NEW l \in Line, Toner!ReadLine(q, o, l) PROVE TonerInv'
  <2>1. PICK n \in 0..Qty : tonerReq' = [tonerReq EXCEPT ![q] =
          [step |-> "write", order |-> o, line |-> l, seen |-> orderLines[o][l].sent, qty |-> n, next |-> "none"]]
    BY <1>5 DEF Toner!ReadLine
  <2> DEFINE row == [step |-> "write", order |-> o, line |-> l, seen |-> orderLines[o][l].sent,
                     qty |-> n, next |-> "none"]
  <2>2. orderLines[o][l].sent \in 0..Qty
    BY <1>t DEF TonerLine
  <2>3. row \in TonerReq /\ row.order = o /\ row.line = l
    BY <2>2 DEF TonerReq
  <2>4. tonerReq' = [tonerReq EXCEPT ![q] = row]
    BY <2>1
  <2>u. UNCHANGED <<orders, orderLines, hqStock, bought, twice, missed>>
    BY <1>5 DEF Toner!ReadLine
  <2> HIDE DEF row
  <2> QED  BY <1>2, <1>5, <1>o, <2>3, <2>4, <2>u
<1>6. ASSUME NEW q \in Slot, Toner!WriteLine(q) PROVE TonerInv'
  <2> DEFINE row == [tonerReq[q] EXCEPT !.step = "check"]
  <2>1. tonerReq[q].order \in Order /\ tonerReq[q].line \in Line
    BY <1>6, <1>k DEF Toner!WriteLine, TonerLinked
  <2>2. row \in TonerReq /\ row.order \in Order /\ row.line \in Line
    BY <1>6, <1>t, <2>1 DEF TonerReq
  <2>3. tonerReq' = [tonerReq EXCEPT ![q] = row]
    BY <1>6, <1>t DEF Toner!WriteLine
  <2>u. UNCHANGED <<orders, orderLines, hqStock, bought, missed>> /\ twice' \in BOOLEAN
    BY <1>6, <1>o DEF Toner!WriteLine
  <2> HIDE DEF row
  <2> QED  BY <1>2, <1>6, <2>2, <2>3, <2>u
<1>7. ASSUME NEW q \in Slot, Toner!CheckOrder(q) PROVE TonerInv'
  <2> DEFINE n == Toner!maybeAdvanceStatus(Toner!Seen(q))
  <2> DEFINE row == [tonerReq[q] EXCEPT !.step = "commit", !.next = n]
  <2>1. tonerReq[q].order \in Order /\ tonerReq[q].line \in Line
    BY <1>7, <1>k DEF Toner!CheckOrder, TonerLinked
  <2>2. tonerReq' = [tonerReq EXCEPT ![q] = row]
    BY <1>7, <1>t DEF Toner!CheckOrder
  <2>3. n \in {"none", "DISPATCHED", "RECEIVED"}
    BY DEF Toner!maybeAdvanceStatus
  <2> HIDE DEF n
  <2>4. row \in TonerReq /\ row.order \in Order /\ row.line \in Line
    BY <1>7, <1>t, <2>1, <2>3 DEF TonerReq
  <2>u. UNCHANGED <<orders, orderLines, hqStock, bought, twice, missed>>
    BY <1>7 DEF Toner!CheckOrder
  <2> HIDE DEF row
  <2> QED  BY <1>2, <1>7, <1>o, <2>2, <2>4, <2>u
<1>8. ASSUME NEW q \in Slot, Toner!Fail(q) PROVE TonerInv'
  <2>1. tonerReq' = [tonerReq EXCEPT ![q] = Toner!Idle]
    BY <1>8 DEF Toner!Fail
  <2>u. UNCHANGED <<orders, orderLines, hqStock, bought, twice, missed>>
    BY <1>8 DEF Toner!Fail
  <2> QED  BY <1>2, <1>8, <1>b, <1>o, <2>1, <2>u
\* A request ends; the lines of its order are written, and its status.
<1>9. ASSUME NEW q \in Slot, NEW o \in Order, NEW rows \in [Line -> TonerLine], tonerReq' = [tonerReq EXCEPT ![q] = Toner!Idle],
             orderLines' = [orderLines EXCEPT ![o] = rows],
             orders' \in [Order -> {"none", "DRAFT", "DISPATCHED", "RECEIVED", "CLOSED", "CANCELLED"}],
             \A p \in Order : p # o => orders'[p] = orders[p],
             missed \subseteq missed', missed' \subseteq Order, hqStock' \in Int, UNCHANGED <<bought, twice>>,
             o \notin missed' /\ orders'[o] = "DRAFT" => ~Toner!AllSent(rows)
      PROVE  TonerInv'
  <2>1. /\ tonerReq' \in [Slot -> TonerReq] /\ tonerReq'[q].step = "idle"
        /\ \A r \in Slot : r # q => tonerReq'[r] = tonerReq[r]
    BY <1>9, <1>t, <1>b
  <2>2. /\ orderLines' \in [Order -> [Line -> TonerLine]] /\ orderLines'[o] = rows
        /\ \A p \in Order : p # o => orderLines'[p] = orderLines[p]
    BY <1>9, <1>t
  <2>3. Toner!TypeOK'
    BY <1>1, <1>9, <1>o, <2>1, <2>2
  <2>4. TonerLinked'
    BY <1>k, <2>1 DEF TonerLinked
  <2>5. ASSUME NEW p \in Order, p \notin missed', orders'[p] = "DRAFT" PROVE ~Toner!AllSent(orderLines'[p])
    <3>1. CASE p = o
      BY <1>9, <2>2, <2>5, <3>1
    <3>2. CASE p # o
      <4>1. ~Toner!AllSent(orderLines[p])
        BY <1>9, <1>a, <2>5, <3>2 DEF Toner!OrderAdvances
      <4> QED  BY <2>2, <3>2, <4>1
    <3> QED  BY <3>1, <3>2
  <2>6. Toner!OrderAdvances'
    BY <2>5 DEF Toner!OrderAdvances, Toner!AllSent
  <2> QED  BY <2>3, <2>4, <2>6 DEF TonerInv
<1>10. ASSUME NEW q \in Slot, NEW o \in Order, Toner!CreateOrder(q, o) PROVE TonerInv'
  <2>1. PICK plan \in [Line -> 0..Qty] :
          orderLines' = [orderLines EXCEPT ![o] = [l \in Line |-> [Toner!NoLine EXCEPT !.planned = plan[l]]]]
    BY <1>10 DEF Toner!CreateOrder
  <2> DEFINE rows == [l \in Line |-> [Toner!NoLine EXCEPT !.planned = plan[l]]]
  <2>2. /\ rows \in [Line -> TonerLine]
        /\ \A l \in Line : rows[l].sent = 0 /\ rows[l].planned \in 0..Qty
    BY <1>m DEF Toner!NoLine, TonerLine
  <2>3. /\ orders' = [orders EXCEPT ![o] = "DRAFT"] /\ tonerReq' = [tonerReq EXCEPT ![q] = Toner!Idle]
        /\ orderLines' = [orderLines EXCEPT ![o] = rows]
    BY <1>10, <2>1 DEF Toner!CreateOrder
  <2>u. UNCHANGED <<hqStock, bought, twice, missed>>
    BY <1>10 DEF Toner!CreateOrder
  <2> HIDE DEF rows
  <2>4. ~Toner!AllSent(rows)
    BY <2>2 DEF Toner!AllSent
  <2>5. /\ orders' \in [Order -> {"none", "DRAFT", "DISPATCHED", "RECEIVED", "CLOSED", "CANCELLED"}]
        /\ \A p \in Order : p # o => orders'[p] = orders[p]
    BY <1>10, <1>t, <2>3
  <2> QED  BY <1>9, <1>10, <1>o, <2>2, <2>3, <2>4, <2>5, <2>u
<1>11. ASSUME NEW q \in Slot, Toner!CommitDispatch(q) PROVE TonerInv'
  <2>1. PICK o, l, n : /\ o = tonerReq[q].order /\ o \in Order /\ l = tonerReq[q].line /\ l \in Line
                       /\ n = tonerReq[q].next /\ n \in {"none", "DISPATCHED", "RECEIVED"}
    BY <1>11, <1>k, <1>t DEF Toner!CommitDispatch, TonerLinked, TonerReq
  <2> DEFINE rows == Toner!Seen(q)
  <2>2. rows \in [Line -> TonerLine]
    <3>1. orderLines[o] \in [Line -> TonerLine] /\ orderLines[o][l] \in TonerLine /\ tonerReq[q].qty \in 0..Qty
      BY <1>11, <1>t, <2>1 DEF TonerReq
    <3>2. [orderLines[o][l] EXCEPT !.sent = tonerReq[q].qty] \in TonerLine
      BY <3>1 DEF TonerLine
    <3>3. rows = [orderLines[o] EXCEPT ![l] = [orderLines[o][l] EXCEPT !.sent = tonerReq[q].qty]]
      BY <2>1, <3>1 DEF Toner!Seen
    <3> HIDE DEF rows
    <3> QED  BY <2>1, <3>1, <3>2, <3>3
  <2>3. /\ hqStock' = hqStock - (tonerReq[q].qty - tonerReq[q].seen)
        /\ orderLines' = [orderLines EXCEPT ![o] = rows]
        /\ orders' = IF n = "none" THEN orders ELSE [orders EXCEPT ![o] = n]
        /\ missed' = IF Toner!maybeAdvanceStatus(rows) = n THEN missed ELSE missed \cup {o}
        /\ tonerReq' = [tonerReq EXCEPT ![q] = Toner!Idle] /\ UNCHANGED <<bought, twice>>
    BY <1>11, <2>1 DEF Toner!CommitDispatch
  <2> HIDE DEF rows
  <2>4. hqStock' \in Int
    <3>1. tonerReq[q].qty \in 0..Qty /\ tonerReq[q].seen \in 0..Qty
      BY <1>11, <1>t DEF TonerReq
    <3> QED  BY <1>o, <1>m, <2>3, <3>1
  <2>5. /\ orders' \in [Order -> {"none", "DRAFT", "DISPATCHED", "RECEIVED", "CLOSED", "CANCELLED"}]
        /\ \A p \in Order : p # o => orders'[p] = orders[p]
        /\ n # "none" => orders'[o] = n
    BY <1>t, <2>1, <2>3
  <2>6. missed \subseteq missed' /\ missed' \subseteq Order /\ (o \notin missed' => Toner!maybeAdvanceStatus(rows) = n)
    BY <1>o, <2>1, <2>3
  <2>7. o \notin missed' /\ orders'[o] = "DRAFT" => ~Toner!AllSent(rows)
    <3> SUFFICES ASSUME o \notin missed', orders'[o] = "DRAFT" PROVE ~Toner!AllSent(rows)
      OBVIOUS
    <3>1. Toner!maybeAdvanceStatus(rows) = "none"
      BY <2>1, <2>5, <2>6
    <3> QED  BY <3>1 DEF Toner!maybeAdvanceStatus
  <2>u. /\ UNCHANGED <<bought, twice>> /\ orderLines' = [orderLines EXCEPT ![o] = rows]
        /\ tonerReq' = [tonerReq EXCEPT ![q] = Toner!Idle]
    BY <2>3
  <2>8. o \in Order /\ missed \subseteq missed' /\ missed' \subseteq Order
    BY <2>1, <2>6
  <2> QED  BY <1>9, <1>11, <2>2, <2>4, <2>5, <2>7, <2>8, <2>u
<1>12. ASSUME NEW o \in Order, NEW l \in Line, Toner!receiveLine(o, l) PROVE TonerInv'
  <2>1. PICK n \in 0..Qty : orderLines' = [orderLines EXCEPT ![o][l].got = n]
    BY <1>12 DEF Toner!receiveLine
  <2>u. UNCHANGED <<orders, hqStock, bought, tonerReq, twice, missed>>
    BY <1>12 DEF Toner!receiveLine
  <2> DEFINE row == [orderLines[o][l] EXCEPT !.got = n]
  <2>2. row \in TonerLine /\ row.planned = orderLines[o][l].planned /\ row.sent = orderLines[o][l].sent
    <3>1. orderLines[o][l] \in TonerLine
      BY <1>t
    <3> QED  BY <3>1 DEF TonerLine
  <2>3. orderLines' = With(orderLines, o, l, row)
    BY <2>1 DEF With
  <2> HIDE DEF row
  <2>4. /\ orderLines' \in Table(Order, Line, TonerLine)
        /\ \A p \in Order, k \in Line : orderLines'[p][k] = IF p = o /\ k = l THEN row ELSE orderLines[p][k]
    <3>1. orderLines \in Table(Order, Line, TonerLine)
      BY <1>t DEF Table
    <3> HIDE DEF TonerLine
    <3> QED  BY <2>2, <2>3, <3>1, PutIn
  <2>5. Toner!TypeOK'
    BY <1>1, <1>t, <1>o, <2>u, <2>4 DEF Table
  <2>6. \A p \in Order, k \in Line : /\ orderLines'[p][k].planned = orderLines[p][k].planned
                                     /\ orderLines'[p][k].sent = orderLines[p][k].sent
    BY <2>2, <2>4
  <2>7. TonerLinked' /\ Toner!OrderAdvances'
    BY <1>k, <1>a, <2>u, <2>6 DEF TonerLinked, Toner!OrderAdvances, Toner!AllSent
  <2> QED  BY <2>5, <2>7 DEF TonerInv
<1>13. ASSUME NEW o \in Order, Toner!close(o) \/ Toner!cancel(o) PROVE TonerInv'
  <2>1. PICK status \in {"CLOSED", "CANCELLED"} : orders' = [orders EXCEPT ![o] = status]
    BY <1>13 DEF Toner!close, Toner!cancel, Toner!End
  <2>u. UNCHANGED <<orderLines, hqStock, bought, tonerReq, twice, missed>>
    BY <1>13 DEF Toner!close, Toner!cancel, Toner!End
  <2>2. /\ orders' \in [Order -> {"none", "DRAFT", "DISPATCHED", "RECEIVED", "CLOSED", "CANCELLED"}]
        /\ \A p \in Order : orders'[p] = "DRAFT" => orders[p] = "DRAFT"
    BY <1>13, <1>t, <2>1
  <2>3. Toner!TypeOK'
    BY <1>1, <1>t, <1>o, <2>u, <2>2
  <2>4. TonerLinked' /\ Toner!OrderAdvances'
    BY <1>k, <1>a, <2>u, <2>2 DEF TonerLinked, Toner!OrderAdvances, Toner!AllSent
  <2> QED  BY <2>3, <2>4 DEF TonerInv
<1>14. ASSUME UNCHANGED tonerVars PROVE TonerInv'
  <2>1. UNCHANGED <<orders, orderLines, hqStock, bought, tonerReq, twice, missed>>
    BY <1>14 DEF tonerVars
  <2>2. Toner!TypeOK'
    BY <1>1, <1>t, <1>o, <2>1
  <2>3. TonerLinked' /\ Toner!OrderAdvances'
    BY <1>k, <1>a, <2>1 DEF TonerLinked, Toner!OrderAdvances, Toner!AllSent
  <2> QED  BY <2>2, <2>3 DEF TonerInv
<1> QED  BY <1>3, <1>4, <1>5, <1>6, <1>7, <1>8, <1>10, <1>11, <1>12, <1>13, <1>14 DEF Toner!Next

\* For any number of orders, lines and overlapping dispatches: an order all of whose lines
\* are on their way is no draft, but after two dispatches that did not see each other's line.
THEOREM AdvancesCorrect == BackSpec => []OrderAdvances
<1>1. TonerInv => OrderAdvances
  BY DEF TonerInv, OrderAdvances
<1>2. BackInit => TonerInv
  BY TonerInitial DEF BackInit
<1> QED  BY <1>1, <1>2, TonerStep, Steps, PTL DEF BackSpec

-----------------------------------------------------------------------------
(* The web client.  After an onSuccess that names the key, and that found   *)
(* no old answer on its way, no answer from before the write is fresh, on   *)
(* its way, or at rest on display.                                          *)

WebPairs == pair \in Pairs \cup {Web!NoPair} /\ (pair = Web!NoPair => write = "no")

Renewed ==
  write = "told" /\ pair.told /\ ~overtaken =>
    /\ flight # "old"
    /\ cache = "old" => ~fresh
    /\ shown /\ flight = "none" /\ cache = "old" => failed

WebStates ==
  /\ shown \in BOOLEAN /\ fresh \in BOOLEAN /\ overtaken \in BOOLEAN /\ failed \in BOOLEAN
  /\ cache \in {"none", "old", "new", "empty"}
  /\ flight \in {"none", "sent", "old", "new"}
  /\ write \in {"no", "sent", "stored", "told", "refused", "lost"}

WebInv == WebPairs /\ WebStates /\ Renewed

LEMMA WebInitial == Web!Init => WebInv
  BY DEF Web!Init, WebInv, WebPairs, WebStates, Renewed

LEMMA WebStep == WebInv /\ [Web!Next]_webVars => WebInv'
<1> SUFFICES ASSUME WebInv, [Web!Next]_webVars PROVE WebInv'
  OBVIOUS
<1> USE DEF WebInv
<1>1. WebPairs'
  <2>1. CASE Web!Visit
    BY <2>1 DEF WebPairs, Web!Visit
  <2>2. CASE Web!Send \/ Web!Commit \/ Web!LoseAnswer \/ Web!Told
    BY <2>2 DEF WebPairs, Web!Send, Web!Commit, Web!LoseAnswer, Web!Told
  <2>3. CASE UNCHANGED <<pair, write>>
    BY <2>3 DEF WebPairs
  <2> QED
    BY <2>1, <2>2, <2>3 DEF Web!Next, webVars, Web!Show, Web!Hide, Web!Age, Web!Poll, Web!Read, Web!Answer, Web!FetchFails
<1>2. WebStates'
  <2>1. CASE Web!Visit \/ Web!Send \/ Web!Commit \/ Web!LoseAnswer \/ Web!Hide \/ Web!Age \/ Web!Poll
    BY ZenonT(60), <2>1 DEF WebStates, Web!Visit, Web!Send, Web!Commit, Web!LoseAnswer, Web!Hide, Web!Age, Web!Poll
  <2>2. CASE Web!Show \/ Web!Read \/ Web!Answer
    BY ZenonT(60), <2>2 DEF WebStates, Web!Show, Web!Read, Web!Answer
  <2>3. CASE Web!FetchFails
    <3>1. pair.lenient \in BOOLEAN
      <4>1. pair \in Pairs \/ pair = Web!NoPair
        BY DEF WebPairs
      <4>2. \A p \in Pairs : p.lenient \in BOOLEAN
        BY PairsTyped
      <4>3. Web!NoPair.lenient \in BOOLEAN
        BY DEF Web!NoPair
      <4> QED  BY <4>1, <4>2, <4>3
    <3> QED  BY <2>3, <3>1 DEF WebStates, Web!FetchFails
  <2>4. CASE Web!Told
    BY <2>4 DEF WebStates, Web!Told, Web!Invalidate
  <2>5. CASE UNCHANGED webVars
    BY <2>5 DEF WebStates, webVars
  <2> QED
    BY <2>1, <2>2, <2>3, <2>4, <2>5 DEF Web!Next
<1>3. Renewed'
  <2>1. CASE Web!Visit \/ Web!Send \/ Web!Commit \/ Web!LoseAnswer
    BY <2>1 DEF WebPairs, Renewed, Web!Visit, Web!Send, Web!Commit, Web!LoseAnswer
  <2>2. CASE Web!Show \/ Web!Hide
    BY <2>2 DEF Renewed, Web!Show, Web!Hide
  <2>3. CASE Web!Age \/ Web!Poll
    BY <2>3 DEF Renewed, Web!Age, Web!Poll
  <2>4. CASE Web!Read
    BY <2>4 DEF Renewed, Web!Read
  <2>5. CASE Web!Answer
    BY <2>5 DEF Renewed, Web!Answer
  <2>6. CASE Web!FetchFails
    BY <2>6 DEF Renewed, Web!FetchFails
  <2>7. CASE Web!Told
    <3>1. CASE pair.told
      BY <2>7, <3>1 DEF Renewed, Web!Told, Web!Invalidate
    <3>2. CASE ~pair.told
      BY <2>7, <3>2 DEF Renewed, Web!Told
    <3> QED
      BY <3>1, <3>2
  <2>8. CASE UNCHANGED webVars
    BY <2>8 DEF Renewed, webVars
  <2> QED
    BY <2>1, <2>2, <2>3, <2>4, <2>5, <2>6, <2>7, <2>8 DEF Web!Next
<1> QED
  BY <1>1, <1>2, <1>3

\* Whatever the order of fetches, failures and polls, no screen rests on an answer from before
\* an operation that succeeded, but for the exceptions stated - for every set of screens whose
\* pairs are accounted for.  The run checks that of the screens as they are: it follows each
\* pair, and one that is neither told, polled nor listed is left stale in a few steps.
THEOREM WritesShownCorrect == ASSUME Web!Accounted PROVE BackSpec => []OwnWriteShown
<1>1. WebInv => OwnWriteShown
  <2> SUFFICES ASSUME WebInv PROVE Web!OwnWriteShown
    BY DEF OwnWriteShown
  <2> QED  BY DEF Web!Accounted, WebInv, WebPairs, Renewed, Web!OwnWriteShown
<1>2. BackInit => WebInv
  BY WebInitial DEF BackInit
<1> QED  BY <1>1, <1>2, WebStep, Steps, PTL DEF BackSpec

-----------------------------------------------------------------------------
(* Sums.  MapThenSumSet takes one element after the other, as CHOOSE has    *)
(* it; for finite sets of integers the order does not matter.               *)

IterOf(it, g, s) ==
  IF s = {} THEN 0 ELSE g[CHOOSE x \in s : TRUE] + it[s \ {CHOOSE x \in s : TRUE}]
IsIter(it, g, S) == it = [s \in SUBSET S |-> IterOf(it, g, s)]
Iter(g, S) == CHOOSE it : IsIter(it, g, S)
Sum(g, S) == Iter(g, S)[S]

\* What a table of sums of g is, whatever the order.
IsSum(it, g, S) ==
  /\ it \in [SUBSET S -> Int]
  /\ it[{}] = 0
  /\ \A s \in SUBSET S : \A x \in s : it[s] = g[x] + it[s \ {x}]

\* The smallest of the subsets of a finite set that fail.
LEMMA SmallestSubset ==
  ASSUME NEW S, IsFiniteSet(S), NEW B \in SUBSET SUBSET S, B # {}
  PROVE  \E s \in B : \A t \in SUBSET S : t \subseteq s /\ t # s => t \notin B
<1> DEFINE Sizes == {Cardinality(s) : s \in B}
<1>1. \A s \in SUBSET S : IsFiniteSet(s) /\ Cardinality(s) \in Nat
  BY FS_Subset, FS_CardinalityType
<1>2. Sizes \in SUBSET Nat /\ Sizes # {}
  BY <1>1
<1> HIDE DEF Sizes
<1>3. PICK n \in Sizes : \A k \in Sizes : n <= k
  BY <1>2, LeastNatural
<1>4. PICK s \in B : n = Cardinality(s)
  BY <1>3 DEF Sizes
<1>5. \A t \in SUBSET S : t \subseteq s /\ t # s => t \notin B
  <2>1. SUFFICES ASSUME NEW t \in SUBSET S, t \subseteq s, t # s, t \in B PROVE FALSE
    OBVIOUS
  <2>2. Cardinality(t) < Cardinality(s)
    <3>1. IsFiniteSet(s)
      BY <1>1
    <3>2. Cardinality(t) <= Cardinality(s) /\ (Cardinality(t) = Cardinality(s) => t = s)
      BY <3>1, <2>1, FS_Subset
    <3> QED  BY <3>2, <2>1, <1>1
  <2>3. Cardinality(t) \in Sizes
    BY <2>1 DEF Sizes
  <2> QED  BY <2>2, <2>3, <1>3, <1>4, <1>1
<1> QED  BY <1>5

LEMMA IterExists ==
  ASSUME NEW S, IsFiniteSet(S), NEW g
  PROVE  \E it : IsIter(it, g, S)
<1> DEFINE Upto(n) == {s \in SUBSET S : Cardinality(s) <= n}
           Built(n) == \E it : it = [s \in Upto(n) |-> IterOf(it, g, s)]
           Bad == {n \in Nat : ~Built(n)}
<1>1. \A s \in SUBSET S : IsFiniteSet(s) /\ Cardinality(s) \in Nat
  BY FS_Subset, FS_CardinalityType
<1>2. SUFFICES ASSUME Bad # {} PROVE FALSE
  <2>1. S \in SUBSET S /\ Cardinality(S) \in Nat
    BY <1>1
  <2>2. \A s \in SUBSET S : Cardinality(s) <= Cardinality(S)
    BY FS_Subset
  <2>3. Upto(Cardinality(S)) = SUBSET S
    BY <2>2
  <2>4. SUFFICES ASSUME Bad = {} PROVE \E it : IsIter(it, g, S)
    OBVIOUS
  <2>5. Built(Cardinality(S))
    BY <2>1, <2>4
  <2> QED  BY <2>3, <2>5 DEF IsIter
<1>3. PICK n \in Bad : \A k \in Bad : n <= k
  <2>1. Bad \in SUBSET Nat
    OBVIOUS
  <2> QED  BY <1>2, <2>1, LeastNatural
<1>4. n \in Nat /\ ~Built(n)
  OBVIOUS
<1>5. \A s \in SUBSET S : s # {} =>
        /\ s \ {CHOOSE x \in s : TRUE} \in SUBSET S
        /\ Cardinality(s \ {CHOOSE x \in s : TRUE}) = Cardinality(s) - 1
  <2>1. SUFFICES ASSUME NEW s \in SUBSET S, s # {}
                 PROVE  /\ s \ {CHOOSE x \in s : TRUE} \in SUBSET S
                        /\ Cardinality(s \ {CHOOSE x \in s : TRUE}) = Cardinality(s) - 1
    OBVIOUS
  <2>2. PICK c : c = (CHOOSE x \in s : TRUE)
    OBVIOUS
  <2>3. c \in s
    BY <2>1, <2>2
  <2>4. s \ {c} \in SUBSET S /\ IsFiniteSet(s) /\ Cardinality(s) \in Nat
    BY <1>1
  <2>5. Cardinality(s \ {c}) = Cardinality(s) - 1
    BY <2>3, <2>4, FS_RemoveElement
  <2> QED  BY <2>2, <2>4, <2>5
<1>6. \A s \in SUBSET S : Cardinality(s) = 0 => s = {}
  <2>1. \A s \in SUBSET S : IsFiniteSet(s)
    BY <1>1
  <2> QED  BY <2>1, FS_EmptySet
<1>7. n # 0
  <2>1. SUFFICES ASSUME n = 0 PROVE Built(n)
    BY <1>4
  <2>2. \A s \in Upto(n) : s = {}
    BY <1>1, <1>6, <2>1
  <2> DEFINE it == [s \in Upto(n) |-> 0]
  <2>3. \A s \in Upto(n) : IterOf(it, g, s) = 0
    BY <2>2 DEF IterOf
  <2>4. it = [s \in Upto(n) |-> IterOf(it, g, s)]
    BY <2>3
  <2> QED  BY <2>4
<1>8. n - 1 \in Nat /\ Built(n - 1)
  <2>1. n - 1 \in Nat /\ ~(n <= n - 1)
    BY <1>4, <1>7
  <2>2. n - 1 \notin Bad
    BY <1>3, <2>1
  <2> QED  BY <2>1, <2>2
<1>9. PICK it : it = [s \in Upto(n - 1) |-> IterOf(it, g, s)]
  BY <1>8
<1> DEFINE more == [s \in Upto(n) |-> IterOf(it, g, s)]
<1>10. \A s \in Upto(n - 1) : s \in Upto(n) /\ more[s] = it[s]
  <2>1. SUFFICES ASSUME NEW s \in Upto(n - 1) PROVE s \in Upto(n) /\ more[s] = it[s]
    OBVIOUS
  <2>2. s \in SUBSET S /\ Cardinality(s) <= n - 1
    OBVIOUS
  <2>3. s \in Upto(n)
    BY <2>2, <1>1, <1>4
  <2> QED  BY <2>3, <1>9
<1>11. \A s \in Upto(n) : IterOf(more, g, s) = IterOf(it, g, s)
  <2>1. SUFFICES ASSUME NEW s \in Upto(n), s # {} PROVE IterOf(more, g, s) = IterOf(it, g, s)
    BY DEF IterOf
  <2>2. s \ {CHOOSE x \in s : TRUE} \in Upto(n - 1)
    <3>1. s \in SUBSET S /\ Cardinality(s) <= n /\ Cardinality(s) \in Nat
      BY <1>1
    <3> QED  BY <3>1, <2>1, <1>4, <1>5
  <2>3. more[s \ {CHOOSE x \in s : TRUE}] = it[s \ {CHOOSE x \in s : TRUE}]
    BY <2>2, <1>10
  <2> HIDE DEF more
  <2> QED  BY <2>1, <2>3 DEF IterOf
<1>12. more = [s \in Upto(n) |-> IterOf(more, g, s)]
  BY <1>11
<1>13. Built(n)
  BY <1>12
<1> QED  BY <1>4, <1>13

\* The table that the fold computes is one of sums.
LEMMA SumExists ==
  ASSUME NEW S, IsFiniteSet(S), NEW g \in [S -> Int]
  PROVE  \E it : IsSum(it, g, S) /\ Sum(g, S) = it[S]
<1> DEFINE it == Iter(g, S)
           c(s) == CHOOSE x \in s : TRUE
<1>1. it = [s \in SUBSET S |-> IterOf(it, g, s)]
  <2>1. IsIter(it, g, S)
    BY IterExists DEF Iter
  <2> QED  BY <2>1 DEF IsIter
<1> HIDE DEF it
<1>2. it[{}] = 0
  BY <1>1 DEF IterOf
<1>3. \A s \in SUBSET S : s # {} => it[s] = g[c(s)] + it[s \ {c(s)}] /\ c(s) \in s
  BY <1>1 DEF IterOf
<1> HIDE DEF c
<1>4. \A s \in SUBSET S : it[s] \in Int
  <2> DEFINE B == {s \in SUBSET S : it[s] \notin Int}
  <2>1. SUFFICES ASSUME B # {} PROVE FALSE
    OBVIOUS
  <2>2. PICK s \in B : \A t \in SUBSET S : t \subseteq s /\ t # s => t \notin B
    <3>1. B \in SUBSET SUBSET S
      OBVIOUS
    <3> HIDE DEF B
    <3> QED  BY <2>1, <3>1, SmallestSubset
  <2>3. s # {}
    BY <1>2
  <2>4. c(s) \in s /\ it[s] = g[c(s)] + it[s \ {c(s)}]
    BY <1>3, <2>3
  <2>5. s \ {c(s)} \in SUBSET S /\ s \ {c(s)} \subseteq s /\ s \ {c(s)} # s
    BY <2>4
  <2>6. it[s \ {c(s)}] \in Int
    BY <2>2, <2>5
  <2> QED  BY <2>4, <2>6
<1>5. \A s \in SUBSET S : \A x \in s : it[s] = g[x] + it[s \ {x}]
  <2> DEFINE B == {s \in SUBSET S : \E x \in s : it[s] # g[x] + it[s \ {x}]}
  <2>1. SUFFICES ASSUME B # {} PROVE FALSE
    OBVIOUS
  <2>2. PICK s \in B : \A t \in SUBSET S : t \subseteq s /\ t # s => t \notin B
    <3>1. B \in SUBSET SUBSET S
      OBVIOUS
    <3> HIDE DEF B
    <3> QED  BY <2>1, <3>1, SmallestSubset
  <2>3. PICK x \in s : it[s] # g[x] + it[s \ {x}]
    OBVIOUS
  <2>4. PICK y \in s : it[s] = g[y] + it[s \ {y}]
    BY <1>3
  <2>5. x # y
    BY <2>3, <2>4
  <2> DEFINE r == (s \ {x}) \ {y}
  <2>6. /\ s \ {x} \in SUBSET S /\ s \ {x} # s /\ y \in s \ {x}
        /\ s \ {y} \in SUBSET S /\ s \ {y} # s /\ x \in s \ {y}
        /\ r = (s \ {y}) \ {x} /\ r \in SUBSET S
    BY <2>5
  <2>7. it[s \ {x}] = g[y] + it[r] /\ it[s \ {y}] = g[x] + it[r]
    <3>1. s \ {x} \notin B /\ s \ {y} \notin B
      BY <2>2, <2>6
    <3> QED  BY <3>1, <2>6
  <2>8. it[r] \in Int /\ g[x] \in Int /\ g[y] \in Int
    BY <1>4, <2>6
  <2> HIDE DEF r, B
  <2> QED  BY <2>3, <2>4, <2>7, <2>8
<1>6. it \in [SUBSET S -> Int]
  BY <1>1, <1>4
<1>7. Sum(g, S) = it[S]
  BY DEF Sum, it
<1> QED  BY <1>2, <1>5, <1>6, <1>7 DEF IsSum

\* Adding d to the terms in T adds the sum of d over T.
LEMMA SumPlus ==
  ASSUME NEW S, IsFiniteSet(S), NEW T \in SUBSET S, NEW g \in [S -> Int], NEW h \in [S -> Int],
         NEW d \in [T -> Int], \A x \in S : h[x] = g[x] + IF x \in T THEN d[x] ELSE 0
  PROVE  /\ Sum(g, S) \in Int /\ Sum(h, S) \in Int /\ Sum(d, T) \in Int
         /\ Sum(h, S) = Sum(g, S) + Sum(d, T)
<1>1. PICK gs : IsSum(gs, g, S) /\ Sum(g, S) = gs[S]
  BY SumExists
<1>2. PICK hs : IsSum(hs, h, S) /\ Sum(h, S) = hs[S]
  BY SumExists
<1>3. PICK ds : IsSum(ds, d, T) /\ Sum(d, T) = ds[T]
  <2>1. IsFiniteSet(T)
    BY FS_Subset
  <2> QED  BY <2>1, SumExists
<1>4. \A s \in SUBSET S : gs[s] \in Int /\ hs[s] \in Int /\ ds[s \cap T] \in Int
  BY <1>1, <1>2, <1>3 DEF IsSum
<1>5. \A s \in SUBSET S : hs[s] = gs[s] + ds[s \cap T]
  <2> DEFINE B == {s \in SUBSET S : hs[s] # gs[s] + ds[s \cap T]}
  <2>1. SUFFICES ASSUME B # {} PROVE FALSE
    OBVIOUS
  <2>2. PICK s \in B : \A t \in SUBSET S : t \subseteq s /\ t # s => t \notin B
    <3>1. B \in SUBSET SUBSET S
      OBVIOUS
    <3> HIDE DEF B
    <3> QED  BY <2>1, <3>1, SmallestSubset
  <2>3. s # {}
    <3>1. hs[{}] = 0 /\ gs[{}] = 0 /\ ds[{}] = 0
      BY <1>1, <1>2, <1>3 DEF IsSum
    <3>2. {} \cap T = {}
      OBVIOUS
    <3>3. gs[{}] + ds[{} \cap T] = 0
      BY <3>1, <3>2
    <3>4. {} \notin B
      BY <3>1, <3>3
    <3> QED  BY <3>4
  <2>4. PICK x \in s : TRUE
    BY <2>3
  <2>5. s \in SUBSET S /\ x \in S /\ s \ {x} \in SUBSET S
    OBVIOUS
  <2>6. hs[s \ {x}] = gs[s \ {x}] + ds[(s \ {x}) \cap T]
    <3>1. s \ {x} \notin B
      BY <2>2, <2>4, <2>5
    <3> QED  BY <3>1, <2>5
  <2>7. hs[s] = h[x] + hs[s \ {x}] /\ gs[s] = g[x] + gs[s \ {x}]
    BY <1>1, <1>2, <2>4, <2>5 DEF IsSum
  <2>8. CASE x \in T
    <3>1. s \cap T \in SUBSET T /\ x \in s \cap T /\ (s \cap T) \ {x} = (s \ {x}) \cap T
      BY <2>4, <2>8
    <3> DEFINE u == s \cap T
               w == (s \ {x}) \cap T
    <3> HIDE DEF u, w
    <3>i. \A r \in SUBSET T : \A y \in r : ds[r] = d[y] + ds[r \ {y}]
      BY <1>3 DEF IsSum
    <3>j. ds[u] = d[x] + ds[w]
      BY <3>1, <3>i DEF u, w
    <3>2. ds[s \cap T] = d[x] + ds[(s \ {x}) \cap T]
      BY <3>j DEF u, w
    <3>3. h[x] = g[x] + d[x] /\ g[x] \in Int /\ d[x] \in Int
      BY <2>5, <2>8
    <3>4. gs[s \ {x}] \in Int /\ ds[(s \ {x}) \cap T] \in Int
      BY <1>4, <2>5
    <3>5. hs[s] = gs[s] + ds[s \cap T]
      <4> DEFINE dr == ds[(s \ {x}) \cap T]
                 gr == gs[s \ {x}]
                 dx == d[x]
                 gx == g[x]
      <4>1. dr \in Int /\ gr \in Int /\ dx \in Int /\ gx \in Int
        BY <3>3, <3>4
      <4>2. hs[s] = (gx + dx) + (gr + dr) /\ gs[s] = gx + gr /\ ds[s \cap T] = dx + dr
        BY <2>6, <2>7, <3>2, <3>3
      <4> HIDE DEF dr, gr, dx, gx
      <4>3. (gx + dx) + (gr + dr) = (gx + gr) + (dx + dr)
        BY <4>1
      <4> QED  BY <4>2, <4>3
    <3> QED  BY <3>5
  <2>9. CASE x \notin T
    <3>1. s \cap T = (s \ {x}) \cap T
      BY <2>9
    <3>2. h[x] = g[x] /\ g[x] \in Int
      BY <2>5, <2>9
    <3>3. gs[s \ {x}] \in Int /\ ds[(s \ {x}) \cap T] \in Int
      BY <1>4, <2>5
    <3>4. hs[s] = gs[s] + ds[s \cap T]
      <4> DEFINE dr == ds[(s \ {x}) \cap T]
                 gr == gs[s \ {x}]
                 gx == g[x]
      <4>1. dr \in Int /\ gr \in Int /\ gx \in Int
        BY <3>2, <3>3
      <4>2. hs[s] = gx + (gr + dr) /\ gs[s] = gx + gr /\ ds[s \cap T] = dr
        BY <2>6, <2>7, <3>1, <3>2
      <4> HIDE DEF dr, gr, gx
      <4>3. gx + (gr + dr) = (gx + gr) + dr
        BY <4>1
      <4> QED  BY <4>2, <4>3
    <3> QED  BY <3>4
  <2> QED  BY <2>8, <2>9
<1>6. S \cap T = T /\ S \in SUBSET S
  OBVIOUS
<1> QED  BY <1>1, <1>2, <1>3, <1>4, <1>5, <1>6

\* The sum is an integer; where all terms are 0 it is 0.
LEMMA SumTyped ==
  ASSUME NEW S, IsFiniteSet(S), NEW g \in [S -> Int]
  PROVE  Sum(g, S) \in Int /\ ((\A x \in S : g[x] = 0) => Sum(g, S) = 0)
<1>1. PICK gs : IsSum(gs, g, S) /\ Sum(g, S) = gs[S]
  BY SumExists
<1>2. Sum(g, S) \in Int
  BY <1>1 DEF IsSum
<1>3. ASSUME \A x \in S : g[x] = 0 PROVE Sum(g, S) = 0
  <2>1. \A x \in S : g[x] = g[x] + IF x \in S THEN g[x] ELSE 0
    BY <1>3
  <2>2. Sum(g, S) = Sum(g, S) + Sum(g, S)
    BY <2>1, SumPlus
  <2>3. \A n \in Int : n = n + n => n = 0
    OBVIOUS
  <2> QED  BY <1>2, <2>2, <2>3
<1> QED  BY <1>2, <1>3

\* Adding v to one term adds v.
AddsTo(h, g, S, a, v) ==
  /\ IsFiniteSet(S) /\ a \in S /\ v \in Int /\ g \in [S -> Int] /\ h \in [S -> Int]
  /\ \A x \in S : h[x] = g[x] + IF x = a THEN v ELSE 0

LEMMA SumOne ==
  ASSUME NEW S, NEW a, NEW v, NEW g, NEW h, AddsTo(h, g, S, a, v)
  PROVE  Sum(h, S) = Sum(g, S) + v
<1>0. /\ IsFiniteSet(S) /\ a \in S /\ v \in Int /\ g \in [S -> Int] /\ h \in [S -> Int]
      /\ \A x \in S : h[x] = g[x] + IF x = a THEN v ELSE 0
  BY DEF AddsTo
<1> DEFINE d == [x \in {a} |-> v]
<1>1. d \in [{a} -> Int] /\ d[a] = v /\ {a} \in SUBSET S
  BY <1>0
<1>2. PICK ds : IsSum(ds, d, {a}) /\ Sum(d, {a}) = ds[{a}]
  <2>1. IsFiniteSet({a})
    BY FS_Singleton
  <2> QED  BY <2>1, <1>1, SumExists
<1> HIDE DEF d
<1>3. Sum(d, {a}) = v
  <2>1. ds[{a}] = d[a] + ds[{a} \ {a}]
    BY <1>2 DEF IsSum
  <2>2. {a} \ {a} = {}
    OBVIOUS
  <2>3. ds[{}] = 0
    BY <1>2 DEF IsSum
  <2>4. ds[{a}] = v + 0
    BY <1>1, <2>1, <2>2, <2>3
  <2>5. v + 0 = v
    BY <1>0
  <2> QED  BY <1>2, <2>4, <2>5
<1>4. \A x \in S : h[x] = g[x] + IF x \in {a} THEN d[x] ELSE 0
  BY <1>0, <1>1
<1>5. Sum(h, S) = Sum(g, S) + Sum(d, {a})
  BY <1>0, <1>1, <1>4, SumPlus
<1> QED  BY <1>3, <1>5

-----------------------------------------------------------------------------
(* The head office's stock.  A dispatch between its write and its commit    *)
(* holds its line: what it read is still there, unless it was out of date   *)
(* when it was written.                                                     *)

SentOf(T, o) == Sum([l \in Line |-> T[o][l].sent], Line)
SentOut(T) == Sum([o \in Order |-> SentOf(T, o)], Order)

\* The folds of StockAccounted are sums.
LEMMA StockAsSum == Toner!StockAccounted <=> (~twice => hqStock = bought - SentOut(orderLines))
<1>1. ASSUME NEW o
      PROVE  Toner!MapThenSumSet(LAMBDA l : orderLines[o][l].sent, Line) = Sum([l \in Line |-> orderLines[o][l].sent], Line)
  BY Zenon DEF Toner!MapThenSumSet, Toner!MapThenFoldSet, Sum, Iter, IsIter, IterOf
<1>2. Toner!MapThenSumSet(LAMBDA o : Toner!MapThenSumSet(LAMBDA l : orderLines[o][l].sent, Line), Order)
        = Sum([o \in Order |-> Toner!MapThenSumSet(LAMBDA l : orderLines[o][l].sent, Line)], Order)
  BY Zenon DEF Toner!MapThenSumSet, Toner!MapThenFoldSet, Sum, Iter, IsIter, IterOf
<1>3. \A o \in Order : Toner!MapThenSumSet(LAMBDA l : orderLines[o][l].sent, Line) = SentOf(orderLines, o)
  BY <1>1 DEF SentOf
<1>4. [o \in Order |-> Toner!MapThenSumSet(LAMBDA l : orderLines[o][l].sent, Line)]
        = [o \in Order |-> SentOf(orderLines, o)]
  BY <1>3
<1> QED  BY <1>2, <1>4 DEF SentOut, Toner!StockAccounted

LEMMA SentTyped ==
  ASSUME NEW T \in [Order -> [Line -> TonerLine]]
  PROVE  /\ SentOut(T) \in Int
         /\ \A o \in Order : SentOf(T, o) \in Int
         /\ (\A o \in Order, l \in Line : T[o][l].sent = 0) => SentOut(T) = 0
<1>1. IsFiniteSet(Order) /\ IsFiniteSet(Line) /\ Qty \in Nat
  BY BackOfficeAssumption
<1>2. \A o \in Order, l \in Line : T[o][l].sent \in Int
  BY <1>1 DEF TonerLine
<1>3. ASSUME NEW o \in Order
      PROVE  SentOf(T, o) \in Int /\ ((\A l \in Line : T[o][l].sent = 0) => SentOf(T, o) = 0)
  <2> DEFINE g == [l \in Line |-> T[o][l].sent]
  <2>1. g \in [Line -> Int] /\ \A l \in Line : g[l] = T[o][l].sent
    BY <1>2
  <2>2. SentOf(T, o) = Sum(g, Line)
    BY DEF SentOf
  <2> HIDE DEF g
  <2>3. Sum(g, Line) \in Int /\ ((\A l \in Line : g[l] = 0) => Sum(g, Line) = 0)
    BY <1>1, <2>1, SumTyped
  <2> QED  BY <2>1, <2>2, <2>3
<1> DEFINE f == [o \in Order |-> SentOf(T, o)]
<1>4. f \in [Order -> Int] /\ \A o \in Order : f[o] = SentOf(T, o)
  BY <1>3
<1>5. SentOut(T) = Sum(f, Order)
  BY DEF SentOut
<1> HIDE DEF f
<1>6. Sum(f, Order) \in Int /\ ((\A o \in Order : f[o] = 0) => Sum(f, Order) = 0)
  BY <1>1, <1>4, SumTyped
<1> QED  BY <1>3, <1>4, <1>5, <1>6

LEMMA SentSame ==
  ASSUME NEW T, NEW U, \A o \in Order, l \in Line : U[o][l].sent = T[o][l].sent
  PROVE  SentOut(U) = SentOut(T)
<1>1. \A o \in Order : [l \in Line |-> U[o][l].sent] = [l \in Line |-> T[o][l].sent]
  OBVIOUS
<1>2. \A o \in Order : SentOf(U, o) = SentOf(T, o)
  BY <1>1 DEF SentOf
<1>3. [o \in Order |-> SentOf(U, o)] = [o \in Order |-> SentOf(T, o)]
  BY <1>2
<1> QED  BY <1>3 DEF SentOut

\* What one line sends more, the orders send more.
SendsMore(U, T, o, l, v) ==
  /\ T \in [Order -> [Line -> TonerLine]] /\ U \in [Order -> [Line -> TonerLine]]
  /\ o \in Order /\ l \in Line /\ v \in Int
  /\ \A p \in Order, k \in Line : U[p][k].sent = T[p][k].sent + IF p = o /\ k = l THEN v ELSE 0

LEMMA SentMore ==
  ASSUME NEW T, NEW U, NEW o, NEW l, NEW v, SendsMore(U, T, o, l, v)
  PROVE  SentOut(U) = SentOut(T) + v
<1>0. /\ T \in [Order -> [Line -> TonerLine]] /\ U \in [Order -> [Line -> TonerLine]]
      /\ o \in Order /\ l \in Line /\ v \in Int
      /\ \A p \in Order, k \in Line : U[p][k].sent = T[p][k].sent + IF p = o /\ k = l THEN v ELSE 0
  BY DEF SendsMore
<1>1. IsFiniteSet(Order) /\ IsFiniteSet(Line) /\ Qty \in Nat
  BY BackOfficeAssumption
<1>2. \A p \in Order, k \in Line : T[p][k].sent \in Int /\ U[p][k].sent \in Int
  BY <1>0, <1>1 DEF TonerLine
<1>3. \A p \in Order : SentOf(T, p) \in Int /\ SentOf(U, p) \in Int
  BY <1>0, SentTyped
<1>4. SentOf(U, o) = SentOf(T, o) + v
  <2> DEFINE g == [k \in Line |-> T[o][k].sent]
             h == [k \in Line |-> U[o][k].sent]
  <2>1. g \in [Line -> Int] /\ h \in [Line -> Int]
    BY <1>0, <1>2
  <2>2. \A k \in Line : h[k] = g[k] + IF k = l THEN v ELSE 0
    BY <1>0
  <2>3. SentOf(T, o) = Sum(g, Line) /\ SentOf(U, o) = Sum(h, Line)
    BY DEF SentOf
  <2> HIDE DEF g, h
  <2>4. AddsTo(h, g, Line, l, v)
    BY <1>0, <1>1, <2>1, <2>2 DEF AddsTo
  <2>5. Sum(h, Line) = Sum(g, Line) + v
    BY <2>4, SumOne
  <2> QED  BY <2>3, <2>5
<1>5. ASSUME NEW p \in Order, p # o PROVE SentOf(U, p) = SentOf(T, p)
  <2>1. \A k \in Line : U[p][k].sent = T[p][k].sent
    BY <1>0, <1>2, <1>5
  <2>2. [k \in Line |-> U[p][k].sent] = [k \in Line |-> T[p][k].sent]
    BY <2>1
  <2> QED  BY <2>2 DEF SentOf
<1> DEFINE g == [p \in Order |-> SentOf(T, p)]
           h == [p \in Order |-> SentOf(U, p)]
<1>6. g \in [Order -> Int] /\ h \in [Order -> Int]
  BY <1>3
<1>7. \A p \in Order : h[p] = g[p] + IF p = o THEN v ELSE 0
  <2>1. \A p \in Order : h[p] = SentOf(U, p) /\ g[p] = SentOf(T, p)
    OBVIOUS
  <2> HIDE DEF g, h
  <2>2. ASSUME NEW p \in Order PROVE h[p] = g[p] + IF p = o THEN v ELSE 0
    <3>1. CASE p = o
      BY <1>4, <2>1, <3>1
    <3>2. CASE p # o
      <4>1. h[p] = g[p] /\ g[p] \in Int
        BY <1>5, <1>6, <2>1, <3>2
      <4> QED  BY <3>2, <4>1
    <3> QED  BY <3>1, <3>2
  <2> QED  BY <2>2
<1>8. SentOut(T) = Sum(g, Order) /\ SentOut(U) = Sum(h, Order)
  BY DEF SentOut
<1> HIDE DEF g, h
<1>9. AddsTo(h, g, Order, o, v)
  BY <1>0, <1>1, <1>6, <1>7 DEF AddsTo
<1>10. Sum(h, Order) = Sum(g, Order) + v
  BY <1>9, SumOne
<1> QED  BY <1>8, <1>10

Booked == ~twice => hqStock = bought - SentOut(orderLines)

\* Nothing is planned before an order is generated, and dispatches are of what is planned.
OrdersFirst ==
  /\ \A o \in Order : orders[o] = "none" => \A l \in Line : orderLines[o][l] = Toner!NoLine
  /\ \A q \in Slot : tonerReq[q].step \in {"write", "check", "commit"} => orders[tonerReq[q].order] # "none"

\* Of the dispatches that have written and not committed, no two are of one line.
LinesHeld ==
  \A q, r \in Slot :
    q # r /\ tonerReq[q].step \in {"check", "commit"} /\ tonerReq[r].step \in {"check", "commit"} =>
      ~(tonerReq[q].order = tonerReq[r].order /\ tonerReq[q].line = tonerReq[r].line)

\* And what each of them has read is still so.
SeenStill ==
  ~twice => \A q \in Slot : tonerReq[q].step \in {"check", "commit"} =>
              orderLines[tonerReq[q].order][tonerReq[q].line].sent = tonerReq[q].seen

StockInv == Booked /\ OrdersFirst /\ LinesHeld /\ SeenStill

LEMMA StockInitial == Toner!Init => StockInv
<1> SUFFICES ASSUME Toner!Init PROVE StockInv
  OBVIOUS
<1>1. /\ orders = [o \in Order |-> "none"] /\ orderLines = [o \in Order |-> [l \in Line |-> Toner!NoLine]]
      /\ hqStock = 0 /\ bought = 0 /\ twice = FALSE /\ tonerReq = [q \in Slot |-> Toner!Idle]
  BY DEF Toner!Init
<1>2. orderLines \in [Order -> [Line -> TonerLine]]
  BY TonerInitial DEF TonerInv, Toner!TypeOK, TonerLine
<1>3. \A o \in Order, l \in Line : orderLines[o][l] = Toner!NoLine /\ orderLines[o][l].sent = 0
  BY <1>1 DEF Toner!NoLine
<1>4. SentOut(orderLines) = 0
  BY <1>2, <1>3, SentTyped
<1>5. \A q \in Slot : tonerReq[q].step = "idle"
  BY <1>1 DEF Toner!Idle
<1>6. Booked
  BY <1>1, <1>4 DEF Booked
<1> QED  BY <1>3, <1>5, <1>6 DEF StockInv, OrdersFirst, LinesHeld, SeenStill

LEMMA StockStep == TonerInv /\ TonerInv' /\ StockInv /\ [Toner!Next]_tonerVars => StockInv'
<1> SUFFICES ASSUME TonerInv, TonerInv', StockInv, [Toner!Next]_tonerVars PROVE StockInv'
  OBVIOUS
<1>t. /\ orders \in [Order -> {"none", "DRAFT", "DISPATCHED", "RECEIVED", "CLOSED", "CANCELLED"}]
      /\ orderLines \in [Order -> [Line -> TonerLine]] /\ orderLines' \in [Order -> [Line -> TonerLine]]
      /\ tonerReq \in [Slot -> TonerReq] /\ hqStock \in Int /\ bought \in 0..MaxStock
  BY DEF TonerInv, Toner!TypeOK, TonerLine, TonerReq
<1>k. TonerLinked
  BY DEF TonerInv
<1>i. Booked /\ OrdersFirst /\ LinesHeld /\ SeenStill
  BY DEF StockInv
<1>m. Qty \in Nat /\ MaxStock \in Nat /\ bought \in Int /\ SentOut(orderLines) \in Int
  <2>1. Qty \in Nat /\ MaxStock \in Nat
    BY BackOfficeAssumption
  <2>2. bought \in Int
    BY <1>t, <2>1
  <2>3. SentOut(orderLines) \in Int
    BY <1>t, SentTyped
  <2> QED  BY <2>1, <2>2, <2>3
<1>e. Toner!Idle.step = "idle"
  BY DEF Toner!Idle
\* A request goes on with a row that holds no line, or the line it held; the tables stay.
<1>1. ASSUME NEW q \in Slot, NEW row, tonerReq' = [tonerReq EXCEPT ![q] = row],
             UNCHANGED <<orders, orderLines, hqStock, bought, twice>>,
             row.step \in {"write", "check", "commit"} => orders[row.order] # "none",
             row.step \in {"check", "commit"} =>
               /\ tonerReq[q].step \in {"check", "commit"}
               /\ row.order = tonerReq[q].order /\ row.line = tonerReq[q].line /\ row.seen = tonerReq[q].seen
      PROVE  StockInv'
  <2>1. tonerReq'[q] = row /\ \A r \in Slot : r # q => tonerReq'[r] = tonerReq[r]
    BY <1>1, <1>t
  <2>2. Booked'
    BY <1>1, <1>i DEF Booked
  <2>3. OrdersFirst'
    BY <1>1, <1>i, <2>1 DEF OrdersFirst
  <2>4. LinesHeld'
    BY <1>1, <1>i, <2>1 DEF LinesHeld
  <2>5. SeenStill'
    BY <1>1, <1>i, <2>1 DEF SeenStill
  <2> QED  BY <2>2, <2>3, <2>4, <2>5 DEF StockInv
\* What is sent stays, and no order goes back to none.
<1>2. ASSUME UNCHANGED <<tonerReq, twice>>, NEW n \in {0, 1}, hqStock' = hqStock + n, bought' = bought + n,
             \A o \in Order, l \in Line : orderLines'[o][l].sent = orderLines[o][l].sent,
             \A o \in Order : orders'[o] = "none" => /\ orders[o] = "none"
                                                     /\ \A l \in Line : orderLines'[o][l] = orderLines[o][l]
      PROVE  StockInv'
  <2>1. SentOut(orderLines') = SentOut(orderLines)
    BY <1>2, SentSame
  <2>2. Booked'
    <3>1. SUFFICES ASSUME ~twice PROVE hqStock' = bought' - SentOut(orderLines')
      BY <1>2 DEF Booked
    <3>2. hqStock = bought - SentOut(orderLines)
      BY <1>i, <3>1 DEF Booked
    <3>3. PICK out \in Int : out = SentOut(orderLines)
      BY <1>m
    <3>4. (bought - out) + n = (bought + n) - out
      BY <1>m, <3>3
    <3> QED  BY <1>2, <2>1, <3>2, <3>3, <3>4
  <2>3. OrdersFirst'
    <3>1. ASSUME NEW o \in Order, orders'[o] = "none" PROVE \A l \in Line : orderLines'[o][l] = Toner!NoLine
      BY <1>2, <1>i, <3>1 DEF OrdersFirst
    <3>2. ASSUME NEW q \in Slot, tonerReq'[q].step \in {"write", "check", "commit"}
          PROVE  orders'[tonerReq'[q].order] # "none"
      BY <1>2, <1>i, <1>k, <3>2 DEF OrdersFirst, TonerLinked
    <3> QED  BY <3>1, <3>2 DEF OrdersFirst
  <2>4. LinesHeld'
    BY <1>2, <1>i DEF LinesHeld
  <2>5. SeenStill'
    BY <1>2, <1>i, <1>k DEF SeenStill, TonerLinked
  <2> QED  BY <2>2, <2>3, <2>4, <2>5 DEF StockInv
<1>3. ASSUME Toner!adjustStock PROVE StockInv'
  <2>1. /\ hqStock' = hqStock + 1 /\ bought' = bought + 1
        /\ UNCHANGED <<orders, orderLines, tonerReq, twice>>
    BY <1>3 DEF Toner!adjustStock
  <2> QED  BY <1>2, <2>1
<1>4. ASSUME NEW q \in Slot, Toner!StartGenerate(q) PROVE StockInv'
  <2> DEFINE row == [tonerReq[q] EXCEPT !.step = "create"]
  <2>1. row.step = "create" /\ tonerReq' = [tonerReq EXCEPT ![q] = row]
    BY <1>4, <1>t DEF Toner!StartGenerate, TonerReq
  <2>2. UNCHANGED <<orders, orderLines, hqStock, bought, twice>>
    BY <1>4 DEF Toner!StartGenerate
  <2> HIDE DEF row
  <2>3. row.step \notin {"write", "check", "commit"}
    BY <2>1
  <2> QED  BY <1>1, <1>4, <2>1, <2>2, <2>3
<1>5. ASSUME NEW q \in Slot, NEW o \in Order, NEW l \in Line, Toner!ReadLine(q, o, l) PROVE StockInv'
  <2>1. PICK n \in 0..Qty : tonerReq' = [tonerReq EXCEPT ![q] =
           [step |-> "write", order |-> o, line |-> l, seen |-> orderLines[o][l].sent, qty |-> n, next |-> "none"]]
    BY <1>5 DEF Toner!ReadLine
  <2> DEFINE row == [step |-> "write", order |-> o, line |-> l, seen |-> orderLines[o][l].sent, qty |-> n,
                     next |-> "none"]
  <2>2. row.step = "write" /\ row.order = o /\ tonerReq' = [tonerReq EXCEPT ![q] = row]
    BY <2>1
  <2>3. UNCHANGED <<orders, orderLines, hqStock, bought, twice>>
    BY <1>5 DEF Toner!ReadLine
  <2>4. orders[o] # "none"
    <3>1. orderLines[o][l].planned > 0
      BY <1>5 DEF Toner!ReadLine, Toner!LineNow
    <3>2. Toner!NoLine.planned = 0
      BY DEF Toner!NoLine
    <3>3. ~(0 > 0)
      OBVIOUS
    <3> QED  BY <1>5, <1>i, <3>1, <3>2, <3>3 DEF OrdersFirst
  <2> HIDE DEF row
  <2> QED  BY <1>1, <1>5, <2>2, <2>3, <2>4
<1>6. ASSUME NEW q \in Slot, Toner!WriteLine(q) PROVE StockInv'
  <2>1. PICK o, l, s : o = tonerReq[q].order /\ l = tonerReq[q].line /\ s = tonerReq[q].seen
    OBVIOUS
  <2>2. /\ tonerReq[q].step = "write" /\ ~Toner!Locked(q)
        /\ tonerReq' = [tonerReq EXCEPT ![q].step = "check"]
        /\ twice' = (twice \/ orderLines[o][l].sent # s)
        /\ UNCHANGED <<orders, orderLines, hqStock, bought>>
    BY <1>6, <2>1 DEF Toner!WriteLine
  <2>3. /\ tonerReq'[q].step = "check" /\ tonerReq'[q].order = o /\ tonerReq'[q].line = l
        /\ tonerReq'[q].seen = s /\ \A r \in Slot : r # q => tonerReq'[r] = tonerReq[r]
    BY <1>6, <1>t, <2>1, <2>2 DEF TonerReq
  <2>4. \A r \in Slot : r # q /\ tonerReq[r].step \in {"check", "commit"} =>
          ~(o = tonerReq[r].order /\ l = tonerReq[r].line)
    BY <2>1, <2>2 DEF Toner!Locked, Toner!Shares
  <2>5. ~twice' => ~twice /\ orderLines[o][l].sent = s
    BY <2>2
  <2>6. Booked'
    BY <1>i, <2>2, <2>5 DEF Booked
  <2>7. OrdersFirst'
    <3>1. orders[o] # "none"
      BY <1>6, <1>i, <2>1, <2>2 DEF OrdersFirst
    <3> QED  BY <1>i, <2>2, <2>3, <3>1 DEF OrdersFirst
  <2>8. LinesHeld'
    BY <1>i, <2>3, <2>4 DEF LinesHeld
  <2>9. SeenStill'
    BY <1>i, <2>2, <2>3, <2>5 DEF SeenStill
  <2> QED  BY <2>6, <2>7, <2>8, <2>9 DEF StockInv
<1>7. ASSUME NEW q \in Slot, Toner!CheckOrder(q) PROVE StockInv'
  <2>1. PICK n : n = Toner!maybeAdvanceStatus(Toner!Seen(q))
    OBVIOUS
  <2>2. PICK row : row = [tonerReq[q] EXCEPT !.step = "commit", !.next = n]
    OBVIOUS
  <2>3. /\ tonerReq[q].step = "check" /\ tonerReq' = [tonerReq EXCEPT ![q] = row]
        /\ UNCHANGED <<orders, orderLines, hqStock, bought, twice>>
    BY <1>7, <1>t, <2>1, <2>2 DEF Toner!CheckOrder
  <2>4. /\ row.step = "commit" /\ row.order = tonerReq[q].order /\ row.line = tonerReq[q].line
        /\ row.seen = tonerReq[q].seen
    BY <1>7, <1>t, <2>2 DEF TonerReq
  <2>5. orders[row.order] # "none"
    BY <1>7, <1>i, <2>3, <2>4 DEF OrdersFirst
  <2> QED  BY <1>1, <1>7, <2>3, <2>4, <2>5
<1>8. ASSUME NEW q \in Slot, Toner!Fail(q) PROVE StockInv'
  <2>1. tonerReq' = [tonerReq EXCEPT ![q] = Toner!Idle] /\ UNCHANGED <<orders, orderLines, hqStock, bought, twice>>
    BY <1>8 DEF Toner!Fail
  <2>2. Toner!Idle.step \notin {"write", "check", "commit"}
    BY <1>e
  <2> QED  BY <1>1, <1>8, <2>1, <2>2
<1>9. ASSUME NEW q \in Slot, NEW o \in Order, Toner!CreateOrder(q, o) PROVE StockInv'
  <2>1. PICK plan \in [Line -> 0..Qty] :
          orderLines' = [orderLines EXCEPT ![o] = [l \in Line |-> [Toner!NoLine EXCEPT !.planned = plan[l]]]]
    BY <1>9 DEF Toner!CreateOrder
  <2>2. /\ orders[o] = "none" /\ orders' = [orders EXCEPT ![o] = "DRAFT"]
        /\ tonerReq' = [tonerReq EXCEPT ![q] = Toner!Idle] /\ UNCHANGED <<hqStock, bought, twice>>
    BY <1>9 DEF Toner!CreateOrder
  <2>3. /\ \A p \in Order : p # o => orderLines'[p] = orderLines[p] /\ orders'[p] = orders[p]
        /\ orders'[o] = "DRAFT"
        /\ tonerReq'[q].step = "idle" /\ \A r \in Slot : r # q => tonerReq'[r] = tonerReq[r]
    BY <1>9, <1>t, <1>e, <2>1, <2>2
  <2>4. \A p \in Order, l \in Line : orderLines'[p][l].sent = orderLines[p][l].sent
    <3>1. \A l \in Line : orderLines'[o][l].sent = 0
      BY <1>9, <1>t, <2>1 DEF Toner!NoLine
    <3>2. \A l \in Line : orderLines[o][l].sent = 0
      BY <1>9, <1>i, <2>2 DEF OrdersFirst, Toner!NoLine
    <3> QED  BY <2>3, <3>1, <3>2
  <2>5. SentOut(orderLines') = SentOut(orderLines)
    BY <2>4, SentSame
  <2>6. Booked'
    BY <1>i, <2>2, <2>5 DEF Booked
  <2>7. OrdersFirst'
    BY <1>i, <1>k, <2>3 DEF OrdersFirst, TonerLinked
  <2>8. LinesHeld'
    BY <1>i, <2>3 DEF LinesHeld
  <2>9. SeenStill'
    BY <1>i, <1>k, <2>2, <2>3, <2>4 DEF SeenStill, TonerLinked
  <2> QED  BY <2>6, <2>7, <2>8, <2>9 DEF StockInv
<1>10. ASSUME NEW q \in Slot, Toner!CommitDispatch(q) PROVE StockInv'
  <2>1. PICK o, l, n, s, k : /\ o = tonerReq[q].order /\ o \in Order /\ l = tonerReq[q].line /\ l \in Line
                             /\ n = tonerReq[q].next /\ n \in {"none", "DISPATCHED", "RECEIVED"}
                             /\ s = tonerReq[q].seen /\ s \in 0..Qty /\ k = tonerReq[q].qty /\ k \in 0..Qty
    BY <1>10, <1>k, <1>t DEF Toner!CommitDispatch, TonerLinked, TonerReq
  <2>2. /\ tonerReq[q].step = "commit" /\ hqStock' = hqStock - (k - s)
        /\ orderLines' = [orderLines EXCEPT ![o] = [orderLines[o] EXCEPT ![l].sent = k]]
        /\ orders' = IF n = "none" THEN orders ELSE [orders EXCEPT ![o] = n]
        /\ tonerReq' = [tonerReq EXCEPT ![q] = Toner!Idle] /\ UNCHANGED <<bought, twice>>
    BY <1>10, <2>1 DEF Toner!CommitDispatch, Toner!Seen
  <2>3. /\ tonerReq'[q].step = "idle" /\ \A r \in Slot : r # q => tonerReq'[r] = tonerReq[r]
        /\ \A p \in Order : p # o => orderLines'[p] = orderLines[p]
        /\ \A p \in Order : orders'[p] = "none" => orders[p] = "none" /\ (p # o)
    <3>1. orders[o] # "none"
      BY <1>10, <1>i, <2>1, <2>2 DEF OrdersFirst
    <3>2. \A p \in Order : orders'[p] = "none" => orders[p] = "none" /\ (p # o)
      BY <1>t, <2>1, <2>2, <3>1
    <3> QED  BY <1>10, <1>t, <1>e, <2>2, <3>2
  <2>4. /\ orderLines'[o][l].sent = k
        /\ \A p \in Order, j \in Line : ~(p = o /\ j = l) => orderLines'[p][j].sent = orderLines[p][j].sent
    <3>1. orderLines[o] \in [Line -> TonerLine] /\ orderLines[o][l] \in TonerLine
      BY <1>t, <2>1
    <3>2. PICK rec : rec = [orderLines[o][l] EXCEPT !.sent = k]
      OBVIOUS
    <3>3. rec.sent = k
      BY <3>1, <3>2 DEF TonerLine
    <3>4. orderLines'[o] = [orderLines[o] EXCEPT ![l] = rec]
      BY <1>t, <2>1, <2>2, <3>1, <3>2
    <3> QED  BY <2>1, <2>3, <3>1, <3>3, <3>4
  <2>5. ~twice => orderLines[o][l].sent = s
    BY <1>10, <1>i, <2>1, <2>2 DEF SeenStill
  <2>6. Booked'
    <3> SUFFICES ASSUME ~twice PROVE hqStock' = bought - SentOut(orderLines')
      BY <2>2 DEF Booked
    <3>1. k - s \in Int /\ k \in Int /\ s \in Int
      BY <1>m, <2>1
    <3>2. \A p \in Order, j \in Line :
            orderLines'[p][j].sent = orderLines[p][j].sent + IF p = o /\ j = l THEN k - s ELSE 0
      <4>1. \A p \in Order, j \in Line : orderLines[p][j].sent \in Int
        BY <1>t, <1>m DEF TonerLine
      <4>2. s + (k - s) = k
        BY <3>1
      <4> QED  BY <2>4, <2>5, <4>1, <4>2
    <3>i. SendsMore(orderLines', orderLines, o, l, k - s)
      BY <1>t, <2>1, <3>1, <3>2 DEF SendsMore
    <3>3. SentOut(orderLines') = SentOut(orderLines) + (k - s)
      BY <3>i, SentMore
    <3>4. hqStock = bought - SentOut(orderLines)
      BY <1>i DEF Booked
    <3> QED  BY <1>m, <1>t, <2>2, <3>1, <3>3, <3>4
  <2>7. OrdersFirst'
    BY <1>i, <1>k, <2>3 DEF OrdersFirst, TonerLinked
  <2>8. LinesHeld'
    BY <1>i, <2>3 DEF LinesHeld
  <2>9. SeenStill'
    <3> SUFFICES ASSUME ~twice, NEW r \in Slot, tonerReq'[r].step \in {"check", "commit"}
                 PROVE  orderLines'[tonerReq'[r].order][tonerReq'[r].line].sent = tonerReq'[r].seen
      BY <2>2 DEF SeenStill
    <3>1. r # q /\ tonerReq'[r] = tonerReq[r] /\ tonerReq[r].step \in {"check", "commit"}
      BY <2>3
    <3>2. /\ tonerReq[r].order \in Order /\ tonerReq[r].line \in Line
          /\ ~(tonerReq[r].order = o /\ tonerReq[r].line = l)
      BY <1>10, <1>i, <1>k, <2>1, <2>2, <3>1 DEF LinesHeld, TonerLinked
    <3>3. orderLines[tonerReq[r].order][tonerReq[r].line].sent = tonerReq[r].seen
      BY <1>i, <3>1 DEF SeenStill
    <3> QED  BY <2>4, <3>1, <3>2, <3>3
  <2> QED  BY <2>6, <2>7, <2>8, <2>9 DEF StockInv
<1>11. ASSUME NEW o \in Order, NEW l \in Line, Toner!receiveLine(o, l) PROVE StockInv'
  <2>1. PICK n \in 0..Qty : orderLines' = [orderLines EXCEPT ![o][l].got = n]
    BY <1>11 DEF Toner!receiveLine
  <2>2. UNCHANGED <<orders, hqStock, bought, tonerReq, twice>> /\ orderLines[o][l].planned > 0
    BY <1>11 DEF Toner!receiveLine, Toner!LineNow
  <2>3. PICK row : row = [orderLines[o][l] EXCEPT !.got = n]
    OBVIOUS
  <2>4. row \in TonerLine /\ row.sent = orderLines[o][l].sent
    <3>1. orderLines[o][l] \in TonerLine
      BY <1>t, <1>11
    <3> QED  BY <2>3, <3>1 DEF TonerLine
  <2>5. orderLines' = With(orderLines, o, l, row)
    BY <2>1, <2>3 DEF With
  <2>6. \A p \in Order, j \in Line : orderLines'[p][j] = IF p = o /\ j = l THEN row ELSE orderLines[p][j]
    <3>1. orderLines \in Table(Order, Line, TonerLine)
      BY <1>t DEF Table
    <3> HIDE DEF TonerLine
    <3> QED  BY <1>11, <2>4, <2>5, <3>1, PutIn
  <2>7. orders[o] # "none"
    <3>1. Toner!NoLine.planned = 0 /\ ~(0 > 0)
      BY DEF Toner!NoLine
    <3> QED  BY <1>11, <1>i, <2>2, <3>1 DEF OrdersFirst
  <2>8. \A p \in Order, j \in Line : orderLines'[p][j].sent = orderLines[p][j].sent
    BY <2>4, <2>6
  <2>9. \A p \in Order : orders'[p] = "none" => /\ orders[p] = "none"
                                                /\ \A j \in Line : orderLines'[p][j] = orderLines[p][j]
    BY <2>2, <2>6, <2>7
  <2>h. hqStock' = hqStock + 0 /\ bought' = bought + 0
    BY <1>t, <1>m, <2>2
  <2> QED  BY <1>2, <2>2, <2>8, <2>9, <2>h
<1>12. ASSUME NEW o \in Order, Toner!close(o) \/ Toner!cancel(o) PROVE StockInv'
  <2>1. PICK status \in {"CLOSED", "CANCELLED"} : orders' = [orders EXCEPT ![o] = status]
    BY <1>12 DEF Toner!close, Toner!cancel, Toner!End
  <2>2. UNCHANGED <<orderLines, hqStock, bought, tonerReq, twice>>
    BY <1>12 DEF Toner!close, Toner!cancel, Toner!End
  <2>3. \A p \in Order : orders'[p] = "none" => orders[p] = "none"
    BY <1>12, <1>t, <2>1
  <2>h. hqStock' = hqStock + 0 /\ bought' = bought + 0
    BY <1>t, <1>m, <2>2
  <2> QED  BY <1>2, <2>2, <2>3, <2>h
<1>13. ASSUME UNCHANGED tonerVars PROVE StockInv'
  <2>1. UNCHANGED <<orders, orderLines, hqStock, bought, tonerReq, twice>>
    BY <1>13 DEF tonerVars
  <2>h. hqStock' = hqStock + 0 /\ bought' = bought + 0
    BY <1>t, <1>m, <2>1
  <2> QED  BY <1>2, <2>1, <2>h
<1> QED  BY <1>3, <1>4, <1>5, <1>6, <1>7, <1>8, <1>9, <1>10, <1>11, <1>12, <1>13 DEF Toner!Next

\* For any number of orders, lines, corrections and overlapping dispatches: the head office
\* has what was bought less what its lines say was sent, until a line is dispatched from a
\* quantity that another dispatch had changed.
THEOREM StockCorrect == BackSpec => []StockAccounted
<1>1. StockInv => StockAccounted
  BY StockAsSum DEF StockInv, Booked, StockAccounted
<1>2. BackInit => TonerInv /\ StockInv
  BY TonerInitial, StockInitial DEF BackInit
<1> QED  BY <1>1, <1>2, TonerStep, StockStep, Steps, PTL DEF BackSpec

-----------------------------------------------------------------------------
(* The values of the assets.  What a depreciation run has read and not yet  *)
(* written is still the cost of its asset unless that was decommissioned,   *)
(* so the value it computes fits the cost it meets.                         *)

WorthRow == [status : {"none", "active", "retired", "disposed"}, cost : Nat, value : Nat, bought : 0..MaxMonth]
RunRow == [on : BOOLEAN, seen : [Item -> WorthRow], asOf : 0..MaxMonth, total : Int]

Owed(T) == Sum([a \in Item |-> T[a].cost - T[a].value], Item)
Running(R) == Sum([r \in Slot |-> R[r].total], Slot)

\* The folds of DepreciationPosted are sums.
LEMMA PostedAsSum == Values!DepreciationPosted <=> (~torn => Owed(worth) = posted + Running(runs) + other)
<1>1. Values!MapThenSumSet(LAMBDA a : worth[a].cost - worth[a].value, Item)
        = Sum([a \in Item |-> worth[a].cost - worth[a].value], Item)
  BY ZenonT(60) DEF Values!MapThenSumSet, Values!MapThenFoldSet, Sum, Iter, IsIter, IterOf
<1>2. Values!MapThenSumSet(LAMBDA r : runs[r].total, Slot) = Sum([r \in Slot |-> runs[r].total], Slot)
  BY Zenon DEF Values!MapThenSumSet, Values!MapThenFoldSet, Sum, Iter, IsIter, IterOf
<1> QED  BY Zenon, <1>1, <1>2 DEF Values!DepreciationPosted, Owed, Running

LEMMA OwedTyped ==
  ASSUME NEW T \in [Item -> WorthRow]
  PROVE  Owed(T) \in Int /\ ((\A a \in Item : T[a].cost = T[a].value) => Owed(T) = 0)
<1> DEFINE g == [a \in Item |-> T[a].cost - T[a].value]
<1>1. \A a \in Item : T[a].cost \in Nat /\ T[a].value \in Nat
  BY DEF WorthRow
<1>2. g \in [Item -> Int] /\ \A a \in Item : T[a].cost = T[a].value => g[a] = 0
  BY <1>1
<1>3. Owed(T) = Sum(g, Item) /\ IsFiniteSet(Item)
  BY BackOfficeAssumption DEF Owed
<1> HIDE DEF g
<1>4. Sum(g, Item) \in Int /\ ((\A a \in Item : g[a] = 0) => Sum(g, Item) = 0)
  BY <1>2, <1>3, SumTyped
<1> QED  BY <1>2, <1>3, <1>4

LEMMA RunningTyped ==
  ASSUME NEW R \in [Slot -> RunRow]
  PROVE  Running(R) \in Int /\ ((\A r \in Slot : R[r].total = 0) => Running(R) = 0)
<1> DEFINE g == [r \in Slot |-> R[r].total]
<1>1. g \in [Slot -> Int] /\ \A r \in Slot : g[r] = R[r].total
  BY DEF RunRow
<1>2. Running(R) = Sum(g, Slot) /\ IsFiniteSet(Slot)
  BY BackOfficeAssumption DEF Running
<1> HIDE DEF g
<1>3. Sum(g, Slot) \in Int /\ ((\A r \in Slot : g[r] = 0) => Sum(g, Slot) = 0)
  BY <1>1, <1>2, SumTyped
<1> QED  BY <1>1, <1>2, <1>3

\* What one asset is written down more, all of them are.
OwesMore(U, T, a, v) ==
  /\ T \in [Item -> WorthRow] /\ U \in [Item -> WorthRow] /\ a \in Item /\ v \in Int
  /\ \A x \in Item : x # a => U[x].cost - U[x].value = T[x].cost - T[x].value
  /\ U[a].cost - U[a].value = (T[a].cost - T[a].value) + v

LEMMA OwedMore ==
  ASSUME NEW U, NEW T, NEW a, NEW v, OwesMore(U, T, a, v)
  PROVE  Owed(U) = Owed(T) + v
<1>0. /\ T \in [Item -> WorthRow] /\ U \in [Item -> WorthRow] /\ a \in Item /\ v \in Int
      /\ \A x \in Item : x # a => U[x].cost - U[x].value = T[x].cost - T[x].value
      /\ U[a].cost - U[a].value = (T[a].cost - T[a].value) + v
  BY DEF OwesMore
<1> DEFINE g == [x \in Item |-> T[x].cost - T[x].value]
           h == [x \in Item |-> U[x].cost - U[x].value]
<1>1. \A x \in Item : T[x].cost \in Nat /\ T[x].value \in Nat /\ U[x].cost \in Nat /\ U[x].value \in Nat
  BY <1>0 DEF WorthRow
<1>2. g \in [Item -> Int] /\ h \in [Item -> Int]
  BY <1>1
<1>3. (\A x \in Item : x # a => h[x] = g[x]) /\ h[a] = g[a] + v
  BY <1>0
<1>4. Owed(T) = Sum(g, Item) /\ Owed(U) = Sum(h, Item) /\ IsFiniteSet(Item)
  BY BackOfficeAssumption DEF Owed
<1> HIDE DEF g, h
<1>5. AddsTo(h, g, Item, a, v)
  BY <1>0, <1>2, <1>3, <1>4 DEF AddsTo
<1>6. Sum(h, Item) = Sum(g, Item) + v
  BY <1>5, SumOne
<1> QED  BY <1>4, <1>6

LEMMA OwedSame ==
  ASSUME NEW U, NEW T, \A a \in Item : U[a].cost - U[a].value = T[a].cost - T[a].value
  PROVE  Owed(U) = Owed(T)
<1>1. [a \in Item |-> U[a].cost - U[a].value] = [a \in Item |-> T[a].cost - T[a].value]
  OBVIOUS
<1> QED  BY <1>1 DEF Owed

\* What one run has in hand more, all of them have.
RunsMore(Qs, Rs, r, v) ==
  /\ Rs \in [Slot -> RunRow] /\ Qs \in [Slot -> RunRow] /\ r \in Slot /\ v \in Int
  /\ \A x \in Slot : x # r => Qs[x].total = Rs[x].total
  /\ Qs[r].total = Rs[r].total + v

LEMMA RunningMore ==
  ASSUME NEW Qs, NEW Rs, NEW r, NEW v, RunsMore(Qs, Rs, r, v)
  PROVE  Running(Qs) = Running(Rs) + v
<1>0. /\ Rs \in [Slot -> RunRow] /\ Qs \in [Slot -> RunRow] /\ r \in Slot /\ v \in Int
      /\ \A x \in Slot : x # r => Qs[x].total = Rs[x].total
      /\ Qs[r].total = Rs[r].total + v
  BY DEF RunsMore
<1> DEFINE g == [x \in Slot |-> Rs[x].total]
           h == [x \in Slot |-> Qs[x].total]
<1>1. g \in [Slot -> Int] /\ h \in [Slot -> Int]
  BY <1>0 DEF RunRow
<1>2. (\A x \in Slot : x # r => h[x] = g[x]) /\ h[r] = g[r] + v
  BY <1>0
<1>3. Running(Rs) = Sum(g, Slot) /\ Running(Qs) = Sum(h, Slot) /\ IsFiniteSet(Slot)
  BY BackOfficeAssumption DEF Running
<1> HIDE DEF g, h
<1>4. AddsTo(h, g, Slot, r, v)
  BY <1>0, <1>1, <1>2, <1>3 DEF AddsTo
<1>5. Sum(h, Slot) = Sum(g, Slot) + v
  BY <1>4, SumOne
<1> QED  BY <1>3, <1>5

\* The assets a cascade reaches, and what it adds to the books.
Hit == {a \in Item : worth[a].status # "none" /\ 0 \in {worth[a].cost, worth[a].value}}

LEMMA CascadeOwed ==
  ASSUME worth \in [Item -> WorthRow], Values!Cascade
  PROVE  /\ worth' = [a \in Item |-> IF a \in Hit THEN [worth[a] EXCEPT !.cost = UnitCost, !.value = UnitCost]
                                                  ELSE worth[a]]
         /\ \E v \in Int : other' = other - v /\ (worth' \in [Item -> WorthRow] => Owed(worth) = Owed(worth') + v)
<1> DEFINE d == [a \in Hit |-> worth[a].cost - worth[a].value]
<1>1. Values!MapThenSumSet(LAMBDA a : worth[a].cost - worth[a].value, Hit) = Sum(d, Hit)
  BY ZenonT(60) DEF Values!MapThenSumSet, Values!MapThenFoldSet, Sum, Iter, IsIter, IterOf
<1>2. /\ other' = other - Values!MapThenSumSet(LAMBDA a : worth[a].cost - worth[a].value, Hit)
      /\ worth' = [a \in Item |-> IF a \in Hit THEN [worth[a] EXCEPT !.cost = UnitCost, !.value = UnitCost]
                                               ELSE worth[a]]
  BY Zenon DEF Values!Cascade, Hit
<1>3. \A a \in Item : worth[a].cost \in Nat /\ worth[a].value \in Nat
  BY DEF WorthRow
<1>4. Hit \in SUBSET Item /\ IsFiniteSet(Item) /\ IsFiniteSet(Hit)
  <2>1. Hit \in SUBSET Item /\ IsFiniteSet(Item)
    BY BackOfficeAssumption DEF Hit
  <2> QED  BY <2>1, FS_Subset
<1>5. d \in [Hit -> Int]
  BY <1>3, <1>4
<1>6. other' = other - Sum(d, Hit)
  BY <1>1, <1>2
<1>7. \A a \in Hit : d[a] = worth[a].cost - worth[a].value
  OBVIOUS
<1> HIDE DEF d
<1>8. Sum(d, Hit) \in Int
  BY <1>4, <1>5, SumTyped
<1>9. ASSUME worth' \in [Item -> WorthRow] PROVE Owed(worth) = Owed(worth') + Sum(d, Hit)
  <2> DEFINE h == [a \in Item |-> worth[a].cost - worth[a].value]
             g == [a \in Item |-> worth'[a].cost - worth'[a].value]
  <2>1. \A a \in Item : worth'[a].cost \in Nat /\ worth'[a].value \in Nat
    BY <1>9 DEF WorthRow
  <2>2. g \in [Item -> Int] /\ h \in [Item -> Int]
    BY <1>3, <2>1
  <2>3. \A a \in Item : h[a] = g[a] + IF a \in Hit THEN d[a] ELSE 0
    <3>1. ASSUME NEW a \in Item, a \in Hit PROVE worth'[a].cost = worth'[a].value
      <4>1. worth[a] \in WorthRow /\ worth'[a] = [worth[a] EXCEPT !.cost = UnitCost, !.value = UnitCost]
        BY <1>2, <3>1
      <4> QED  BY <4>1 DEF WorthRow
    <3>2. ASSUME NEW a \in Item, a \notin Hit PROVE worth'[a] = worth[a]
      BY <1>2, <3>2
    <3>3. ASSUME NEW a \in Item, a \in Hit PROVE h[a] = g[a] + d[a]
      <4>1. worth'[a].cost - worth'[a].value = 0
        BY <3>1, <3>3, <2>1
      <4> QED  BY <3>3, <4>1, <1>3, <1>7
    <3>4. ASSUME NEW a \in Item, a \notin Hit PROVE h[a] = g[a] /\ g[a] \in Int
      BY <3>2, <3>4, <2>2
    <3> HIDE DEF g, h
    <3> QED  BY <3>3, <3>4
  <2>4. Owed(worth) = Sum(h, Item) /\ Owed(worth') = Sum(g, Item)
    BY DEF Owed
  <2> HIDE DEF g, h
  <2>5. Sum(h, Item) = Sum(g, Item) + Sum(d, Hit)
    BY <1>4, <1>5, <2>2, <2>3, SumPlus
  <2> QED  BY <2>4, <2>5
<1> QED  BY <1>2, <1>6, <1>8, <1>9

\* A value is never written below 10 % of the cost it was computed from, or above it.
LEMMA NewValueKept ==
  ASSUME NEW w \in WorthRow, NEW asOf \in 0..MaxMonth, w.bought <= asOf
  PROVE  /\ Values!newValue(w, asOf) \in Nat /\ Values!newValue(w, asOf) <= w.cost
         /\ 10 * Values!newValue(w, asOf) >= w.cost
<1>1. w.cost \in Nat /\ w.bought \in Nat /\ asOf \in Nat /\ Life \in Nat \ {0}
  BY BackOfficeAssumption DEF WorthRow
<1> DEFINE each == w.cost \div Life
           gone == asOf - w.bought
           accumulated == each * gone
           most == (9 * w.cost) \div 10
<1>2. each \in Nat /\ gone \in Nat
  BY <1>1
<1>3. most \in Nat /\ 10 * most <= 9 * w.cost /\ most <= w.cost
  BY <1>1
<1> HIDE DEF each, gone
<1>4. accumulated \in Nat
  BY <1>2
<1>5. Values!newValue(w, asOf) = w.cost - IF accumulated < most THEN accumulated ELSE most
  BY DEF Values!newValue, each, gone
<1> HIDE DEF accumulated, most
<1> QED  BY <1>1, <1>3, <1>4, <1>5

ValuesTyped ==
  /\ worth \in [Item -> WorthRow] /\ decommissions \subseteq Item
  /\ month \in 0..MaxMonth /\ runs \in [Slot -> RunRow]
  /\ posted \in Int /\ other \in Int /\ torn \in BOOLEAN

BooksAgree == ~torn => Owed(worth) = posted + Running(runs) + other

Kept(a, w) == a \notin decommissions => w.value <= w.cost /\ 10 * w.value >= w.cost

RowsSoFar ==
  \A a \in Item : /\ Kept(a, worth[a]) /\ worth[a].bought <= month
                  /\ worth[a].status = "none" => worth[a] = Values!Unseen

\* An asset that a run has read and not written still has the cost it read, or is decommissioned.
Fits(a, w, s) == s.cost > 0 /\ w.status # "none" /\ (a \notin decommissions => w.cost = s.cost)

RunsSoFar ==
  \A r \in Slot :
    /\ ~runs[r].on => runs[r] = Values!Idle
    /\ \A a \in Item : runs[r].seen[a] # Values!Unseen =>
         Fits(a, worth[a], runs[r].seen[a]) /\ runs[r].seen[a].bought <= runs[r].asOf

ValuesInv == ValuesTyped /\ BooksAgree /\ RowsSoFar /\ RunsSoFar

LEMMA UnseenTyped ==
  /\ Values!Unseen \in WorthRow /\ Values!Idle \in RunRow /\ \A a \in Item : Kept(a, Values!Unseen)
  /\ Values!Unseen.cost = 0 /\ Values!Unseen.value = 0 /\ Values!Unseen.status = "none" /\ Values!Unseen.bought = 0
  /\ Values!Idle.on = FALSE /\ Values!Idle.total = 0 /\ \A a \in Item : Values!Idle.seen[a] = Values!Unseen
<1>1. MaxMonth \in Nat /\ 0 \in 0..MaxMonth
  BY BackOfficeAssumption
<1>2. /\ Values!Unseen \in WorthRow /\ Values!Unseen.cost = 0 /\ Values!Unseen.value = 0
      /\ Values!Unseen.status = "none" /\ Values!Unseen.bought = 0
  BY <1>1 DEF Values!Unseen, WorthRow
<1>3. \A a \in Item : Kept(a, Values!Unseen)
  BY <1>2 DEF Kept
<1>4. [a \in Item |-> Values!Unseen] \in [Item -> WorthRow]
  BY <1>2
<1>5. /\ Values!Idle.on = FALSE /\ Values!Idle.total = 0
      /\ \A a \in Item : Values!Idle.seen[a] = Values!Unseen
  BY DEF Values!Idle
<1>6. Values!Idle \in RunRow
  BY <1>1, <1>4 DEF Values!Idle, RunRow
<1> QED  BY <1>2, <1>3, <1>5, <1>6

LEMMA ValuesInitial == Values!Init => ValuesInv
<1> SUFFICES ASSUME Values!Init PROVE ValuesInv
  OBVIOUS
<1>1. /\ worth = Values!Idle.seen /\ decommissions = {} /\ month = 0 /\ posted = 0 /\ other = 0 /\ torn = FALSE
      /\ runs = [r \in Slot |-> Values!Idle]
  BY DEF Values!Init
<1>2. ValuesTyped
  <2>1. worth \in [Item -> WorthRow] /\ runs \in [Slot -> RunRow]
    BY <1>1, UnseenTyped DEF RunRow
  <2>2. month \in 0..MaxMonth /\ posted \in Int /\ other \in Int
    <3>1. month = 0 /\ posted = 0 /\ other = 0 /\ MaxMonth \in Nat
      BY <1>1, BackOfficeAssumption
    <3> QED  BY <3>1
  <2>3. torn \in BOOLEAN /\ decommissions \subseteq Item
    BY <1>1
  <2> QED  BY <2>1, <2>2, <2>3 DEF ValuesTyped
<1>3. \A a \in Item : worth[a] = Values!Unseen
  BY <1>1, UnseenTyped
<1>4. \A r \in Slot : runs[r] = Values!Idle
  BY <1>1
<1>5. BooksAgree
  <2>1. Owed(worth) = 0
    <3>1. \A a \in Item : worth[a].cost = worth[a].value
      BY <1>3, UnseenTyped
    <3> QED  BY <1>2, <3>1, OwedTyped DEF ValuesTyped
  <2>2. Running(runs) = 0
    <3>1. \A r \in Slot : runs[r].total = 0
      BY <1>4, UnseenTyped
    <3> QED  BY <1>2, <3>1, RunningTyped DEF ValuesTyped
  <2>3. posted = 0 /\ other = 0
    BY <1>1
  <2> QED  BY <2>1, <2>2, <2>3 DEF BooksAgree
<1>6. RowsSoFar
  <2>1. month = 0 /\ Values!Unseen.bought = 0
    BY <1>1, UnseenTyped
  <2> QED  BY <1>3, <2>1, UnseenTyped DEF RowsSoFar
<1>7. RunsSoFar
  BY <1>4, UnseenTyped DEF RunsSoFar
<1> QED  BY <1>2, <1>5, <1>6, <1>7 DEF ValuesInv

LEMMA ValuesStep == ValuesInv /\ [Values!Next]_valueVars => ValuesInv'
<1> SUFFICES ASSUME ValuesInv, [Values!Next]_valueVars PROVE ValuesInv'
  OBVIOUS
<1>t. worth \in [Item -> WorthRow] /\ month \in 0..MaxMonth /\ runs \in [Slot -> RunRow]
  BY DEF ValuesInv, ValuesTyped
<1>o. posted \in Int /\ other \in Int /\ Owed(worth) \in Int /\ Running(runs) \in Int
  <2>1. posted \in Int /\ other \in Int
    BY DEF ValuesInv, ValuesTyped
  <2> QED  BY <1>t, <2>1, OwedTyped, RunningTyped
<1>b. torn \in BOOLEAN
  BY DEF ValuesInv, ValuesTyped
<1>d. decommissions \subseteq Item
  BY DEF ValuesInv, ValuesTyped
<1>i. BooksAgree /\ RowsSoFar /\ RunsSoFar
  BY DEF ValuesInv
<1>m. MaxMonth \in Nat /\ UnitCost \in Nat /\ Cost \subseteq Nat /\ month \in Nat
  <2>1. MaxMonth \in Nat /\ UnitCost \in Nat /\ Cost \subseteq Nat
    BY BackOfficeAssumption
  <2> QED  BY <1>t, <2>1
<1>n. \A a \in Item : worth[a] \in WorthRow /\ worth[a].cost \in Nat /\ worth[a].value \in Nat
  BY <1>t DEF WorthRow
\* The runs stay: each asset stays as it is, or is written so that it fits what was read of it.
<1>1. ASSUME UNCHANGED runs, decommissions \subseteq decommissions', decommissions' \subseteq Item,
             month' \in 0..MaxMonth, month <= month', worth' \in [Item -> WorthRow],
             posted' \in Int, other' \in Int, torn' \in BOOLEAN, BooksAgree',
             \A a \in Item : \/ worth'[a] = worth[a]
                             \/ /\ Kept(a, worth[a])' /\ worth'[a].bought <= month' /\ worth'[a].status # "none"
                                /\ \A r \in Slot : runs[r].seen[a] # Values!Unseen =>
                                     Fits(a, worth[a], runs[r].seen[a])'
      PROVE  ValuesInv'
  <2>1. ValuesTyped'
    BY <1>1, <1>t DEF ValuesTyped
  <2>2. RowsSoFar'
    <3>1. ASSUME NEW a \in Item, worth'[a] = worth[a]
          PROVE  /\ Kept(a, worth[a])' /\ worth'[a].bought <= month'
                 /\ worth'[a].status = "none" => worth'[a] = Values!Unseen
      <4>1. worth[a].bought \in 0..MaxMonth /\ worth[a].bought <= month
        BY <1>t, <1>i, <3>1 DEF WorthRow, RowsSoFar
      <4>2. worth[a].bought <= month'
        BY <1>1, <1>m, <4>1
      <4>3. Kept(a, worth[a])'
        BY <1>1, <1>i, <3>1 DEF RowsSoFar, Kept
      <4> QED  BY <1>i, <3>1, <4>2, <4>3 DEF RowsSoFar
    <3> QED  BY <1>1, <3>1 DEF RowsSoFar
  <2>3. RunsSoFar'
    <3>1. ASSUME NEW a \in Item, worth'[a] = worth[a], NEW r \in Slot, runs[r].seen[a] # Values!Unseen
          PROVE  Fits(a, worth[a], runs[r].seen[a])'
      <4>1. Fits(a, worth[a], runs[r].seen[a])
        BY <1>i, <3>1 DEF RunsSoFar
      <4> QED  BY <1>1, <3>1, <4>1 DEF Fits
    <3>2. \A a \in Item, r \in Slot : runs[r].seen[a] # Values!Unseen => Fits(a, worth[a], runs[r].seen[a])'
      BY <1>1, <3>1
    <3>3. runs' = runs
      BY <1>1
    <3> QED  BY <1>i, <3>2, <3>3 DEF RunsSoFar
  <2> QED  BY <1>1, <2>1, <2>2, <2>3 DEF ValuesInv
\* The assets stay: one run gets another row.
<1>2. ASSUME NEW r \in Slot, NEW row \in RunRow, runs' = [runs EXCEPT ![r] = row],
             UNCHANGED <<worth, decommissions, month, other>>, posted' \in Int, torn' \in BOOLEAN, BooksAgree',
             ~row.on => row = Values!Idle,
             \A a \in Item : row.seen[a] # Values!Unseen =>
               Fits(a, worth[a], row.seen[a]) /\ row.seen[a].bought <= row.asOf
      PROVE  ValuesInv'
  <2>1. runs' \in [Slot -> RunRow] /\ runs'[r] = row /\ \A x \in Slot : x # r => runs'[x] = runs[x]
    BY <1>2, <1>t
  <2>2. ValuesTyped'
    BY <1>2, <1>t, <1>o, <1>d, <2>1 DEF ValuesTyped
  <2>3. RowsSoFar'
    BY <1>2, <1>i DEF RowsSoFar, Kept
  <2>4. RunsSoFar'
    <3>1. ASSUME NEW x \in Slot
          PROVE  /\ ~runs'[x].on => runs'[x] = Values!Idle
                 /\ \A a \in Item : runs'[x].seen[a] # Values!Unseen =>
                      Fits(a, worth[a], runs[x].seen[a])' /\ runs'[x].seen[a].bought <= runs'[x].asOf
      <4>1. CASE x = r
        BY <1>2, <2>1, <4>1 DEF Fits
      <4>2. CASE x # r
        BY <1>2, <1>i, <2>1, <4>2 DEF RunsSoFar, Fits
      <4> QED  BY <4>1, <4>2
    <3> QED  BY <3>1 DEF RunsSoFar
  <2> QED  BY <1>2, <2>2, <2>3, <2>4 DEF ValuesInv
\* An asset that does not exist is in no run.
<1>3. ASSUME NEW a \in Item, worth[a].status = "none"
      PROVE  worth[a] = Values!Unseen /\ \A r \in Slot : runs[r].seen[a] = Values!Unseen
  BY <1>3, <1>i DEF RowsSoFar, RunsSoFar, Fits
\* New assets cost what they are worth.
<1>4. ASSUME NEW D \in SUBSET Item, NEW c \in Nat, \A a \in D : worth[a].status = "none",
             worth' = [a \in Item |-> IF a \in D
                                      THEN [status |-> "active", cost |-> c, value |-> c, bought |-> month]
                                      ELSE worth[a]],
             UNCHANGED <<decommissions, month, runs, posted, other, torn>>
      PROVE  ValuesInv'
  <2>1. PICK row : row = [status |-> "active", cost |-> c, value |-> c, bought |-> month]
    OBVIOUS
  <2>2. row \in WorthRow /\ row.status = "active" /\ row.cost = c /\ row.value = c /\ row.bought = month
    BY <1>4, <1>t, <2>1 DEF WorthRow
  <2>3. \A a \in Item : (a \in D => worth'[a] = row) /\ (a \notin D => worth'[a] = worth[a])
    BY <1>4, <2>1
  <2>4. worth' \in [Item -> WorthRow]
    BY <1>4, <1>t, <2>1, <2>2
  <2>5. Owed(worth') = Owed(worth)
    <3>1. ASSUME NEW a \in Item PROVE worth'[a].cost - worth'[a].value = worth[a].cost - worth[a].value
      <4>1. CASE a \in D
        <5>1. worth[a].cost = 0 /\ worth[a].value = 0
          BY <1>3, <1>4, <4>1, UnseenTyped
        <5>2. worth'[a].cost = c /\ worth'[a].value = c
          BY <2>2, <2>3, <4>1
        <5> QED  BY <5>1, <5>2
      <4>2. CASE a \notin D
        BY <2>3, <4>2
      <4> QED  BY <4>1, <4>2
    <3> QED  BY <3>1, OwedSame
  <2>6. BooksAgree'
    BY <1>4, <1>i, <2>5 DEF BooksAgree
  <2>7. row.value <= row.cost /\ 10 * row.value >= row.cost /\ row.bought <= month
    BY <1>4, <1>m, <2>2
  <2>8. month' \in 0..MaxMonth /\ month <= month' /\ posted' \in Int /\ other' \in Int
    BY <1>4, <1>t, <1>o, <1>m
  <2>9. torn' \in BOOLEAN /\ UNCHANGED <<month, runs>>
    BY <1>4, <1>b
  <2>10. \A a \in D : \A r \in Slot : runs[r].seen[a] = Values!Unseen
    BY <1>3, <1>4
  <2>11. ASSUME NEW a \in Item
         PROVE  \/ worth'[a] = worth[a]
                \/ /\ Kept(a, worth[a])' /\ worth'[a].bought <= month' /\ worth'[a].status # "none"
                   /\ \A r \in Slot : runs[r].seen[a] # Values!Unseen => Fits(a, worth[a], runs[r].seen[a])'
    BY <2>2, <2>3, <2>7, <2>9, <2>10 DEF Kept
  <2>12. decommissions \subseteq decommissions' /\ decommissions' \subseteq Item
    BY <1>d, <1>4
  <2> QED  BY <1>1, <2>4, <2>6, <2>8, <2>9, <2>11, <2>12
<1>5. ASSUME NEW a \in Item, Values!Buy(a) PROVE ValuesInv'
  <2>1. PICK c \in Cost : worth' = [worth EXCEPT ![a] = [status |-> "active", cost |-> c, value |-> c,
                                                           bought |-> month]]
    BY <1>5 DEF Values!Buy
  <2>2. worth[a].status = "none" /\ UNCHANGED <<decommissions, month, runs, posted, other, torn>>
    BY <1>5 DEF Values!Buy
  <2>3. worth' = [x \in Item |-> IF x \in {a} THEN [status |-> "active", cost |-> c, value |-> c, bought |-> month]
                                             ELSE worth[x]]
    BY <1>t, <1>5, <2>1
  <2>4. c \in Nat /\ {a} \in SUBSET Item /\ \A x \in {a} : worth[x].status = "none"
    BY <1>m, <1>5, <2>2
  <2> QED  BY <1>4, <2>2, <2>3, <2>4
<1>6. ASSUME NEW rows \in SUBSET Item, Values!Import(rows) PROVE ValuesInv'
  <2>1. PICK done \in SUBSET rows \ {{}}, c \in Cost :
          worth' = [a \in Item |-> IF a \in done
                                   THEN [status |-> "active", bought |-> month,
                                         cost |-> IF c = 0 THEN UnitCost ELSE c,
                                         value |-> IF c = 0 THEN UnitCost ELSE c]
                                   ELSE worth[a]]
    BY <1>6 DEF Values!Import
  <2>2. (\A a \in rows : worth[a].status = "none") /\ UNCHANGED <<decommissions, month, runs, posted, other, torn>>
    BY <1>6 DEF Values!Import
  <2>3. PICK k : k = IF c = 0 THEN UnitCost ELSE c
    OBVIOUS
  <2>4. k \in Nat /\ done \in SUBSET Item /\ \A a \in done : worth[a].status = "none"
    BY <1>m, <1>6, <2>1, <2>2, <2>3
  <2>5. worth' = [a \in Item |-> IF a \in done
                                 THEN [status |-> "active", cost |-> k, value |-> k, bought |-> month]
                                 ELSE worth[a]]
    BY <2>1, <2>3
  <2> QED  BY <1>4, <2>2, <2>4, <2>5
\* One asset is written: cost and month of purchase stay.
<1>7. ASSUME NEW a \in Item, NEW row \in WorthRow, worth' = [worth EXCEPT ![a] = row], worth[a].status # "none",
             row.status # "none", row.cost = worth[a].cost, row.bought = worth[a].bought,
             decommissions \subseteq decommissions', decommissions' \subseteq Item,
             a \notin decommissions' => row.value <= row.cost /\ 10 * row.value >= row.cost,
             other' = other + (worth[a].value - row.value), UNCHANGED <<month, runs, posted, torn>>
      PROVE  ValuesInv'
  <2>1. worth' \in [Item -> WorthRow] /\ worth'[a] = row /\ \A x \in Item : x # a => worth'[x] = worth[x]
    BY <1>7, <1>t
  <2>2. PICK v \in Int : v = worth[a].value - row.value
    BY <1>7, <1>n DEF WorthRow
  <2>3. Owed(worth') = Owed(worth) + v
    <3>1. row.cost - row.value = (worth[a].cost - worth[a].value) + v
      BY <1>7, <1>n, <2>2 DEF WorthRow
    <3>2. OwesMore(worth', worth, a, v)
      BY <1>7, <1>t, <2>1, <2>2, <3>1 DEF OwesMore
    <3> QED  BY <3>2, OwedMore
  <2>4. BooksAgree'
    <3>1. other' = other + v
      BY <1>7, <2>2
    <3> SUFFICES ASSUME ~torn PROVE Owed(worth') = posted + Running(runs) + other'
      BY <1>7 DEF BooksAgree
    <3>2. Owed(worth) = posted + Running(runs) + other
      BY <1>i DEF BooksAgree
    <3> QED  BY <1>o, <2>2, <2>3, <3>1, <3>2
  <2>5. posted' \in Int /\ other' \in Int
    BY <1>7, <1>o, <1>n, <2>2
  <2>6. torn' \in BOOLEAN /\ UNCHANGED <<month, runs>>
    BY <1>7, <1>b
  <2>7. month' \in 0..MaxMonth /\ month <= month'
    BY <1>t, <1>m, <2>6
  <2>8. ASSUME NEW r \in Slot, runs[r].seen[a] # Values!Unseen PROVE Fits(a, worth[a], runs[r].seen[a])'
    <3>1. Fits(a, worth[a], runs[r].seen[a])
      BY <1>7, <1>i, <2>8 DEF RunsSoFar
    <3> QED  BY <1>7, <2>1, <3>1 DEF Fits
  <2>9. row.bought <= month'
    BY <1>7, <1>i, <2>6 DEF RowsSoFar
  <2>10. ASSUME NEW x \in Item
         PROVE  \/ worth'[x] = worth[x]
                \/ /\ Kept(x, worth[x])' /\ worth'[x].bought <= month' /\ worth'[x].status # "none"
                   /\ \A r \in Slot : runs[r].seen[x] # Values!Unseen => Fits(x, worth[x], runs[r].seen[x])'
    BY <1>7, <2>1, <2>8, <2>9 DEF Kept
  <2> QED  BY <1>1, <1>7, <2>1, <2>4, <2>5, <2>6, <2>7, <2>10
<1>8. ASSUME NEW a \in Item, Values!SetStatus(a) PROVE ValuesInv'
  <2>1. PICK s \in {"active", "retired", "disposed"} : worth' = [worth EXCEPT ![a].status = s]
    BY <1>8 DEF Values!SetStatus
  <2>2. worth[a].status # "none" /\ UNCHANGED <<decommissions, month, runs, posted, other, torn>>
    BY <1>8 DEF Values!SetStatus
  <2>3. PICK row : row = [worth[a] EXCEPT !.status = s]
    OBVIOUS
  <2>4. /\ row \in WorthRow /\ row.status = s /\ row.cost = worth[a].cost /\ row.value = worth[a].value
        /\ row.bought = worth[a].bought
    BY <1>8, <1>n, <2>1, <2>3 DEF WorthRow
  <2>5. worth' = [worth EXCEPT ![a] = row]
    BY <1>8, <1>t, <2>1, <2>3
  <2>6. a \notin decommissions' => row.value <= row.cost /\ 10 * row.value >= row.cost
    BY <1>8, <1>i, <2>2, <2>4 DEF RowsSoFar, Kept
  <2>7. other' = other + (worth[a].value - row.value)
    BY <1>8, <1>o, <1>n, <2>2, <2>4
  <2>8. decommissions \subseteq decommissions' /\ decommissions' \subseteq Item /\ row.status # "none"
    BY <1>d, <2>1, <2>2, <2>4
  <2> QED  BY <1>7, <1>8, <2>2, <2>4, <2>5, <2>6, <2>7, <2>8
<1>9. ASSUME NEW a \in Item, Values!Dispose(a) PROVE ValuesInv'
  <2>1. /\ worth[a].status # "none" /\ UNCHANGED <<month, runs, posted, torn>>
        /\ worth' = [worth EXCEPT ![a].status = "disposed", ![a].value = 0]
        /\ decommissions' = decommissions \cup {a} /\ other' = other + worth[a].value
    BY <1>9 DEF Values!Dispose
  <2>2. PICK row : row = [worth[a] EXCEPT !.status = "disposed", !.value = 0]
    OBVIOUS
  <2>3. /\ row \in WorthRow /\ row.status = "disposed" /\ row.cost = worth[a].cost /\ row.value = 0
        /\ row.bought = worth[a].bought
    BY <1>9, <1>n, <2>2 DEF WorthRow
  <2>4. worth' = [worth EXCEPT ![a] = row]
    BY <1>9, <1>t, <2>1, <2>2
  <2>5. decommissions \subseteq decommissions' /\ decommissions' \subseteq Item /\ a \in decommissions'
    BY <1>d, <1>9, <2>1
  <2>6. other' = other + (worth[a].value - row.value)
    BY <1>9, <1>o, <1>n, <2>1, <2>3
  <2> QED  BY <1>7, <1>9, <2>1, <2>3, <2>4, <2>5, <2>6
<1>10. ASSUME Values!Cascade PROVE ValuesInv'
  <2>1. /\ worth' = [a \in Item |-> IF a \in Hit THEN [worth[a] EXCEPT !.cost = UnitCost, !.value = UnitCost]
                                                 ELSE worth[a]]
        /\ \E v \in Int : other' = other - v /\ (worth' \in [Item -> WorthRow] => Owed(worth) = Owed(worth') + v)
    BY <1>10, <1>t, CascadeOwed
  <2>2. UNCHANGED <<decommissions, month, runs, posted, torn>>
    BY Zenon, <1>10 DEF Values!Cascade
  <2>3. ASSUME NEW a \in Hit
        PROVE  /\ worth'[a] \in WorthRow /\ worth'[a].cost = UnitCost /\ worth'[a].value = UnitCost
               /\ worth'[a].status = worth[a].status /\ worth'[a].bought = worth[a].bought
               /\ a \in Item /\ worth[a].status # "none" /\ (worth[a].cost = 0 \/ worth[a].value = 0)
    <3>1. a \in Item /\ worth[a].status # "none" /\ (worth[a].cost = 0 \/ worth[a].value = 0)
      BY <2>3 DEF Hit
    <3>2. worth'[a] = [worth[a] EXCEPT !.cost = UnitCost, !.value = UnitCost]
      BY <2>1, <2>3, <3>1
    <3> QED  BY <1>m, <1>n, <3>1, <3>2 DEF WorthRow
  <2>4. worth' \in [Item -> WorthRow] /\ \A a \in Item : a \notin Hit => worth'[a] = worth[a]
    <3>1. \A a \in Item : a \notin Hit => worth'[a] = worth[a]
      BY <2>1
    <3>2. \A a \in Item : worth'[a] \in WorthRow
      BY <1>n, <2>3, <3>1
    <3>3. \E f : worth' = [a \in Item |-> f[a]]
      <4>1. worth' = [a \in Item |-> worth'[a]]
        BY <2>1
      <4> QED  BY <4>1
    <3> QED  BY <3>1, <3>2, <3>3
  <2>5. PICK v \in Int : other' = other - v /\ Owed(worth) = Owed(worth') + v
    BY <2>1, <2>4
  <2>6. BooksAgree'
    <3> SUFFICES ASSUME ~torn PROVE Owed(worth') = posted + Running(runs) + other'
      BY <2>2 DEF BooksAgree
    <3>1. Owed(worth) = posted + Running(runs) + other
      BY <1>i DEF BooksAgree
    <3>2. Owed(worth') \in Int
      BY <2>4, OwedTyped
    <3>3. PICK left \in Int : left = Owed(worth')
      BY <3>2
    <3>4. PICK gone \in Int : gone = posted + Running(runs)
      BY <1>o
    <3>5. left + v = gone + other
      BY <2>5, <3>1, <3>3, <3>4
    <3>6. other \in Int
      BY <1>o
    <3>7. left = gone + (other - v)
      BY <3>5, <3>6
    <3> QED  BY <2>5, <3>3, <3>4, <3>7
  \* None that a run has read is hit, unless it is decommissioned: it costs something, so it is
  \* worth something.
  <2>7. ASSUME NEW a \in Hit, NEW r \in Slot, runs[r].seen[a] # Values!Unseen
        PROVE  Fits(a, worth[a], runs[r].seen[a])'
    <3>1. Fits(a, worth[a], runs[r].seen[a]) /\ Kept(a, worth[a])
      BY <1>i, <2>3, <2>7 DEF RunsSoFar, RowsSoFar
    <3>2. a \in decommissions
      <4> SUFFICES ASSUME a \notin decommissions PROVE FALSE
        OBVIOUS
      <4>1. runs[r].seen[a].cost > 0 /\ worth[a].cost = runs[r].seen[a].cost /\ 10 * worth[a].value >= worth[a].cost
        BY <3>1 DEF Fits, Kept
      <4>2. worth[a].cost \in Nat /\ worth[a].value \in Nat /\ (worth[a].cost = 0 \/ worth[a].value = 0)
        BY <1>n, <2>3, <2>7
      <4> QED  BY <4>1, <4>2
    <3> QED  BY <2>2, <2>3, <3>1, <3>2 DEF Fits
  <2>8. ASSUME NEW a \in Hit PROVE Kept(a, worth[a])' /\ worth'[a].bought <= month /\ worth'[a].status # "none"
    <3>1. Kept(a, worth[a])'
      BY <1>m, <2>3 DEF Kept
    <3>2. worth[a].bought <= month
      BY <1>i, <2>3, <2>8 DEF RowsSoFar
    <3> QED  BY <2>3, <3>1, <3>2
  <2>9. posted' \in Int /\ other' \in Int
    BY <1>o, <2>2, <2>5
  <2>10. torn' \in BOOLEAN /\ UNCHANGED <<month, runs>>
    BY <1>b, <2>2
  <2>11. month' \in 0..MaxMonth /\ month <= month'
    BY <1>t, <1>m, <2>10
  <2>12. ASSUME NEW a \in Item
         PROVE  \/ worth'[a] = worth[a]
                \/ /\ Kept(a, worth[a])' /\ worth'[a].bought <= month' /\ worth'[a].status # "none"
                   /\ \A r \in Slot : runs[r].seen[a] # Values!Unseen => Fits(a, worth[a], runs[r].seen[a])'
    BY <2>4, <2>7, <2>8, <2>10
  <2>13. decommissions \subseteq decommissions' /\ decommissions' \subseteq Item
    BY <1>d, <2>2
  <2> QED  BY <1>1, <2>4, <2>6, <2>9, <2>10, <2>11, <2>12, <2>13
<1>11. ASSUME Values!Tick PROVE ValuesInv'
  <2>1. month < MaxMonth /\ month' = month + 1 /\ UNCHANGED <<worth, decommissions, runs, posted, other, torn>>
    BY <1>11 DEF Values!Tick
  <2>2. month' \in 0..MaxMonth /\ month <= month'
    BY <1>m, <2>1
  <2>3. BooksAgree'
    BY <1>i, <2>1 DEF BooksAgree
  <2>4. decommissions \subseteq decommissions' /\ decommissions' \subseteq Item
    BY <1>d, <2>1
  <2> QED  BY <1>1, <1>t, <1>o, <1>b, <2>1, <2>2, <2>3, <2>4
<1>12. ASSUME NEW r \in Slot, Values!StartRun(r) PROVE ValuesInv'
  <2> DEFINE read == [a \in Item |-> IF worth[a].status = "active" /\ worth[a].cost > 0
                                     THEN worth[a] ELSE Values!Unseen]
  <2>1. read \in [Item -> WorthRow]
    BY <1>n, UnseenTyped
  <2>2. \A a \in Item : read[a] # Values!Unseen =>
          read[a] = worth[a] /\ worth[a].status = "active" /\ worth[a].cost > 0
    OBVIOUS
  <2>3. /\ runs' = [runs EXCEPT ![r] = [on |-> TRUE, asOf |-> month, total |-> 0, seen |-> read]]
        /\ ~runs[r].on /\ UNCHANGED <<worth, decommissions, month, posted, other, torn>>
    BY Zenon, <1>12 DEF Values!StartRun
  <2> HIDE DEF read
  <2>4. PICK row : row = [on |-> TRUE, asOf |-> month, total |-> 0, seen |-> read]
    OBVIOUS
  <2>5. row \in RunRow /\ row.on /\ row.asOf = month /\ row.total = 0 /\ row.seen = read
    BY <1>t, <2>1, <2>4 DEF RunRow
  <2>6. runs' = [runs EXCEPT ![r] = row]
    BY <2>3, <2>4
  <2>7. Running(runs') = Running(runs)
    <3>1. runs[r].total = 0
      BY <1>12, <1>i, <2>3, UnseenTyped DEF RunsSoFar
    <3>2. runs' \in [Slot -> RunRow] /\ runs'[r] = row /\ \A x \in Slot : x # r => runs'[x] = runs[x]
      BY <1>12, <1>t, <2>5, <2>6
    <3>3. runs'[r].total = runs[r].total + 0
      BY <2>5, <3>1, <3>2
    <3>4. RunsMore(runs', runs, r, 0)
      BY <1>12, <1>t, <3>2, <3>3 DEF RunsMore
    <3>5. Running(runs') = Running(runs) + 0
      BY <3>4, RunningMore
    <3> QED  BY <1>o, <3>5
  <2>8. BooksAgree'
    BY <1>i, <2>3, <2>7 DEF BooksAgree
  <2>9. ASSUME NEW a \in Item, row.seen[a] # Values!Unseen
        PROVE  Fits(a, worth[a], row.seen[a]) /\ row.seen[a].bought <= row.asOf
    <3>1. row.seen[a] = worth[a] /\ worth[a].status = "active" /\ worth[a].cost > 0
      BY <2>2, <2>5, <2>9
    <3>2. worth[a].bought <= month
      BY <1>i, <2>9 DEF RowsSoFar
    <3> QED  BY <2>5, <3>1, <3>2 DEF Fits
  <2>10. posted' \in Int /\ torn' \in BOOLEAN /\ UNCHANGED <<worth, decommissions, month, other>>
    BY <1>o, <1>b, <2>3
  <2>11. ~row.on => row = Values!Idle
    BY <2>5
  <2> QED  BY <1>2, <1>12, <2>5, <2>6, <2>8, <2>9, <2>10, <2>11
\* A run ends, with n of its total posted, or with the books torn.
<1>13. ASSUME NEW r \in Slot, runs' = [runs EXCEPT ![r] = Values!Idle],
              UNCHANGED <<worth, decommissions, month, other>>,
              posted' = posted + runs[r].total \/ (posted' = posted /\ (~torn' => runs[r].total = 0)),
              torn' \in BOOLEAN, ~torn' => ~torn
      PROVE  ValuesInv'
  <2>1. runs[r].total \in Int
    BY <1>t, <1>13 DEF RunRow
  <2>2. PICK v \in Int : v = 0 - runs[r].total
    BY <2>1
  <2>3. /\ runs' \in [Slot -> RunRow] /\ runs'[r] = Values!Idle
        /\ \A x \in Slot : x # r => runs'[x] = runs[x]
    BY <1>13, <1>t, UnseenTyped
  <2>4. Running(runs') = Running(runs) + v
    <3>1. runs'[r].total = runs[r].total + v
      BY <2>1, <2>2, <2>3, UnseenTyped
    <3>2. RunsMore(runs', runs, r, v)
      BY <1>13, <1>t, <2>2, <2>3, <3>1 DEF RunsMore
    <3> QED  BY <3>2, RunningMore
  <2>5. posted' \in Int
    BY <1>13, <1>o, <2>1
  <2>6. BooksAgree'
    <3> SUFFICES ASSUME ~torn' PROVE Owed(worth) = posted' + Running(runs') + other
      BY <1>13 DEF BooksAgree
    <3>1. Owed(worth) = posted + Running(runs) + other
      BY <1>13, <1>i DEF BooksAgree
    <3>2. posted' = posted - v
      BY <1>13, <1>o, <2>1, <2>2
    <3> QED  BY <1>o, <2>2, <2>4, <3>1, <3>2
  <2>7. \A a \in Item : Values!Idle.seen[a] = Values!Unseen
    BY UnseenTyped
  <2> QED  BY <1>2, <1>13, <2>5, <2>6, <2>7, UnseenTyped
<1>14. ASSUME NEW r \in Slot, Values!FinishRun(r) PROVE ValuesInv'
  <2>1. /\ runs' = [runs EXCEPT ![r] = Values!Idle] /\ posted' = posted + runs[r].total
        /\ UNCHANGED <<worth, decommissions, month, other, torn>>
    BY <1>14 DEF Values!FinishRun
  <2>2. torn' \in BOOLEAN
    BY <1>b, <2>1
  <2> QED  BY <1>13, <1>14, <2>1, <2>2
<1>15. ASSUME NEW r \in Slot, Values!CrashRun(r) PROVE ValuesInv'
  <2>1. /\ runs' = [runs EXCEPT ![r] = Values!Idle] /\ torn' = (torn \/ runs[r].total # 0)
        /\ UNCHANGED <<worth, decommissions, month, posted, other>>
    BY <1>15 DEF Values!CrashRun
  <2>2. torn' \in BOOLEAN
    BY <2>1
  <2>3. ~torn' => ~torn /\ runs[r].total = 0
    BY <2>1
  <2> QED  BY <1>13, <1>15, <2>1, <2>2, <2>3
<1>16. ASSUME NEW r \in Slot, NEW a \in Item, Values!Depreciate(r, a) PROVE ValuesInv'
  <2>1. PICK w, v : w = runs[r].seen[a] /\ v = Values!newValue(w, runs[r].asOf)
    OBVIOUS
  <2>2. /\ w # Values!Unseen /\ worth' = IF v = w.value THEN worth ELSE [worth EXCEPT ![a].value = v]
        /\ runs' = [runs EXCEPT ![r].seen[a] = Values!Unseen, ![r].total = @ + (w.value - v)]
        /\ torn' = (torn \/ (v # w.value /\ worth[a].value # w.value))
        /\ UNCHANGED <<decommissions, month, posted, other>>
    BY <1>16, <2>1 DEF Values!Depreciate, Values!todo
  <2>3. w \in WorthRow /\ runs[r].asOf \in 0..MaxMonth /\ w.cost \in Nat /\ w.value \in Nat
        /\ runs[r].total \in Int /\ runs[r].seen \in [Item -> WorthRow] /\ runs[r] \in RunRow
    BY <1>16, <1>t, <2>1 DEF WorthRow, RunRow
  <2>4. Fits(a, worth[a], w) /\ w.bought <= runs[r].asOf
    BY <1>16, <1>i, <2>1, <2>2 DEF RunsSoFar
  <2>5. v \in Nat /\ v <= w.cost /\ 10 * v >= w.cost
    BY <2>1, <2>3, <2>4, NewValueKept
  <2>6. PICK row : row = [worth[a] EXCEPT !.value = IF v = w.value THEN worth[a].value ELSE v]
    OBVIOUS
  <2>7. /\ row \in WorthRow /\ row.status = worth[a].status /\ row.cost = worth[a].cost
        /\ row.bought = worth[a].bought /\ row.value = IF v = w.value THEN worth[a].value ELSE v
    BY <1>n, <1>16, <2>5, <2>6 DEF WorthRow
  <2>8. worth' = [worth EXCEPT ![a] = row]
    <3>1. CASE v = w.value
      <4>1. row = worth[a]
        BY <1>n, <1>16, <2>6, <3>1 DEF WorthRow
      <4> QED  BY <1>t, <1>16, <2>2, <3>1, <4>1
    <3>2. CASE v # w.value
      BY <1>t, <1>16, <2>2, <2>6, <3>2
    <3> QED  BY <3>1, <3>2
  <2>9. worth' \in [Item -> WorthRow] /\ worth'[a] = row /\ \A x \in Item : x # a => worth'[x] = worth[x]
    BY <1>t, <1>16, <2>7, <2>8
  <2>10. PICK now : now = [runs[r] EXCEPT !.seen[a] = Values!Unseen, !.total = @ + (w.value - v)]
    OBVIOUS
  <2>11. /\ now \in RunRow /\ now.on = runs[r].on /\ now.asOf = runs[r].asOf
         /\ now.total = runs[r].total + (w.value - v)
         /\ now.seen[a] = Values!Unseen /\ \A x \in Item : x # a => now.seen[x] = runs[r].seen[x]
    <3>1. PICK f : f = [runs[r].seen EXCEPT ![a] = Values!Unseen]
      OBVIOUS
    <3>2. f \in [Item -> WorthRow] /\ f[a] = Values!Unseen /\ \A x \in Item : x # a => f[x] = runs[r].seen[x]
      BY <1>16, <2>3, <3>1, UnseenTyped
    <3>3. now = [runs[r] EXCEPT !.seen = f, !.total = runs[r].total + (w.value - v)]
      BY <2>3, <2>10, <3>1 DEF RunRow
    <3>4. runs[r].total + (w.value - v) \in Int
      BY <2>3, <2>5
    <3> QED  BY <2>3, <3>2, <3>3, <3>4 DEF RunRow
  <2>12. /\ runs' = [runs EXCEPT ![r] = now]
    BY <1>t, <1>16, <2>2, <2>10
  <2>13. runs' \in [Slot -> RunRow] /\ runs'[r] = now /\ \A x \in Slot : x # r => runs'[x] = runs[x]
    BY <1>t, <1>16, <2>11, <2>12
  <2>14. BooksAgree'
    <3> SUFFICES ASSUME ~torn' PROVE Owed(worth') = posted + Running(runs') + other
      BY <2>2 DEF BooksAgree
    <3>1. ~torn /\ (v = w.value \/ worth[a].value = w.value)
      BY <2>2
    <3>2. PICK d \in Int : d = w.value - v
      BY <2>3, <2>5
    <3>3. row.cost - row.value = (worth[a].cost - worth[a].value) + d
      BY <1>n, <1>16, <2>3, <2>5, <2>7, <3>1, <3>2
    <3>4. Owed(worth') = Owed(worth) + d
      <4>1. OwesMore(worth', worth, a, d)
        BY <1>t, <1>16, <2>9, <3>2, <3>3 DEF OwesMore
      <4> QED  BY <4>1, OwedMore
    <3>5. Running(runs') = Running(runs) + d
      <4>1. RunsMore(runs', runs, r, d)
        BY <1>t, <1>16, <2>11, <2>13, <3>2 DEF RunsMore
      <4> QED  BY <4>1, RunningMore
    <3>6. Owed(worth) = posted + Running(runs) + other
      BY <1>i, <3>1 DEF BooksAgree
    <3> QED  BY <1>o, <3>2, <3>4, <3>5, <3>6
  <2>15. ValuesTyped'
    <3>1. torn' \in BOOLEAN
      BY <2>2
    <3>2. month' \in 0..MaxMonth /\ posted' \in Int /\ other' \in Int
      BY <1>t, <1>o, <2>2
    <3>3. decommissions' \subseteq Item
      BY <1>d, <2>2
    <3> QED  BY <2>9, <2>13, <3>1, <3>2, <3>3 DEF ValuesTyped
  <2>16. RowsSoFar'
    <3>1. Kept(a, row)
      <4> SUFFICES ASSUME a \notin decommissions PROVE row.value <= row.cost /\ 10 * row.value >= row.cost
        BY DEF Kept
      <4>1. worth[a].cost = w.cost
        BY <2>4 DEF Fits
      <4>2. Kept(a, worth[a])
        BY <1>i, <1>16 DEF RowsSoFar
      <4>3. CASE v = w.value
        BY <2>7, <4>2, <4>3 DEF Kept
      <4>4. CASE v # w.value
        BY <2>5, <2>7, <4>1, <4>4
      <4> QED  BY <4>3, <4>4
    <3>2. row.bought <= month /\ row.status # "none"
      BY <1>i, <1>16, <2>4, <2>7 DEF RowsSoFar, Fits
    <3>3. UNCHANGED <<decommissions, month>>
      BY <2>2
    <3>4. \A x \in Item : Kept(x, worth[x])'
      BY <1>i, <2>9, <3>1, <3>3 DEF RowsSoFar, Kept
    <3> QED  BY <1>i, <2>9, <3>2, <3>3, <3>4 DEF RowsSoFar
  <2>17. RunsSoFar'
    <3>1. \A x \in Item : worth'[x].status = worth[x].status /\ worth'[x].cost = worth[x].cost
      BY <2>7, <2>9
    <3>2. ASSUME NEW x \in Slot
          PROVE  /\ ~runs'[x].on => runs'[x] = Values!Idle
                 /\ \A y \in Item : runs'[x].seen[y] # Values!Unseen =>
                      runs'[x].seen[y] = runs[x].seen[y] /\ runs'[x].asOf = runs[x].asOf
      <4>1. CASE x = r
        <5>1. runs[r].on
          BY <1>i, <1>16, <2>1, <2>2, UnseenTyped DEF RunsSoFar
        <5> QED  BY <2>11, <2>13, <4>1, <5>1
      <4>2. CASE x # r
        BY <1>i, <2>13, <4>2 DEF RunsSoFar
      <4> QED  BY <4>1, <4>2
    <3>3. ASSUME NEW x \in Slot, NEW y \in Item, runs'[x].seen[y] # Values!Unseen
          PROVE  Fits(y, worth[y], runs[x].seen[y])' /\ runs'[x].seen[y].bought <= runs'[x].asOf
      <4>1. runs'[x].seen[y] = runs[x].seen[y] /\ runs'[x].asOf = runs[x].asOf
        BY <3>2, <3>3
      <4>2. Fits(y, worth[y], runs[x].seen[y]) /\ runs[x].seen[y].bought <= runs[x].asOf
        BY <1>i, <3>3, <4>1 DEF RunsSoFar
      <4>3. UNCHANGED decommissions
        BY <2>2
      <4> QED  BY <3>1, <3>3, <4>1, <4>2, <4>3 DEF Fits
    <3> QED  BY <3>2, <3>3 DEF RunsSoFar
  <2> QED  BY <2>14, <2>15, <2>16, <2>17 DEF ValuesInv
<1>17. ASSUME UNCHANGED valueVars PROVE ValuesInv'
  <2>1. UNCHANGED <<worth, decommissions, month, runs, posted, other, torn>>
    BY <1>17 DEF valueVars
  <2>2. BooksAgree'
    BY <1>i, <2>1 DEF BooksAgree
  <2>3. month' \in 0..MaxMonth /\ month <= month'
    BY <1>t, <1>m, <2>1
  <2>4. decommissions \subseteq decommissions' /\ decommissions' \subseteq Item
    BY <1>d, <2>1
  <2> QED  BY <1>1, <1>t, <1>o, <1>b, <2>1, <2>2, <2>3, <2>4
<1> QED  BY <1>5, <1>6, <1>8, <1>9, <1>10, <1>11, <1>12, <1>14, <1>15, <1>16, <1>17 DEF Values!Next

\* For any assets, costs, lives and overlapping runs: the values are the costs less what was
\* posted, is about to be, or was taken by disposals and cascades, until a run dies half way
\* or writes over a change; and no asset that was never decommissioned, whatever its status
\* became, is worth less than 10 % of its cost, or more than it.
THEOREM ValuesCorrect == BackSpec => []ValuesKept
<1>1. ValuesInv => ValuesKept
  <2> SUFFICES ASSUME ValuesInv PROVE Values!DepreciationPosted /\ Values!ResidualKept
    BY DEF ValuesKept
  <2>1. Values!DepreciationPosted
    BY PostedAsSum DEF ValuesInv, BooksAgree
  <2>2. Values!ResidualKept
    BY DEF ValuesInv, RowsSoFar, Kept, Values!ResidualKept
  <2> QED  BY <2>1, <2>2
<1>2. BackInit => ValuesInv
  BY ValuesInitial DEF BackInit
<1> QED  BY <1>1, <1>2, ValuesStep, Steps, PTL DEF BackSpec

-----------------------------------------------------------------------------
(* The types of all components.                                            *)

LEMMA PlanCounts ==
  Plan!Cardinality({}) = 0 /\ \A s \in Item : Plan!Cardinality({s}) = 1
<1>1. \A S : Plan!IsFiniteSet(S) = IsFiniteSet(S)
  BY DEF Plan!IsFiniteSet, IsFiniteSet
<1>2. \A S : Plan!Cardinality(S) = Cardinality(S)
  BY <1>1 DEF Plan!Cardinality, Cardinality, Plan!IsFiniteSet, IsFiniteSet
<1> QED  BY <1>2, FS_EmptySet, FS_Singleton

LEMMA PlanTypes == PlanInv => Plan!TypeOK
<1> SUFFICES ASSUME PlanInv PROVE Plan!TypeOK
  OBVIOUS
<1>1. Plan!Cardinality(pass.at) <= 1
  <2>1. pass.at = {} \/ \E s \in Item : pass.at = {s}
    BY DEF PlanInv, PlanRows
  <2>2. Plan!Cardinality(pass.at) = 0 \/ Plan!Cardinality(pass.at) = 1
    BY <2>1, PlanCounts
  <2> QED  BY <2>2
<1>2. pass.at \subseteq Item
  BY DEF PlanInv, PlanRows
<1> QED  BY <1>1, <1>2 DEF PlanInv, PlanRows, Plan!TypeOK, Plan!Day

LEMMA AuditTypes == AuditInv => Audits!TypeOK
<1> SUFFICES ASSUME AuditInv PROVE Audits!TypeOK
  OBVIOUS
<1>1. lines \in [Audit -> [Item -> Seq(Audits!AuditLine)]]
  BY DEF AuditInv, AuditRows, Table
<1> QED  BY <1>1 DEF AuditInv, AuditRows, Audits!TypeOK, Audits!Idle, ScanRow

LEMMA ValueTypes == ValuesInv => Values!TypeOK
  BY DEF ValuesInv, ValuesTyped, Values!TypeOK, Values!Worth, WorthRow, RunRow

LEMMA WebTypes == WebInv => Web!TypeOK
<1> SUFFICES ASSUME WebInv PROVE Web!TypeOK
  OBVIOUS
<1>1. /\ pair.here \in BOOLEAN /\ pair.told \in BOOLEAN /\ pair.polled \in BOOLEAN
      /\ pair.lenient \in BOOLEAN
  <2>1. CASE pair \in Pairs
    BY <2>1, PairsTyped
  <2>2. CASE pair = Web!NoPair
    BY <2>2 DEF Web!NoPair
  <2> QED  BY <2>1, <2>2 DEF WebInv, WebPairs
<1> QED  BY <1>1 DEF WebInv, WebStates, Web!TypeOK

\* The opening hours and the holidays.
LEMMA ClockTypes ==
  /\ Clock!Init => Clock!TypeOK
  /\ Clock!TypeOK /\ [Clock!Next]_clockVars => Clock!TypeOK'
<1>1. Clock!Init => Clock!TypeOK
  BY ClockAssumption DEF Clock!Init, Clock!TypeOK, OpenThenOff, Windows
<1>2. Clock!TypeOK /\ [Clock!Next]_clockVars => Clock!TypeOK'
  BY DEF Clock!TypeOK, Clock!Next, Clock!updateConfig, Clock!addHoliday, Clock!removeHoliday, clockVars
<1> QED  BY <1>1, <1>2

\* Every table, request and history variable of every component keeps its type, however the
\* requests of a component overlap and wherever they stop.
THEOREM AllTypedCorrect == BackSpec => []AllTyped
<1>1. BackSpec => []TypeOK
  <2>1. BackInit => Init
    BY DEF BackInit
  <2>2. BackSpec => Spec
    BY <2>1, Steps, PTL DEF BackSpec, Spec
  <2>3. IndInv => TypeOK
    BY DEF IndInv
  <2> QED  BY <2>2, <2>3, RequestsStayLinked, PTL
<1>2. BackInit => /\ PlanInv /\ BuyInv /\ PadInv /\ PoolInv /\ FleetTyped /\ ShopTyped
                  /\ AuditInv /\ TonerInv /\ ValuesInv /\ WebInv /\ Clock!TypeOK
  BY PlanInitial, BuyInitial, PadInitial, PoolInitial, FleetInitial, ShopInitial, AuditInitial,
     TonerInitial, ValuesInitial, WebInitial, ClockTypes DEF BackInit
<1>3. BackSpec => [](PlanInv /\ BuyInv /\ PadInv /\ PoolInv /\ FleetTyped /\ ShopTyped)
  BY <1>2, PlanStep, BuyStep, PadStep, PoolStep, FleetTypedStep, ShopTypedStep, Steps, PTL DEF BackSpec
<1>4. BackSpec => [](AuditInv /\ TonerInv /\ ValuesInv /\ WebInv /\ Clock!TypeOK)
  BY <1>2, AuditStep, TonerStep, ValuesStep, WebStep, ClockTypes, Steps, PTL DEF BackSpec
<1>5. /\ PlanInv => Plan!TypeOK
      /\ BuyInv => Buying!TypeOK
      /\ PadInv => Tills!TypeOK
      /\ PoolInv => Pool!TypeOK
      /\ FleetTyped => Fleet!TypeOK
      /\ ShopTyped => Shops!TypeOK
      /\ AuditInv => Audits!TypeOK
      /\ TonerInv => Toner!TypeOK
      /\ ValuesInv => Values!TypeOK
      /\ WebInv => Web!TypeOK
  BY PlanTypes, AuditTypes, ValueTypes, WebTypes
     DEF BuyInv, PadInv, PoolInv, FleetTyped, ShopTyped, TonerInv
<1>6. /\ TypeOK /\ Plan!TypeOK /\ Buying!TypeOK /\ Tills!TypeOK /\ Pool!TypeOK /\ Fleet!TypeOK
      /\ Shops!TypeOK /\ Audits!TypeOK /\ Toner!TypeOK /\ Values!TypeOK /\ Web!TypeOK /\ Clock!TypeOK
      => AllTyped
  BY DEF AllTyped
<1> QED  BY <1>1, <1>3, <1>4, <1>5, <1>6, PTL

-----------------------------------------------------------------------------
(* Business time.  The days of the calendar follow one another, and a       *)
(* moment of opening time is one between the opening and the closing of its *)
(* day.                                                                     *)

Midnight(d) == d * DayLength

LEMMA Midnights ==
  /\ DayLength \in Nat \ {0}
  /\ \A d \in Nat : Midnight(d) \in Nat /\ Midnight(d + 1) = Midnight(d) + DayLength
  /\ \A d, e \in Nat : d < e => Midnight(d) + DayLength <= Midnight(e)
<1>1. DayLength \in Nat \ {0}
  BY ClockAssumption
<1>2. \A d \in Nat : Midnight(d) \in Nat /\ Midnight(d + 1) = Midnight(d) + DayLength
  BY <1>1 DEF Midnight
<1>3. ASSUME NEW d \in Nat, NEW e \in Nat, d < e PROVE Midnight(d) + DayLength <= Midnight(e)
  <2>1. PICK k \in Nat : e = d + 1 + k
    <3>1. e - (d + 1) \in Nat /\ e = d + 1 + (e - (d + 1))
      BY <1>3
    <3> QED  BY <3>1
  <2>2. e * DayLength = d * DayLength + DayLength + k * DayLength
    BY <1>1, <2>1
  <2>3. k * DayLength \in Nat /\ d * DayLength \in Nat
    BY <1>1
  <2> QED  BY <1>1, <2>2, <2>3 DEF Midnight
<1> QED  BY <1>1, <1>2, <1>3

LEMMA DayOfMoment ==
  ASSUME NEW t \in Nat
  PROVE  Clock!dayOf(t) \in Nat /\ Midnight(Clock!dayOf(t)) <= t /\ t < Midnight(Clock!dayOf(t)) + DayLength
<1>1. DayLength \in Nat /\ DayLength > 0
  BY ClockAssumption
<1>2. t \div DayLength \in Nat
  BY <1>1
<1>3. (t \div DayLength) * DayLength <= t /\ t < (t \div DayLength) * DayLength + DayLength
  BY <1>1
<1> QED  BY <1>2, <1>3 DEF Clock!dayOf, Midnight

LEMMA OnDay ==
  ASSUME NEW t \in Nat, NEW d \in Nat, Midnight(d) <= t, t < Midnight(d) + DayLength
  PROVE  Clock!dayOf(t) = d
<1> DEFINE k == Clock!dayOf(t)
<1>1. k \in Nat /\ Midnight(k) <= t /\ t < Midnight(k) + DayLength
  BY DayOfMoment
<1> HIDE DEF k
<1>2. Midnight(d) \in Nat /\ Midnight(k) \in Nat /\ DayLength \in Nat
  BY <1>1, Midnights
<1>3. ~(k < d)
  <2>1. k < d => Midnight(k) + DayLength <= Midnight(d)
    BY <1>1, Midnights
  <2> QED  BY <1>1, <1>2, <2>1
<1>4. ~(d < k)
  <2>1. d < k => Midnight(d) + DayLength <= Midnight(k)
    BY <1>1, Midnights
  <2> QED  BY <1>1, <1>2, <2>1
<1> QED  BY <1>1, <1>3, <1>4 DEF k

LEMMA HoursOfDay ==
  ASSUME Clock!TypeOK, NEW d \in Nat
  PROVE  /\ d % Week \in 0..(Week - 1)
         /\ hours[d % Week][1] \in 0..DayLength /\ hours[d % Week][2] \in 0..DayLength
         /\ Clock!openOf(d) = Midnight(d) + hours[d % Week][1]
         /\ Clock!closeOf(d) = Midnight(d) + hours[d % Week][2]
<1>1. Week \in Nat \ {0} /\ Hour \subseteq 0..DayLength
  BY ClockAssumption
<1>2. d % Week \in 0..(Week - 1)
  BY <1>1
<1>3. hours[d % Week] \in Hour \X Hour
  BY <1>2 DEF Clock!TypeOK, Windows
<1>4. hours[d % Week][1] \in Hour /\ hours[d % Week][2] \in Hour
  BY <1>3
<1>5. Clock!openOf(d) = Midnight(d) + hours[d % Week][1]
  BY DEF Clock!openOf, Midnight
<1>6. Clock!closeOf(d) = Midnight(d) + hours[d % Week][2]
  BY DEF Clock!closeOf, Midnight
<1> QED  BY <1>1, <1>2, <1>4, <1>5, <1>6

LEMMA OpenClose ==
  ASSUME Clock!TypeOK, NEW d \in Nat
  PROVE  /\ Clock!openOf(d) \in Nat /\ Clock!closeOf(d) \in Nat
         /\ Midnight(d) <= Clock!openOf(d) /\ Clock!openOf(d) <= Midnight(d) + DayLength
         /\ Midnight(d) <= Clock!closeOf(d) /\ Clock!closeOf(d) <= Midnight(d) + DayLength
         /\ Clock!hasWindow(d) => Clock!openOf(d) < Clock!closeOf(d)
<1>1. Midnight(d) \in Nat /\ DayLength \in Nat
  BY Midnights
<1> QED  BY <1>1, HoursOfDay DEF Clock!hasWindow

\* The moments of opening time.
Staffed(t) ==
  /\ Clock!hasWindow(Clock!dayOf(t))
  /\ t >= Clock!openOf(Clock!dayOf(t)) /\ t < Clock!closeOf(Clock!dayOf(t))

LEMMA StaffedOnDay ==
  ASSUME Clock!TypeOK, NEW d \in Nat, Clock!hasWindow(d), NEW t \in Nat,
         Clock!openOf(d) <= t, t < Clock!closeOf(d)
  PROVE  Clock!dayOf(t) = d /\ Staffed(t)
<1>1. Midnight(d) \in Nat /\ DayLength \in Nat
  BY Midnights
<1>2. Midnight(d) <= t /\ t < Midnight(d) + DayLength
  BY <1>1, OpenClose
<1>3. Clock!dayOf(t) = d
  BY <1>2, OnDay
<1> QED  BY <1>3 DEF Staffed

\* From a day that is shut, or after it has closed, nothing is open before the next open day opens.
LEMMA ShutBetween ==
  ASSUME Clock!TypeOK, NEW d \in Nat, NEW e \in Nat, d < e,
         \A k \in (d + 1)..(e - 1) : ~Clock!hasWindow(k),
         NEW t \in Nat, Midnight(d) <= t, t < Clock!openOf(e), Clock!dayOf(t) = d => ~Staffed(t)
  PROVE  ~Staffed(t)
<1> DEFINE k == Clock!dayOf(t)
<1>1. k \in Nat /\ Midnight(k) <= t /\ t < Midnight(k) + DayLength
  BY DayOfMoment
<1>2. CASE k = d
  BY <1>2
<1>3. CASE k = e
  BY <1>3, OpenClose DEF Staffed
<1>4. CASE k # d /\ k # e
  <2> HIDE DEF k
  <2>1. Midnight(d) \in Nat /\ Midnight(e) \in Nat /\ Midnight(k) \in Nat /\ DayLength \in Nat
    BY <1>1, Midnights
  <2>2. ~(k < d)
    <3>1. k < d => Midnight(k) + DayLength <= Midnight(d)
      BY <1>1, Midnights
    <3> QED  BY <1>1, <2>1, <3>1
  <2>3. ~(e < k)
    <3>1. e < k => Midnight(e) + DayLength <= Midnight(k)
      BY <1>1, Midnights
    <3>2. Clock!openOf(e) \in Nat /\ Clock!openOf(e) <= Midnight(e) + DayLength
      BY OpenClose
    <3> QED  BY <1>1, <2>1, <3>1, <3>2
  <2>4. k \in (d + 1)..(e - 1)
    BY <1>1, <1>4, <2>2, <2>3
  <2> QED  BY <2>4 DEF Staffed, k
<1> QED  BY <1>2, <1>3, <1>4

LEMMA ClockCounts ==
  ASSUME NEW S PROVE Clock!Cardinality(S) = Cardinality(S)
<1>1. Clock!IsFiniteSet(S) = IsFiniteSet(S)
  BY DEF Clock!IsFiniteSet, IsFiniteSet
<1> QED  BY <1>1 DEF Clock!Cardinality, Cardinality, Clock!IsFiniteSet, IsFiniteSet

\* How much opening time a span has.
Served(from, to) == Cardinality(Clock!Opening(from, to))

LEMMA OpeningMoments ==
  ASSUME NEW from \in Nat, NEW to \in Nat
  PROVE  /\ \A t : t \in Clock!Opening(from, to) <=> t \in from..(to - 1) /\ Staffed(t)
         /\ IsFiniteSet(Clock!Opening(from, to)) /\ Served(from, to) \in Nat
<1>1. \A t : t \in Clock!Opening(from, to) <=> t \in from..(to - 1) /\ Staffed(t)
  BY DEF Clock!Opening, Staffed
<1>2. IsFiniteSet(from..(to - 1))
  BY FS_Interval
<1>3. Clock!Opening(from, to) \subseteq from..(to - 1)
  BY <1>1
<1>4. IsFiniteSet(Clock!Opening(from, to))
  BY <1>2, <1>3, FS_Subset
<1> QED  BY <1>1, <1>4, FS_CardinalityType DEF Served

LEMMA ServedNothing ==
  ASSUME NEW from \in Nat, NEW a \in Nat, NEW b \in Nat, from <= a, a <= b,
         \A t \in a..(b - 1) : ~Staffed(t)
  PROVE  Served(from, b) = Served(from, a)
<1>1. Clock!Opening(from, b) = Clock!Opening(from, a)
  <2>1. \A t : t \in Clock!Opening(from, b) <=> t \in Clock!Opening(from, a)
    <3>1. \A t \in Nat : t \in from..(b - 1) /\ t \notin from..(a - 1) => t \in a..(b - 1)
      OBVIOUS
    <3>2. \A t : t \in from..(a - 1) => t \in from..(b - 1)
      OBVIOUS
    <3>3. \A t : t \in from..(b - 1) => t \in Nat
      OBVIOUS
    <3> QED  BY <3>1, <3>2, <3>3, OpeningMoments
  <2> QED  BY <2>1
<1> QED  BY <1>1 DEF Served

LEMMA ServedAll ==
  ASSUME NEW from \in Nat, NEW a \in Nat, NEW b \in Nat, from <= a, a <= b,
         \A t \in a..(b - 1) : Staffed(t)
  PROVE  Served(from, b) = Served(from, a) + (b - a)
<1> DEFINE S == Clock!Opening(from, a)
           T == a..(b - 1)
<1>1. Clock!Opening(from, b) = S \cup T
  <2>1. \A t : t \in Clock!Opening(from, b) <=> t \in S \/ t \in T
    <3>1. \A t : t \in from..(b - 1) <=> t \in from..(a - 1) \/ t \in T
      OBVIOUS
    <3>2. \A t : t \in T => Staffed(t)
      OBVIOUS
    <3> HIDE DEF T
    <3> QED  BY <3>1, <3>2, OpeningMoments
  <2> QED  BY <2>1
<1>2. S \cap T = {}
  <2>1. \A t : t \in S => t \in from..(a - 1)
    BY OpeningMoments
  <2>2. \A t : t \in from..(a - 1) => t \notin T
    OBVIOUS
  <2> QED  BY <2>1, <2>2
<1>3. IsFiniteSet(S) /\ Cardinality(S) \in Nat
  BY OpeningMoments DEF Served
<1>4. IsFiniteSet(T) /\ Cardinality(T) = b - a
  <2>1. IsFiniteSet(a..(b - 1)) /\ Cardinality(a..(b - 1)) = IF a > b - 1 THEN 0 ELSE (b - 1) - a + 1
    BY FS_Interval
  <2> QED  BY <2>1
<1> HIDE DEF S, T
<1>5. Cardinality(S \cup T) = Cardinality(S) + Cardinality(T) - Cardinality(S \cap T)
  BY <1>3, <1>4, FS_Union
<1>6. Cardinality(S \cap T) = 0
  BY <1>2, FS_EmptySet
<1>7. Cardinality(S \cup T) = Cardinality(S) + (b - a)
  BY <1>3, <1>4, <1>5, <1>6
<1> QED  BY <1>1, <1>7 DEF Served, S

\* The search goes to the opening of the first day that opens.
LEMMA NextOpenDay ==
  ASSUME Clock!TypeOK, Clock!NeverShut, NEW t \in Nat,
         Clock!dayOf(t) <= Week + MaxAsked * LookAhead
  PROVE  \E e \in Nat : /\ Clock!dayOf(t) < e /\ e <= Clock!dayOf(t) + LookAhead
                        /\ Clock!hasWindow(e) /\ Clock!nextDayStart(t) = Clock!openOf(e)
                        /\ \A k \in (Clock!dayOf(t) + 1)..(e - 1) : ~Clock!hasWindow(k)
<1> DEFINE d == Clock!dayOf(t)
           days == {k \in (d + 1)..(d + LookAhead) : Clock!hasWindow(k)}
<1>1. d \in Nat /\ LookAhead \in Nat /\ Week \in Nat /\ MaxAsked * LookAhead \in Nat
  BY DayOfMoment, ClockAssumption
<1>2. d \in 0..(Week + MaxAsked * LookAhead)
  BY <1>1
<1>3. days # {}
  BY <1>2 DEF Clock!NeverShut
<1>4. days \in SUBSET Nat
  BY <1>1
<1>5. PICK e \in days : \A k \in days : e <= k
  <2> HIDE DEF days
  <2> QED  BY <1>3, <1>4, LeastNatural
<1>6. Clock!Min(days) = e
  <2> HIDE DEF days
  <2>1. PICK m : m = Clock!Min(days)
    OBVIOUS
  <2>2. m \in days /\ \A k \in days : m <= k
    BY <1>5, <2>1 DEF Clock!Min
  <2>3. m \in Nat /\ e \in Nat /\ m <= e /\ e <= m
    BY <1>4, <1>5, <2>2
  <2> QED  BY <2>1, <2>3
<1>7. Clock!nextDayStart(t) = Clock!openOf(e)
  BY <1>3, <1>6 DEF Clock!nextDayStart
<1>8. e \in Nat /\ d < e /\ e <= d + LookAhead /\ Clock!hasWindow(e)
  BY <1>1, <1>5
<1>9. \A k \in (d + 1)..(e - 1) : ~Clock!hasWindow(k)
  <2>1. SUFFICES ASSUME NEW k \in (d + 1)..(e - 1), Clock!hasWindow(k) PROVE FALSE
    OBVIOUS
  <2>2. k \in days
    BY <1>1, <1>8, <2>1
  <2>3. e <= k
    BY <1>5, <2>2
  <2> QED  BY <1>1, <1>8, <2>1, <2>3
<1> QED  BY <1>7, <1>8, <1>9

\* The length of a weekday's hours.
Span(v) == hours[v][2] - hours[v][1]

\* How far the walk is after i turns.  Until nothing remains, each turn but the first has taken
\* a whole day off, and the cursor is at an opening.
Progress(i, from, minutes, w) ==
  /\ w \in [cursor : Nat, remaining : 0..minutes] /\ from <= w.cursor
  /\ Served(from, w.cursor) = minutes - w.remaining
  /\ w.remaining = 0 => from < w.cursor /\ Staffed(w.cursor - 1)
  /\ w.remaining > 0 =>
       /\ i <= minutes - w.remaining + 1
       /\ Clock!dayOf(w.cursor) <= Week + i * LookAhead
       /\ i > 0 =>
            /\ \E e \in Nat : Clock!hasWindow(e) /\ w.cursor = Clock!openOf(e)
            /\ \A v \in 0..(Week - 1) : 0 < Span(v) => w.remaining <= (MaxIters - i) * Span(v)

LEMMA SetsOut ==
  ASSUME NEW from \in 0..(Week * DayLength), NEW minutes \in 1..MaxAsked
  PROVE  Progress(0, from, minutes, [cursor |-> from, remaining |-> minutes])
<1>1. from \in Nat /\ minutes \in Nat /\ minutes > 0 /\ Week \in Nat /\ LookAhead \in Nat
  BY ClockAssumption
<1>2. Served(from, from) = 0
  <2>1. \A t : t \notin from..(from - 1)
    BY <1>1
  <2>2. Clock!Opening(from, from) = {}
    BY <1>1, <2>1, OpeningMoments
  <2> QED  BY <2>2, FS_EmptySet DEF Served
<1>3. Clock!dayOf(from) <= Week
  <2> DEFINE d == Clock!dayOf(from)
  <2>1. d \in Nat /\ Midnight(d) <= from
    BY <1>1, DayOfMoment
  <2> HIDE DEF d
  <2>2. Midnight(d) \in Nat /\ Midnight(Week) \in Nat /\ DayLength \in Nat \ {0}
    BY <1>1, <2>1, Midnights
  <2>3. from <= Midnight(Week)
    BY DEF Midnight
  <2>4. Week < d => Midnight(Week) + DayLength <= Midnight(d)
    BY <1>1, <2>1, Midnights
  <2>5. ~(Week < d)
    BY <1>1, <2>1, <2>2, <2>3, <2>4
  <2> QED  BY <1>1, <2>1, <2>5 DEF d
<1>4. Clock!dayOf(from) <= Week + 0 * LookAhead
  BY <1>1, <1>3
<1> DEFINE w == [cursor |-> from, remaining |-> minutes]
<1>5. w \in [cursor : Nat, remaining : 0..minutes] /\ w.cursor = from /\ w.remaining = minutes
  BY <1>1
<1> HIDE DEF w
<1>6. minutes - minutes = 0 /\ 0 <= minutes - minutes + 1
  BY <1>1
<1>7. Progress(0, from, minutes, w)
  BY <1>1, <1>2, <1>4, <1>5, <1>6 DEF Progress
<1> QED  BY <1>7 DEF w

LEMMA DayTakenOff ==
  ASSUME NEW k \in Nat, k > 0, NEW l \in Nat, NEW r \in Nat, NEW x \in Int, x <= k * l, x <= k * r
  PROVE  x - r <= (k - 1) * l
<1>1. (k - 1) * l = k * l - l /\ (k - 1) * r = k * r - r /\ k * l \in Nat /\ k * r \in Nat
  OBVIOUS
<1>2. CASE l <= r
  BY <1>1, <1>2
<1>3. CASE r < l
  <2>1. (k - 1) * r <= (k - 1) * l
    <3>1. PICK j \in Nat : l = r + j
      <4>1. l - r \in Nat /\ l = r + (l - r)
        BY <1>3
      <4> QED  BY <4>1
    <3>2. (k - 1) * l = (k - 1) * r + (k - 1) * j
      BY <3>1
    <3>3. (k - 1) * j \in Nat /\ (k - 1) * r \in Nat
      OBVIOUS
    <3> QED  BY <3>2, <3>3
  <2>2. (k - 1) * l \in Int
    OBVIOUS
  <2> QED  BY <1>1, <2>1, <2>2
<1> QED  BY <1>2, <1>3

LEMMA MoreOf ==
  ASSUME NEW a \in Nat, NEW b \in Nat, NEW k \in Nat, a <= b PROVE a * k <= b * k
<1>1. PICK j \in Nat : b = a + j
  <2>1. b - a \in Nat /\ b = a + (b - a)
    OBVIOUS
  <2> QED  BY <2>1
<1>2. b * k = a * k + j * k
  BY <1>1
<1>3. a * k \in Nat /\ j * k \in Nat
  OBVIOUS
<1> QED  BY <1>2, <1>3

\* A walk that is not over stands on a day from which an open one is in sight.
LEMMA StillInSight ==
  ASSUME NEW from \in Nat, NEW minutes \in 1..MaxAsked, NEW i \in Nat, NEW w,
         Progress(i, from, minutes, w), w.remaining > 0
  PROVE  /\ Clock!dayOf(w.cursor) \in Nat /\ Clock!dayOf(w.cursor) <= Week + MaxAsked * LookAhead
         /\ Clock!dayOf(w.cursor) + LookAhead <= Week + (i + 1) * LookAhead
<1> DEFINE d == Clock!dayOf(w.cursor)
<1>1. {Week, LookAhead, MaxAsked} \subseteq Nat
  BY ClockAssumption
<1>2. w.cursor \in Nat /\ w.remaining \in 0..minutes /\ i <= minutes - w.remaining + 1
      /\ d <= Week + i * LookAhead
  BY DEF Progress
<1>3. d \in Nat
  BY <1>2, DayOfMoment
<1>4. i <= MaxAsked
  BY <1>1, <1>2
<1>5. i * LookAhead <= MaxAsked * LookAhead
  BY <1>1, <1>4, MoreOf
<1>6. i * LookAhead \in Nat /\ MaxAsked * LookAhead \in Nat /\ (i + 1) * LookAhead = i * LookAhead + LookAhead
  BY <1>1
<1> HIDE DEF d
<1>7. d <= Week + MaxAsked * LookAhead /\ d + LookAhead <= Week + (i + 1) * LookAhead
  BY <1>1, <1>2, <1>3, <1>5, <1>6
<1> QED  BY <1>3, <1>7 DEF d

\* Where the walk goes on to the opening of day e, it has kept on if it has served what it should.
LEMMA GoesOn ==
  ASSUME Clock!TypeOK, NEW from \in Nat, NEW minutes \in Nat, NEW i \in Nat, NEW r \in 1..minutes,
         NEW e \in Nat, Clock!hasWindow(e), from <= Clock!openOf(e),
         Served(from, Clock!openOf(e)) = minutes - r, i + 1 <= minutes - r + 1,
         e <= Week + (i + 1) * LookAhead,
         \A v \in 0..(Week - 1) : 0 < Span(v) => r <= (MaxIters - (i + 1)) * Span(v)
  PROVE  Progress(i + 1, from, minutes, [cursor |-> Clock!openOf(e), remaining |-> r])
<1>1. Clock!openOf(e) \in Nat /\ Clock!openOf(e) < Clock!closeOf(e)
  BY OpenClose
<1>2. Clock!dayOf(Clock!openOf(e)) = e
  <2>1. PICK o \in Nat : o = Clock!openOf(e)
    BY <1>1
  <2>2. Clock!openOf(e) <= o /\ o < Clock!closeOf(e)
    BY <1>1, <2>1
  <2>3. Clock!dayOf(o) = e
    BY <2>2, StaffedOnDay
  <2> QED  BY <2>1, <2>3
<1> DEFINE w == [cursor |-> Clock!openOf(e), remaining |-> r]
<1>3. w \in [cursor : Nat, remaining : 0..minutes] /\ w.cursor = Clock!openOf(e) /\ w.remaining = r /\ r > 0
  BY <1>1
<1> HIDE DEF w
<1>4. Progress(i + 1, from, minutes, w)
  BY <1>2, <1>3 DEF Progress
<1> QED  BY <1>4 DEF w

\* After the first turn the walk stands at an opening, with the whole day before it.
LEMMA AtAnOpening ==
  ASSUME Clock!TypeOK, NEW from \in Nat, NEW minutes \in Nat, NEW i \in Nat, i > 0, NEW w,
         Progress(i, from, minutes, w), w.remaining > 0
  PROVE  /\ Clock!hasWindow(Clock!dayOf(w.cursor))
         /\ w.cursor = Clock!openOf(Clock!dayOf(w.cursor))
         /\ w.cursor < Clock!closeOf(Clock!dayOf(w.cursor))
<1>1. PICK e \in Nat : Clock!hasWindow(e) /\ w.cursor = Clock!openOf(e)
  BY DEF Progress
<1>2. w.cursor \in Nat /\ Clock!openOf(e) \in Nat /\ Clock!closeOf(e) \in Nat
      /\ Clock!openOf(e) < Clock!closeOf(e)
  BY <1>1, OpenClose
<1>3. PICK c \in Nat : c = w.cursor
  BY <1>2
<1>4. Clock!openOf(e) <= c /\ c < Clock!closeOf(e)
  BY <1>1, <1>2, <1>3
<1>5. Clock!dayOf(c) = e
  BY <1>1, <1>4, StaffedOnDay
<1> QED  BY <1>1, <1>2, <1>3, <1>5

\* A turn from a day that is shut, or over, jumps to the next opening: only the first does that.
LEMMA TurnJumps ==
  ASSUME Clock!TypeOK, Clock!NeverShut, NEW from \in Nat, NEW minutes \in 1..MaxAsked,
         Clock!InReach(minutes), NEW i \in Nat, NEW w, Progress(i, from, minutes, w), w.remaining > 0,
         ~Clock!hasWindow(Clock!dayOf(w.cursor)) \/ Clock!closeOf(Clock!dayOf(w.cursor)) <= w.cursor
  PROVE  Progress(i + 1, from, minutes,
                  [cursor |-> Clock!nextDayStart(w.cursor), remaining |-> w.remaining])
<1>1. PICK c, r, d : c = w.cursor /\ r = w.remaining /\ d = Clock!dayOf(w.cursor)
  OBVIOUS
<1>2. c \in Nat /\ r \in 1..minutes /\ from <= c /\ Served(from, c) = minutes - r
      /\ minutes \in Nat
  BY <1>1, ClockAssumption DEF Progress
<1>3. i = 0
  <2>1. SUFFICES ASSUME i > 0 PROVE FALSE
    OBVIOUS
  <2>2. Clock!hasWindow(d) /\ c < Clock!closeOf(d)
    BY <1>1, <1>2, <2>1, AtAnOpening
  <2>3. d \in Nat /\ Clock!closeOf(d) \in Nat
    BY <1>1, <1>2, DayOfMoment, OpenClose
  <2> QED  BY <1>1, <1>2, <2>2, <2>3
<1>4. d \in Nat /\ Midnight(d) <= c /\ c < Midnight(d) + DayLength
  BY <1>1, <1>2, DayOfMoment
<1>5. d <= Week + MaxAsked * LookAhead /\ d + LookAhead <= Week + (i + 1) * LookAhead
  BY <1>1, StillInSight
<1>6. PICK e \in Nat : /\ d < e /\ e <= d + LookAhead
                       /\ Clock!hasWindow(e) /\ Clock!nextDayStart(c) = Clock!openOf(e)
                       /\ \A k \in (d + 1)..(e - 1) : ~Clock!hasWindow(k)
  BY <1>1, <1>2, <1>5, NextOpenDay
<1>7. Clock!openOf(e) \in Nat /\ c <= Clock!openOf(e)
  <2>1. Midnight(d) + DayLength <= Midnight(e) /\ Midnight(d) \in Nat /\ Midnight(e) \in Nat /\ DayLength \in Nat
    BY <1>4, <1>6, Midnights
  <2>2. Clock!openOf(e) \in Nat /\ Midnight(e) <= Clock!openOf(e)
    BY OpenClose
  <2> QED  BY <1>2, <1>4, <2>1, <2>2
<1>8. \A t \in c..(Clock!openOf(e) - 1) : ~Staffed(t)
  <2>1. SUFFICES ASSUME NEW t \in c..(Clock!openOf(e) - 1) PROVE ~Staffed(t)
    OBVIOUS
  <2>2. t \in Nat /\ c <= t /\ t < Clock!openOf(e) /\ Midnight(d) <= t
    <3>1. Midnight(d) \in Nat
      BY <1>4, Midnights
    <3> QED  BY <1>2, <1>4, <1>7, <2>1, <3>1
  <2>3. Clock!dayOf(t) = d => ~Staffed(t)
    <3>1. Clock!closeOf(d) \in Nat
      BY <1>4, OpenClose
    <3>2. Clock!closeOf(d) <= c => ~(t < Clock!closeOf(d))
      BY <1>2, <2>2, <3>1
    <3> QED  BY <1>1, <3>2 DEF Staffed
  <2> QED  BY <1>4, <1>6, <2>2, <2>3, ShutBetween
<1>9. Served(from, Clock!openOf(e)) = minutes - r
  BY <1>2, <1>7, <1>8, ServedNothing
<1>10. \A v \in 0..(Week - 1) : 0 < Span(v) => r <= (MaxIters - (i + 1)) * Span(v)
  <2>1. SUFFICES ASSUME NEW v \in 0..(Week - 1), 0 < Span(v) PROVE r <= (MaxIters - (i + 1)) * Span(v)
    OBVIOUS
  <2>2. hours[v] \in Hour \X Hour /\ Hour \subseteq Nat /\ MaxIters \in Nat
    BY ClockAssumption DEF Clock!TypeOK, Windows
  <2>3. hours[v][1] \in Nat /\ hours[v][2] \in Nat
    BY <2>2
  <2>4. hours[v][1] < hours[v][2]
    BY <2>1, <2>3 DEF Span
  <2>5. minutes <= (MaxIters - 1) * Span(v)
    BY <2>1, <2>4 DEF Clock!InReach, Span
  <2>6. Span(v) \in Int /\ (MaxIters - 1) * Span(v) \in Int /\ MaxIters - (i + 1) = MaxIters - 1
    BY <1>3, <2>2, <2>3 DEF Span
  <2> QED  BY <1>2, <2>5, <2>6
<1>11. e <= Week + (i + 1) * LookAhead
  <2>1. LookAhead \in Nat /\ Week \in Nat /\ (i + 1) * LookAhead \in Nat
    BY ClockAssumption
  <2> QED  BY <1>4, <1>5, <1>6, <2>1
<1>12. from <= Clock!openOf(e) /\ i + 1 <= minutes - r + 1
  BY <1>2, <1>3, <1>7
<1>13. Progress(i + 1, from, minutes, [cursor |-> Clock!openOf(e), remaining |-> r])
  BY <1>2, <1>6, <1>9, <1>10, <1>11, <1>12, GoesOn
<1> QED  BY <1>1, <1>6, <1>13

\* A turn on an open day first waits for it to open: nothing is served till then.
LEMMA UntilOpen ==
  ASSUME Clock!TypeOK, NEW from \in Nat, NEW c \in Nat, from <= c, NEW s \in Nat,
         Clock!hasWindow(Clock!dayOf(c)),
         s = IF c < Clock!openOf(Clock!dayOf(c)) THEN Clock!openOf(Clock!dayOf(c)) ELSE c,
         s < Clock!closeOf(Clock!dayOf(c))
  PROVE  /\ c <= s /\ Clock!openOf(Clock!dayOf(c)) <= s /\ Clock!dayOf(s) = Clock!dayOf(c)
         /\ Served(from, s) = Served(from, c)
<1>1. PICK d \in Nat : d = Clock!dayOf(c)
  BY DayOfMoment
<1>2. Clock!openOf(d) \in Nat /\ Clock!closeOf(d) \in Nat
      /\ Clock!openOf(d) <= Midnight(d) + DayLength
  BY <1>1, OpenClose
<1>3. Midnight(d) <= c /\ Midnight(d) \in Nat /\ DayLength \in Nat
  BY <1>1, DayOfMoment, Midnights
<1>4. c <= s /\ Clock!openOf(d) <= s
  BY <1>1, <1>2
<1>5. Clock!dayOf(s) = d
  BY <1>1, <1>4, StaffedOnDay
<1>6. \A t \in c..(s - 1) : ~Staffed(t)
  <2>1. SUFFICES ASSUME NEW t \in c..(s - 1) PROVE ~Staffed(t)
    OBVIOUS
  <2>2. t \in Nat /\ t < Clock!openOf(d) /\ Midnight(d) <= t /\ t < Midnight(d) + DayLength
    <3>1. t \in Nat /\ c <= t /\ t < s
      BY <2>1
    <3>2. s = Clock!openOf(d) \/ s = c
      BY <1>1
    <3> QED  BY <1>2, <1>3, <3>1, <3>2
  <2>3. Clock!dayOf(t) = d
    BY <2>2, OnDay
  <2> QED  BY <1>2, <2>2, <2>3 DEF Staffed
<1>7. Served(from, s) = Served(from, c)
  BY <1>4, <1>6, ServedNothing
<1> QED  BY <1>1, <1>4, <1>5, <1>7

\* A turn that finds room for all that remains ends the walk, right after a moment of opening time.
LEMMA TurnFits ==
  ASSUME Clock!TypeOK, NEW from \in Nat, NEW minutes \in Nat, NEW i \in Nat, NEW w,
         Progress(i, from, minutes, w), w.remaining > 0, Clock!hasWindow(Clock!dayOf(w.cursor)),
         NEW s \in Nat, s < Clock!closeOf(Clock!dayOf(w.cursor)),
         s = IF w.cursor < Clock!openOf(Clock!dayOf(w.cursor))
             THEN Clock!openOf(Clock!dayOf(w.cursor)) ELSE w.cursor,
         w.remaining <= Clock!closeOf(Clock!dayOf(w.cursor)) - s
  PROVE  Progress(i + 1, from, minutes, [cursor |-> s + w.remaining, remaining |-> 0])
<1>1. PICK c, r, d : c = w.cursor /\ r = w.remaining /\ d = Clock!dayOf(w.cursor)
  OBVIOUS
<1>2. c \in Nat /\ r \in Nat /\ r > 0 /\ r <= minutes /\ from <= c /\ Served(from, c) = minutes - r
  BY <1>1 DEF Progress
<1>3. d \in Nat /\ Clock!closeOf(d) \in Nat /\ Clock!openOf(d) \in Nat
  BY <1>1, <1>2, DayOfMoment, OpenClose
<1>4. c <= s /\ Clock!openOf(d) <= s /\ Served(from, s) = minutes - r
  BY <1>1, <1>2, UntilOpen
<1>5. s + r <= Clock!closeOf(d)
  BY <1>1, <1>2, <1>3
<1>6. \A t \in s..(s + r - 1) : Staffed(t)
  <2>1. SUFFICES ASSUME NEW t \in s..(s + r - 1) PROVE Staffed(t)
    OBVIOUS
  <2>2. t \in Nat /\ Clock!openOf(d) <= t /\ t < Clock!closeOf(d)
    BY <1>2, <1>3, <1>4, <1>5
  <2> QED  BY <1>1, <1>3, <2>2, StaffedOnDay
<1>7. PICK b \in Nat : b = s + r
  BY <1>2
<1>8. Served(from, b) = minutes
  <2>1. from <= s /\ s <= b /\ b - s = r
    BY <1>2, <1>4, <1>7
  <2>2. \A t \in s..(b - 1) : Staffed(t)
    <3>1. s + r - 1 = b - 1
      BY <1>2, <1>7
    <3> QED  BY <1>6, <3>1
  <2>3. Served(from, b) = Served(from, s) + (b - s)
    BY <2>1, <2>2, ServedAll
  <2> QED  BY <1>2, <1>4, <2>1, <2>3
<1>9. from < b /\ Staffed(b - 1)
  <2>1. b - 1 \in s..(s + r - 1) /\ from < b
    BY <1>2, <1>4, <1>7
  <2> QED  BY <1>6, <2>1
<1> DEFINE v == [cursor |-> b, remaining |-> 0]
<1>10. v \in [cursor : Nat, remaining : 0..minutes] /\ v.cursor = b /\ v.remaining = 0
  OBVIOUS
<1> HIDE DEF v
<1>11. from <= b /\ minutes - 0 = minutes /\ ~(v.remaining > 0)
  BY <1>9, <1>10
<1>12. Progress(i + 1, from, minutes, v)
  BY <1>8, <1>9, <1>10, <1>11 DEF Progress
<1> QED  BY <1>1, <1>7, <1>12 DEF v

\* A turn that does not takes the rest of the day off and goes on to the next opening.
LEMMA TurnTakesDay ==
  ASSUME Clock!TypeOK, Clock!NeverShut, NEW from \in Nat, NEW minutes \in 1..MaxAsked,
         Clock!InReach(minutes), NEW i \in 0..(MaxIters - 1), NEW w, Progress(i, from, minutes, w),
         w.remaining > 0, Clock!hasWindow(Clock!dayOf(w.cursor)),
         NEW s \in Nat, s < Clock!closeOf(Clock!dayOf(w.cursor)),
         s = IF w.cursor < Clock!openOf(Clock!dayOf(w.cursor))
             THEN Clock!openOf(Clock!dayOf(w.cursor)) ELSE w.cursor,
         Clock!closeOf(Clock!dayOf(w.cursor)) - s < w.remaining
  PROVE  Progress(i + 1, from, minutes,
                  [cursor |-> Clock!nextDayStart(s),
                   remaining |-> w.remaining - (Clock!closeOf(Clock!dayOf(w.cursor)) - s)])
<1>1. PICK c, r, d, z : /\ c = w.cursor /\ r = w.remaining /\ d = Clock!dayOf(w.cursor)
                        /\ z = Clock!closeOf(Clock!dayOf(w.cursor))
  OBVIOUS
<1>2. c \in Nat /\ r \in Nat /\ r > 0 /\ r <= minutes /\ from <= c /\ Served(from, c) = minutes - r
      /\ minutes \in Nat /\ i \in Nat /\ i <= minutes - r + 1 /\ MaxIters \in Nat /\ i <= MaxIters - 1
  <2>1. MaxIters \in Nat /\ MaxAsked \in Nat
    BY ClockAssumption
  <2> QED  BY <1>1, <2>1 DEF Progress
<1>3. d \in Nat /\ z \in Nat /\ Clock!openOf(d) \in Nat /\ z = Clock!closeOf(d)
      /\ Midnight(d) <= Clock!openOf(d) /\ z <= Midnight(d) + DayLength
  BY <1>1, <1>2, DayOfMoment, OpenClose
<1>4. c <= s /\ Clock!openOf(d) <= s /\ Clock!dayOf(s) = d /\ Served(from, s) = minutes - r
  BY <1>1, <1>2, UntilOpen
<1>5. s < z /\ z - s < r
  BY <1>1
<1>6. Served(from, z) = minutes - (r - (z - s))
  <2>1. \A t \in s..(z - 1) : Staffed(t)
    <3>1. SUFFICES ASSUME NEW t \in s..(z - 1) PROVE Staffed(t)
      OBVIOUS
    <3>2. t \in Nat /\ Clock!openOf(d) <= t /\ t < Clock!closeOf(d)
      BY <1>3, <1>4
    <3> QED  BY <1>1, <1>3, <3>2, StaffedOnDay
  <2>2. from <= s /\ s <= z
    BY <1>2, <1>3, <1>4, <1>5
  <2>3. Served(from, z) = Served(from, s) + (z - s)
    BY <1>3, <2>1, <2>2, ServedAll
  <2> QED  BY <1>2, <1>3, <1>4, <2>3
<1>7. d <= Week + MaxAsked * LookAhead /\ d + LookAhead <= Week + (i + 1) * LookAhead
  BY <1>1, <1>2, StillInSight
<1>8. PICK e \in Nat : /\ d < e /\ e <= d + LookAhead
                       /\ Clock!hasWindow(e) /\ Clock!nextDayStart(s) = Clock!openOf(e)
                       /\ \A k \in (d + 1)..(e - 1) : ~Clock!hasWindow(k)
  BY <1>4, <1>7, NextOpenDay
<1>9. Clock!openOf(e) \in Nat /\ z <= Clock!openOf(e)
  <2>1. Midnight(d) + DayLength <= Midnight(e) /\ Midnight(d) \in Nat /\ Midnight(e) \in Nat /\ DayLength \in Nat
    BY <1>3, <1>8, Midnights
  <2>2. Clock!openOf(e) \in Nat /\ Midnight(e) <= Clock!openOf(e)
    BY OpenClose
  <2> QED  BY <1>3, <2>1, <2>2
<1>10. \A t \in z..(Clock!openOf(e) - 1) : ~Staffed(t)
  <2>1. SUFFICES ASSUME NEW t \in z..(Clock!openOf(e) - 1) PROVE ~Staffed(t)
    OBVIOUS
  <2>2. t \in Nat /\ z <= t /\ t < Clock!openOf(e) /\ Midnight(d) <= t
    <3>1. Midnight(d) \in Nat
      BY <1>3, Midnights
    <3>2. t \in Nat /\ z <= t /\ t < Clock!openOf(e)
      BY <1>3, <1>9, <2>1
    <3> QED  BY <1>3, <1>4, <1>5, <3>1, <3>2
  <2>3. Clock!dayOf(t) = d => ~Staffed(t)
    <3>1. ~(t < Clock!closeOf(d))
      BY <1>3, <2>2
    <3> QED  BY <3>1 DEF Staffed
  <2> QED  BY <1>3, <1>8, <2>2, <2>3, ShutBetween
<1>11. Served(from, Clock!openOf(e)) = minutes - (r - (z - s)) /\ from <= Clock!openOf(e)
  <2>1. from <= z /\ z <= Clock!openOf(e)
    BY <1>2, <1>3, <1>4, <1>5, <1>9
  <2>2. Served(from, Clock!openOf(e)) = Served(from, z)
    BY <1>3, <1>9, <1>10, <2>1, ServedNothing
  <2>3. from <= Clock!openOf(e)
    BY <1>3, <1>9, <2>1
  <2> QED  BY <1>6, <2>2, <2>3
<1>12. \A v \in 0..(Week - 1) : 0 < Span(v) => r - (z - s) <= (MaxIters - (i + 1)) * Span(v)
  <2>1. SUFFICES ASSUME NEW v \in 0..(Week - 1), 0 < Span(v)
                 PROVE  r - (z - s) <= (MaxIters - (i + 1)) * Span(v)
    OBVIOUS
  <2>2. \A x \in 0..(Week - 1) : hours[x][1] \in Nat /\ hours[x][2] \in Nat /\ Span(x) \in Int
    <3>1. \A x \in 0..(Week - 1) : hours[x] \in Hour \X Hour
      BY DEF Clock!TypeOK, Windows
    <3>2. Hour \subseteq Nat
      BY ClockAssumption
    <3>3. \A x \in 0..(Week - 1) : hours[x][1] \in Hour /\ hours[x][2] \in Hour
      BY <3>1
    <3>4. \A x \in 0..(Week - 1) : hours[x][1] \in Nat /\ hours[x][2] \in Nat
      BY <3>2, <3>3
    <3>5. \A x \in 0..(Week - 1) : Span(x) \in Int
      BY <3>4 DEF Span
    <3> QED  BY <3>4, <3>5
  <2>3. PICK l \in Nat : l = Span(v)
    BY <2>1, <2>2
  <2>4. CASE i = 0
    <3>1. hours[v][1] < hours[v][2]
      BY <2>1, <2>2 DEF Span
    <3>2. minutes <= (MaxIters - 1) * l
      BY <2>1, <2>3, <3>1 DEF Clock!InReach, Span
    <3>3. (MaxIters - 1) * l \in Int /\ MaxIters - (i + 1) = MaxIters - 1
      BY <1>2, <2>3, <2>4
    <3>4. r - (z - s) <= minutes
      BY <1>2, <1>3, <1>5
    <3> QED  BY <1>2, <1>3, <2>3, <3>2, <3>3, <3>4
  <2>5. CASE i > 0
    <3>1. s = Clock!openOf(d)
      <4>1. c = Clock!openOf(d)
        BY <1>1, <1>2, <2>5, AtAnOpening
      <4> QED  BY <1>1, <4>1
    <3>2. PICK u \in 0..(Week - 1) : u = d % Week
      BY <1>3, HoursOfDay
    <3>3. z - s = Span(u)
      <4>1. Clock!openOf(d) = Midnight(d) + hours[u][1] /\ Clock!closeOf(d) = Midnight(d) + hours[u][2]
        BY <1>3, <3>2, HoursOfDay
      <4>2. Midnight(d) \in Nat
        BY <1>3, Midnights
      <4> QED  BY <1>3, <2>2, <3>1, <4>1, <4>2 DEF Span
    <3>4. PICK q \in Nat : q = Span(u) /\ q > 0
      BY <1>3, <1>5, <2>2, <3>3
    <3>5. r <= (MaxIters - i) * l /\ r <= (MaxIters - i) * q
      BY <1>1, <1>2, <2>1, <2>3, <2>5, <3>2, <3>4 DEF Progress
    <3>6. MaxIters - i \in Nat /\ MaxIters - i > 0 /\ r \in Int
      BY <1>2
    <3>7. r - q <= ((MaxIters - i) - 1) * l
      BY <3>5, <3>6, DayTakenOff
    <3>8. (MaxIters - i) - 1 = MaxIters - (i + 1)
      BY <1>2
    <3> QED  BY <2>3, <3>3, <3>4, <3>7, <3>8
  <2> QED  BY <1>2, <2>4, <2>5
<1>13. r - (z - s) \in 1..minutes /\ i + 1 <= minutes - (r - (z - s)) + 1
  BY <1>2, <1>3, <1>5
<1>14. e <= Week + (i + 1) * LookAhead
  <2>1. LookAhead \in Nat /\ Week \in Nat /\ (i + 1) * LookAhead \in Nat
    BY <1>2, ClockAssumption
  <2> QED  BY <1>3, <1>7, <1>8, <2>1
<1>15. Progress(i + 1, from, minutes, [cursor |-> Clock!openOf(e), remaining |-> r - (z - s)])
  BY <1>2, <1>8, <1>11, <1>12, <1>13, <1>14, GoesOn
<1> QED  BY <1>1, <1>8, <1>15

\* Each turn keeps what the walk has done in step with where it stands.
LEMMA TurnKeeps ==
  ASSUME Clock!TypeOK, Clock!NeverShut, NEW from \in Nat, NEW minutes \in 1..MaxAsked,
         Clock!InReach(minutes), NEW i \in 0..(MaxIters - 1), NEW w, Progress(i, from, minutes, w)
  PROVE  Progress(i + 1, from, minutes, Clock!turn(w))
<1> DEFINE d == Clock!dayOf(w.cursor)
           s == IF w.cursor < Clock!openOf(d) THEN Clock!openOf(d) ELSE w.cursor
<1>1. i \in Nat /\ minutes \in Nat /\ w.cursor \in Nat /\ w.remaining \in Nat
      /\ w = [cursor |-> w.cursor, remaining |-> w.remaining]
  BY ClockAssumption DEF Progress
<1>2. d \in Nat /\ Clock!openOf(d) \in Nat /\ Clock!closeOf(d) \in Nat /\ s \in Nat
  BY <1>1, DayOfMoment, OpenClose
<1>3. CASE w.remaining = 0
  <2>1. Clock!turn(w) = w
    BY <1>3 DEF Clock!turn
  <2>2. Progress(i + 1, from, minutes, w)
    BY <1>1, <1>3 DEF Progress
  <2> QED  BY <2>1, <2>2
<1>4. CASE w.remaining > 0 /\ (~Clock!hasWindow(d) \/ Clock!closeOf(d) - s <= 0)
  <2>1. w.remaining # 0
    BY <1>4
  <2>2. Clock!turn(w) = [w EXCEPT !.cursor = Clock!nextDayStart(w.cursor)]
    BY <1>4, <2>1 DEF Clock!turn
  <2>3. Clock!turn(w) = [cursor |-> Clock!nextDayStart(w.cursor), remaining |-> w.remaining]
    BY <1>1, <2>2
  <2>4. ~Clock!hasWindow(d) \/ Clock!closeOf(d) <= w.cursor
    <3>1. Clock!hasWindow(d) => Clock!openOf(d) < Clock!closeOf(d)
      BY <1>2, OpenClose
    <3> QED  BY <1>1, <1>2, <1>4, <3>1
  <2> HIDE DEF d, s
  <2>5. Progress(i + 1, from, minutes, [cursor |-> Clock!nextDayStart(w.cursor), remaining |-> w.remaining])
    BY <1>1, <1>4, <2>4, TurnJumps DEF d
  <2> QED  BY <2>3, <2>5
<1>5. CASE /\ w.remaining > 0 /\ Clock!hasWindow(d) /\ s < Clock!closeOf(d)
           /\ w.remaining <= Clock!closeOf(d) - s
  <2>1. w.remaining # 0 /\ ~(Clock!closeOf(d) - s <= 0) /\ Clock!closeOf(d) - s >= w.remaining
    BY <1>1, <1>2, <1>5
  <2>2. Clock!turn(w) = [cursor |-> s + w.remaining, remaining |-> 0]
    BY <1>5, <2>1 DEF Clock!turn
  <2>3. Progress(i + 1, from, minutes, [cursor |-> s + w.remaining, remaining |-> 0])
    BY <1>1, <1>2, <1>5, TurnFits
  <2> QED  BY <2>2, <2>3
<1>6. CASE /\ w.remaining > 0 /\ Clock!hasWindow(d) /\ s < Clock!closeOf(d)
           /\ Clock!closeOf(d) - s < w.remaining
  <2>1. w.remaining # 0 /\ ~(Clock!closeOf(d) - s <= 0) /\ ~(Clock!closeOf(d) - s >= w.remaining)
    BY <1>1, <1>2, <1>6
  <2>2. Clock!turn(w) = [cursor |-> Clock!nextDayStart(s), remaining |-> w.remaining - (Clock!closeOf(d) - s)]
    BY <1>6, <2>1 DEF Clock!turn
  <2>3. Progress(i + 1, from, minutes,
                 [cursor |-> Clock!nextDayStart(s), remaining |-> w.remaining - (Clock!closeOf(d) - s)])
    BY <1>2, <1>6, TurnTakesDay
  <2> QED  BY <2>2, <2>3
<1> HIDE DEF d, s
<1> QED  BY <1>1, <1>2, <1>3, <1>4, <1>5, <1>6

\* The turns of a walk, up to the n-th.
Walks(n, w, f) == f = [i \in 0..n |-> IF i = 0 THEN w ELSE Clock!turn(f[i - 1])]

LEMMA WalkExists ==
  ASSUME NEW n \in Nat, NEW w PROVE \E f : Walks(n, w, f)
<1> DEFINE Bad == {k \in Nat : ~\E f : Walks(k, w, f)}
<1>1. SUFFICES ASSUME n \in Bad PROVE FALSE
  OBVIOUS
<1>2. Bad \in SUBSET Nat /\ Bad # {}
  BY <1>1
<1>3. PICK m \in Bad : \A k \in Bad : m <= k
  <2> HIDE DEF Bad
  <2> QED  BY <1>2, LeastNatural
<1>4. m \in Nat /\ ~\E f : Walks(m, w, f)
  BY <1>3
<1>5. m # 0
  <2>1. SUFFICES ASSUME m = 0 PROVE FALSE
    OBVIOUS
  <2> DEFINE f == [i \in 0..0 |-> w]
  <2>2. f = [i \in 0..0 |-> IF i = 0 THEN w ELSE Clock!turn(f[i - 1])]
    <3>1. \A i \in 0..0 : i = 0
      OBVIOUS
    <3> QED  BY <3>1
  <2> QED  BY <1>4, <2>1, <2>2 DEF Walks
<1>6. m - 1 \in Nat /\ m - 1 \notin Bad
  <2>1. m - 1 \in Nat /\ ~(m <= m - 1)
    BY <1>4, <1>5
  <2> QED  BY <1>3, <2>1
<1>7. PICK g : Walks(m - 1, w, g)
  BY <1>6
<1> DEFINE f == [i \in 0..m |-> IF i = m THEN Clock!turn(g[m - 1]) ELSE g[i]]
<1>8. f = [i \in 0..m |-> IF i = 0 THEN w ELSE Clock!turn(f[i - 1])]
  <2>1. ASSUME NEW i \in 0..m PROVE f[i] = IF i = 0 THEN w ELSE Clock!turn(f[i - 1])
    <3>1. CASE i = m
      <4>1. i # 0 /\ i - 1 \in 0..m /\ i - 1 # m
        BY <1>4, <1>5, <3>1
      <4>2. f[i - 1] = g[m - 1]
        BY <3>1, <4>1
      <4> QED  BY <3>1, <4>1, <4>2
    <3>2. CASE i # m /\ i # 0
      <4>1. i \in 0..(m - 1) /\ i - 1 \in 0..m /\ i - 1 # m
        BY <1>4, <3>2
      <4>2. f[i] = g[i] /\ f[i - 1] = g[i - 1]
        BY <3>2, <4>1
      <4>3. g[i] = Clock!turn(g[i - 1])
        BY <1>7, <3>2, <4>1 DEF Walks
      <4> QED  BY <3>2, <4>2, <4>3
    <3>3. CASE i # m /\ i = 0
      <4>1. i \in 0..(m - 1)
        BY <1>4, <3>3
      <4>2. g[i] = w
        BY <1>7, <3>3, <4>1 DEF Walks
      <4> QED  BY <3>3, <4>2
    <3> QED  BY <3>1, <3>2, <3>3
  <2> QED  BY <2>1
<1>9. Walks(m, w, f)
  BY <1>8 DEF Walks
<1> QED  BY <1>4, <1>9

\* So every turn of the walk keeps what the first set out with.
LEMMA WalkKeeps ==
  ASSUME Clock!TypeOK, Clock!NeverShut, NEW from \in 0..(Week * DayLength), NEW minutes \in 1..MaxAsked,
         Clock!InReach(minutes), NEW f, Walks(MaxIters, [cursor |-> from, remaining |-> minutes], f)
  PROVE  Progress(MaxIters, from, minutes, f[MaxIters])
<1> DEFINE Bad == {i \in 0..MaxIters : ~Progress(i, from, minutes, f[i])}
<1>1. MaxIters \in Nat /\ from \in Nat
  BY ClockAssumption
<1>2. SUFFICES ASSUME MaxIters \in Bad PROVE FALSE
  BY <1>1
<1>3. Bad \in SUBSET Nat /\ Bad # {}
  BY <1>1, <1>2
<1>4. PICK m \in Bad : \A i \in Bad : m <= i
  <2> HIDE DEF Bad
  <2> QED  BY <1>3, LeastNatural
<1>5. m \in 0..MaxIters /\ ~Progress(m, from, minutes, f[m])
  BY <1>4
<1>6. m # 0
  <2>1. SUFFICES ASSUME m = 0 PROVE FALSE
    OBVIOUS
  <2>2. f[m] = [cursor |-> from, remaining |-> minutes]
    BY <1>5, <2>1 DEF Walks
  <2> QED  BY <1>5, <2>1, <2>2, SetsOut
<1>7. PICK i : i = m - 1
  OBVIOUS
<1>8. i \in 0..(MaxIters - 1) /\ i \in 0..MaxIters /\ i + 1 = m /\ ~(m <= i)
  BY <1>1, <1>5, <1>6, <1>7
<1>9. Progress(i, from, minutes, f[i])
  BY <1>4, <1>8
<1>10. Progress(i + 1, from, minutes, Clock!turn(f[i]))
  BY <1>1, <1>8, <1>9, TurnKeeps
<1>11. f[m] = Clock!turn(f[i])
  BY <1>5, <1>6, <1>7 DEF Walks
<1> QED  BY <1>5, <1>8, <1>10, <1>11

\* Some weekday is open, so the turns suffice: nothing remains at the end.
LEMMA NothingRemains ==
  ASSUME Clock!TypeOK, Clock!NeverShut, NEW from \in Nat, NEW minutes \in 1..MaxAsked,
         Clock!InReach(minutes), NEW w, Progress(MaxIters, from, minutes, w)
  PROVE  w.remaining = 0
<1>1. MaxIters \in Nat /\ MaxAsked \in Nat /\ LookAhead \in Nat /\ Week \in Nat
      /\ MaxAsked * LookAhead \in Nat
  BY ClockAssumption
<1>2. w.remaining \in Nat
  BY <1>1 DEF Progress
<1>3. \A e \in Nat : Clock!hasWindow(e) =>
        \E v \in 0..(Week - 1) : hours[v][1] < hours[v][2] /\ Span(v) \in Nat /\ 0 < Span(v)
  <2>1. SUFFICES ASSUME NEW e \in Nat, Clock!hasWindow(e)
                 PROVE  \E v \in 0..(Week - 1) : /\ hours[v][1] < hours[v][2]
                                                 /\ Span(v) \in Nat /\ 0 < Span(v)
    OBVIOUS
  <2>2. PICK v \in 0..(Week - 1) : v = e % Week
    BY HoursOfDay
  <2>3. /\ hours[v][1] \in 0..DayLength /\ hours[v][2] \in 0..DayLength
        /\ Clock!openOf(e) = Midnight(e) + hours[v][1] /\ Clock!closeOf(e) = Midnight(e) + hours[v][2]
    BY <2>2, HoursOfDay
  <2>4. Midnight(e) \in Nat /\ DayLength \in Nat /\ Clock!openOf(e) < Clock!closeOf(e)
    BY <2>1, Midnights, OpenClose
  <2>5. hours[v][1] < hours[v][2] /\ Span(v) \in Nat /\ 0 < Span(v)
    BY <2>3, <2>4 DEF Span
  <2> QED  BY <2>5
<1>4. MaxIters > 0
  <2>1. SUFFICES ASSUME MaxIters = 0 PROVE FALSE
    BY <1>1
  <2>2. 0 \in 0..(Week + MaxAsked * LookAhead)
    BY <1>1
  <2>3. PICK e \in (0 + 1)..(0 + LookAhead) : Clock!hasWindow(e)
    BY <2>2 DEF Clock!NeverShut
  <2>4. e \in Nat
    BY <1>1
  <2>5. PICK v \in 0..(Week - 1) : hours[v][1] < hours[v][2] /\ Span(v) \in Nat /\ 0 < Span(v)
    BY <1>3, <2>3, <2>4
  <2>6. minutes <= (MaxIters - 1) * Span(v)
    BY <2>5 DEF Clock!InReach, Span
  <2>7. MaxIters - 1 = -1
    BY <2>1
  <2>8. (MaxIters - 1) * Span(v) = -Span(v)
    BY <2>5, <2>7
  <2> QED  BY <1>1, <2>5, <2>6, <2>8
<1>5. SUFFICES ASSUME w.remaining > 0 PROVE FALSE
  BY <1>2
<1>6. PICK e \in Nat : Clock!hasWindow(e)
  BY <1>4, <1>5 DEF Progress
<1>7. PICK v \in 0..(Week - 1) : Span(v) \in Nat /\ 0 < Span(v)
  BY <1>3, <1>6
<1>8. w.remaining <= (MaxIters - MaxIters) * Span(v)
  BY <1>4, <1>5, <1>7 DEF Progress
<1>9. (MaxIters - MaxIters) * Span(v) = 0
  BY <1>1, <1>7
<1> QED  BY <1>2, <1>5, <1>8, <1>9

LEMMA DeadlineIs ==
  ASSUME Clock!TypeOK, Clock!NeverShut, NEW from \in 0..(Week * DayLength),
         NEW minutes \in 1..MaxAsked, Clock!InReach(minutes), NEW due,
         due = Clock!addBusinessMs(from, minutes)
  PROVE  due \in Nat /\ from < due /\ Staffed(due - 1) /\ Served(from, due) = minutes
<1> DEFINE w == [cursor |-> from, remaining |-> minutes]
           walk[i \in 0..MaxIters] ==
             IF i = 0 THEN [cursor |-> from, remaining |-> minutes] ELSE Clock!turn(walk[i - 1])
<1>1. MaxIters \in Nat /\ from \in Nat /\ minutes \in Nat
  BY ClockAssumption
<1>2. Clock!addBusinessMs(from, minutes) = walk[MaxIters].cursor
  BY DEF Clock!addBusinessMs
<1>3. Walks(MaxIters, w, walk)
  <2>1. \E f : Walks(MaxIters, w, f)
    BY <1>1, WalkExists
  <2> QED  BY <2>1 DEF Walks
<1> HIDE DEF walk
<1>4. Progress(MaxIters, from, minutes, walk[MaxIters])
  BY <1>3, WalkKeeps
<1>5. walk[MaxIters].remaining = 0
  BY <1>1, <1>4, NothingRemains
<1>6. due \in Nat /\ from < due /\ Staffed(due - 1) /\ Served(from, due) = minutes - 0
  BY <1>2, <1>4, <1>5 DEF Progress
<1> QED  BY <1>1, <1>6

LEMMA DeadlineRight == Clock!TypeOK => Clock!DeadlineLeavesTime
<1>1. SUFFICES ASSUME Clock!TypeOK, Clock!NeverShut, NEW from \in 0..(Week * DayLength),
                      NEW minutes \in 1..MaxAsked, Clock!InReach(minutes)
               PROVE  LET due == Clock!addBusinessMs(from, minutes) IN
                      /\ Clock!Cardinality(Clock!Opening(from, due)) = minutes
                      /\ due - 1 \in Clock!Opening(from, due)
  BY DEF Clock!DeadlineLeavesTime
<1>2. from \in Nat
  BY ClockAssumption
<1>3. PICK due : due = Clock!addBusinessMs(from, minutes)
  OBVIOUS
<1>4. due \in Nat /\ from < due /\ Staffed(due - 1) /\ Served(from, due) = minutes
  BY <1>1, <1>3, DeadlineIs
<1>5. Clock!Cardinality(Clock!Opening(from, due)) = minutes
  BY <1>4, ClockCounts DEF Served
<1>6. due - 1 \in Clock!Opening(from, due)
  <2>1. due - 1 \in from..(due - 1)
    BY <1>2, <1>4
  <2> QED  BY <1>2, <1>4, <2>1, OpeningMoments
<1> QED  BY <1>3, <1>5, <1>6

\* A walk that ended before another one would leave it less opening time than it was given.
LEMMA DeadlinesRightOrder == Clock!TypeOK => Clock!DeadlinesInOrder
<1>1. SUFFICES ASSUME Clock!TypeOK, Clock!NeverShut,
                      NEW from \in 0..(Week * DayLength), NEW later \in 0..(Week * DayLength),
                      NEW minutes \in 1..MaxAsked, NEW more \in 1..MaxAsked,
                      from <= later, minutes <= more, Clock!InReach(more)
               PROVE  Clock!addBusinessMs(from, minutes) <= Clock!addBusinessMs(later, more)
  BY DEF Clock!DeadlinesInOrder
<1>2. from \in Nat /\ later \in Nat /\ minutes \in Nat /\ more \in Nat
  BY ClockAssumption
<1>3. Clock!InReach(minutes)
  <2>1. SUFFICES ASSUME NEW d \in 0..(Week - 1), hours[d][1] < hours[d][2]
                 PROVE  minutes <= (MaxIters - 1) * (hours[d][2] - hours[d][1])
    BY DEF Clock!InReach
  <2>2. more <= (MaxIters - 1) * (hours[d][2] - hours[d][1])
    BY <1>1, <2>1 DEF Clock!InReach
  <2>3. hours[d][1] \in Int /\ hours[d][2] \in Int /\ MaxIters \in Int
    <3>1. hours[d] \in Hour \X Hour /\ Hour \subseteq 0..DayLength
      BY <1>1, ClockAssumption DEF Clock!TypeOK, Windows
    <3>2. hours[d][1] \in Hour /\ hours[d][2] \in Hour
      BY <3>1
    <3>3. hours[d][1] \in 0..DayLength /\ hours[d][2] \in 0..DayLength
      BY <3>1, <3>2
    <3>4. MaxIters \in Nat
      BY ClockAssumption
    <3>5. hours[d][1] \in Nat /\ hours[d][2] \in Nat
      BY <3>3
    <3> QED  BY <3>4, <3>5
  <2>4. PICK reach : reach = (MaxIters - 1) * (hours[d][2] - hours[d][1])
    OBVIOUS
  <2>5. reach \in Int
    BY <2>3, <2>4
  <2> QED  BY <1>1, <1>2, <2>2, <2>4, <2>5
<1>4. PICK due : due = Clock!addBusinessMs(from, minutes)
  OBVIOUS
<1>5. PICK last : last = Clock!addBusinessMs(later, more)
  OBVIOUS
<1>6. due \in Nat /\ from < due /\ Staffed(due - 1) /\ Served(from, due) = minutes
  BY <1>1, <1>3, <1>4, DeadlineIs
<1>7. last \in Nat /\ later < last /\ Served(later, last) = more
  BY <1>1, <1>5, DeadlineIs
<1>8. SUFFICES ASSUME last < due PROVE FALSE
  BY <1>4, <1>5, <1>6, <1>7
<1> DEFINE eve == due - 1
<1>9. eve \in Nat /\ from <= eve /\ eve <= due /\ last <= eve
  BY <1>2, <1>6, <1>7, <1>8
<1>10. Served(from, due) = Served(from, eve) + (due - eve)
  <2>1. \A t \in eve..(due - 1) : Staffed(t)
    BY <1>6
  <2> HIDE DEF eve
  <2> QED  BY <1>2, <1>6, <1>9, <2>1, ServedAll
<1>11. Served(later, last) <= Served(from, eve)
  <2> HIDE DEF eve
  <2>1. IsFiniteSet(Clock!Opening(from, eve))
    BY <1>2, <1>9, OpeningMoments
  <2>2. \A t : t \in later..(last - 1) => t \in from..(eve - 1)
    BY <1>1, <1>2, <1>7, <1>9
  <2>3. Clock!Opening(later, last) \subseteq Clock!Opening(from, eve)
    BY <1>2, <1>7, <1>9, <2>2, OpeningMoments
  <2> QED  BY <2>1, <2>3, FS_Subset DEF Served
<1>12. Served(from, eve) \in Nat /\ due - eve = 1
  <2>1. due - eve = 1
    BY <1>6
  <2> HIDE DEF eve
  <2> QED  BY <1>2, <1>9, <2>1, OpeningMoments
<1> HIDE DEF eve
<1> QED  BY <1>1, <1>2, <1>6, <1>7, <1>10, <1>11, <1>12

\* A deadline leaves exactly the business time that it was given, and is the first moment that
\* does: for every week, every hours and holidays that the edits may leave, every moment it is
\* counted from and every time that is added, as long as an open day is in sight and the turns
\* of the loop suffice for it.
THEOREM DeadlinesCorrect == BackSpec => []DeadlineLeavesTime
<1>1. Clock!TypeOK => DeadlineLeavesTime
  BY DeadlineRight DEF DeadlineLeavesTime
<1>2. BackInit => Clock!TypeOK
  BY ClockTypes DEF BackInit
<1> QED  BY <1>1, <1>2, ClockTypes, Steps, PTL DEF BackSpec

\* The order of the deadlines: more business time, or a later start, is never due earlier, for
\* every week and whatever hours and holidays the edits leave.
THEOREM DeadlinesOrdered == BackSpec => [](Clock!DeadlinesInOrder)
<1>1. Clock!TypeOK => Clock!DeadlinesInOrder
  BY DeadlinesRightOrder
<1>2. BackInit => Clock!TypeOK
  BY ClockTypes DEF BackInit
<1> QED  BY <1>1, <1>2, ClockTypes, Steps, PTL DEF BackSpec
=============================================================================
