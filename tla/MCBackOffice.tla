----------------------------- MODULE MCBackOffice -----------------------------
(***************************************************************************)
(* The back office for TLC: the asset register, ten components beside it   *)
(* and the web client's cache.  They share no tables in these models, so   *)
(* how their steps interleave does not matter: a behaviour follows one of  *)
(* them, its focus, and the others stay as they start.                     *)
(***************************************************************************)
EXTENDS AssetRegister, WebScreens, Integers, TLC

CONSTANTS Item, Slot, Cost, UnitCost, Life, MaxMonth, Audit, MaxLines,
          Store, Room, Code, Email, Token, Uses, Pc, MaxKeys, Order, Line, OneType, Qty, MaxStock,
          Config, MaxOctet, Gone, MaxDay, MaxCuts, Pr, Po, Pad,
          Week, DayLength, Hour, Date, LookAhead, FarAway, MaxIters, MaxAsked

\* What stands for no row is none, and the tables are finite.
ASSUME BackOfficeAssumption ==
  /\ Nowhere \notin Pr \cup Po \cup Pad \cup Store \cup Room \cup Code \cup Email \cup Pc \cup Token
  /\ Nowhere \notin 1..MaxKeys /\ Gone \notin Code \cup {Nowhere}
  /\ IsFiniteSet(Pr) /\ IsFiniteSet(Po) /\ IsFiniteSet(Item) /\ IsFiniteSet(Order) /\ IsFiniteSet(Line)
  /\ IsFiniteSet(Slot) /\ Slot # {} /\ Uses \in Nat
  /\ MaxDay \in Nat /\ MaxCuts \in Nat /\ MaxOctet \in Nat /\ Qty \in Nat /\ MaxStock \in Nat
  /\ MaxLines \in Nat \ {0} /\ Cost \subseteq Nat /\ UnitCost \in Nat /\ Life \in Nat \ {0} /\ MaxMonth \in Nat

\* A day closes at its end at the latest, and the first hours may be entered.
ASSUME ClockAssumption ==
  /\ {Week, DayLength} \subseteq Nat \ {0} /\ {0, 1, 3} \subseteq Hour /\ Hour \subseteq 0..DayLength
  /\ Date \subseteq Nat /\ {LookAhead, FarAway, MaxIters, MaxAsked} \subseteq Nat

VARIABLES
  focus,
  worth, decommissions, month, runs, posted, other, torn,          \* AssetValues
  inStore, audits, lines, scans, marked,                           \* StockTake
  stores, locations, jobs, logins, access, storeReq, skewed,       \* Stores
  tokens, pcs, keys, pcReq, byHand, disturbed,                     \* PcFleet
  orders, orderLines, hqStock, bought, tonerReq, twice, missed,    \* TonerOrders
  lastThirdOctet, configs, poolReq, chosen, stale,                 \* RouterPool
  schedule, day, pass, tickets, cuts,                              \* RecurringTickets
  hours, holidays,                                                 \* BusinessTime
  prs, pos, prReq, given, crossed,                                 \* Procurement
  pads, padReq, sweep, lapsed, away, raced,                        \* PinPads
  pair, shown, cache, fresh, flight, write, overtaken, failed      \* WebCache

\* Hours that may be entered; the second day of the week is off at first.
Windows == Hour \X Hour
OpenThenOff == [d \in 0..(Week - 1) |-> IF d = 0 THEN <<1, 3>> ELSE <<0, 0>>]

Values == INSTANCE AssetValues WITH Asset <- Item, Run <- Slot
Audits == INSTANCE StockTake WITH Asset <- Item, Scanner <- Slot
Shops  == INSTANCE Stores WITH Location <- Room, Request <- Slot, None <- Nowhere, req <- storeReq
Fleet  == INSTANCE PcFleet WITH Request <- Slot, None <- Nowhere, req <- pcReq
Toner  == INSTANCE TonerOrders WITH
            Request <- Slot, None <- Nowhere, lines <- orderLines, req <- tonerReq, skewed <- missed
Pool   == INSTANCE RouterPool WITH Request <- Slot, None <- Nowhere, req <- poolReq
Plan   == INSTANCE RecurringTickets WITH Schedule <- Item
Clock  == INSTANCE BusinessTime WITH Window <- Windows, Default <- OpenThenOff
Buying == INSTANCE Procurement WITH Request <- Slot, None <- Nowhere, req <- prReq
Tills  == INSTANCE PinPads WITH Request <- Slot, None <- Nowhere, req <- padReq, crossed <- raced
Web    == INSTANCE WebCache WITH Pair <- Pairs

\* What is read off the screens of WebScreens: each pair says yes or no of itself.
ASSUME PairsTyped == \A p \in Pairs : {p.here, p.told, p.polled, p.lenient} \subseteq BOOLEAN

valueVars == <<worth, decommissions, month, runs, posted, other, torn>>
auditVars == <<inStore, audits, lines, scans, marked>>
shopVars  == <<stores, locations, jobs, logins, access, storeReq, skewed>>
fleetVars == <<tokens, pcs, keys, pcReq, byHand, disturbed>>
tonerVars == <<orders, orderLines, hqStock, bought, tonerReq, twice, missed>>
poolVars  == <<lastThirdOctet, configs, poolReq, chosen, stale>>
planVars  == <<schedule, day, pass, tickets, cuts>>
clockVars == <<hours, holidays>>
buyVars   == <<prs, pos, prReq, given, crossed>>
tillVars  == <<pads, padReq, sweep, lapsed, away, raced>>
webVars   == <<pair, shown, cache, fresh, flight, write, overtaken, failed>>

OnAssets ==
  /\ focus = "assets" /\ Next
  /\ UNCHANGED <<focus, valueVars, auditVars, shopVars, fleetVars, tonerVars, poolVars, planVars, clockVars,
                 buyVars, tillVars, webVars>>

OnValues ==
  /\ focus = "values" /\ Values!Next
  /\ UNCHANGED <<focus, vars, auditVars, shopVars, fleetVars, tonerVars, poolVars, planVars, clockVars,
                 buyVars, tillVars, webVars>>

OnAudits ==
  /\ focus = "audits" /\ Audits!Next
  /\ UNCHANGED <<focus, vars, valueVars, shopVars, fleetVars, tonerVars, poolVars, planVars, clockVars,
                 buyVars, tillVars, webVars>>

OnShops ==
  /\ focus = "shops" /\ Shops!Next
  /\ UNCHANGED <<focus, vars, valueVars, auditVars, fleetVars, tonerVars, poolVars, planVars, clockVars,
                 buyVars, tillVars, webVars>>

OnFleet ==
  /\ focus = "fleet" /\ Fleet!Next
  /\ UNCHANGED <<focus, vars, valueVars, auditVars, shopVars, tonerVars, poolVars, planVars, clockVars,
                 buyVars, tillVars, webVars>>

OnToner ==
  /\ focus = "toner" /\ Toner!Next
  /\ UNCHANGED <<focus, vars, valueVars, auditVars, shopVars, fleetVars, poolVars, planVars, clockVars,
                 buyVars, tillVars, webVars>>

OnPool ==
  /\ focus = "pool" /\ Pool!Next
  /\ UNCHANGED <<focus, vars, valueVars, auditVars, shopVars, fleetVars, tonerVars, planVars, clockVars,
                 buyVars, tillVars, webVars>>

OnPlan ==
  /\ focus = "plan" /\ Plan!Next
  /\ UNCHANGED <<focus, vars, valueVars, auditVars, shopVars, fleetVars, tonerVars, poolVars, clockVars,
                 buyVars, tillVars, webVars>>

OnClock ==
  /\ focus = "clock" /\ Clock!Next
  /\ UNCHANGED <<focus, vars, valueVars, auditVars, shopVars, fleetVars, tonerVars, poolVars, planVars,
                 buyVars, tillVars, webVars>>

OnBuying ==
  /\ focus = "buying" /\ Buying!Next
  /\ UNCHANGED <<focus, vars, valueVars, auditVars, shopVars, fleetVars, tonerVars, poolVars, planVars,
                 clockVars, tillVars, webVars>>

OnTills ==
  /\ focus = "tills" /\ Tills!Next
  /\ UNCHANGED <<focus, vars, valueVars, auditVars, shopVars, fleetVars, tonerVars, poolVars, planVars,
                 clockVars, buyVars, webVars>>

OnWeb ==
  /\ focus = "web" /\ Web!Next
  /\ UNCHANGED <<focus, vars, valueVars, auditVars, shopVars, fleetVars, tonerVars, poolVars, planVars,
                 clockVars, buyVars, tillVars>>

BackInit ==
  /\ focus \in {"assets", "values", "audits", "shops", "fleet", "toner", "pool", "plan", "clock",
                "buying", "tills", "web"}
  /\ Init /\ Values!Init /\ Audits!Init /\ Shops!Init
  /\ Fleet!Init /\ Toner!Init /\ Pool!Init /\ Plan!Init
  /\ Clock!Init /\ Buying!Init /\ Tills!Init /\ Web!Init

BackNext ==
  \/ OnAssets \/ OnValues \/ OnAudits \/ OnShops \/ OnFleet \/ OnToner \/ OnPool \/ OnPlan
  \/ OnClock \/ OnBuying \/ OnTills \/ OnWeb

AllVars ==
  <<focus, vars, valueVars, auditVars, shopVars, fleetVars, tonerVars, poolVars, planVars, clockVars,
    buyVars, tillVars, webVars>>

BackSpec == BackInit /\ [][BackNext]_AllVars

-----------------------------------------------------------------------------
\* Every component keeps its rows and its requests within their types, whatever its
\* handlers write.
AllTyped ==
  /\ focus = "assets" => TypeOK
  /\ focus = "values" => Values!TypeOK
  /\ focus = "audits" => Audits!TypeOK
  /\ focus = "shops" => Shops!TypeOK
  /\ focus = "fleet" => Fleet!TypeOK
  /\ focus = "toner" => Toner!TypeOK
  /\ focus = "pool" => Pool!TypeOK
  /\ focus = "plan" => Plan!TypeOK
  /\ focus = "clock" => Clock!TypeOK
  /\ focus = "buying" => Buying!TypeOK
  /\ focus = "tills" => Tills!TypeOK
  /\ focus = "web" => Web!TypeOK

\* Values: the books agree with the register, and nothing but a decommission takes an asset
\* below its residual, however the monthly run and the other writers of values overlap.
ValuesKept == focus = "values" => Values!DepreciationPosted /\ Values!ResidualKept

\* Audits: a completed audit accounts for all it expected.
AuditExplained == focus = "audits" => Audits!AuditExplained

\* Shops: a store and its location carry the same code.
LocationInStep == focus = "shops" => Shops!LocationInStep

\* Fleet: a PC has one key in force.
OneKeyInForce == focus = "fleet" => Fleet!OneKeyInForce

\* Fleet: a token is overdrawn by overlapping enrolments at most.
TokenNotOverdrawn == focus = "fleet" => Fleet!TokenNotOverdrawn

\* Toner: the stock is what was bought less what was sent.
StockAccounted == focus = "toner" => Toner!StockAccounted

\* Toner: an order that is on its way is no draft.
OrderAdvances == focus = "toner" => Toner!OrderAdvances

\* Pool: no two stores of a brand share a subnet.
SubnetsDistinct == focus = "pool" => Pool!SubnetsDistinct

\* Plan: a schedule opens one ticket a day.
ScheduledOnce == focus = "plan" => Plan!ScheduledOnce

\* Clock: a deadline leaves the business time it was given.
DeadlineLeavesTime == focus = "clock" => Clock!DeadlineLeavesTime

\* Buying: a purchase request and its orders agree.
OrdersAgree == focus = "buying" => Buying!OrdersAgree

\* Tills: a PIN pad is missing or returned for a reason.
PadStatusExplained == focus = "tills" => Tills!PadStatusExplained

\* Web: once the client has the success of an operation, its screens show it.
OwnWriteShown == focus = "web" => Web!OwnWriteShown

\* What of the values decides their steps: no step asks for more of a status than whether it
\* is active, none asks for the books, and once those are torn they are excepted.
ValueState ==
  <<[a \in Item |-> [worth[a] EXCEPT !.status = IF @ = "retired" THEN "disposed" ELSE @]],
    decommissions, month, torn, IF torn THEN 0 ELSE posted + other,
    [r \in Slot |-> [runs[r] EXCEPT !.total = IF torn THEN 0 ELSE @]]>>

\* A state is told by the tables of its focus, since the others stay as they start.
InFocus ==
  CASE focus = "assets" -> <<focus, vars>>       [] focus = "values" -> <<focus, ValueState>>
    [] focus = "audits" -> <<focus, auditVars>>  [] focus = "shops" -> <<focus, shopVars>>
    [] focus = "fleet" -> <<focus, fleetVars>>   [] focus = "toner" -> <<focus, tonerVars>>
    [] focus = "pool" -> <<focus, poolVars>>     [] focus = "plan" -> <<focus, planVars>>
    [] focus = "clock" -> <<focus, clockVars>>   [] focus = "buying" -> <<focus, buyVars>>
    [] focus = "tills" -> <<focus, tillVars>>    [] focus = "web" -> <<focus, webVars>>

\* The sets in which a property names its exceptions only grow: where all is excepted, nothing
\* is left that a step could break.
Undecided ==
  /\ focus = "assets" => retyped \cap untraced # Asset
  /\ focus = "shops" => skewed # Room
  /\ focus = "toner" => ~twice \/ missed # Order
  /\ focus = "pool" => ~stale

\* Request slots are interchangeable, and so are items (places, stores, PCs, lines).
BackOfficeSymmetry == Permutations(Slot) \cup Permutations(Item)
=============================================================================
