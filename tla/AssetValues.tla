----------------------------- MODULE AssetValues -----------------------------
(***************************************************************************)
(* What the assets are worth: the monthly straight-line depreciation       *)
(* (depreciation/depreciation.service.ts), the cascade of a new catalogue  *)
(* cost (catalog/skus.service.ts), a disposal's write-down                 *)
(* (inventory/decommission.controller.ts) and the row by row import        *)
(* (inventory/assets-import.service.ts).                                   *)
(*                                                                         *)
(* A depreciation run reads every asset first and then writes one by one,  *)
(* outside a transaction; the cron job and the button may run together.    *)
(***************************************************************************)
EXTENDS Integers, FiniteSets, FiniteSetsExt

CONSTANTS
  Asset,     \* all of one SKU
  Run,       \* depreciation runs that may be in progress at one time
  Cost,      \* purchase costs that are entered
  UnitCost,  \* the catalogue cost that is cascaded
  Life,      \* months of depreciation, years * 12
  MaxMonth   \* bound on the calendar

VARIABLES
  worth,          \* the Asset table: status, purchaseCostCents, currentValueCents, month of purchase
  decommissions,  \* assets with a Decommission row
  month,          \* the calendar
  runs,           \* the depreciation runs in progress: what they read and have not written, their total
  posted,         \* the sum of the DepreciationRun rows
  other,          \* history: what disposals and cascades took off the assets' values
  torn            \* history: a run died half way, or wrote over a value it had not read

vars == <<worth, decommissions, month, runs, posted, other, torn>>

Worth == [status : {"none", "active", "retired", "disposed"}, cost : Nat, value : Nat,
          bought : 0..MaxMonth]

TypeOK ==
  /\ worth \in [Asset -> Worth]
  /\ decommissions \subseteq Asset /\ month \in 0..MaxMonth
  /\ runs \in [Run -> [on : BOOLEAN, seen : [Asset -> Worth], asOf : 0..MaxMonth, total : Int]]
  /\ posted \in Int /\ other \in Int /\ torn \in BOOLEAN

Unseen == [status |-> "none", cost |-> 0, value |-> 0, bought |-> 0]
Idle == [on |-> FALSE, seen |-> [a \in Asset |-> Unseen], asOf |-> 0, total |-> 0]
todo(r) == {a \in Asset : runs[r].seen[a] # Unseen}

\* mutant: the residual of 10 % is left out
newValueBare(w, asOf) == w.cost - (w.cost \div Life) * (asOf - w.bought)

\* Straight line, down to a residual of 10 %.
newValue(w, asOf) ==
  LET accumulated == (w.cost \div Life) * (asOf - w.bought)
      most == (9 * w.cost) \div 10 IN
  w.cost - IF accumulated < most THEN accumulated ELSE most

\* An asset is bought; a cost of 0 is the catalogue's, which may be 0 as well.
Buy(a) ==
  /\ worth[a].status = "none"
  /\ \E c \in Cost : worth' = [worth EXCEPT ![a] = [status |-> "active", cost |-> c, value |-> c,
                                                    bought |-> month]]
  /\ UNCHANGED <<decommissions, month, runs, posted, other, torn>>

\* An import creates the rows that its dry run accepted one after the other: it
\* stops at the first that fails, and the rows before it stay.
Import(rows) ==
  /\ \A a \in rows : worth[a].status = "none"
  /\ \E done \in SUBSET rows \ {{}}, c \in Cost :
       worth' = [a \in Asset |-> IF a \in done
                                 THEN [status |-> "active", bought |-> month,
                                       cost |-> IF c = 0 THEN UnitCost ELSE c,
                                       value |-> IF c = 0 THEN UnitCost ELSE c]
                                 ELSE worth[a]]
  /\ UNCHANGED <<decommissions, month, runs, posted, other, torn>>

\* A move that names a status, an assignment, a repair, a received transfer: none asks
\* whether the asset is disposed of, and none touches its value.
SetStatus(a) ==
  /\ worth[a].status # "none"
  /\ \E s \in {"active", "retired", "disposed"} : worth' = [worth EXCEPT ![a].status = s]
  /\ UNCHANGED <<decommissions, month, runs, posted, other, torn>>

\* The status was looked at before the papers were uploaded and may have changed since; the
\* asset has one Decommission row at most.
Dispose(a) ==
  /\ worth[a].status # "none" /\ a \notin decommissions
  /\ decommissions' = decommissions \cup {a}
  /\ worth' = [worth EXCEPT ![a].status = "disposed", ![a].value = 0]
  /\ other' = other + worth[a].value
  /\ UNCHANGED <<month, runs, posted, torn>>

\* The assets without a cost or a value take the new one, the decommissioned ones too.
Cascade ==
  LET hit == {a \in Asset : worth[a].status # "none" /\ 0 \in {worth[a].cost, worth[a].value}} IN
  /\ hit # {}
  /\ worth' = [a \in Asset |-> IF a \in hit
                               THEN [worth[a] EXCEPT !.cost = UnitCost, !.value = UnitCost]
                               ELSE worth[a]]
  /\ other' = other - MapThenSumSet(LAMBDA a : worth[a].cost - worth[a].value, hit)
  /\ UNCHANGED <<decommissions, month, runs, posted, torn>>

StartRun(r) ==
  /\ ~runs[r].on
  /\ runs' = [runs EXCEPT ![r] =
       [on |-> TRUE, asOf |-> month, total |-> 0,
        seen |-> [a \in Asset |-> IF worth[a].status = "active" /\ worth[a].cost > 0
                                  THEN worth[a] ELSE Unseen]]]
  /\ UNCHANGED <<worth, decommissions, month, posted, other, torn>>

\* mutant: the run's total is the accumulated depreciation
DepreciateAll(r, a) ==
  LET w == runs[r].seen[a]  v == newValue(w, runs[r].asOf) IN
  /\ a \in todo(r)
  /\ worth' = [worth EXCEPT ![a].value = v]
  /\ runs' = [runs EXCEPT ![r].seen[a] = Unseen, ![r].total = @ + (w.cost - v)]
  /\ torn' = (torn \/ worth[a] # w)
  /\ UNCHANGED <<decommissions, month, posted, other>>

\* The run writes the value of one asset, if it differs from what the run has read.
Depreciate(r, a) ==
  LET w == runs[r].seen[a]  v == newValue(w, runs[r].asOf) IN
  /\ a \in todo(r)
  /\ worth' = IF v = w.value THEN worth ELSE [worth EXCEPT ![a].value = v]
  /\ runs' = [runs EXCEPT ![r].seen[a] = Unseen, ![r].total = @ + (w.value - v)]
  /\ torn' = (torn \/ (v # w.value /\ worth[a].value # w.value))
  /\ UNCHANGED <<decommissions, month, posted, other>>

FinishRun(r) ==
  /\ runs[r].on /\ todo(r) = {}
  /\ posted' = posted + runs[r].total
  /\ runs' = [runs EXCEPT ![r] = Idle]
  /\ UNCHANGED <<worth, decommissions, month, other, torn>>

\* A run dies with what it has written, and posts nothing.
CrashRun(r) ==
  /\ runs[r].on
  /\ runs' = [runs EXCEPT ![r] = Idle]
  /\ torn' = (torn \/ runs[r].total # 0)
  /\ UNCHANGED <<worth, decommissions, month, posted, other>>

Tick ==
  /\ month < MaxMonth /\ month' = month + 1
  /\ UNCHANGED <<worth, decommissions, runs, posted, other, torn>>

Init ==
  /\ worth = Idle.seen /\ decommissions = {} /\ month = 0 /\ posted = 0 /\ other = 0 /\ torn = FALSE
  /\ runs = [r \in Run |-> Idle]

Next ==
  \/ \E a \in Asset : Buy(a) \/ SetStatus(a) \/ Dispose(a)
  \/ \E rows \in SUBSET Asset : Import(rows)
  \/ Cascade \/ Tick
  \/ \E r \in Run : StartRun(r) \/ FinishRun(r) \/ CrashRun(r) \/ \E a \in Asset : Depreciate(r, a)

Spec == Init /\ [][Next]_vars

-----------------------------------------------------------------------------
\* The books agree with the register: what the assets are worth less than they
\* cost is what the depreciation runs posted or are about to post, apart from
\* disposals and cascades - unless a run died half way or wrote over a value that
\* had changed since it read it.
DepreciationPosted ==
  ~torn => MapThenSumSet(LAMBDA a : worth[a].cost - worth[a].value, Asset)
             = posted + MapThenSumSet(LAMBDA r : runs[r].total, Run) + other

\* However runs, cascades and changes of status overlap, an asset that was never
\* decommissioned is worth at least the residual of 10 % and at most its cost.
ResidualKept ==
  \A a \in Asset \ decommissions :
    worth[a].value <= worth[a].cost /\ 10 * worth[a].value >= worth[a].cost
=============================================================================
