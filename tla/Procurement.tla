----------------------------- MODULE Procurement -----------------------------
(***************************************************************************)
(* Purchase requests and the orders made of them                           *)
(* (procurement/pr.service.ts, po.service.ts).                             *)
(*                                                                         *)
(* A transition checks the status it read and writes by id.  An order is   *)
(* created whatever the status of its request, which is marked ORDERED by  *)
(* a statement of its own.  Codes are count() + 1, unique in the database. *)
(***************************************************************************)
EXTENDS Naturals, FiniteSets

CONSTANTS
  Pr, Po,   \* rows that may come to exist
  Request,  \* requests the server may be handling at one time
  None

VARIABLES
  prs,      \* the PurchaseRequest table: the status
  pos,      \* the PurchaseOrder table: the request an order is for, None for no row
  req,      \* what each request slot is doing
  given,    \* history: the approvals each request was given
  crossed   \* history: requests that were marked ORDERED while a transition was under
            \* way, or whose order was left without the mark

vars == <<prs, pos, req, given, crossed>>

PrStatus == {"none", "DRAFT", "SUBMITTED", "IT_APPROVED", "FINANCE_APPROVED", "REJECTED", "ORDERED"}
Idle == [step |-> "idle", pr |-> None, target |-> "none", count |-> 0]

TypeOK ==
  /\ prs \in [Pr -> PrStatus] /\ pos \in [Po -> Pr \cup {None}]
  /\ req \in [Request -> [step : {"idle", "create", "transition", "insert", "mark"},
                          pr : Pr \cup {None}, target : PrStatus,
                          count : 0..Cardinality(Pr) + Cardinality(Po)]]
  /\ given \in [Pr -> SUBSET {"IT_APPROVED", "FINANCE_APPROVED"}] /\ crossed \subseteq Pr

Requests == Cardinality({p \in Pr : prs[p] # "none"})
Orders == Cardinality({o \in Po : pos[o] # None})
Ordered(p) == \E o \in Po : pos[o] = p
Busy(step, p) == \E q \in Request : req[q].step = step /\ req[q].pr = p

CountPr(q) ==
  /\ req[q] = Idle
  /\ req' = [req EXCEPT ![q].step = "create", ![q].count = Requests]
  /\ UNCHANGED <<prs, pos, given, crossed>>

\* The code of a stale count is taken, and the request fails.
CreatePr(q, p) ==
  /\ req[q].step = "create" /\ prs[p] = "none" /\ req[q].count = Requests
  /\ prs' = [prs EXCEPT ![p] = "DRAFT"]
  /\ req' = [req EXCEPT ![q] = Idle]
  /\ UNCHANGED <<pos, given, crossed>>

\* mutant: finance may approve what IT has not
allowedEarly(status) ==
  CASE status = "DRAFT" -> {"SUBMITTED"}
    [] status = "SUBMITTED" -> {"IT_APPROVED", "FINANCE_APPROVED", "REJECTED"}
    [] status = "IT_APPROVED" -> {"FINANCE_APPROVED", "REJECTED"}
    [] OTHER -> {}

\* Of the transitions that have an endpoint.
allowed(status) ==
  CASE status = "DRAFT" -> {"SUBMITTED"}
    [] status = "SUBMITTED" -> {"IT_APPROVED", "REJECTED"}
    [] status = "IT_APPROVED" -> {"FINANCE_APPROVED", "REJECTED"}
    [] OTHER -> {}

FindPr(q, p) ==
  /\ req[q] = Idle
  /\ \E target \in allowed(prs[p]) :
       req' = [req EXCEPT ![q] = [Idle EXCEPT !.step = "transition", !.pr = p, !.target = target]]
  /\ UNCHANGED <<prs, pos, given, crossed>>

transition(q) ==
  LET p == req[q].pr  target == req[q].target IN
  /\ req[q].step = "transition"
  /\ prs' = [prs EXCEPT ![p] = target]
  /\ given' = IF target \in {"IT_APPROVED", "FINANCE_APPROVED"}
              THEN [given EXCEPT ![p] = @ \cup {target}] ELSE given
  /\ req' = [req EXCEPT ![q] = Idle]
  /\ UNCHANGED <<pos, crossed>>

\* An order is asked for: the request is there, and the orders are counted.
CountPo(q, p) ==
  /\ req[q] = Idle /\ prs[p] # "none"
  /\ req' = [req EXCEPT ![q] = [Idle EXCEPT !.step = "insert", !.pr = p, !.count = Orders]]
  /\ UNCHANGED <<prs, pos, given, crossed>>

CreatePo(q, o) ==
  /\ req[q].step = "insert" /\ pos[o] = None /\ req[q].count = Orders
  /\ pos' = [pos EXCEPT ![o] = req[q].pr]
  /\ req' = [req EXCEPT ![q].step = "mark"]
  /\ UNCHANGED <<prs, given, crossed>>

\* mutant: the request is marked when finance has approved it, and else left
MarkApproved(q) ==
  LET p == req[q].pr IN
  /\ req[q].step = "mark"
  /\ prs' = IF prs[p] = "FINANCE_APPROVED" THEN [prs EXCEPT ![p] = "ORDERED"] ELSE prs
  /\ crossed' = IF Busy("transition", p) THEN crossed \cup {p} ELSE crossed
  /\ req' = [req EXCEPT ![q] = Idle]
  /\ UNCHANGED <<pos, given>>

MarkOrdered(q) ==
  LET p == req[q].pr IN
  /\ req[q].step = "mark"
  /\ prs' = [prs EXCEPT ![p] = "ORDERED"]
  /\ crossed' = IF Busy("transition", p) THEN crossed \cup {p} ELSE crossed
  /\ req' = [req EXCEPT ![q] = Idle]
  /\ UNCHANGED <<pos, given>>

\* A request fails at its next statement.
Fail(q) ==
  /\ req[q] # Idle
  /\ crossed' = IF req[q].step = "mark" THEN crossed \cup {req[q].pr} ELSE crossed
  /\ req' = [req EXCEPT ![q] = Idle]
  /\ UNCHANGED <<prs, pos, given>>

Init ==
  /\ prs = [p \in Pr |-> "none"] /\ pos = [o \in Po |-> None]
  /\ req = [q \in Request |-> Idle]
  /\ given = [p \in Pr |-> {}] /\ crossed = {}

Next ==
  \E q \in Request :
    \/ CountPr(q) \/ transition(q) \/ MarkOrdered(q) \/ Fail(q)
    \/ \E p \in Pr : CreatePr(q, p) \/ FindPr(q, p) \/ CountPo(q, p)
    \/ \E o \in Po : CreatePo(q, o)

Spec == Init /\ [][Next]_vars

-----------------------------------------------------------------------------
\* A request is ORDERED exactly when there is an order for it, and approved by finance
\* only after IT, whatever overlaps - but for a request with an order whose mark is
\* still to come, was lost, or met a transition that overwrote it.
OrdersAgree ==
  \A p \in Pr :
    /\ prs[p] = "ORDERED" => Ordered(p)
    /\ Ordered(p) /\ p \notin crossed /\ ~Busy("mark", p) => prs[p] = "ORDERED"
    /\ prs[p] = "FINANCE_APPROVED" => given[p] = {"IT_APPROVED", "FINANCE_APPROVED"}
=============================================================================
