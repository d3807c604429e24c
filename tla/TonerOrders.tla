----------------------------- MODULE TonerOrders -----------------------------
(***************************************************************************)
(* The toner order of a month (toner/toner-orders.service.ts): generated   *)
(* from the plan, dispatched line by line from the stock of the head       *)
(* office, received, closed or cancelled.                                  *)
(*                                                                         *)
(* A dispatch is a transaction of its own - the bulk dispatch of a store   *)
(* is one after the other - in which the stock moves by the difference to  *)
(* the quantity read, the line is written and the order's lines are        *)
(* counted.  Under READ COMMITTED, what one transaction has written is     *)
(* locked but not seen by another before it commits.                       *)
(***************************************************************************)
EXTENDS Integers, FiniteSets, FiniteSetsExt

CONSTANTS
  Order,     \* rows that may come to exist for one month
  Line,      \* a store and a toner type
  OneType,   \* whether the lines are of one toner type, whose row a dispatch locks
  Qty,       \* largest quantity of a line
  MaxStock,  \* bound on what is bought
  Request,   \* requests the server may be handling at one time
  None

VARIABLES
  orders,   \* the TonerOrder table: the status
  lines,    \* the TonerOrderLine table; nothing is planned where there is no row
  hqStock,  \* of all toner types together
  bought,   \* history: what was taken into stock
  req,      \* what each request slot is doing
  twice,    \* history: a line was dispatched from a quantity that was out of date
  skewed    \* history: orders a dispatch of which missed one that committed beside it

vars == <<orders, lines, hqStock, bought, req, twice, skewed>>

NoLine == [planned |-> 0, sent |-> 0, got |-> 0]
Idle == [step |-> "idle", order |-> None, line |-> None, seen |-> 0, qty |-> 0, next |-> "none"]

TypeOK ==
  /\ orders \in [Order -> {"none", "DRAFT", "DISPATCHED", "RECEIVED", "CLOSED", "CANCELLED"}]
  /\ lines \in [Order -> [Line -> [planned : 0..Qty, sent : 0..Qty, got : 0..Qty]]]
  /\ hqStock \in Int /\ bought \in 0..MaxStock
  /\ req \in [Request -> [step : {"idle", "create", "write", "check", "commit"},
                          order : Order \cup {None}, line : Line \cup {None},
                          seen : 0..Qty, qty : 0..Qty,
                          next : {"none", "DISPATCHED", "RECEIVED"}]]
  /\ twice \in BOOLEAN /\ skewed \subseteq Order

LineNow(o, l) == lines[o][l].planned > 0

\* The stock of a toner type is adjusted by hand.
adjustStock ==
  /\ bought < MaxStock
  /\ bought' = bought + 1 /\ hqStock' = hqStock + 1
  /\ UNCHANGED <<orders, lines, req, twice, skewed>>

\* No order of the month is found.
StartGenerate(q) ==
  /\ req[q] = Idle /\ \A o \in Order : orders[o] = "none"
  /\ req' = [req EXCEPT ![q].step = "create"]
  /\ UNCHANGED <<orders, lines, hqStock, bought, twice, skewed>>

\* The lines are what the plan says by now.
CreateOrder(q, o) ==
  /\ req[q].step = "create" /\ orders[o] = "none"
  /\ orders' = [orders EXCEPT ![o] = "DRAFT"]
  /\ \E plan \in [Line -> 0..Qty] :
       lines' = [lines EXCEPT ![o] = [l \in Line |-> [NoLine EXCEPT !.planned = plan[l]]]]
  /\ req' = [req EXCEPT ![q] = Idle]
  /\ UNCHANGED <<hqStock, bought, twice, skewed>>

-----------------------------------------------------------------------------
(* dispatchLine(), the transaction.                                        *)

ReadLine(q, o, l) ==
  /\ req[q] = Idle /\ LineNow(o, l)
  /\ \E n \in 0..Qty :
       req' = [req EXCEPT ![q] = [step |-> "write", order |-> o, line |-> l,
                                  seen |-> lines[o][l].sent, qty |-> n, next |-> "none"]]
  /\ UNCHANGED <<orders, lines, hqStock, bought, twice, skewed>>

\* The rows that transaction q has written, or is about to: the line, and the
\* toner type unless the quantity stays.
Shares(q, r) ==
  \/ req[q].order = req[r].order /\ req[q].line = req[r].line
  \/ OneType /\ req[q].qty # req[q].seen /\ req[r].qty # req[r].seen
Locked(q) == \E r \in Request \ {q} : req[r].step \in {"check", "commit"} /\ Shares(q, r)

\* Stock and line are written, once no other transaction has them locked.  (Bound:
\* once a line was dispatched from an old quantity, the stock is out for good; it
\* happens once in a behaviour.)
WriteLine(q) ==
  /\ req[q].step = "write" /\ ~Locked(q)
  /\ twice => lines[req[q].order][req[q].line].sent = req[q].seen
  /\ req' = [req EXCEPT ![q].step = "check"]
  /\ twice' = (twice \/ lines[req[q].order][req[q].line].sent # req[q].seen)
  /\ UNCHANGED <<orders, lines, hqStock, bought, skewed>>

\* The lines of the order as transaction q sees them.
Seen(q) == [lines[req[q].order] EXCEPT ![req[q].line].sent = req[q].qty]

AllSent(rows) ==
  /\ \E l \in Line : rows[l].planned > 0
  /\ \A l \in Line : rows[l].sent >= rows[l].planned
AllGot(rows) ==
  /\ \E l \in Line : rows[l].planned > 0
  /\ \A l \in Line : rows[l].got >= rows[l].planned

\* mutant: an order advances when it is received, not when it is dispatched
AdvanceLate(rows) == IF AllGot(rows) THEN "RECEIVED" ELSE "none"

\* The status that the lines of an order call for, if any.
maybeAdvanceStatus(rows) ==
  IF AllGot(rows) THEN "RECEIVED" ELSE IF AllSent(rows) THEN "DISPATCHED" ELSE "none"

CheckOrder(q) ==
  /\ req[q].step = "check"
  /\ req' = [req EXCEPT ![q].step = "commit", ![q].next = maybeAdvanceStatus(Seen(q))]
  /\ UNCHANGED <<orders, lines, hqStock, bought, twice, skewed>>

\* mutant: the stock is decremented by the quantity instead of the difference
CommitWhole(q) ==
  LET o == req[q].order IN
  /\ req[q].step = "commit"
  /\ hqStock' = hqStock - req[q].qty
  /\ lines' = [lines EXCEPT ![o] = Seen(q)]
  /\ orders' = IF req[q].next = "none" THEN orders ELSE [orders EXCEPT ![o] = req[q].next]
  /\ skewed' = IF maybeAdvanceStatus(Seen(q)) = req[q].next THEN skewed ELSE skewed \cup {o}
  /\ req' = [req EXCEPT ![q] = Idle]
  /\ UNCHANGED <<bought, twice>>

CommitDispatch(q) ==
  LET o == req[q].order IN
  /\ req[q].step = "commit"
  /\ hqStock' = hqStock - (req[q].qty - req[q].seen)
  /\ lines' = [lines EXCEPT ![o] = Seen(q)]
  /\ orders' = IF req[q].next = "none" THEN orders ELSE [orders EXCEPT ![o] = req[q].next]
  /\ skewed' = IF maybeAdvanceStatus(Seen(q)) = req[q].next THEN skewed ELSE skewed \cup {o}
  /\ req' = [req EXCEPT ![q] = Idle]
  /\ UNCHANGED <<bought, twice>>

\* A request fails; a transaction is undone.
Fail(q) ==
  /\ req[q] # Idle
  /\ req' = [req EXCEPT ![q] = Idle]
  /\ UNCHANGED <<orders, lines, hqStock, bought, twice, skewed>>

-----------------------------------------------------------------------------
\* A receipt does not count the order's lines; none of the three asks for its status.
receiveLine(o, l) ==
  /\ LineNow(o, l)
  /\ \A q \in Request : req[q].step \in {"check", "commit"} => ~(req[q].order = o /\ req[q].line = l)
  /\ \E n \in 0..Qty : lines' = [lines EXCEPT ![o][l].got = n]
  /\ UNCHANGED <<orders, hqStock, bought, req, twice, skewed>>

End(o, status) ==
  /\ orders[o] # "none"
  /\ orders' = [orders EXCEPT ![o] = status]
  /\ UNCHANGED <<lines, hqStock, bought, req, twice, skewed>>

close(o) == End(o, "CLOSED")
cancel(o) == End(o, "CANCELLED")

Init ==
  /\ orders = [o \in Order |-> "none"]
  /\ lines = [o \in Order |-> [l \in Line |-> NoLine]]
  /\ hqStock = 0 /\ bought = 0 /\ twice = FALSE /\ skewed = {}
  /\ req = [q \in Request |-> Idle]

Next ==
  \/ adjustStock
  \/ \E q \in Request :
       \/ StartGenerate(q) \/ WriteLine(q) \/ CheckOrder(q) \/ CommitDispatch(q) \/ Fail(q)
       \/ \E o \in Order : CreateOrder(q, o) \/ \E l \in Line : ReadLine(q, o, l)
  \/ \E o \in Order : close(o) \/ cancel(o) \/ \E l \in Line : receiveLine(o, l)

Spec == Init /\ [][Next]_vars

-----------------------------------------------------------------------------
\* The head office's stock is what was bought less what the lines say was sent, for
\* any corrections of a dispatched quantity - unless a line was dispatched from a
\* quantity that another dispatch had changed since it was read.
StockAccounted ==
  ~twice =>
    hqStock = bought - MapThenSumSet(LAMBDA o :
                         MapThenSumSet(LAMBDA l : lines[o][l].sent, Line), Order)

\* An order whose lines are all on their way does not stay a draft: unless its last
\* dispatches overlapped, so that neither saw the line of the other.
OrderAdvances ==
  \A o \in Order \ skewed :
    orders[o] = "DRAFT" => ~AllSent(lines[o])
=============================================================================
