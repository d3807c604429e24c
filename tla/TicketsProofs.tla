---------------------------- MODULE TicketsProofs ----------------------------
(***************************************************************************)
(* Proofs about Tickets for every set of tickets, requests and priorities, *)
(* every SLA policy and every length of time.                              *)
(***************************************************************************)
EXTENDS Tickets, TLAPS

-----------------------------------------------------------------------------
(* Types.                                                                  *)

\* No clock of a ticket, or of a row some request has read, runs ahead of time.
ClocksBehind ==
  /\ \A t \in Ticket : waited[t] <= now /\ tickets[t].since <= now
  /\ \A r \in Request : req[r].before.since <= now

\* Whatever is in progress concerns tickets that exist.
NamesRows ==
  /\ \A r \in Request : req[r].on => req[r].id \in Rows /\ req[r].before.status # "NONE"
  /\ closing \subseteq Rows /\ sweep \subseteq Rows

\* A ticket that does not exist yet has not waited.
FreshIsIdle == \A t \in Ticket \ Rows : waited[t] = 0 /\ ~tickets[t].breached

TypeInv == TypeOK /\ ClocksBehind /\ NamesRows /\ FreshIsIdle

ReqRec == [on : BOOLEAN, id : Ticket, before : TicketRec]

LEMMA NoTicketType ==
  /\ NoTicket \in TicketRec
  /\ NoTicket.since = Never /\ NoTicket.status = "NONE" /\ NoTicket.paused = 0
  /\ ~NoTicket.breached
  BY TicketsAssumption DEF NoTicket, TicketRec, Time, Never

\* The values a row and an edit may hold.
LEMMA Fields ==
  ASSUME NEW b \in TicketRec
  PROVE  /\ b.status \in Status \cup {"NONE"} /\ b.prio \in Priority /\ b.created \in Time
         /\ b.resolveBy \in Int /\ b.since \in Time \cup {Never} /\ b.paused \in Nat
         /\ b.breached \in BOOLEAN /\ b.reopens \in 0 .. ReopenThreshold /\ b.aged \in BOOLEAN
  BY DEF TicketRec

LEMMA EditFields ==
  ASSUME NEW e \in Edit
  PROVE  e.status \in Status \cup {"KEEP"} /\ e.prio \in Priority \cup {0}
  BY DEF Edit

LEMMA Priorities ==
  /\ \A p \in Priority : p \in Nat /\ p # 0 /\ ResolveIn[p] \in Nat /\ ResolveIn[p] > 0
  /\ \A p \in Priority : p > 1 => p - 1 \in Priority
  /\ ReopenThreshold \in Nat /\ ReopenThreshold > 0 /\ MaxTime \in Nat /\ 1 \in Priority
  BY TicketsAssumption

LEMMA Rewritten ==
  ASSUME NEW t \in TicketRec, NEW st \in Status \cup {"NONE"}, NEW pr \in Priority, NEW by \in Int,
         NEW si \in Time \cup {Never}, NEW pa \in Nat, NEW re \in 0 .. ReopenThreshold,
         NEW ag \in BOOLEAN
  PROVE  [t EXCEPT !.status = st, !.prio = pr, !.resolveBy = by, !.since = si, !.paused = pa,
                   !.reopens = re, !.aged = ag] \in TicketRec
  BY DEF TicketRec

\* What a create writes.
Created(s, p, by) ==
  [NoTicket EXCEPT !.status = s, !.prio = p, !.created = now, !.resolveBy = by]

LEMMA CreateFields ==
  ASSUME TypeOK, NEW s \in {"NEW", "ASSIGNED"}, NEW p \in Priority, NEW by \in Int,
         NEW row, row = Created(s, p, by)
  PROVE  /\ row \in TicketRec
         /\ row.status = s /\ row.prio = p /\ row.created = now /\ row.resolveBy = by
         /\ row.since = Never /\ row.paused = 0 /\ ~row.breached
<1>1. now \in Time /\ s \in Status  BY DEF TypeOK, Status
<1>2. row = [status |-> s, prio |-> p, created |-> now, resolveBy |-> by, since |-> Never,
             paused |-> 0, breached |-> FALSE, reopens |-> 0, aged |-> FALSE]
  BY DEF NoTicket, Created
<1>4. s \in Status \cup {"NONE"} /\ 0 \in 0 .. ReopenThreshold /\ 0 \in Nat
      /\ Never \in Time \cup {Never} /\ FALSE \in BOOLEAN
  BY <1>1, Priorities
<1>5. PICK si, no, zero : si = Never /\ no = FALSE /\ zero = 0  OBVIOUS
<1>6. row = [status |-> s, prio |-> p, created |-> now, resolveBy |-> by, since |-> si,
             paused |-> zero, breached |-> no, reopens |-> zero, aged |-> no]
  BY <1>2, <1>5
<1>7. row \in TicketRec
  BY ONLY <1>1, <1>4, <1>5, <1>6, p \in Priority, by \in Int DEF TicketRec
<1>8. /\ row.status = s /\ row.prio = p /\ row.created = now /\ row.resolveBy = by
      /\ row.since = si /\ row.paused = zero /\ row.breached = no
  BY ONLY <1>6
<1> QED  BY <1>5, <1>7, <1>8

\* The fields an edit writes, one by one.
LEMMA EditedStatus ==
  ASSUME NEW t \in TicketRec, NEW b \in TicketRec, NEW e \in Edit
  PROVE  /\ e.status # "KEEP" => Edited(t, b, e).status = e.status
         /\ Implied(b, e) => Edited(t, b, e).status = "ASSIGNED"
         /\ e.status = "KEEP" /\ ~Implied(b, e) => Edited(t, b, e).status = t.status
         /\ Edited(t, b, e).created = t.created
         /\ Edited(t, b, e).breached = t.breached
  BY DEF Edited, TicketRec, Edit, Implied

LEMMA EditedClock ==
  ASSUME NEW t \in TicketRec, NEW b \in TicketRec, NEW e \in Edit
  PROVE  /\ Pauses(b, e) => Edited(t, b, e).since = now
         /\ Resumes(b, e) => Edited(t, b, e).since = Never
         /\ ~Pauses(b, e) /\ ~Resumes(b, e) => Edited(t, b, e).since = t.since
         /\ Edited(t, b, e).paused = IF Resumes(b, e) THEN b.paused + (now - b.since)
                                                      ELSE t.paused
         /\ Edited(t, b, e).resolveBy = Deadline(t, b, e)
<1>1. ~(Pauses(b, e) /\ Resumes(b, e))  BY DEF Pauses, Resumes
<1> QED  BY <1>1 DEF Edited, TicketRec

LEMMA EditedPrio ==
  ASSUME NEW t \in TicketRec, NEW b \in TicketRec, NEW e \in Edit
  PROVE  /\ Escalates(b, e) => Edited(t, b, e).prio = b.prio - 1
         /\ ~Escalates(b, e) /\ e.prio = 0 => Edited(t, b, e).prio = t.prio
         /\ ~Escalates(b, e) /\ e.prio # 0 => Edited(t, b, e).prio = e.prio
         /\ Edited(t, b, e).reopens =
              IF Reopens(e) /\ b.reopens < ReopenThreshold THEN b.reopens + 1 ELSE t.reopens
         /\ Edited(t, b, e).aged =
              IF e.status \in {"RESOLVED", "REOPENED"} THEN FALSE ELSE t.aged
  BY DEF Edited, TicketRec

\* An edit of an existing ticket yields an existing ticket.
LEMMA EditedType ==
  ASSUME TypeOK, NEW t \in TicketRec, NEW b \in TicketRec, NEW e \in Edit,
         t.status # "NONE", t.since <= now, b.since <= now
  PROVE  /\ Edited(t, b, e) \in TicketRec
         /\ Edited(t, b, e).status # "NONE"
         /\ Edited(t, b, e).since <= now
<1> DEFINE row == Edited(t, b, e)
<1>1. row.status \in Status
  BY EditedStatus DEF TicketRec, Edit, Status
<1>2. row.prio \in Priority
  <2>1. b.prio \in Priority /\ t.prio \in Priority /\ (e.prio # 0 => e.prio \in Priority)
    BY Fields, EditFields
  <2>2. Escalates(b, e) => b.prio - 1 \in Priority
    BY <2>1, Priorities DEF Escalates
  <2>3. CASE Escalates(b, e)  BY <2>2, <2>3, EditedPrio
  <2>4. CASE ~Escalates(b, e) /\ e.prio = 0  BY <2>1, <2>4, EditedPrio
  <2>5. CASE ~Escalates(b, e) /\ e.prio # 0  BY <2>1, <2>5, EditedPrio
  <2> QED  BY <2>3, <2>4, <2>5
<1>3. row.since \in Time \cup {Never} /\ row.since <= now
  BY EditedClock, Fields, Priorities DEF TypeOK, Time, Never
<1>4. row.paused \in Nat
  BY SMTT(30), EditedClock, Fields, Priorities DEF TypeOK, Time, Never, Resumes
<1>5. row.resolveBy \in Int
  <2>1. ResolveIn[b.prio] \in Int /\ (e.prio # 0 => ResolveIn[e.prio] \in Int)
    BY Priorities, Fields, EditFields
  <2> QED  BY <2>1, EditedClock, Fields DEF Deadline, TypeOK, Time, Never, Reprices, Resumes
<1>6. row.reopens \in 0 .. ReopenThreshold
  <2>1. b.reopens \in 0 .. ReopenThreshold /\ t.reopens \in 0 .. ReopenThreshold  BY Fields
  <2>2. b.reopens < ReopenThreshold => b.reopens + 1 \in 0 .. ReopenThreshold
    BY <2>1, Priorities
  <2>3. row.reopens = IF Reopens(e) /\ b.reopens < ReopenThreshold THEN b.reopens + 1
                                                                  ELSE t.reopens
    BY EditedPrio
  <2> QED  BY <2>1, <2>2, <2>3
<1>7. row.aged \in BOOLEAN
  <2>1. t.aged \in BOOLEAN  BY Fields
  <2> QED  BY <2>1 DEF Edited, TicketRec
<1>8. row = [t EXCEPT !.status = row.status, !.prio = row.prio, !.resolveBy = row.resolveBy,
                      !.since = row.since, !.paused = row.paused, !.reopens = row.reopens,
                      !.aged = row.aged]
  BY DEF Edited, TicketRec
<1>9. row \in TicketRec
  <2> HIDE DEF row
  <2>1. PICK st, pr, by, si, pa, re, ag :
          /\ st = row.status /\ pr = row.prio /\ by = row.resolveBy /\ si = row.since
          /\ pa = row.paused /\ re = row.reopens /\ ag = row.aged
    OBVIOUS
  <2>2. /\ st \in Status \cup {"NONE"} /\ pr \in Priority /\ by \in Int
        /\ si \in Time \cup {Never} /\ pa \in Nat /\ re \in 0 .. ReopenThreshold
        /\ ag \in BOOLEAN
    BY <1>1, <1>2, <1>3, <1>4, <1>5, <1>6, <1>7, <2>1
  <2>3. [t EXCEPT !.status = st, !.prio = pr, !.resolveBy = by, !.since = si, !.paused = pa,
                  !.reopens = re, !.aged = ag] \in TicketRec
    BY ZenonT(60), <2>2, Rewritten
  <2> QED  BY <2>3, <1>8, <2>1
<1> QED  BY <1>1, <1>3, <1>9 DEF Status

-----------------------------------------------------------------------------
(* Every step keeps TypeInv: what it may do to the table, to the requests  *)
(* and to the rest, and the actions one by one.                            *)

TableNext ==
  /\ tickets' \in [Ticket -> TicketRec]
  /\ \A u \in Rows : tickets'[u].status # "NONE"
  /\ \A u \in Ticket : tickets'[u].since <= now
  /\ \A u \in Ticket : tickets'[u].status = "NONE" => ~tickets'[u].breached

ReqNext ==
  /\ req' \in [Request -> ReqRec]
  /\ \A r \in Request : req'[r].before.since <= now
  /\ \A r \in Request : req'[r].on => req'[r].id \in Rows /\ req'[r].before.status # "NONE"

RestNext ==
  /\ now' = now /\ waited' = waited
  /\ sweep' \subseteq Rows /\ closing' \subseteq Rows
  /\ late' \subseteq Ticket /\ repriced' \subseteq Ticket
  /\ merged' \subseteq Ticket /\ overlapped' \subseteq Ticket

LEMMA Parts ==
  ASSUME TypeInv, TableNext, ReqNext, RestNext
  PROVE  TypeInv'
<1>1. Rows \subseteq Rows'  BY DEF Rows, TableNext
<1>2. TypeOK'
  BY <1>1 DEF TypeInv, TypeOK, TableNext, ReqNext, RestNext, ReqRec, Rows
<1>3. ClocksBehind'
  <2>1. \A t \in Ticket : waited[t] <= now  BY DEF TypeInv, ClocksBehind
  <2> QED  BY <2>1 DEF ClocksBehind, TableNext, ReqNext, RestNext
<1>4. NamesRows'  BY <1>1 DEF NamesRows, ReqNext, RestNext
<1>5. FreshIsIdle'
  <2>1. \A t \in Ticket \ Rows' : t \in Ticket \ Rows /\ tickets'[t].status = "NONE"
    BY <1>1 DEF Rows
  <2> QED  BY <2>1 DEF TypeInv, FreshIsIdle, TableNext, RestNext
<1> QED  BY <1>2, <1>3, <1>4, <1>5 DEF TypeInv

LEMMA SameTable ==
  ASSUME TypeInv, tickets' = tickets
  PROVE  TableNext
  BY DEF TypeInv, TypeOK, ClocksBehind, FreshIsIdle, Rows, TableNext

LEMMA SameReq ==
  ASSUME TypeInv, req' = req
  PROVE  ReqNext
  BY DEF TypeInv, TypeOK, ClocksBehind, NamesRows, ReqRec, ReqNext

LEMMA RowNext ==
  ASSUME TypeInv, NEW t \in Ticket, NEW row \in TicketRec, row.status # "NONE", row.since <= now,
         tickets' = [tickets EXCEPT ![t] = row]
  PROVE  TableNext
<1>1. tickets' \in [Ticket -> TicketRec]  BY DEF TypeInv, TypeOK
<1>2. \A u \in Ticket : tickets'[u] = IF u = t THEN row ELSE tickets[u]
  BY DEF TypeInv, TypeOK
<1> QED
  BY <1>1, <1>2 DEF TypeInv, ClocksBehind, FreshIsIdle, Rows, TableNext

LEMMA ReqEnds ==
  ASSUME TypeInv, NEW r \in Request,
         req' = [req EXCEPT ![r].on = FALSE, ![r].before = NoTicket]
  PROVE  ReqNext
<1>1. req \in [Request -> ReqRec]  BY DEF TypeInv, TypeOK, ReqRec
<1>2. PICK none \in TicketRec : none = NoTicket /\ none.since = Never  BY NoTicketType
<1>3. \A s \in Request : req'[s] = IF s = r THEN [req[s] EXCEPT !.on = FALSE, !.before = none]
                                           ELSE req[s]
  BY <1>1, <1>2
<1>4. req' \in [Request -> ReqRec]  BY <1>1, <1>2 DEF ReqRec
<1>5. ~req'[r].on /\ req'[r].before = none  BY <1>1, <1>3 DEF ReqRec
<1>6. Never <= now  BY DEF TypeInv, TypeOK, Time, Never
<1> QED
  BY <1>2, <1>3, <1>4, <1>5, <1>6 DEF TypeInv, ClocksBehind, NamesRows, ReqNext

\* The steps that write one field leave the others alone.
SameClock(c, d) ==
  /\ c.since = d.since /\ c.paused = d.paused /\ c.prio = d.prio
  /\ c.created = d.created /\ c.resolveBy = d.resolveBy

LEMMA StatusField ==
  ASSUME NEW b \in TicketRec, NEW s \in Status, NEW row, row = [b EXCEPT !.status = s]
  PROVE  row \in TicketRec /\ row.status = s /\ SameClock(row, b) /\ row.breached = b.breached
  BY DEF TicketRec, SameClock

LEMMA BreachedField ==
  ASSUME NEW b \in TicketRec, NEW row, row = [b EXCEPT !.breached = TRUE]
  PROVE  row \in TicketRec /\ row.breached /\ SameClock(row, b) /\ row.status = b.status
  BY DEF TicketRec, SameClock

LEMMA AgedField ==
  ASSUME NEW b \in TicketRec, NEW row, row = [b EXCEPT !.aged = TRUE]
  PROVE  /\ row \in TicketRec /\ SameClock(row, b)
         /\ row.status = b.status /\ row.breached = b.breached
  BY DEF TicketRec, SameClock

LEMMA TypeCreate ==
  ASSUME TypeInv, NEW t \in Ticket, Create(t)
  PROVE  TypeInv'
<1>1. PICK s \in {"NEW", "ASSIGNED"}, p \in Priority, sla \in BOOLEAN :
        tickets' = [tickets EXCEPT ![t] =
          [NoTicket EXCEPT !.status = s, !.prio = p, !.created = now,
                           !.resolveBy = IF sla THEN now + ResolveIn[p] ELSE Never]]
  BY DEF Create
<1>2. PICK by \in Int : by = IF sla THEN now + ResolveIn[p] ELSE Never
  BY Priorities DEF TypeInv, TypeOK, Time, Never
<1>3. PICK row : row = Created(s, p, by)  OBVIOUS
<1>4. tickets' = [tickets EXCEPT ![t] = row]  BY <1>1, <1>2, <1>3 DEF Created
<1>5. row \in TicketRec /\ row.status = s /\ row.since = Never
  <2>1. TypeOK  BY DEF TypeInv
  <2> QED  BY <2>1, <1>1, <1>2, <1>3, CreateFields
<1>6. Never <= now  BY DEF TypeInv, TypeOK, Time, Never
<1>7. TableNext  BY <1>4, <1>5, <1>6, RowNext
<1>8. ReqNext  BY SameReq DEF Create
<1>9. RestNext  BY DEF Create, history, TypeInv, TypeOK, NamesRows, RestNext
<1> QED  BY <1>7, <1>8, <1>9, Parts

LEMMA TypeMark ==
  ASSUME TypeInv, NEW t \in Ticket, Merge(t) \/ Age(t)
  PROVE  TypeInv'
<1>1. tickets[t] \in TicketRec /\ tickets[t].since <= now  BY DEF TypeInv, TypeOK, ClocksBehind
<1>2. "CLOSED" \in Status /\ TRUE \in BOOLEAN  BY DEF Status
<1>3. TableNext
  <2>1. CASE Merge(t)
    <3>1. PICK row : row = [tickets[t] EXCEPT !.status = "CLOSED"]  OBVIOUS
    <3>3. row \in TicketRec /\ row.status = "CLOSED" /\ row.since = tickets[t].since
      BY <1>1, <1>2, <3>1, StatusField DEF SameClock
    <3>2. tickets' = [tickets EXCEPT ![t] = row]
      BY <2>1, <3>1 DEF Merge, TypeInv, TypeOK
    <3> QED  BY <1>1, <3>3, <3>2, RowNext
  <2>2. CASE Age(t)
    <3>1. PICK row : row = [tickets[t] EXCEPT !.aged = TRUE]  OBVIOUS
    <3>3. row \in TicketRec /\ row.status = "RESOLVED" /\ row.since = tickets[t].since
      BY <2>2, <1>1, <3>1, AgedField DEF Age, SameClock
    <3>2. tickets' = [tickets EXCEPT ![t] = row]
      BY <2>2, <3>1 DEF Age, TypeInv, TypeOK
    <3> QED  BY <1>1, <3>3, <3>2, RowNext
  <2> QED  BY <2>1, <2>2
<1>4. ReqNext  BY SameReq DEF Merge, Age
<1>5. RestNext  BY DEF Merge, Age, history, TypeInv, TypeOK, NamesRows, RestNext
<1> QED  BY <1>3, <1>4, <1>5, Parts

LEMMA TypeRead ==
  ASSUME TypeInv, NEW r \in Request, NEW t \in Ticket, UpdateRead(r, t)
  PROVE  TypeInv'
<1>1. TableNext  BY SameTable DEF UpdateRead
<1>2. ReqNext
  <2>1. req \in [Request -> ReqRec]  BY DEF TypeInv, TypeOK, ReqRec
  <2>2. /\ tickets[t] \in TicketRec /\ tickets[t].since <= now
        /\ t \in Rows /\ tickets[t].status # "NONE"
    BY DEF TypeInv, TypeOK, ClocksBehind, UpdateRead, Rows
  <2>3. PICK q : q = [on |-> TRUE, id |-> t, before |-> tickets[t]]  OBVIOUS
  <2>4. q \in ReqRec /\ q.id = t /\ q.before = tickets[t]  BY <2>2, <2>3 DEF ReqRec
  <2>5. req' = [req EXCEPT ![r] = q]  BY <2>3 DEF UpdateRead
  <2>6. \A s \in Request : req'[s] = IF s = r THEN q ELSE req[s]  BY <2>1, <2>5
  <2>7. req' \in [Request -> ReqRec]  BY <2>1, <2>4, <2>5
  <2> QED
    BY <2>2, <2>4, <2>6, <2>7 DEF TypeInv, ClocksBehind, NamesRows, ReqNext
<1>3. RestNext  BY DEF UpdateRead, TypeInv, TypeOK, NamesRows, RestNext
<1> QED  BY <1>1, <1>2, <1>3, Parts

LEMMA TypeWrite ==
  ASSUME TypeInv, NEW r \in Request, UpdateWrite(r)
  PROVE  TypeInv'
<1>1. PICK t, b : t = req[r].id /\ b = req[r].before  OBVIOUS
<1>2. PICK e \in Edit :
        /\ tickets' = [tickets EXCEPT ![t] = Edited(tickets[t], b, e)]
        /\ repriced' \subseteq repriced \cup {t} /\ late' \subseteq late \cup {t}
  BY <1>1 DEF UpdateWrite
<1>3. /\ t \in Ticket /\ b \in TicketRec /\ t \in Rows /\ b.since <= now
      /\ tickets[t] \in TicketRec /\ tickets[t].status # "NONE" /\ tickets[t].since <= now
  BY <1>1 DEF UpdateWrite, TypeInv, TypeOK, ClocksBehind, NamesRows, Rows
<1>4. PICK row : row = Edited(tickets[t], b, e)  OBVIOUS
<1>5. row \in TicketRec /\ row.status # "NONE" /\ row.since <= now
  <2>1. TypeOK  BY DEF TypeInv
  <2> QED  BY <2>1, <1>2, <1>3, <1>4, EditedType
<1>6. TableNext  BY <1>2, <1>3, <1>4, <1>5, RowNext
<1>7. ReqNext  BY ReqEnds DEF UpdateWrite
<1>8. RestNext  BY <1>2, <1>3 DEF UpdateWrite, TypeInv, TypeOK, NamesRows, RestNext
<1> QED  BY <1>6, <1>7, <1>8, Parts

LEMMA TypeFails ==
  ASSUME TypeInv, NEW r \in Request, UpdateFails(r)
  PROVE  TypeInv'
<1>1. TableNext  BY SameTable DEF UpdateFails
<1>2. ReqNext  BY ReqEnds DEF UpdateFails
<1>3. RestNext  BY DEF UpdateFails, history, TypeInv, TypeOK, NamesRows, RestNext
<1> QED  BY <1>1, <1>2, <1>3, Parts

LEMMA TypeCron ==
  ASSUME TypeInv, CronStep
  PROVE  TypeInv'
<1>1. /\ \A t \in Ticket : tickets[t] \in TicketRec /\ tickets[t].since <= now
      /\ \A t \in Ticket : tickets[t].status = "NONE" => ~tickets[t].breached
  BY DEF TypeInv, TypeOK, ClocksBehind, FreshIsIdle, Rows
<1>2. TableNext
  <2>1. CASE SweepWrite
    <3>1. \A t \in Ticket : tickets'[t] = IF t \in sweep THEN [tickets[t] EXCEPT !.breached = TRUE]
                                                         ELSE tickets[t]
      BY <2>1 DEF SweepWrite
    <3>2. \A t \in Ticket : /\ tickets'[t] \in TicketRec /\ SameClock(tickets'[t], tickets[t])
                            /\ tickets'[t].status = tickets[t].status
                            /\ t \notin sweep => tickets'[t] = tickets[t]
      <4> TAKE t \in Ticket
      <4>1. CASE t \in sweep
        <5>1. tickets[t] \in TicketRec /\ tickets'[t] = [tickets[t] EXCEPT !.breached = TRUE]
          BY <4>1, <3>1, <1>1
        <5> QED  BY <4>1, <5>1, BreachedField
      <4>2. CASE t \notin sweep  BY <4>2, <3>1, <1>1 DEF SameClock
      <4> QED  BY <4>1, <4>2
    <3>3. tickets' \in [Ticket -> TicketRec]  BY <2>1, <3>2 DEF SweepWrite
    <3> QED
      BY <1>1, <3>2, <3>3 DEF TypeInv, NamesRows, Rows, SameClock, TableNext
  <2>2. CASE CloseWrite
    <3>1. \A t \in Ticket :
            tickets'[t] = IF t \in closing THEN [tickets[t] EXCEPT !.status = "CLOSED"]
                                             ELSE tickets[t]
      BY <2>2 DEF CloseWrite
    <3>2. "CLOSED" \in Status  BY DEF Status
    <3>3. \A t \in Ticket : /\ tickets'[t] \in TicketRec /\ SameClock(tickets'[t], tickets[t])
                            /\ t \in closing => tickets'[t].status = "CLOSED"
                            /\ t \notin closing => tickets'[t] = tickets[t]
      <4> TAKE t \in Ticket
      <4>1. CASE t \in closing
        <5>1. tickets[t] \in TicketRec /\ tickets'[t] = [tickets[t] EXCEPT !.status = "CLOSED"]
          BY <4>1, <3>1, <1>1
        <5> QED  BY <4>1, <5>1, <3>2, StatusField
      <4>2. CASE t \notin closing  BY <4>2, <3>1, <1>1 DEF SameClock
      <4> QED  BY <4>1, <4>2
    <3>4. tickets' \in [Ticket -> TicketRec]  BY <2>2, <3>3 DEF CloseWrite
    <3> QED
      BY <1>1, <3>3, <3>4 DEF Rows, SameClock, TableNext
  <2>3. CASE SweepRead \/ SweepFails \/ CloseRead \/ CloseFails
    BY <2>3, SameTable DEF SweepRead, SweepFails, CloseRead, CloseFails
  <2> QED  BY <2>1, <2>2, <2>3 DEF CronStep
<1>3. ReqNext
  BY SameReq DEF CronStep, SweepRead, SweepWrite, SweepFails, CloseRead, CloseWrite, CloseFails
<1>4. ToSweep \subseteq Rows /\ ToClose \subseteq Rows  BY DEF ToSweep, ToClose
<1>5. RestNext
  BY <1>4 DEF CronStep, SweepRead, SweepWrite, SweepFails, CloseRead, CloseWrite, CloseFails,
      history, TypeInv, TypeOK, NamesRows, Rows, RestNext
<1> QED  BY <1>2, <1>3, <1>5, Parts

LEMMA TypeTick ==
  ASSUME TypeInv, Tick
  PROVE  TypeInv'
<1>1. /\ now \in Nat /\ MaxTime \in Nat /\ now' = now + 1 /\ now' \in Time
      /\ tickets' = tickets /\ req' = req
  BY Priorities DEF Tick, TypeInv, TypeOK, Time
<1>2. \A t \in Ticket : /\ waited[t] \in Nat /\ waited[t] <= now
                        /\ tickets[t].since \in Int /\ tickets[t].since <= now
  BY Fields, Priorities DEF TypeInv, TypeOK, ClocksBehind, Span, Time, Never
<1>3. \A r \in Request : req[r].before.since \in Int /\ req[r].before.since <= now
  BY Fields, Priorities DEF TypeInv, TypeOK, ClocksBehind, Time, Never
<1>4. \A t \in Ticket : waited'[t] = IF Waiting(t) THEN waited[t] + 1 ELSE waited[t]
  BY DEF Tick
<1>5. \A t \in Ticket : waited'[t] \in Span /\ waited'[t] <= now'
  BY <1>1, <1>2, <1>4 DEF Span, Time
<1>6. waited' \in [Ticket -> Span]  BY <1>5 DEF Tick
<1>7. TypeOK'
  BY <1>1, <1>6 DEF Tick, TypeInv, TypeOK
<1>8. ClocksBehind'  BY <1>1, <1>2, <1>3, <1>5 DEF ClocksBehind
<1>9. NamesRows'  BY <1>1 DEF Tick, TypeInv, NamesRows, Rows
<1>10. FreshIsIdle'  BY <1>1, <1>4 DEF TypeInv, FreshIsIdle, Rows, Waiting
<1> QED  BY <1>7, <1>8, <1>9, <1>10 DEF TypeInv

LEMMA TypeInit == Init => TypeInv
<1> SUFFICES ASSUME Init PROVE TypeInv  OBVIOUS
<1>1. PICK none \in TicketRec : none = NoTicket /\ none.since = Never /\ none.status = "NONE"
                                /\ ~none.breached
  BY NoTicketType
<1>2. (CHOOSE t \in Ticket : TRUE) \in Ticket  BY TicketsAssumption
<1>3. 0 \in Time /\ 0 \in Span /\ Never <= 0  BY Priorities DEF Time, Span, Never
<1>4. \A r \in Request : req[r] \in ReqRec /\ ~req[r].on /\ req[r].before = none
  BY <1>1, <1>2 DEF Init, ReqRec
<1>5. req \in [Request -> ReqRec]
  BY <1>1, <1>2 DEF Init, ReqRec
<1>6. tickets = [t \in Ticket |-> none] /\ waited = [t \in Ticket |-> 0] /\ now = 0
  BY <1>1 DEF Init
<1>7. TypeOK  BY <1>1, <1>3, <1>5, <1>6 DEF Init, TypeOK, ReqRec
<1>8. ClocksBehind  BY <1>1, <1>3, <1>4, <1>6 DEF ClocksBehind
<1>9. NamesRows  BY <1>4 DEF Init, NamesRows
<1>10. FreshIsIdle  BY <1>1, <1>6 DEF FreshIsIdle
<1> QED  BY <1>7, <1>8, <1>9, <1>10 DEF TypeInv

LEMMA TypeStep == TypeInv /\ [Next]_vars => TypeInv'
<1> SUFFICES ASSUME TypeInv, [Next]_vars PROVE TypeInv'  OBVIOUS
<1>1. ASSUME NEW t \in Ticket, Create(t) \/ Merge(t) \/ Age(t) PROVE TypeInv'
  BY <1>1, TypeCreate, TypeMark
<1>2. ASSUME NEW r \in Request,
             (\E t \in Ticket : UpdateRead(r, t)) \/ UpdateWrite(r) \/ UpdateFails(r)
      PROVE  TypeInv'
  BY <1>2, TypeRead, TypeWrite, TypeFails
<1>3. CASE CronStep  BY <1>3, TypeCron
<1>4. CASE Tick  BY <1>4, TypeTick
<1>5. CASE UNCHANGED vars
  BY <1>5 DEF vars, history, TypeInv, TypeOK, ClocksBehind, NamesRows, FreshIsIdle, Rows
<1> QED  BY <1>1, <1>2, <1>3, <1>4, <1>5 DEF Next

LEMMA TypeAlways == Spec => []TypeInv
  BY TypeInit, TypeStep, PTL DEF Spec

\* tickets.service.ts: every row keeps a legal status, priority and clock through
\* any interleaving of edits, merges, sweeps and auto-closes.
THEOREM TypeCorrect == Spec => []TypeOK
<1>1. TypeInv => TypeOK  BY DEF TypeInv
<1> QED  BY <1>1, TypeAlways, PTL

-----------------------------------------------------------------------------
(* Breaches.                                                               *)

\* Whoever is late, is about to be flagged, or is flagged, has been late.
BreachInv ==
  /\ sweep \subseteq late
  /\ \A t \in Ticket : Open(tickets[t]) /\ Overdue(tickets[t], now) => t \in late
  /\ \A t \in Ticket : tickets[t].breached => t \in late

\* What an update does to the table.
LEMMA WriteFacts ==
  ASSUME TypeInv, NEW r \in Request, UpdateWrite(r)
  PROVE  /\ req[r].on /\ req[r].id \in Rows
         /\ req[r].before \in TicketRec /\ tickets[req[r].id] \in TicketRec
         /\ \E e, row :
              /\ e \in Edit
              /\ Legal(req[r].before.status, e)
              /\ row = Edited(tickets[req[r].id], req[r].before, e)
              /\ \A u \in Ticket : tickets'[u] = IF u = req[r].id THEN row ELSE tickets[u]
              /\ repriced' = IF row.prio # tickets[req[r].id].prio \/ Reprices(req[r].before, e)
                               THEN repriced \cup {req[r].id} ELSE repriced
              /\ late' = IF Open(row) /\ Overdue(row, now) THEN late \cup {req[r].id} ELSE late
<1>1. PICK e \in Edit :
        LET row == Edited(tickets[req[r].id], req[r].before, e) IN
        /\ Legal(req[r].before.status, e)
        /\ tickets' = [tickets EXCEPT ![req[r].id] = row]
        /\ repriced' = IF row.prio # tickets[req[r].id].prio \/ Reprices(req[r].before, e)
                         THEN repriced \cup {req[r].id} ELSE repriced
        /\ late' = IF Open(row) /\ Overdue(row, now) THEN late \cup {req[r].id} ELSE late
  BY DEF UpdateWrite
<1>2. PICK row : row = Edited(tickets[req[r].id], req[r].before, e)  OBVIOUS
<1>3. /\ req[r].on /\ req[r].id \in Rows
      /\ req[r].before \in TicketRec /\ tickets[req[r].id] \in TicketRec
  BY DEF UpdateWrite, TypeInv, TypeOK, NamesRows, Rows
<1>4. tickets \in [Ticket -> TicketRec] /\ tickets' = [tickets EXCEPT ![req[r].id] = row]
  BY <1>1, <1>2 DEF TypeInv, TypeOK
<1>5. \A u \in Ticket : tickets'[u] = IF u = req[r].id THEN row ELSE tickets[u]
  BY <1>4
<1> QED  BY <1>1, <1>2, <1>3, <1>5

LEMMA BreachCreate ==
  ASSUME TypeInv, BreachInv, NEW t \in Ticket, Create(t)
  PROVE  BreachInv'
<1>1. PICK s \in {"NEW", "ASSIGNED"}, p \in Priority, sla \in BOOLEAN :
        tickets' = [tickets EXCEPT ![t] =
          [NoTicket EXCEPT !.status = s, !.prio = p, !.created = now,
                           !.resolveBy = IF sla THEN now + ResolveIn[p] ELSE Never]]
  BY DEF Create
<1>2. PICK by \in Int : by = IF sla THEN now + ResolveIn[p] ELSE Never
  BY Priorities DEF TypeInv, TypeOK, Time, Never
<1>3. PICK row : row = Created(s, p, by)  OBVIOUS
<1>4. tickets' = [tickets EXCEPT ![t] = row]  BY <1>1, <1>2, <1>3 DEF Created
<1>5. row.resolveBy = by /\ ~row.breached
  <2>1. TypeOK  BY DEF TypeInv
  <2> QED  BY <2>1, <1>1, <1>2, <1>3, CreateFields
<1>6. by = Never \/ by > now  BY <1>2, Priorities DEF TypeInv, TypeOK, Time
<1>7. ~Overdue(row, now)  BY <1>2, <1>5, <1>6, Priorities DEF Overdue, TypeInv, TypeOK, Time
<1>8. \A u \in Ticket : tickets'[u] = IF u = t THEN row ELSE tickets[u]
  BY <1>4 DEF TypeInv, TypeOK
<1>9. sweep' = sweep /\ late' = late /\ now' = now  BY DEF Create, history
<1> QED  BY <1>5, <1>7, <1>8, <1>9 DEF BreachInv

\* The steps of the table that leave the deadlines of open tickets alone.
LEMMA BreachTable ==
  ASSUME BreachInv, sweep' \subseteq late, late' = late, now' = now,
         \A u \in Ticket :
           /\ Open(tickets'[u]) => Open(tickets[u])
           /\ tickets'[u].resolveBy = tickets[u].resolveBy
           /\ tickets'[u].breached => tickets[u].breached \/ u \in sweep
  PROVE  BreachInv'
  BY DEF BreachInv, Overdue

LEMMA BreachMark ==
  ASSUME TypeInv, BreachInv, NEW t \in Ticket, Merge(t) \/ Age(t)
  PROVE  BreachInv'
<1>1. tickets \in [Ticket -> TicketRec] /\ tickets[t] \in TicketRec  BY DEF TypeInv, TypeOK
<1>2. PICK row : /\ tickets' = [tickets EXCEPT ![t] = row]
                 /\ (Merge(t) /\ row = [tickets[t] EXCEPT !.status = "CLOSED"])
                    \/ (Age(t) /\ row = [tickets[t] EXCEPT !.aged = TRUE])
  BY DEF Merge, Age
<1>3. /\ Open(row) => Open(tickets[t])
      /\ row.resolveBy = tickets[t].resolveBy /\ row.breached = tickets[t].breached
  <2>1. CASE row = [tickets[t] EXCEPT !.status = "CLOSED"]
    <3>1. "CLOSED" \in Status  BY DEF Status
    <3> QED  BY <2>1, <3>1, <1>1, StatusField DEF SameClock, Open, Finished
  <2>2. CASE row = [tickets[t] EXCEPT !.aged = TRUE]
    BY <2>2, <1>1, AgedField DEF SameClock, Open, Finished
  <2> QED  BY <1>2, <2>1, <2>2
<1>4. \A u \in Ticket : tickets'[u] = IF u = t THEN row ELSE tickets[u]  BY <1>1, <1>2
<1>5. sweep' \subseteq late /\ late' = late /\ now' = now
  BY DEF Merge, Age, history, BreachInv
<1> QED  BY <1>3, <1>4, <1>5, BreachTable

LEMMA BreachWrite ==
  ASSUME TypeInv, BreachInv, NEW r \in Request, UpdateWrite(r)
  PROVE  BreachInv'
<1>1. PICK e, row :
        /\ e \in Edit
        /\ row = Edited(tickets[req[r].id], req[r].before, e)
        /\ \A u \in Ticket : tickets'[u] = IF u = req[r].id THEN row ELSE tickets[u]
        /\ late' = IF Open(row) /\ Overdue(row, now) THEN late \cup {req[r].id} ELSE late
  BY WriteFacts
<1>2. req[r].before \in TicketRec /\ tickets[req[r].id] \in TicketRec /\ req[r].id \in Ticket
  BY WriteFacts DEF Rows
<1>3. row.breached = tickets[req[r].id].breached  BY <1>1, <1>2, EditedStatus
<1>4. sweep' = sweep /\ now' = now /\ late \subseteq late'  BY <1>1 DEF UpdateWrite
<1>5. Open(row) /\ Overdue(row, now) => req[r].id \in late'  BY <1>1
<1> QED  BY <1>1, <1>2, <1>3, <1>4, <1>5 DEF BreachInv

LEMMA BreachCron ==
  ASSUME TypeInv, BreachInv, CronStep
  PROVE  BreachInv'
<1>1. \A u \in Ticket : tickets[u] \in TicketRec  BY DEF TypeInv, TypeOK
<1>2. CASE SweepRead
  <2>1. ToSweep \subseteq late  BY DEF ToSweep, Rows, BreachInv
  <2> QED  BY <1>2, <2>1 DEF SweepRead, history, BreachInv
<1>3. CASE SweepWrite
  <2>1. \A u \in Ticket : /\ SameClock(tickets'[u], tickets[u])
                          /\ tickets'[u].status = tickets[u].status
                          /\ tickets'[u].breached => tickets[u].breached \/ u \in sweep
    <3> TAKE u \in Ticket
    <3>1. CASE u \in sweep
      <4>1. tickets'[u] = [tickets[u] EXCEPT !.breached = TRUE]  BY <1>3, <3>1 DEF SweepWrite
      <4> QED  BY <3>1, <4>1, <1>1, BreachedField
    <3>2. CASE u \notin sweep
      <4>1. tickets'[u] = tickets[u]  BY <1>3, <3>2 DEF SweepWrite
      <4> QED  BY <4>1 DEF SameClock
    <3> QED  BY <3>1, <3>2
  <2>2. sweep' \subseteq late /\ late' = late /\ now' = now  BY <1>3 DEF SweepWrite, history
  <2> QED  BY <2>1, <2>2, BreachTable DEF SameClock, Open
<1>4. CASE CloseWrite
  <2>1. \A u \in Ticket : /\ Open(tickets'[u]) => Open(tickets[u])
                          /\ SameClock(tickets'[u], tickets[u])
                          /\ tickets'[u].breached = tickets[u].breached
    <3> TAKE u \in Ticket
    <3>1. CASE u \in closing
      <4>1. tickets'[u] = [tickets[u] EXCEPT !.status = "CLOSED"]  BY <1>4, <3>1 DEF CloseWrite
      <4>2. "CLOSED" \in Status  BY DEF Status
      <4> QED  BY <4>1, <4>2, <1>1, StatusField DEF Open, Finished
    <3>2. CASE u \notin closing
      <4>1. tickets'[u] = tickets[u]  BY <1>4, <3>2 DEF CloseWrite
      <4> QED  BY <4>1 DEF SameClock
    <3> QED  BY <3>1, <3>2
  <2>2. sweep' \subseteq late /\ late' = late /\ now' = now
    BY <1>4 DEF CloseWrite, history, BreachInv
  <2> QED  BY <2>1, <2>2, BreachTable DEF SameClock
<1>5. CASE SweepFails \/ CloseRead \/ CloseFails
  BY <1>5 DEF SweepFails, CloseRead, CloseFails, history, BreachInv
<1> QED  BY <1>2, <1>3, <1>4, <1>5 DEF CronStep

LEMMA BreachStep == TypeInv /\ BreachInv /\ [Next]_vars => BreachInv'
<1> SUFFICES ASSUME TypeInv, BreachInv, [Next]_vars PROVE BreachInv'  OBVIOUS
<1>1. ASSUME NEW t \in Ticket, Create(t) \/ Merge(t) \/ Age(t) PROVE BreachInv'
  BY <1>1, BreachCreate, BreachMark
<1>2. ASSUME NEW r \in Request, (\E t \in Ticket : UpdateRead(r, t)) \/ UpdateFails(r)
      PROVE  BreachInv'
  BY <1>2 DEF UpdateRead, UpdateFails, history, BreachInv
<1>3. ASSUME NEW r \in Request, UpdateWrite(r) PROVE BreachInv'  BY <1>3, BreachWrite
<1>4. CASE CronStep  BY <1>4, BreachCron
<1>5. CASE Tick  BY <1>5 DEF Tick, BreachInv
<1>6. CASE UNCHANGED vars  BY <1>6 DEF vars, history, BreachInv
<1> QED  BY <1>1, <1>2, <1>3, <1>4, <1>5, <1>6 DEF Next

\* tickets.cron.ts: no ticket is flagged that was not open past its deadline,
\* although the sweep writes by id what it read some time before.
THEOREM BreachCorrect == Spec => []BreachWasLate
<1>1. Init => BreachInv
  BY NoTicketType DEF Init, BreachInv, Open, Finished
<1>2. BreachInv => BreachWasLate  BY DEF BreachInv, BreachWasLate, Rows
<1> QED  BY <1>1, <1>2, TypeAlways, BreachStep, PTL DEF Spec

-----------------------------------------------------------------------------
(* Tickets that one request handles at a time.                             *)

Serial == Ticket \ (overlapped \cup merged)

\* What a request has read of a ticket is still so.
Agrees(b, c) ==
  /\ b.status = c.status /\ b.since = c.since /\ b.paused = c.paused
  /\ b.prio = c.prio /\ b.created = c.created /\ b.resolveBy = c.resolveBy

SerialInv ==
  /\ \A r \in Request : req[r].on /\ req[r].id \in Serial =>
       Agrees(req[r].before, tickets[req[r].id]) /\ req[r].id \notin closing
  /\ \A r, s \in Request : req[r].on /\ req[s].on /\ req[r].id = req[s].id /\ req[r].id \in Serial
       => r = s
  /\ \A t \in closing : t \in Serial => tickets[t].status = "RESOLVED"

\* The steps of the table that leave alone what requests have read.
LEMMA SerialTable ==
  ASSUME SerialInv, req' = req, closing' = closing,
         overlapped' = overlapped, merged \subseteq merged',
         \A r \in Request : req[r].on => req[r].id \in Ticket, closing \subseteq Ticket,
         \A u \in Ticket :
           u \in Serial' /\ (u \in closing \/ \E r \in Request : req[r].on /\ req[r].id = u)
           => SameClock(tickets'[u], tickets[u]) /\ tickets'[u].status = tickets[u].status
  PROVE  SerialInv'
<1>1. \A u : u \in Serial' => u \in Serial  BY DEF Serial
<1>2. \A r \in Request : req'[r].on /\ req'[r].id \in Serial' =>
        Agrees(req'[r].before, tickets'[req'[r].id]) /\ req'[r].id \notin closing'
  BY <1>1 DEF SerialInv, Agrees, SameClock
<1>3. \A r, s \in Request :
        req'[r].on /\ req'[s].on /\ req'[r].id = req'[s].id /\ req'[r].id \in Serial' => r = s
  BY <1>1 DEF SerialInv
<1>4. \A t \in closing' : t \in Serial' => tickets'[t].status = "RESOLVED"
  BY <1>1 DEF SerialInv
<1> QED  BY <1>2, <1>3, <1>4 DEF SerialInv

LEMMA SerialMark ==
  ASSUME TypeInv, SerialInv, NEW t \in Ticket, Create(t) \/ Merge(t) \/ Age(t)
  PROVE  SerialInv'
<1>1. /\ tickets \in [Ticket -> TicketRec] /\ tickets[t] \in TicketRec
      /\ closing \subseteq Rows /\ \A r \in Request : req[r].on => req[r].id \in Rows
  BY DEF TypeInv, TypeOK, NamesRows
<1>2. /\ req' = req /\ closing' = closing /\ overlapped' = overlapped /\ merged \subseteq merged'
      /\ \A r \in Request : req[r].on => req[r].id \in Ticket
      /\ closing \subseteq Ticket
  BY <1>1 DEF Create, Merge, Age, history, Rows
<1>3. \A u \in Ticket \ {t} : tickets'[u] = tickets[u]  BY <1>1 DEF Create, Merge, Age
<1>4. CASE Create(t)
  <2>1. t \notin closing /\ ~\E r \in Request : req[r].on /\ req[r].id = t
    BY <1>1, <1>4 DEF Create
  <2> QED  BY <1>2, <1>3, <2>1, SerialTable DEF SameClock
<1>5. CASE Merge(t)
  <2>1. t \notin Serial'  BY <1>5 DEF Merge, Serial
  <2> QED  BY <1>2, <1>3, <2>1, SerialTable DEF SameClock
<1>6. CASE Age(t)
  <2>1. tickets'[t] = [tickets[t] EXCEPT !.aged = TRUE]  BY <1>1, <1>6 DEF Age
  <2>2. SameClock(tickets'[t], tickets[t]) /\ tickets'[t].status = tickets[t].status
    BY <1>1, <2>1, AgedField
  <2> QED  BY <1>2, <1>3, <2>2, SerialTable DEF SameClock
<1> QED  BY <1>4, <1>5, <1>6

LEMMA SerialRead ==
  ASSUME TypeInv, SerialInv, NEW r \in Request, NEW t \in Ticket, UpdateRead(r, t)
  PROVE  SerialInv'
<1>1. PICK q : q = [on |-> TRUE, id |-> t, before |-> tickets[t]]  OBVIOUS
<1>2. q.on /\ q.id = t /\ q.before = tickets[t]  BY <1>1
<1>3. req' = [req EXCEPT ![r] = q]  BY <1>1 DEF UpdateRead
<1>4. \A s \in Request : req'[s] = IF s = r THEN q ELSE req[s]
  BY <1>3 DEF TypeInv, TypeOK
<1>5. ~req[r].on /\ tickets' = tickets /\ closing' = closing /\ merged' = merged
      /\ overlapped' = IF t \in Handled THEN overlapped \cup {t} ELSE overlapped
  BY DEF UpdateRead
<1>6. \A u : u \in Serial' => u \in Serial  BY <1>5 DEF Serial
<1>7. t \in Serial' => t \notin closing /\ \A s \in Request : req[s].on => req[s].id # t
  BY <1>5 DEF Serial, Handled
<1>8. \A s \in Request : req'[s].on /\ req'[s].id \in Serial' =>
        Agrees(req'[s].before, tickets'[req'[s].id]) /\ req'[s].id \notin closing'
  <2>1. Agrees(q.before, tickets[t])  BY <1>2 DEF Agrees
  <2> QED  BY <1>2, <1>4, <1>5, <1>6, <1>7, <2>1 DEF SerialInv
<1>9. \A u, s \in Request :
        req'[u].on /\ req'[s].on /\ req'[u].id = req'[s].id /\ req'[u].id \in Serial' => u = s
  BY <1>2, <1>4, <1>6, <1>7 DEF SerialInv
<1>10. \A u \in closing' : u \in Serial' => tickets'[u].status = "RESOLVED"
  BY <1>5, <1>6 DEF SerialInv
<1> QED  BY <1>8, <1>9, <1>10 DEF SerialInv

LEMMA SerialEnds ==
  ASSUME TypeInv, SerialInv, NEW r \in Request, UpdateWrite(r) \/ UpdateFails(r)
  PROVE  SerialInv'
<1>1. req \in [Request -> ReqRec] /\ tickets \in [Ticket -> TicketRec]
  BY DEF TypeInv, TypeOK, ReqRec
<1>2. req' = [req EXCEPT ![r].on = FALSE, ![r].before = NoTicket]
      /\ closing' = closing /\ overlapped' = overlapped /\ merged' = merged
  BY DEF UpdateWrite, UpdateFails, history
<1>3. /\ \A s \in Request \ {r} : req'[s] = req[s]
      /\ ~req'[r].on
  BY <1>1, <1>2 DEF ReqRec
<1>4. \A u : u \in Serial' <=> u \in Serial  BY <1>2 DEF Serial
<1>5. \A u \in Ticket : tickets'[u] = tickets[u] \/ u = req[r].id
  <2>1. CASE UpdateWrite(r)  BY <2>1, WriteFacts
  <2>2. CASE UpdateFails(r)  BY <2>2 DEF UpdateFails
  <2> QED  BY <2>1, <2>2
<1>6. req[r].on  BY DEF UpdateWrite, UpdateFails
<1>7. \A s \in Request : req[s].id \in Ticket  BY <1>1 DEF ReqRec
<1>8. \A s \in Request : req'[s].on /\ req'[s].id \in Serial' =>
        Agrees(req'[s].before, tickets'[req'[s].id]) /\ req'[s].id \notin closing'
  <2> SUFFICES ASSUME NEW s \in Request, req'[s].on, req'[s].id \in Serial'
               PROVE  Agrees(req'[s].before, tickets'[req'[s].id]) /\ req'[s].id \notin closing'
    OBVIOUS
  <2>1. s # r /\ req'[s] = req[s] /\ req[s].on /\ req[s].id \in Serial  BY <1>3, <1>4
  <2>2. req[s].id # req[r].id  BY <2>1, <1>6 DEF SerialInv
  <2>3. tickets'[req[s].id] = tickets[req[s].id]  BY <2>2, <1>5, <1>7
  <2> QED  BY <2>1, <2>3, <1>2 DEF SerialInv
<1>9. \A u, s \in Request :
        req'[u].on /\ req'[s].on /\ req'[u].id = req'[s].id /\ req'[u].id \in Serial' => u = s
  BY <1>3, <1>4 DEF SerialInv
<1>10. \A u \in closing' : u \in Serial' => tickets'[u].status = "RESOLVED"
  <2> SUFFICES ASSUME NEW u \in closing, u \in Serial PROVE tickets'[u].status = "RESOLVED"
    BY <1>2, <1>4
  <2>1. u # req[r].id /\ u \in Ticket  BY <1>6 DEF SerialInv, TypeInv, TypeOK
  <2> QED  BY <2>1, <1>5 DEF SerialInv
<1> QED  BY <1>8, <1>9, <1>10 DEF SerialInv

LEMMA SerialCron ==
  ASSUME TypeInv, SerialInv, CronStep
  PROVE  SerialInv'
<1>1. /\ \A u \in Ticket : tickets[u] \in TicketRec
      /\ closing \subseteq Ticket /\ \A r \in Request : req[r].id \in Ticket
  BY DEF TypeInv, TypeOK
<1>2. CASE SweepRead \/ SweepFails
  BY <1>2 DEF SweepRead, SweepFails, history, SerialInv, Serial, Agrees
<1>3. CASE SweepWrite
  <2>1. \A u \in Ticket : SameClock(tickets'[u], tickets[u])
                          /\ tickets'[u].status = tickets[u].status
    <3> TAKE u \in Ticket
    <3>1. CASE u \in sweep
      <4>1. tickets'[u] = [tickets[u] EXCEPT !.breached = TRUE]  BY <1>3, <3>1 DEF SweepWrite
      <4> QED  BY <3>1, <4>1, <1>1, BreachedField
    <3>2. CASE u \notin sweep
      <4>1. tickets'[u] = tickets[u]  BY <1>3, <3>2 DEF SweepWrite
      <4> QED  BY <4>1 DEF SameClock
    <3> QED  BY <3>1, <3>2
  <2>2. req' = req /\ closing' = closing /\ overlapped' = overlapped /\ merged \subseteq merged'
    BY <1>3 DEF SweepWrite, history
  <2> QED  BY <1>1, <2>1, <2>2, SerialTable
<1>4. CASE CloseRead
  <2>1. /\ req' = req /\ tickets' = tickets /\ merged' = merged /\ closing' = ToClose
        /\ overlapped' = overlapped \cup (Handled \cap ToClose)
    BY <1>4 DEF CloseRead
  <2>2. \A u : u \in Serial' => u \in Serial /\ ~(u \in Handled /\ u \in ToClose)
    BY <2>1 DEF Serial
  <2>3. \A r \in Request : req[r].on => req[r].id \in Handled  BY DEF Handled
  <2>4. \A u \in ToClose : tickets[u].status = "RESOLVED"  BY DEF ToClose
  <2>5. \A r \in Request : req'[r].on /\ req'[r].id \in Serial' =>
          Agrees(req'[r].before, tickets'[req'[r].id]) /\ req'[r].id \notin closing'
    BY <2>1, <2>2, <2>3 DEF SerialInv
  <2>6. \A r, s \in Request :
          req'[r].on /\ req'[s].on /\ req'[r].id = req'[s].id /\ req'[r].id \in Serial' => r = s
    BY <2>1, <2>2 DEF SerialInv
  <2> QED  BY <2>1, <2>4, <2>5, <2>6 DEF SerialInv
<1>5. CASE CloseWrite \/ CloseFails
  <2>1. req' = req /\ overlapped' = overlapped /\ merged' = merged /\ closing' = {}
    BY <1>5 DEF CloseWrite, CloseFails, history
  <2>2. \A u : u \in Serial' <=> u \in Serial  BY <2>1 DEF Serial
  <2>3. \A u \in Ticket : u \notin closing => tickets'[u] = tickets[u]
    BY <1>5 DEF CloseWrite, CloseFails
  <2>4. \A r \in Request : req'[r].on /\ req'[r].id \in Serial' =>
          Agrees(req'[r].before, tickets'[req'[r].id]) /\ req'[r].id \notin closing'
    BY <1>1, <2>1, <2>2, <2>3 DEF SerialInv
  <2>5. \A r, s \in Request :
          req'[r].on /\ req'[s].on /\ req'[r].id = req'[s].id /\ req'[r].id \in Serial' => r = s
    BY <2>1, <2>2 DEF SerialInv
  <2> QED  BY <2>1, <2>4, <2>5 DEF SerialInv
<1> QED  BY <1>2, <1>3, <1>4, <1>5 DEF CronStep

LEMMA SerialStep == TypeInv /\ SerialInv /\ [Next]_vars => SerialInv'
<1> SUFFICES ASSUME TypeInv, SerialInv, [Next]_vars PROVE SerialInv'  OBVIOUS
<1>1. ASSUME NEW t \in Ticket, Create(t) \/ Merge(t) \/ Age(t) PROVE SerialInv'
  BY <1>1, SerialMark
<1>2. ASSUME NEW r \in Request, NEW t \in Ticket, UpdateRead(r, t) PROVE SerialInv'
  BY <1>2, SerialRead
<1>3. ASSUME NEW r \in Request, UpdateWrite(r) \/ UpdateFails(r) PROVE SerialInv'
  BY <1>3, SerialEnds
<1>4. CASE CronStep  BY <1>4, SerialCron
<1>5. CASE Tick \/ UNCHANGED vars
  BY <1>5 DEF Tick, vars, history, SerialInv, Serial, Agrees
<1> QED  BY <1>1, <1>2, <1>3, <1>4, <1>5 DEF Next

LEMMA SerialAlways == Spec => []SerialInv
<1>1. Init => SerialInv  BY DEF Init, SerialInv
<1> QED  BY <1>1, TypeAlways, SerialStep, PTL DEF Spec

-----------------------------------------------------------------------------
(* The transition map and the SLA clock of a ticket handled by one request *)
(* at a time.                                                              *)

\* What an update of a serial ticket starts from.
LEMMA SerialWrite ==
  ASSUME TypeInv, SerialInv, NEW r \in Request, UpdateWrite(r), NEW t \in Ticket,
         t = req[r].id, t \in Serial
  PROVE  /\ tickets[t] \in TicketRec /\ req[r].before \in TicketRec
         /\ Agrees(req[r].before, tickets[t]) /\ tickets[t].status \in Status
<1>1. req[r].on /\ t \in Rows /\ tickets[t] \in TicketRec /\ req[r].before \in TicketRec
  BY WriteFacts
<1> QED  BY <1>1, Fields DEF SerialInv, Rows

LEMMA LegalRow ==
  ASSUME NEW c \in TicketRec, NEW b \in TicketRec, NEW e \in Edit, NEW d,
         d = Edited(c, b, e), b.status = c.status, Legal(b.status, e)
  PROVE  d.status = c.status \/ d.status \in TRANSITIONS[c.status]
<1>1. CASE e.status # "KEEP"
  <2>1. d.status = e.status  BY <1>1, EditedStatus
  <2> QED  BY <1>1, <2>1 DEF Legal
<1>2. CASE Implied(b, e)
  <2>1. d.status = "ASSIGNED" /\ c.status = "NEW"  BY <1>2, EditedStatus DEF Implied
  <2>2. "ASSIGNED" \in TRANSITIONS["NEW"]  BY DEF TRANSITIONS
  <2> QED  BY <2>1, <2>2
<1>3. CASE e.status = "KEEP" /\ ~Implied(b, e)  BY <1>3, EditedStatus
<1> QED  BY <1>1, <1>2, <1>3

Moved(t) ==
  \/ tickets'[t].status = tickets[t].status
  \/ tickets'[t].status \in TRANSITIONS[tickets[t].status]

LEMMA MovesStep ==
  ASSUME TypeInv, SerialInv, [Next]_vars, NEW t \in Rows, t \in Ticket, t \in Serial'
  PROVE  Moved(t)
<1>1. tickets \in [Ticket -> TicketRec] /\ tickets[t] \in TicketRec  BY DEF TypeInv, TypeOK
<1>2. ASSUME NEW u \in Ticket, Create(u) \/ Merge(u) \/ Age(u) PROVE Moved(t)
  <2>1. CASE Create(u)
    <3>1. u # t  BY <2>1 DEF Create
    <3>2. tickets'[t] = tickets[t]  BY <3>1, <1>1, <2>1 DEF Create
    <3> QED  BY <3>2 DEF Moved
  <2>2. CASE Merge(u)
    <3>1. u # t  BY <2>2 DEF Merge, Serial
    <3>2. tickets'[t] = tickets[t]  BY <3>1, <1>1, <2>2 DEF Merge
    <3> QED  BY <3>2 DEF Moved
  <2>3. CASE Age(u)
    <3>1. CASE u = t
      <4>1. tickets'[t] = [tickets[t] EXCEPT !.aged = TRUE]  BY <1>1, <2>3, <3>1 DEF Age
      <4> QED  BY <1>1, <4>1, AgedField DEF Moved
    <3>2. CASE u # t
      <4>1. tickets'[t] = tickets[t]  BY <1>1, <2>3, <3>2 DEF Age
      <4> QED  BY <4>1 DEF Moved
    <3> QED  BY <3>1, <3>2
  <2> QED  BY <1>2, <2>1, <2>2, <2>3
<1>3. ASSUME NEW r \in Request, UpdateWrite(r) PROVE Moved(t)
  <2>1. PICK e, row :
          /\ e \in Edit
          /\ Legal(req[r].before.status, e)
          /\ row = Edited(tickets[req[r].id], req[r].before, e)
          /\ \A u \in Ticket : tickets'[u] = IF u = req[r].id THEN row ELSE tickets[u]
    BY <1>3, WriteFacts
  <2>2. CASE t = req[r].id
    <3>1. t \in Serial  BY <1>3 DEF UpdateWrite, Serial
    <3>2. req[r].before \in TicketRec /\ req[r].before.status = tickets[t].status
      BY <1>3, <2>2, <3>1, SerialWrite DEF Agrees
    <3>3. row = Edited(tickets[t], req[r].before, e) /\ tickets'[t] = row  BY <2>1, <2>2
    <3> QED  BY <1>1, <2>1, <3>2, <3>3, LegalRow DEF Moved
  <2>3. CASE t # req[r].id  BY <2>1, <2>3 DEF Moved
  <2> QED  BY <2>2, <2>3
<1>4. CASE SweepWrite
  <2>1. CASE t \in sweep
    <3>1. tickets'[t] = [tickets[t] EXCEPT !.breached = TRUE]  BY <1>4, <2>1 DEF SweepWrite
    <3> QED  BY <1>1, <3>1, BreachedField DEF Moved
  <2>2. CASE t \notin sweep
    <3>1. tickets'[t] = tickets[t]  BY <1>4, <2>2 DEF SweepWrite
    <3> QED  BY <3>1 DEF Moved
  <2> QED  BY <2>1, <2>2
<1>5. CASE CloseWrite
  <2>1. CASE t \in closing
    <3>1. t \in Serial  BY <1>5 DEF CloseWrite, history, Serial
    <3>2. tickets[t].status = "RESOLVED"  BY <2>1, <3>1 DEF SerialInv
    <3>3. tickets'[t] = [tickets[t] EXCEPT !.status = "CLOSED"]  BY <1>5, <2>1 DEF CloseWrite
    <3>4. tickets'[t].status = "CLOSED"  BY <1>1, <3>3, StatusField DEF Status
    <3>5. "CLOSED" \in TRANSITIONS["RESOLVED"]  BY DEF TRANSITIONS
    <3> QED  BY <3>2, <3>4, <3>5 DEF Moved
  <2>2. CASE t \notin closing
    <3>1. tickets'[t] = tickets[t]  BY <1>5, <2>2 DEF CloseWrite
    <3> QED  BY <3>1 DEF Moved
  <2> QED  BY <2>1, <2>2
<1>6. CASE tickets' = tickets  BY <1>6 DEF Moved
<1> QED
  BY <1>2, <1>3, <1>4, <1>5, <1>6
  DEF Next, CronStep, UpdateRead, UpdateFails, SweepRead, SweepFails, CloseRead, CloseFails,
      Tick, vars

\* tickets.service.ts:23 "Legal status transitions - anything not listed is
\* rejected.", for tickets that one request handles at a time and no merge closes.
THEOREM MovesCorrect == Spec => LegalMoves
<1>1. TypeInv /\ SerialInv /\ [Next]_vars =>
        [\A t \in Rows \ (overlapped' \cup merged') :
           \/ tickets'[t].status = tickets[t].status
           \/ tickets'[t].status \in TRANSITIONS[tickets[t].status]]_vars
  BY MovesStep DEF Moved, Serial, Rows
<1> QED  BY <1>1, TypeAlways, SerialAlways, PTL DEF Spec, LegalMoves

\* The SLA clock of row c at time `at', after w spent waiting.
Running(c, at) == IF c.status = "WAITING_ON_USER" THEN at - c.since ELSE 0
Clocked(c, w, at) ==
  /\ c.status = "WAITING_ON_USER" <=> c.since # Never
  /\ c.paused + Running(c, at) = w
OnTime(c, w, at) ==
  c.resolveBy # Never => c.resolveBy + Running(c, at) = c.created + ResolveIn[c.prio] + w

PauseInv ==
  \A t \in Rows : t \in Serial =>
    /\ Clocked(tickets[t], waited[t], now)
    /\ t \notin repriced => OnTime(tickets[t], waited[t], now)

LEMMA PauseIsFree == PauseInv => WaitingIsFree
<1> SUFFICES ASSUME PauseInv, NEW t \in Rows \ (overlapped \cup merged)
             PROVE  LET running == IF Waiting(t) THEN now - tickets[t].since ELSE 0 IN
                    /\ Waiting(t) <=> tickets[t].since # Never
                    /\ tickets[t].paused + running = waited[t]
                    /\ tickets[t].resolveBy # Never /\ t \notin repriced =>
                         tickets[t].resolveBy + running =
                           tickets[t].created + ResolveIn[tickets[t].prio] + waited[t]
  BY DEF WaitingIsFree
<1>1. t \in Rows /\ t \in Serial  BY DEF Rows, Serial
<1>2. Running(tickets[t], now) = IF Waiting(t) THEN now - tickets[t].since ELSE 0
  BY DEF Running, Waiting
<1>3. Clocked(tickets[t], waited[t], now)
      /\ (t \notin repriced => OnTime(tickets[t], waited[t], now))
  BY <1>1 DEF PauseInv
<1> QED  BY <1>2, <1>3 DEF Clocked, OnTime, Waiting

\* Rows that agree on status and clock keep the same account.
LEMMA SameAccount ==
  ASSUME NEW c, NEW d, SameClock(d, c), NEW w, NEW at,
         d.status = c.status \/ "WAITING_ON_USER" \notin {c.status, d.status}
  PROVE  /\ Clocked(c, w, at) => Clocked(d, w, at)
         /\ OnTime(c, w, at) => OnTime(d, w, at)
  BY DEF SameClock, Clocked, OnTime, Running

\* An edit of a row that is as the request has read it keeps the account.
LEMMA EditedClocked ==
  ASSUME TypeOK, NEW c \in TicketRec, NEW b \in TicketRec, NEW e \in Edit, NEW d,
         d = Edited(c, b, e), Agrees(b, c), NEW w \in Nat, Clocked(c, w, now)
  PROVE  Clocked(d, w, now)
<1>1. now \in Nat /\ Never = -1  BY Priorities DEF TypeOK, Time, Never
<1>2. c.since \in Int /\ c.paused \in Nat  BY Fields, Priorities DEF Time, Never
<1>3. CASE Pauses(b, e)
  <2>1. d.since = now /\ ~Resumes(b, e) /\ d.paused = c.paused
    BY <1>3, EditedClock DEF Pauses, Resumes
  <2>2. d.status = "WAITING_ON_USER" /\ c.status # "WAITING_ON_USER"
    BY <1>3, EditedStatus DEF Pauses, Agrees
  <2> QED  BY <1>1, <1>2, <2>1, <2>2 DEF Clocked, Running
<1>4. CASE Resumes(b, e)
  <2>1. d.since = Never /\ d.paused = c.paused + (now - c.since)
    BY <1>4, EditedClock DEF Agrees
  <2>2. d.status # "WAITING_ON_USER" /\ c.status = "WAITING_ON_USER"
    BY <1>4, EditedStatus DEF Resumes, Agrees
  <2> QED  BY <1>1, <1>2, <2>1, <2>2 DEF Clocked, Running
<1>5. CASE ~Pauses(b, e) /\ ~Resumes(b, e)
  <2>1. d.since = c.since /\ d.paused = c.paused  BY <1>5, EditedClock
  <2>2. d.status = "WAITING_ON_USER" <=> c.status = "WAITING_ON_USER"
    BY <1>5, EditedStatus DEF Pauses, Resumes, Implied, Agrees, Clocked
  <2> QED  BY <2>1, <2>2 DEF Clocked, Running
<1> QED  BY <1>3, <1>4, <1>5

LEMMA EditedOnTime ==
  ASSUME TypeOK, NEW c \in TicketRec, NEW b \in TicketRec, NEW e \in Edit, NEW d,
         d = Edited(c, b, e), Agrees(b, c), NEW w \in Nat, Clocked(c, w, now), OnTime(c, w, now),
         d.prio = c.prio, ~Reprices(b, e)
  PROVE  OnTime(d, w, now)
<1>1. now \in Nat /\ Never = -1  BY Priorities DEF TypeOK, Time, Never
<1>2. /\ c.since \in Int /\ c.resolveBy \in Int /\ c.created \in Int
      /\ ResolveIn[c.prio] \in Int
  BY Fields, Priorities DEF Time, Never
<1>3. d.created = c.created /\ d.resolveBy = Deadline(c, b, e)
  BY EditedStatus, EditedClock
<1>4. CASE Resumes(b, e)
  <2>1. d.status # "WAITING_ON_USER" /\ c.status = "WAITING_ON_USER"
    BY <1>4, EditedStatus DEF Resumes, Agrees
  <2>2. d.resolveBy = IF c.resolveBy # Never THEN c.resolveBy + (now - c.since) ELSE c.resolveBy
    BY <1>3, <1>4 DEF Deadline, Agrees
  <2> QED  BY <1>1, <1>2, <1>3, <2>1, <2>2 DEF OnTime, Running
<1>5. CASE ~Resumes(b, e)
  <2>1. d.resolveBy = c.resolveBy  BY <1>3, <1>5 DEF Deadline
  <2>2. Running(d, now) = Running(c, now)
    <3>1. CASE Pauses(b, e)
      <4>1. d.status = "WAITING_ON_USER" /\ d.since = now /\ c.status # "WAITING_ON_USER"
        BY <3>1, EditedStatus, EditedClock DEF Pauses, Agrees
      <4> QED  BY <1>1, <4>1 DEF Running
    <3>2. CASE ~Pauses(b, e)
      <4>1. d.since = c.since  BY <1>5, <3>2, EditedClock
      <4>2. d.status = "WAITING_ON_USER" <=> c.status = "WAITING_ON_USER"
        BY <1>5, <3>2, EditedStatus DEF Pauses, Resumes, Implied, Agrees, Clocked
      <4> QED  BY <4>1, <4>2 DEF Running
    <3> QED  BY <3>1, <3>2
  <2> QED  BY <1>3, <2>1, <2>2 DEF OnTime
<1> QED  BY <1>4, <1>5

\* The steps of the table that change no clock, nor who is waiting.
LEMMA PauseTable ==
  ASSUME PauseInv, waited' = waited, now' = now, repriced \subseteq repriced',
         overlapped \subseteq overlapped', merged \subseteq merged',
         \A t \in Rows' : t \in Serial' =>
           /\ t \in Rows /\ SameClock(tickets'[t], tickets[t])
           /\ \/ tickets'[t].status = tickets[t].status
              \/ "WAITING_ON_USER" \notin {tickets[t].status, tickets'[t].status}
  PROVE  PauseInv'
<1> SUFFICES ASSUME NEW t \in Rows', t \in Serial'
             PROVE  /\ Clocked(tickets'[t], waited[t], now)
                    /\ t \notin repriced => OnTime(tickets'[t], waited[t], now)
  BY DEF PauseInv, Clocked, OnTime, Running, Never
<1>1. t \in Rows /\ t \in Serial  BY DEF Serial
<1> QED  BY <1>1, SameAccount DEF PauseInv

LEMMA PauseCreate ==
  ASSUME TypeInv, PauseInv, NEW t \in Ticket, Create(t)
  PROVE  PauseInv'
<1>1. PICK s \in {"NEW", "ASSIGNED"}, p \in Priority, sla \in BOOLEAN :
        tickets' = [tickets EXCEPT ![t] =
          [NoTicket EXCEPT !.status = s, !.prio = p, !.created = now,
                           !.resolveBy = IF sla THEN now + ResolveIn[p] ELSE Never]]
  BY DEF Create
<1>2. PICK by \in Int : by = IF sla THEN now + ResolveIn[p] ELSE Never
  BY Priorities DEF TypeInv, TypeOK, Time, Never
<1>3. PICK row : row = Created(s, p, by)  OBVIOUS
<1>4. tickets' = [tickets EXCEPT ![t] = row]  BY <1>1, <1>2, <1>3 DEF Created
<1>5. /\ row.status = s /\ row.prio = p /\ row.created = now /\ row.resolveBy = by
      /\ row.since = Never /\ row.paused = 0
  <2>1. TypeOK  BY DEF TypeInv
  <2> QED  BY <2>1, <1>1, <1>2, <1>3, CreateFields
<1>6. \A u \in Ticket : tickets'[u] = IF u = t THEN row ELSE tickets[u]
  BY <1>4 DEF TypeInv, TypeOK
<1>7. /\ now' = now /\ waited' = waited /\ repriced' = repriced
      /\ overlapped' = overlapped /\ merged' = merged
  BY DEF Create, history
<1>8. waited[t] = 0  BY DEF Create, TypeInv, FreshIsIdle
<1>9. Clocked(row, 0, now) /\ OnTime(row, 0, now)
  <2>1. row.status # "WAITING_ON_USER"  BY <1>5
  <2>2. now \in Int /\ ResolveIn[p] \in Int  BY Priorities DEF TypeInv, TypeOK, Time
  <2>3. row.resolveBy # Never => row.resolveBy = now + ResolveIn[p]  BY <1>2, <1>5
  <2> QED  BY <1>5, <2>1, <2>2, <2>3 DEF Clocked, OnTime, Running
<1>10. ASSUME NEW u \in Rows', u \in Serial'
       PROVE  /\ Clocked(tickets'[u], waited[u], now)
              /\ u \notin repriced => OnTime(tickets'[u], waited[u], now)
  <2>1. CASE u = t  BY <2>1, <1>6, <1>8, <1>9
  <2>2. CASE u # t
    <3>1. u \in Ticket /\ u \in Serial /\ tickets'[u] = tickets[u] /\ u \in Rows
      BY <1>6, <1>7, <1>10, <2>2 DEF Rows, Serial
    <3> QED  BY <3>1 DEF PauseInv
  <2> QED  BY <2>1, <2>2
<1> QED  BY <1>7, <1>10 DEF PauseInv, Clocked, OnTime, Running, Never

LEMMA PauseMark ==
  ASSUME TypeInv, PauseInv, NEW t \in Ticket, Merge(t) \/ Age(t)
  PROVE  PauseInv'
<1>1. tickets \in [Ticket -> TicketRec] /\ tickets[t] \in TicketRec  BY DEF TypeInv, TypeOK
<1>2. \A u \in Ticket \ {t} : tickets'[u] = tickets[u]  BY <1>1 DEF Merge, Age
<1>3. Merge(t) => t \notin Serial'  BY DEF Merge, Serial
<1>4. Age(t) => SameClock(tickets'[t], tickets[t]) /\ tickets'[t].status = tickets[t].status
  <2> SUFFICES ASSUME Age(t)
               PROVE  SameClock(tickets'[t], tickets[t]) /\ tickets'[t].status = tickets[t].status
    OBVIOUS
  <2>1. tickets'[t] = [tickets[t] EXCEPT !.aged = TRUE]  BY <1>1 DEF Age
  <2> QED  BY <1>1, <2>1, AgedField
<1>5. ASSUME NEW u \in Rows', u \in Serial'
      PROVE  /\ u \in Rows /\ SameClock(tickets'[u], tickets[u])
             /\ tickets'[u].status = tickets[u].status
  <2>1. CASE u = t  BY <2>1, <1>3, <1>4, <1>5 DEF Rows
  <2>2. CASE u # t  BY <2>2, <1>2 DEF Rows, SameClock
  <2> QED  BY <2>1, <2>2
<1>6. /\ waited' = waited /\ now' = now /\ repriced \subseteq repriced'
      /\ overlapped \subseteq overlapped' /\ merged \subseteq merged'
  BY DEF Merge, Age, history
<1> QED  BY <1>5, <1>6, PauseTable

LEMMA PauseWrite ==
  ASSUME TypeInv, SerialInv, PauseInv, NEW r \in Request, UpdateWrite(r)
  PROVE  PauseInv'
<1>1. PICK e, row :
        /\ e \in Edit
        /\ row = Edited(tickets[req[r].id], req[r].before, e)
        /\ \A u \in Ticket : tickets'[u] = IF u = req[r].id THEN row ELSE tickets[u]
        /\ repriced' = IF row.prio # tickets[req[r].id].prio \/ Reprices(req[r].before, e)
                         THEN repriced \cup {req[r].id} ELSE repriced
  BY WriteFacts
<1>2. req[r].id \in Rows  BY WriteFacts
<1>3. /\ now' = now /\ waited' = waited /\ overlapped' = overlapped /\ merged' = merged
      /\ Serial' = Serial /\ repriced \subseteq repriced'
  BY <1>1 DEF UpdateWrite, Serial
<1>4. ASSUME NEW u \in Rows', u \in Serial'
      PROVE  /\ Clocked(tickets'[u], waited[u], now)
             /\ u \notin repriced' => OnTime(tickets'[u], waited[u], now)
  <2>1. CASE u = req[r].id
    <3>1. PICK c, b, w : c = tickets[u] /\ b = req[r].before /\ w = waited[u]  OBVIOUS
    <3>2. u \in Ticket /\ u \in Rows /\ u \in Serial  BY <1>2, <1>3, <1>4, <2>1 DEF Rows
    <3>3. c \in TicketRec /\ b \in TicketRec /\ Agrees(b, c) /\ w \in Nat
      <4>1. w \in Nat  BY <3>1, <3>2, Priorities DEF TypeInv, TypeOK, Span
      <4> QED  BY <4>1, <2>1, <3>1, <3>2, SerialWrite
    <3>4. Clocked(c, w, now) /\ (u \notin repriced => OnTime(c, w, now))
      BY <3>1, <3>2 DEF PauseInv
    <3>5. e \in Edit /\ row = Edited(c, b, e) /\ tickets'[u] = row  BY <1>1, <2>1, <3>1, <3>2
    <3>6. TypeOK  BY DEF TypeInv
    <3>7. Clocked(row, w, now)  BY <3>3, <3>4, <3>5, <3>6, EditedClocked
    <3>8. u \notin repriced' => u \notin repriced /\ row.prio = c.prio /\ ~Reprices(b, e)
      BY <1>1, <2>1, <3>1
    <3>9. u \notin repriced' => OnTime(row, w, now)
      BY <3>3, <3>4, <3>5, <3>6, <3>8, EditedOnTime
    <3> QED  BY <3>1, <3>5, <3>7, <3>9
  <2>2. CASE u # req[r].id
    <3>1. u \in Ticket /\ u \in Serial /\ tickets'[u] = tickets[u] /\ u \in Rows
      BY <1>1, <1>3, <1>4, <2>2 DEF Rows
    <3> QED  BY <3>1, <1>3 DEF PauseInv
  <2> QED  BY <2>1, <2>2
<1> QED  BY <1>3, <1>4 DEF PauseInv, Clocked, OnTime, Running, Never

LEMMA PauseCron ==
  ASSUME TypeInv, SerialInv, PauseInv, CronStep
  PROVE  PauseInv'
<1>1. \A u \in Ticket : tickets[u] \in TicketRec  BY DEF TypeInv, TypeOK
<1>2. /\ waited' = waited /\ now' = now /\ repriced' = repriced
      /\ overlapped \subseteq overlapped' /\ merged' = merged
  BY DEF CronStep, SweepRead, SweepWrite, SweepFails, CloseRead, CloseWrite, CloseFails, history
<1>3. CASE SweepWrite
  <2>1. \A u \in Rows' : u \in Rows /\ SameClock(tickets'[u], tickets[u])
                         /\ tickets'[u].status = tickets[u].status
    <3> TAKE u \in Rows'
    <3>1. u \in Ticket  BY DEF Rows
    <3>2. CASE u \in sweep
      <4>1. tickets'[u] = [tickets[u] EXCEPT !.breached = TRUE]  BY <1>3, <3>1, <3>2 DEF SweepWrite
      <4> QED  BY <3>1, <4>1, <1>1, BreachedField DEF Rows
    <3>3. CASE u \notin sweep
      <4>1. tickets'[u] = tickets[u]  BY <1>3, <3>1, <3>3 DEF SweepWrite
      <4> QED  BY <4>1 DEF SameClock, Rows
    <3> QED  BY <3>2, <3>3
  <2> QED  BY <1>2, <2>1, PauseTable
<1>4. CASE CloseWrite
  <2>1. ASSUME NEW u \in Rows', u \in Serial'
        PROVE  /\ u \in Rows /\ SameClock(tickets'[u], tickets[u])
               /\ \/ tickets'[u].status = tickets[u].status
                  \/ "WAITING_ON_USER" \notin {tickets[u].status, tickets'[u].status}
    <3>1. u \in Ticket  BY DEF Rows
    <3>2. CASE u \in closing
      <4>1. tickets'[u] = [tickets[u] EXCEPT !.status = "CLOSED"]  BY <1>4, <3>1, <3>2 DEF CloseWrite
      <4>2. SameClock(tickets'[u], tickets[u]) /\ tickets'[u].status = "CLOSED"
        BY <3>1, <4>1, <1>1, StatusField DEF Status
      <4>3. u \in Serial  BY <1>2, <2>1 DEF Serial
      <4>4. tickets[u].status = "RESOLVED"  BY <3>2, <4>3 DEF SerialInv
      <4> QED  BY <3>1, <4>2, <4>4 DEF Rows
    <3>3. CASE u \notin closing
      <4>1. tickets'[u] = tickets[u]  BY <1>4, <3>1, <3>3 DEF CloseWrite
      <4> QED  BY <4>1 DEF SameClock, Rows
    <3> QED  BY <3>2, <3>3
  <2> QED  BY <1>2, <2>1, PauseTable
<1>5. CASE SweepRead \/ SweepFails \/ CloseRead \/ CloseFails
  <2>1. tickets' = tickets  BY <1>5 DEF SweepRead, SweepFails, CloseRead, CloseFails
  <2> QED  BY <1>2, <2>1, PauseTable DEF SameClock, Rows
<1> QED  BY <1>3, <1>4, <1>5 DEF CronStep

LEMMA PauseTick ==
  ASSUME TypeInv, PauseInv, Tick
  PROVE  PauseInv'
<1>1. /\ now' = now + 1 /\ tickets' = tickets /\ repriced' = repriced
      /\ Rows' = Rows /\ Serial' = Serial
      /\ \A t \in Ticket : waited'[t] = IF Waiting(t) THEN waited[t] + 1 ELSE waited[t]
  BY DEF Tick, Rows, Serial
<1>2. ASSUME NEW t \in Rows, t \in Serial
      PROVE  /\ Clocked(tickets[t], waited'[t], now + 1)
             /\ t \notin repriced => OnTime(tickets[t], waited'[t], now + 1)
  <2>1. PICK c : c = tickets[t]  OBVIOUS
  <2>2. t \in Ticket /\ c \in TicketRec /\ waited[t] \in Int /\ now \in Int
    BY <2>1, Priorities DEF Rows, TypeInv, TypeOK, Span, Time
  <2>3. /\ c.since \in Int /\ c.paused \in Int /\ c.resolveBy \in Int /\ c.created \in Int
        /\ ResolveIn[c.prio] \in Int
    BY <2>2, Fields, Priorities DEF Time, Never
  <2>4. Clocked(c, waited[t], now) /\ (t \notin repriced => OnTime(c, waited[t], now))
    BY <1>2, <2>1 DEF PauseInv
  <2>5. CASE c.status = "WAITING_ON_USER"
    <3>1. waited'[t] = waited[t] + 1  BY <1>1, <2>1, <2>2, <2>5 DEF Waiting
    <3> QED  BY <2>1, <2>2, <2>3, <2>4, <2>5, <3>1 DEF Clocked, OnTime, Running
  <2>6. CASE c.status # "WAITING_ON_USER"
    <3>1. waited'[t] = waited[t]  BY <1>1, <2>1, <2>2, <2>6 DEF Waiting
    <3> QED  BY <2>1, <2>4, <2>6, <3>1 DEF Clocked, OnTime, Running
  <2> QED  BY <2>5, <2>6
<1> QED  BY <1>1, <1>2 DEF PauseInv, Clocked, OnTime, Running, Never

LEMMA PauseStep == TypeInv /\ SerialInv /\ PauseInv /\ [Next]_vars => PauseInv'
<1> SUFFICES ASSUME TypeInv, SerialInv, PauseInv, [Next]_vars PROVE PauseInv'  OBVIOUS
<1>1. ASSUME NEW t \in Ticket, Create(t) \/ Merge(t) \/ Age(t) PROVE PauseInv'
  BY <1>1, PauseCreate, PauseMark
<1>2. ASSUME NEW r \in Request, (\E t \in Ticket : UpdateRead(r, t)) \/ UpdateFails(r)
      PROVE  PauseInv'
  <2>1. /\ tickets' = tickets /\ waited' = waited /\ now' = now /\ repriced' = repriced
        /\ overlapped \subseteq overlapped' /\ merged' = merged
    BY <1>2 DEF UpdateRead, UpdateFails, history
  <2> QED  BY <2>1, PauseTable DEF SameClock, Rows
<1>3. ASSUME NEW r \in Request, UpdateWrite(r) PROVE PauseInv'  BY <1>3, PauseWrite
<1>4. CASE CronStep  BY <1>4, PauseCron
<1>5. CASE Tick  BY <1>5, PauseTick
<1>6. CASE UNCHANGED vars
  <2>1. /\ tickets' = tickets /\ waited' = waited /\ now' = now /\ repriced' = repriced
        /\ overlapped' = overlapped /\ merged' = merged
    BY <1>6 DEF vars, history
  <2> QED  BY <2>1, PauseTable DEF SameClock, Rows
<1> QED  BY <1>1, <1>2, <1>3, <1>4, <1>5, <1>6 DEF Next

\* tickets.service.ts:481-500: over any number of pauses, the time spent waiting
\* for the user is accounted for and the deadline is pushed by just that much.
THEOREM PauseCorrect == Spec => []WaitingIsFree
<1>1. Init => PauseInv
  BY NoTicketType DEF Init, PauseInv, Rows
<1> QED  BY <1>1, TypeAlways, SerialAlways, PauseStep, PauseIsFree, PTL DEF Spec

-----------------------------------------------------------------------------
(* What the SLA record of a ticket says is not taken back.                  *)

\* Row d, written over row c, takes back nothing.
Stands(c, d) ==
  /\ c.breached => d.breached
  /\ c.paused <= d.paused
  /\ c.prio = d.prio => c.resolveBy <= d.resolveBy

LEMMA SameStands ==
  ASSUME NEW c \in TicketRec, NEW d \in TicketRec, SameClock(d, c), c.breached => d.breached
  PROVE  Stands(c, d)
<1>1. c.paused \in Nat /\ c.resolveBy \in Int
  BY DEF TicketRec
<1> QED  BY <1>1 DEF Stands, SameClock

\* An update leaves the breach alone, and of what it has read adds to the pause and the deadline.
LEMMA EditedStands ==
  ASSUME TypeInv, NEW c \in TicketRec, NEW b \in TicketRec, NEW e \in Edit, NEW d,
         d = Edited(c, b, e), b.since <= now
  PROVE  (c.breached => d.breached) /\ (Agrees(b, c) => Stands(c, d))
<1>1. now \in Nat /\ b.since \in Int /\ c.paused \in Nat /\ c.resolveBy \in Int /\ b.prio \in Nat
  BY Fields, Priorities DEF TypeInv, TypeOK, Time, Never
<1>2. c.breached => d.breached
  BY EditedStatus
<1>3. ASSUME Agrees(b, c) PROVE Stands(c, d)
  <2>1. b.paused = c.paused /\ b.prio = c.prio /\ b.resolveBy = c.resolveBy
    BY <1>3 DEF Agrees
  <2>2. d.paused = (IF Resumes(b, e) THEN b.paused + (now - b.since) ELSE c.paused)
        /\ d.resolveBy = Deadline(c, b, e)
    BY EditedClock
  <2>3. c.paused <= d.paused
    BY <1>1, <2>1, <2>2
  <2>4. Reprices(b, e) => d.prio # c.prio
    <3>1. CASE Escalates(b, e)
      <4>1. d.prio = b.prio - 1
        BY <3>1, EditedPrio
      <4>2. b.prio - 1 # b.prio
        BY <1>1
      <4> QED  BY <2>1, <4>1, <4>2
    <3>2. CASE ~Escalates(b, e)
      BY <2>1, <3>2, EditedPrio DEF Reprices
    <3> QED  BY <3>1, <3>2
  <2>5. ~Reprices(b, e) => c.resolveBy <= d.resolveBy
    BY <1>1, <2>1, <2>2 DEF Deadline
  <2> QED  BY <1>2, <2>3, <2>4, <2>5 DEF Stands
<1> QED  BY <1>2, <1>3

LEMMA StandsStep ==
  ASSUME TypeInv, SerialInv, [Next]_vars, NEW t \in Rows, t \in Ticket
  PROVE  /\ tickets[t].breached => tickets'[t].breached
         /\ t \in Serial' => Stands(tickets[t], tickets'[t])
<1>1. tickets \in [Ticket -> TicketRec] /\ tickets[t] \in TicketRec  BY DEF TypeInv, TypeOK
<1>2. Stands(tickets[t], tickets[t])
  BY <1>1, SameStands DEF SameClock
<1>3. CASE tickets'[t] = tickets[t]
  BY <1>2, <1>3
<1>4. ASSUME NEW d \in TicketRec, tickets'[t] = d, SameClock(d, tickets[t]), tickets[t].breached => d.breached
      PROVE  Stands(tickets[t], tickets'[t]) /\ (tickets[t].breached => tickets'[t].breached)
  BY <1>1, <1>4, SameStands
<1>5. ASSUME NEW u \in Ticket, Create(u) \/ Merge(u) \/ Age(u)
      PROVE  Stands(tickets[t], tickets'[t]) /\ (tickets[t].breached => tickets'[t].breached)
  <2>1. CASE u # t \/ Create(u)
    <3>1. u # t
      BY <2>1 DEF Create
    <3>2. tickets'[t] = tickets[t]
      BY <1>1, <1>5, <3>1 DEF Create, Merge, Age
    <3> QED  BY <1>2, <3>2
  <2>2. CASE u = t /\ Merge(u)
    <3>1. PICK d : d = [tickets[t] EXCEPT !.status = "CLOSED"]
      OBVIOUS
    <3>2. tickets'[t] = d
      BY <1>1, <2>2, <3>1 DEF Merge
    <3>3. d \in TicketRec /\ SameClock(d, tickets[t]) /\ d.breached = tickets[t].breached
      BY <1>1, <3>1, StatusField DEF Status
    <3> QED  BY <1>4, <3>2, <3>3
  <2>3. CASE u = t /\ Age(u)
    <3>1. PICK d : d = [tickets[t] EXCEPT !.aged = TRUE]
      OBVIOUS
    <3>2. tickets'[t] = d
      BY <1>1, <2>3, <3>1 DEF Age
    <3>3. d \in TicketRec /\ SameClock(d, tickets[t]) /\ d.breached = tickets[t].breached
      BY <1>1, <3>1, AgedField
    <3> QED  BY <1>4, <3>2, <3>3
  <2> QED  BY <1>5, <2>1, <2>2, <2>3
<1>6. ASSUME NEW r \in Request, UpdateWrite(r)
      PROVE  /\ tickets[t].breached => tickets'[t].breached
             /\ t \in Serial' => Stands(tickets[t], tickets'[t])
  <2>1. PICK e, row :
          /\ e \in Edit
          /\ row = Edited(tickets[req[r].id], req[r].before, e)
          /\ \A u \in Ticket : tickets'[u] = IF u = req[r].id THEN row ELSE tickets[u]
    BY <1>6, WriteFacts
  <2>2. CASE t = req[r].id
    <3>1. req[r].before \in TicketRec /\ req[r].before.since <= now
      BY <1>6, WriteFacts DEF TypeInv, ClocksBehind
    <3>2. /\ tickets[t].breached => row.breached
          /\ Agrees(req[r].before, tickets[t]) => Stands(tickets[t], row)
      BY <1>1, <2>1, <2>2, <3>1, EditedStands
    <3>3. t \in Serial' => Agrees(req[r].before, tickets[t])
      <4>1. t \in Serial' => t \in Serial
        BY <1>6 DEF UpdateWrite, Serial
      <4> QED  BY <1>6, <2>2, <4>1, SerialWrite
    <3>4. tickets'[t] = row
      BY <2>1, <2>2
    <3> QED  BY <3>2, <3>3, <3>4
  <2>3. CASE t # req[r].id
    <3>1. tickets'[t] = tickets[t]
      BY <2>1, <2>3
    <3> QED  BY <1>2, <3>1
  <2> QED  BY <2>2, <2>3
<1>7. CASE SweepWrite
  <2>1. CASE t \in sweep
    <3>1. PICK d : d = [tickets[t] EXCEPT !.breached = TRUE]
      OBVIOUS
    <3>2. tickets'[t] = d
      BY <1>7, <2>1, <3>1 DEF SweepWrite
    <3>3. d \in TicketRec /\ SameClock(d, tickets[t]) /\ d.breached
      BY <1>1, <3>1, BreachedField
    <3> QED  BY <1>4, <3>2, <3>3
  <2>2. CASE t \notin sweep
    <3>1. tickets'[t] = tickets[t]
      BY <1>7, <2>2 DEF SweepWrite
    <3> QED  BY <1>2, <3>1
  <2> QED  BY <2>1, <2>2
<1>8. CASE CloseWrite
  <2>1. CASE t \in closing
    <3>1. PICK d : d = [tickets[t] EXCEPT !.status = "CLOSED"]
      OBVIOUS
    <3>2. tickets'[t] = d
      BY <1>8, <2>1, <3>1 DEF CloseWrite
    <3>3. d \in TicketRec /\ SameClock(d, tickets[t]) /\ d.breached = tickets[t].breached
      BY <1>1, <3>1, StatusField DEF Status
    <3> QED  BY <1>4, <3>2, <3>3
  <2>2. CASE t \notin closing
    <3>1. tickets'[t] = tickets[t]
      BY <1>8, <2>2 DEF CloseWrite
    <3> QED  BY <1>2, <3>1
  <2> QED  BY <2>1, <2>2
<1>9. CASE tickets' = tickets
  BY <1>3, <1>9
<1> QED
  BY <1>5, <1>6, <1>7, <1>8, <1>9
  DEF Next, CronStep, UpdateRead, UpdateFails, SweepRead, SweepFails, CloseRead, CloseFails,
      Tick, vars

\* tickets.service.ts:471-500, tickets.cron.ts: what the SLA record of a ticket says is not taken
\* back.  No edit, however late it is written, clears a breach that a sweep has recorded
\* meanwhile; and of a ticket that one request handles at a time neither the paused time falls
\* nor the deadline comes forward, but with another priority.
THEOREM RecordsCorrect == Spec => RecordsStand
<1>1. TypeInv /\ SerialInv /\ [Next]_vars =>
        [\A t \in Rows :
           /\ tickets[t].breached => tickets'[t].breached
           /\ t \notin overlapped' \cup merged' =>
                /\ tickets[t].paused <= tickets'[t].paused
                /\ tickets[t].prio = tickets'[t].prio => tickets[t].resolveBy <= tickets'[t].resolveBy]_vars
  BY StandsStep DEF Stands, Serial, Rows
<1> QED  BY <1>1, TypeAlways, SerialAlways, PTL DEF Spec, RecordsStand
=============================================================================
