----------------------------- MODULE BusinessTime -----------------------------
(***************************************************************************)
(* Business time (helpdesk/business-hours.service.ts): the opening hours   *)
(* of the weekdays, the holidays, and the deadline that lies so many       *)
(* minutes of opening time after a given moment.                           *)
(*                                                                         *)
(* Time is counted in units from a midnight.  The server runs in UTC, so   *)
(* the day a moment belongs to and the day a holiday falls on agree.  The  *)
(* tables are read through a cache, which the edits of the same process    *)
(* empty; a second process that still uses its copy is left out.           *)
(***************************************************************************)
EXTENDS Integers, FiniteSets, FiniteSetsExt

CONSTANTS
  Week,       \* days in a week, 7
  DayLength,  \* units in a day
  Window,     \* hours that may be entered: <<open, close>>
  Default,    \* the hours of the row that the first read makes
  Date,       \* days that may be entered as holidays
  LookAhead,  \* days in which an open one is looked for, 29
  FarAway,    \* where the search goes on if there is none, 365 days later
  MaxIters,   \* days a walk goes through at most, 730
  MaxAsked    \* bound on the business time that is added

VARIABLES
  hours,      \* the BusinessHours row: the window of each weekday
  holidays    \* the Holiday table

vars == <<hours, holidays>>

TypeOK == hours \in [0..(Week - 1) -> Window] /\ holidays \subseteq Date

updateConfig(weekday, window) ==
  hours' = [hours EXCEPT ![weekday] = window] /\ UNCHANGED holidays

addHoliday(date) == holidays' = holidays \cup {date} /\ UNCHANGED hours
removeHoliday(date) == holidays' = holidays \ {date} /\ UNCHANGED hours

-----------------------------------------------------------------------------
dayOf(t) == t \div DayLength
openOf(d) == d * DayLength + hours[d % Week][1]
closeOf(d) == d * DayLength + hours[d % Week][2]

\* Whether getDayWindow finds a window: a day without hours has none, like one that
\* closes before it opens.
hasWindow(d) == d \notin holidays /\ openOf(d) < closeOf(d)

\* When the next day opens that does.
nextDayStart(t) ==
  LET days == {d \in dayOf(t) + 1 .. dayOf(t) + LookAhead : hasWindow(d)} IN
  IF days = {} THEN t + FarAway ELSE openOf(Min(days))

\* mutant: the time before the day opens is counted
turnFromMidnight(w) ==
  LET d == dayOf(w.cursor) IN
  IF w.remaining = 0 THEN w
  ELSE IF ~hasWindow(d) \/ w.cursor >= closeOf(d) THEN [w EXCEPT !.cursor = nextDayStart(@)]
  ELSE IF closeOf(d) - w.cursor >= w.remaining THEN [cursor |-> w.cursor + w.remaining, remaining |-> 0]
  ELSE [cursor |-> nextDayStart(w.cursor), remaining |-> w.remaining - (closeOf(d) - w.cursor)]

\* One turn of the loop: what is left either fits into the day of the cursor, or the rest of
\* that day is taken off and the cursor goes on to the next open one.
turn(w) ==
  LET d == dayOf(w.cursor)
      start == IF w.cursor < openOf(d) THEN openOf(d) ELSE w.cursor
      room == closeOf(d) - start IN
  IF w.remaining = 0 THEN w
  ELSE IF ~hasWindow(d) \/ room <= 0 THEN [w EXCEPT !.cursor = nextDayStart(@)]
  ELSE IF room >= w.remaining THEN [cursor |-> start + w.remaining, remaining |-> 0]
  ELSE [cursor |-> nextDayStart(start), remaining |-> w.remaining - room]

\* Where the loop gets to.
addBusinessMs(from, minutes) ==
  LET walk[i \in 0..MaxIters] ==
        IF i = 0 THEN [cursor |-> from, remaining |-> minutes] ELSE turn(walk[i - 1])
  IN walk[MaxIters].cursor

-----------------------------------------------------------------------------
Init == hours = Default /\ holidays = {}

Next ==
  \/ \E weekday \in 0..(Week - 1), window \in Window : updateConfig(weekday, window)
  \/ \E date \in Date : addHoliday(date) \/ removeHoliday(date)

Spec == Init /\ [][Next]_vars

-----------------------------------------------------------------------------
\* Moments of opening time in a span.
Opening(from, to) ==
  {t \in from..(to - 1) : hasWindow(dayOf(t)) /\ t >= openOf(dayOf(t)) /\ t < closeOf(dayOf(t))}

\* From no day that a walk can get to are so many closed days ahead that the search for an
\* open one gives up.
NeverShut ==
  \A d \in 0..(Week + MaxAsked * LookAhead) : \E e \in d + 1 .. d + LookAhead : hasWindow(e)

\* The time fits into the days that a walk goes through, however short they are: all but one,
\* since it may set out on a day that is over.
InReach(minutes) ==
  \A d \in 0..(Week - 1) :
    hours[d][1] < hours[d][2] => minutes <= (MaxIters - 1) * (hours[d][2] - hours[d][1])

\* A deadline leaves exactly the business time that was added, from wherever it is
\* counted, and is the first moment that does: over weekdays of any hours, closed
\* ones and holidays, as long as some day opens within the days looked ahead and the
\* walk is not cut off.
DeadlineLeavesTime ==
  NeverShut =>
    \A from \in 0..(Week * DayLength), minutes \in 1..MaxAsked :
      InReach(minutes) =>
        LET due == addBusinessMs(from, minutes) IN
        /\ Cardinality(Opening(from, due)) = minutes
        /\ due - 1 \in Opening(from, due)

\* Counting more business time, or from a later moment, never gives an earlier deadline,
\* whatever closed hours, nights and holidays the two walks go through.
DeadlinesInOrder ==
  NeverShut =>
    \A from, later \in 0..(Week * DayLength), minutes, more \in 1..MaxAsked :
      from <= later /\ minutes <= more /\ InReach(more) =>
        addBusinessMs(from, minutes) <= addBusinessMs(later, more)
=============================================================================
