---------------------------- MODULE WebCacheProofs ----------------------------
(***************************************************************************)
(* Proofs about the web client's cache, for any set of screens whose       *)
(* operations are accounted for: after onSuccess no answer from before the *)
(* write is fresh, on its way, or at rest on display.                      *)
(***************************************************************************)
EXTENDS WebCache, TLAPS

\* Only an operation that was chosen is started.
Chosen == pair # NoPair => pair \in Pair

Waiting == pair = NoPair => write = "no"

\* After an onSuccess that names the key, and found no old answer on its way.
Renewed ==
  write = "told" /\ pair.told /\ ~overtaken =>
    /\ flight # "old"
    /\ cache = "old" => ~fresh
    /\ shown /\ flight = "none" /\ cache = "old" => failed

IInv == Chosen /\ Waiting /\ Renewed

LEMMA InitInv == Init => IInv
  BY DEF Init, IInv, Chosen, Waiting, Renewed, NoPair

LEMMA NextInv == IInv /\ [Next]_vars => IInv'
<1> SUFFICES ASSUME IInv, [Next]_vars PROVE IInv'
  OBVIOUS
<1> USE DEF IInv
<1>1. Chosen' /\ Waiting'
  <2>1. CASE Visit
    BY <2>1 DEF Chosen, Waiting, Visit
  <2>2. CASE Send \/ Commit \/ LoseAnswer \/ Told
    BY <2>2 DEF Chosen, Waiting, Send, Commit, LoseAnswer, Told
  <2>3. CASE UNCHANGED <<pair, write>>
    BY <2>3 DEF Chosen, Waiting
  <2> QED
    BY <2>1, <2>2, <2>3 DEF Next, vars, Show, Hide, Age, Poll, Read, Answer, FetchFails
<1>2. Renewed'
  <2>1. CASE Visit \/ Send \/ Commit \/ LoseAnswer
    BY <2>1 DEF Chosen, Waiting, Renewed, Visit, Send, Commit, LoseAnswer
  <2>2. CASE Show \/ Hide
    BY <2>2 DEF Renewed, Show, Hide
  <2>3. CASE Age \/ Poll
    BY <2>3 DEF Renewed, Age, Poll
  <2>4. CASE Read
    BY <2>4 DEF Renewed, Read
  <2>5. CASE Answer
    BY <2>5 DEF Renewed, Answer
  <2>6. CASE FetchFails
    BY <2>6 DEF Renewed, FetchFails
  <2>7. CASE Told
    <3>1. CASE pair.told
      BY <2>7, <3>1 DEF Renewed, Told, Invalidate
    <3>2. CASE ~pair.told
      BY <2>7, <3>2 DEF Renewed, Told
    <3> QED
      BY <3>1, <3>2
  <2>8. CASE UNCHANGED vars
    BY <2>8 DEF Renewed, vars
  <2> QED
    BY <2>1, <2>2, <2>3, <2>4, <2>5, <2>6, <2>7, <2>8 DEF Next
<1> QED
  BY <1>1, <1>2

LEMMA InvShown == Accounted /\ IInv => OwnWriteShown
  BY DEF Accounted, IInv, Chosen, Waiting, Renewed, OwnWriteShown

\* For any screens: where every query an operation changes is named by its onSuccess, polls,
\* or is in the lists of exceptions, no screen rests on an answer from before an operation
\* that succeeded, but after a failed fetch or one that onSuccess could not cancel.
THEOREM OwnWriteIsShown == ASSUME Accounted PROVE Spec => []OwnWriteShown
<1>1. Spec => []IInv
  BY InitInv, NextInv, PTL DEF Spec
<1>2. IInv => OwnWriteShown
  BY InvShown
<1> QED
  BY <1>1, <1>2, PTL
=============================================================================
