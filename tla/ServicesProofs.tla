---------------------------- MODULE ServicesProofs ----------------------------
(***************************************************************************)
(* Proofs about the services of MCServices, for any number of mails, PCs,  *)
(* runs, scans, videos and processes, and any bounds.  A behaviour of      *)
(* MCServices is, for each service, one of that service: its steps are the *)
(* service's, or leave its tables alone.                                   *)
(***************************************************************************)
EXTENDS MCServices, FiniteSetTheorems, SequenceTheorems, WellFoundedInduction, TLAPS

LEMMA Steps ==
  ASSUME [ServicesNext]_AllVars
  PROVE  /\ [Next]_vars /\ [Backups!Next]_backupVars /\ [Alerting!Next]_alertVars
         /\ [Coding!Next]_codingVars
  BY DEF ServicesNext, AllVars, OnMail, OnBackups, OnAlerts, OnCoding

-----------------------------------------------------------------------------
(* Sequences without repetitions.                                          *)

LEMMA RangeIs ==
  ASSUME NEW S, NEW s \in Seq(S)
  PROVE  Range(s) = {s[i] : i \in 1..Len(s)} /\ Range(s) \subseteq S
  BY DEF Range

LEMMA InjectiveIs ==
  ASSUME NEW S, NEW s \in Seq(S)
  PROVE  IsInjective(s) <=> \A i, j \in 1..Len(s) : s[i] = s[j] => i = j
  BY DEF IsInjective

LEMMA NothingIn ==
  ASSUME NEW S, NEW s \in Seq(S), Len(s) = 0
  PROVE  Range(s) = {} /\ IsInjective(s)
<1>1. \A i \in 1..Len(s) : FALSE
  OBVIOUS
<1>2. Range(s) = {}
  <2>1. DOMAIN s = {}
    BY <1>1
  <2> QED  BY <2>1 DEF Range
<1> QED  BY <1>1, <1>2, InjectiveIs

\* Taking the first of a sequence that has one.
LEMMA Behead ==
  ASSUME NEW S, NEW s \in Seq(S), s # << >>, IsInjective(s)
  PROVE  /\ Head(s) \in S /\ Head(s) \in Range(s)
         /\ Tail(s) \in Seq(S) /\ IsInjective(Tail(s)) /\ Range(Tail(s)) = Range(s) \ {Head(s)}
         /\ Tail(s) = << >> <=> Len(s) = 1
<1>1. /\ Len(s) \in Nat \ {0} /\ Head(s) = s[1] /\ Tail(s) \in Seq(S) /\ Len(Tail(s)) = Len(s) - 1
      /\ \A i \in 1..Len(Tail(s)) : Tail(s)[i] = s[i + 1]
  BY HeadTailProperties
<1>2. \A i \in 1..Len(Tail(s)) : i + 1 \in 1..Len(s)
  BY <1>1
<1>3. \A i \in 2..Len(s) : i - 1 \in 1..Len(Tail(s)) /\ Tail(s)[i - 1] = s[i]
  BY <1>1
<1>4. \A i, j \in 1..Len(s) : s[i] = s[j] => i = j
  BY InjectiveIs
<1>5. IsInjective(Tail(s))
  <2>1. \A i, j \in 1..Len(Tail(s)) : Tail(s)[i] = Tail(s)[j] => i + 1 = j + 1
    BY <1>1, <1>2, <1>4
  <2>2. \A i, j \in 1..Len(Tail(s)) : i + 1 = j + 1 => i = j
    OBVIOUS
  <2> QED  BY <1>1, <2>1, <2>2, InjectiveIs
<1>6. Range(Tail(s)) = Range(s) \ {Head(s)}
  <2>1. /\ Range(Tail(s)) = {Tail(s)[i] : i \in 1..Len(Tail(s))}
        /\ Range(s) = {s[i] : i \in 1..Len(s)}
    BY <1>1, RangeIs
  <2>2. ASSUME NEW i \in 1..Len(Tail(s)) PROVE Tail(s)[i] \in Range(s) /\ Tail(s)[i] # Head(s)
    <3>1. i + 1 \in 1..Len(s) /\ i + 1 # 1 /\ 1 \in 1..Len(s)
      BY <1>1, <1>2
    <3>2. s[i + 1] # s[1]
      BY <3>1, <1>4
    <3> QED  BY <3>1, <3>2, <1>1, <2>1
  <2>3. ASSUME NEW i \in 1..Len(s), s[i] # Head(s) PROVE s[i] \in Range(Tail(s))
    <3>1. i \in 2..Len(s)
      BY <2>3, <1>1
    <3> QED  BY <3>1, <1>3, <2>1
  <2> QED  BY <2>1, <2>2, <2>3
<1>7. Head(s) \in S /\ Head(s) \in Range(s)
  BY <1>1, RangeIs
<1>8. Tail(s) = << >> <=> Len(s) = 1
  <2>1. Tail(s) = << >> <=> Len(Tail(s)) = 0
    BY <1>1, EmptySeq
  <2> QED  BY <1>1, <2>1
<1> QED  BY <1>1, <1>5, <1>6, <1>7, <1>8

\* Taking the first n.
LEMMA FirstOnes ==
  ASSUME NEW S, NEW s \in Seq(S), s # << >>, IsInjective(s), NEW n \in 1..Len(s)
  PROVE  /\ SubSeq(s, 1, n) \in Seq(S) /\ SubSeq(s, 1, n) # << >> /\ IsInjective(SubSeq(s, 1, n))
         /\ Range(SubSeq(s, 1, n)) \subseteq Range(s)
<1> DEFINE r == SubSeq(s, 1, n)
<1>1. r \in Seq(S) /\ Len(r) = n /\ \A i \in 1..n : r[i] = s[i]
  BY SubSeqProperties
<1>2. \A i \in 1..n : i \in 1..Len(s)
  OBVIOUS
<1> HIDE DEF r
<1>3. r # << >>
  BY <1>1
<1>4. IsInjective(r)
  BY <1>1, <1>2, InjectiveIs
<1>5. Range(r) \subseteq Range(s)
  BY <1>1, <1>2, RangeIs
<1> QED  BY <1>1, <1>3, <1>4, <1>5 DEF r

\* Adding one that is not there.
LEMMA AddOne ==
  ASSUME NEW S, NEW s \in Seq(S), IsInjective(s), NEW x \in S, x \notin Range(s)
  PROVE  /\ Append(s, x) \in Seq(S) /\ IsInjective(Append(s, x))
         /\ Range(Append(s, x)) = Range(s) \cup {x}
<1> DEFINE r == Append(s, x)
<1>1. /\ r \in Seq(S) /\ Len(r) = Len(s) + 1 /\ \A i \in 1..Len(s) : r[i] = s[i]
      /\ r[Len(s) + 1] = x /\ Len(s) \in Nat
  BY AppendProperties
<1> HIDE DEF r
<1>2. 1..Len(r) = 1..Len(s) \cup {Len(s) + 1} /\ Len(s) + 1 \notin 1..Len(s)
  BY <1>1
<1>3. Range(r) = Range(s) \cup {x}
  BY <1>1, <1>2, RangeIs
<1>4. \A i \in 1..Len(s) : s[i] # x
  BY RangeIs
<1>5. IsInjective(r)
  BY <1>1, <1>2, <1>4, InjectiveIs
<1> QED  BY <1>1, <1>3, <1>5 DEF r

LEMMA LeastNatural ==
  ASSUME NEW T \in SUBSET Nat, T # {} PROVE \E x \in T : \A y \in T : x <= y
<1>1. PICK x \in T : \A y \in T : <<y, x>> \notin OpToRel(<, Nat)
  BY WFMin, NatLessThanWellFounded
<1>2. \A y \in T : <<y, x>> \in Nat \X Nat
  OBVIOUS
<1>3. \A y \in T : ~(y < x)
  BY <1>1, <1>2 DEF OpToRel
<1> QED  BY <1>3

\* What is left of the first i mails of s, as Without computes it.
LeftOf(s, D, left, i) ==
  IF i = 0 THEN << >> ELSE IF s[i] \in D THEN left[i - 1] ELSE Append(left[i - 1], s[i])

\* The recursive function that Without is defined by exists.
LEMMA LeftExists ==
  ASSUME NEW S, NEW s \in Seq(S), NEW D
  PROVE  \E left : left = [i \in 0..Len(s) |-> LeftOf(s, D, left, i)]
<1> DEFINE Good(n) == \E left : left = [i \in 0..n |-> LeftOf(s, D, left, i)]
           Bad == {n \in 0..Len(s) : ~Good(n)}
<1>1. Len(s) \in Nat
  OBVIOUS
<1>2. SUFFICES ASSUME Bad # {} PROVE FALSE
  BY <1>1
<1>3. PICK n \in Bad : \A k \in Bad : n <= k
  <2>1. Bad \in SUBSET Nat
    BY <1>1
  <2> QED  BY <1>2, <2>1, LeastNatural
<1>4. n \in 0..Len(s) /\ ~Good(n)
  OBVIOUS
<1>5. n # 0
  <2>1. SUFFICES ASSUME n = 0 PROVE Good(n)
    BY <1>4
  <2> DEFINE left == [i \in 0..0 |-> << >>]
  <2>2. left = [i \in 0..0 |-> LeftOf(s, D, left, i)]
    BY DEF LeftOf
  <2> QED  BY <2>1, <2>2
<1>6. n - 1 \in 0..Len(s) /\ n - 1 \notin Bad
  BY <1>1, <1>3, <1>4, <1>5
<1>7. PICK left : left = [i \in 0..(n - 1) |-> LeftOf(s, D, left, i)]
  BY <1>6
<1> DEFINE more == [i \in 0..n |-> IF i = n THEN LeftOf(s, D, left, n) ELSE left[i]]
<1>8. \A i \in 0..n : more[i] = LeftOf(s, D, more, i)
  <2>1. SUFFICES ASSUME NEW i \in 0..n PROVE more[i] = LeftOf(s, D, more, i)
    OBVIOUS
  <2>2. more[i] = LeftOf(s, D, left, i)
    <3>1. i # n => i \in 0..(n - 1)
      BY <1>4
    <3> QED  BY <3>1, <1>7
  <2>3. i # 0 => more[i - 1] = left[i - 1]
    <3>1. i # 0 => i - 1 \in 0..n /\ i - 1 # n
      BY <1>4
    <3> QED  BY <3>1
  <2> QED  BY <2>2, <2>3 DEF LeftOf
<1>9. more = [i \in 0..n |-> LeftOf(s, D, more, i)]
  BY <1>8
<1>10. Good(n)
  BY <1>9
<1> QED  BY <1>4, <1>10

LEMMA WithoutIs ==
  ASSUME NEW S, NEW s \in Seq(S), NEW D
  PROVE  \E left : /\ left = [i \in 0..Len(s) |-> LeftOf(s, D, left, i)]
                   /\ Without(s, D) = left[Len(s)]
<1> DEFINE left == CHOOSE left : left = [i \in 0..Len(s) |-> LeftOf(s, D, left, i)]
<1>1. left = [i \in 0..Len(s) |-> LeftOf(s, D, left, i)]
  BY LeftExists
<1>2. Without(s, D) = left[Len(s)]
  BY DEF Without, LeftOf
<1> QED  BY <1>1, <1>2

\* The mails that are left are those not deleted, each once.
LEMMA WithoutLeaves ==
  ASSUME NEW S, NEW s \in Seq(S), IsInjective(s), NEW D
  PROVE  /\ Without(s, D) \in Seq(S) /\ IsInjective(Without(s, D))
         /\ Range(Without(s, D)) = Range(s) \ D
<1>1. PICK left : /\ left = [i \in 0..Len(s) |-> LeftOf(s, D, left, i)]
                  /\ Without(s, D) = left[Len(s)]
  BY WithoutIs
<1> DEFINE First(i) == {s[j] : j \in 1..i}
           Good(i) == /\ left[i] \in Seq(S) /\ IsInjective(left[i])
                      /\ Range(left[i]) = First(i) \ D
           Bad == {i \in 0..Len(s) : ~Good(i)}
<1>2. Len(s) \in Nat /\ Range(s) = First(Len(s)) /\ \A i, j \in 1..Len(s) : s[i] = s[j] => i = j
  BY RangeIs, InjectiveIs
<1>3. SUFFICES ASSUME Bad # {} PROVE FALSE
  <2>1. Len(s) \in 0..Len(s)
    BY <1>2
  <2>2. Bad = {} => Good(Len(s))
    BY <2>1
  <2> QED  BY <2>2, <1>1, <1>2
<1>4. PICK n \in Bad : \A k \in Bad : n <= k
  <2>1. Bad \in SUBSET Nat
    BY <1>2
  <2> QED  BY <1>3, <2>1, LeastNatural
<1>5. n \in 0..Len(s) /\ ~Good(n)
  OBVIOUS
<1>6. left[n] = LeftOf(s, D, left, n)
  BY <1>1, <1>5
<1>7. n # 0
  <2>1. SUFFICES ASSUME n = 0 PROVE Good(n)
    BY <1>5
  <2>2. left[n] = << >>
    BY <1>6, <2>1 DEF LeftOf
  <2>3. << >> \in Seq(S) /\ Len(<< >>) = 0
    OBVIOUS
  <2>4. Range(<< >>) = {} /\ IsInjective(<< >>)
    BY <2>3, NothingIn
  <2>5. First(0) = {}
    OBVIOUS
  <2> QED  BY <2>1, <2>2, <2>3, <2>4, <2>5
<1>8. n - 1 \in 0..Len(s) /\ n \in 1..Len(s) /\ Good(n - 1)
  <2>1. n - 1 \in 0..Len(s) /\ n \in 1..Len(s) /\ ~(n <= n - 1)
    BY <1>2, <1>5, <1>7
  <2>2. n - 1 \notin Bad
    BY <2>1, <1>4
  <2> QED  BY <2>1, <2>2
<1>9. First(n) = First(n - 1) \cup {s[n]} /\ s[n] \notin First(n - 1)
  <2>1. 1..n = 1..(n - 1) \cup {n} /\ \A j \in 1..(n - 1) : j \in 1..Len(s) /\ j # n
    BY <1>8
  <2> QED  BY <2>1, <1>2, <1>8
<1>10. s[n] \in S
  BY <1>8
<1> HIDE DEF First, Bad
<1>11. CASE s[n] \in D
  <2>1. left[n] = left[n - 1]
    BY <1>11, <1>6, <1>7 DEF LeftOf
  <2>2. First(n) \ D = First(n - 1) \ D
    BY <1>9, <1>11
  <2> QED  BY <2>1, <2>2, <1>5, <1>8
<1>12. CASE s[n] \notin D
  <2>1. left[n] = Append(left[n - 1], s[n])
    BY <1>12, <1>6, <1>7 DEF LeftOf
  <2>2. s[n] \notin Range(left[n - 1])
    BY <1>8, <1>9
  <2>3. /\ Append(left[n - 1], s[n]) \in Seq(S) /\ IsInjective(Append(left[n - 1], s[n]))
        /\ Range(Append(left[n - 1], s[n])) = Range(left[n - 1]) \cup {s[n]}
    BY <2>2, <1>8, <1>10, AddOne
  <2>4. First(n) \ D = (First(n - 1) \ D) \cup {s[n]}
    BY <1>9, <1>12
  <2>5. Good(n)
    BY <2>1, <2>3, <2>4, <1>8
  <2> QED  BY <2>5, <1>5
<1> QED  BY <1>11, <1>12
-----------------------------------------------------------------------------
(* The mailbox.                                                            *)

PollRec == [step : {"idle", "look", "ingest", "tag", "quit"}, ahead : Seq(Mail), done : SUBSET Mail]

OnServer == Range(mailbox)
Ahead == Range(poll.ahead)
Answerable(m) == kind[m] \in {"new", "reply"}
Untagged(m) == poll.step = "tag" /\ m = cur

\* A poll works through mails of the mailbox, each once.
PollRuns ==
  /\ mailbox \in Seq(Mail) /\ IsInjective(mailbox) /\ poll \in PollRec /\ IsInjective(poll.ahead)
  /\ poll.step = "idle" => poll = NoPoll
  /\ poll.step \in {"look", "ingest", "tag"} <=> poll.ahead # << >>
  /\ Ahead \subseteq OnServer \ poll.done /\ poll.done \subseteq OnServer

\* What it is through with, or has deleted, has become what it is to become.
MadeOf(m) ==
  /\ kind[m] = "none" => m \notin OnServer
  /\ Answerable(m) /\ (m \in poll.done \/ m \notin OnServer) => made[m] > 0
  /\ ~Answerable(m) => made[m] = 0
  /\ m \in tagged => kind[m] = "new" /\ made[m] > 0
  /\ poll.step = "ingest" => cur \notin tagged
  /\ Untagged(m) => Answerable(m) /\ made[m] > 0

\* Each ticket and comment but one was made again because of a failure or a mail kept.
BoundOf(m) ==
  /\ kind[m] = "new" => made[m] <= cuts[m] + IF m \in tagged \/ Untagged(m) THEN 1 ELSE 0
  /\ kind[m] = "reply" =>
       made[m] <= cuts[m] + kept[m] + IF m \in poll.done \/ m \notin OnServer \/ Untagged(m)
                                      THEN 1 ELSE 0

MailsMade == \A m \in Mail : MadeOf(m)
MadeBounded == \A m \in Mail : BoundOf(m)

Counted ==
  /\ kind \in [Mail -> {"none", "new", "reply", "void"}]
  /\ made \in [Mail -> Nat] /\ tagged \subseteq Mail
  /\ cuts \in [Mail -> 0..MaxCuts] /\ kept \in [Mail -> 0..MaxKept]

MailInv == Counted /\ PollRuns /\ MailsMade /\ MadeBounded

LEMMA MailTyped == MailInv => TypeOK
<1> SUFFICES ASSUME MailInv PROVE TypeOK
  OBVIOUS
<1>1. Range(mailbox) \subseteq Mail /\ Range(poll.ahead) \subseteq Mail
  BY RangeIs DEF MailInv, PollRuns, PollRec
<1> QED  BY <1>1 DEF MailInv, Counted, PollRuns, PollRec, TypeOK

\* What a poll looks like when it has a mail at hand.
LEMMA AtHand ==
  ASSUME PollRuns, poll.step \in {"look", "ingest", "tag"}
  PROVE  /\ poll.ahead \in Seq(Mail) /\ poll.ahead # << >> /\ Len(poll.ahead) \in Nat
         /\ cur \in Mail /\ cur \in Ahead /\ cur \in OnServer /\ cur \notin poll.done
         /\ Tail(poll.ahead) \in Seq(Mail) /\ IsInjective(Tail(poll.ahead))
         /\ Range(Tail(poll.ahead)) = Ahead \ {cur}
         /\ Tail(poll.ahead) = << >> <=> Len(poll.ahead) = 1
         /\ poll.done \in SUBSET Mail
<1>1. poll.ahead \in Seq(Mail) /\ poll.ahead # << >> /\ IsInjective(poll.ahead)
      /\ poll.done \in SUBSET Mail
  BY DEF PollRuns, PollRec
<1>2. /\ cur \in Mail /\ cur \in Ahead
      /\ Tail(poll.ahead) \in Seq(Mail) /\ IsInjective(Tail(poll.ahead))
      /\ Range(Tail(poll.ahead)) = Ahead \ {cur}
      /\ Tail(poll.ahead) = << >> <=> Len(poll.ahead) = 1
  BY <1>1, Behead DEF cur, Ahead
<1>3. cur \in OnServer /\ cur \notin poll.done
  BY <1>2 DEF PollRuns
<1> QED  BY <1>1, <1>2, <1>3

\* The poll goes on to the next mail, through with this one or not.
LEMMA GoesOn ==
  ASSUME PollRuns, poll.step \in {"look", "ingest", "tag"}, UNCHANGED mailbox,
         poll' = Through \/ poll' = GiveUp
  PROVE  /\ PollRuns' /\ poll'.step \in {"look", "quit"}
         /\ poll' = Through => poll'.done = poll.done \cup {cur}
         /\ poll' = GiveUp => poll'.done = poll.done
<1> DEFINE st == IF Len(poll.ahead) = 1 THEN "quit" ELSE "look"
<1>1. poll \in PollRec
  BY DEF PollRuns
<1>a. Through = [poll EXCEPT !.step = st, !.ahead = Tail(poll.ahead), !.done = poll.done \cup {cur}]
  BY DEF Through
<1> DEFINE tail == Tail(poll.ahead)
           done == poll.done \cup {cur}
<1>b. Through = [poll EXCEPT !.step = st, !.ahead = tail, !.done = done]
  BY <1>a
<1> HIDE DEF st, tail, done
<1>2. Through = [step |-> st, ahead |-> tail, done |-> done]
  BY <1>1, <1>b DEF PollRec
<1>3. GiveUp = [step |-> st, ahead |-> tail, done |-> poll.done]
  BY <1>2 DEF GiveUp
<1>c. PICK d \in {poll.done, done} : poll' = [step |-> st, ahead |-> tail, done |-> d]
  BY <1>2, <1>3
<1>d. poll'.step = st /\ poll'.ahead = tail /\ poll'.done = d
  BY <1>c
<1>4. /\ poll'.step = st /\ poll'.ahead = Tail(poll.ahead)
      /\ poll'.done \in {poll.done, poll.done \cup {cur}}
      /\ poll' = [step |-> poll'.step, ahead |-> poll'.ahead, done |-> poll'.done]
  BY <1>c, <1>d DEF tail, done
<1>e. /\ poll' = Through => poll'.done = poll.done \cup {cur}
      /\ poll' = GiveUp => poll'.done = poll.done
  BY <1>2, <1>3 DEF done
<1> USE DEF st
<1>5. poll' \in PollRec
  <2>1. st \in {"look", "quit"}
    OBVIOUS
  <2>2. poll'.ahead \in Seq(Mail) /\ poll'.done \in SUBSET Mail
    BY <1>4, AtHand
  <2> QED  BY <1>4, <2>1, <2>2 DEF PollRec
<1>6. Ahead' = Ahead \ {cur} /\ OnServer' = OnServer
  BY <1>4, AtHand DEF Ahead, OnServer
<1>7. Ahead' \subseteq OnServer' \ poll'.done /\ poll'.done \subseteq OnServer'
  BY <1>4, <1>6, AtHand DEF PollRuns
<1>8. IsInjective(poll'.ahead) /\ (poll'.step \in {"look", "ingest", "tag"} <=> poll'.ahead # << >>)
  BY <1>4, AtHand
<1>9. PollRuns'
  <2>1. mailbox' \in Seq(Mail) /\ IsInjective(mailbox')
    BY DEF PollRuns
  <2>2. poll'.step # "idle"
    BY <1>4
  <2> QED  BY <2>1, <2>2, <1>5, <1>7, <1>8 DEF PollRuns
<1> QED  BY <1>4, <1>9, <1>e

\* The poll takes the next step with the mail at hand.
LEMMA StaysAt ==
  ASSUME PollRuns, poll.step \in {"look", "ingest", "tag"}, UNCHANGED mailbox,
         NEW st \in {"ingest", "tag"}, poll' = [poll EXCEPT !.step = st]
  PROVE  PollRuns' /\ poll'.step = st /\ poll'.done = poll.done /\ cur' = cur
<1>1. /\ poll' \in PollRec /\ poll'.step = st /\ poll'.done = poll.done
      /\ poll'.ahead = poll.ahead
  BY DEF PollRuns, PollRec
<1>2. cur' = cur /\ Ahead' = Ahead /\ OnServer' = OnServer
  BY <1>1 DEF cur, Ahead, OnServer
<1> QED  BY <1>1, <1>2 DEF PollRuns

LEMMA NoMails == Range(<< >>) = {} /\ IsInjective(<< >>) /\ << >> \in Seq(Mail)
<1>1. << >> \in Seq(Mail) /\ Len(<< >>) = 0
  OBVIOUS
<1> QED  BY <1>1, NothingIn

\* The poll has ended.
LEMMA Stopped ==
  ASSUME PollRuns, poll' = NoPoll, mailbox' \in Seq(Mail), IsInjective(mailbox')
  PROVE  PollRuns' /\ poll'.step = "idle" /\ poll'.done = {}
<1>1. Range(<< >>) = {} /\ IsInjective(<< >>) /\ << >> \in Seq(Mail)
  BY NoMails
<1>2. NoPoll \in PollRec
  BY <1>1 DEF NoPoll, PollRec
<1> QED  BY <1>1, <1>2 DEF PollRuns, NoPoll, Ahead

LEMMA MailInitial == Init => MailInv
<1> SUFFICES ASSUME Init PROVE MailInv
  OBVIOUS
<1>1. Range(<< >>) = {} /\ IsInjective(<< >>) /\ << >> \in Seq(Mail)
  BY NoMails
<1>2. Counted
  BY ServicesAssumption DEF Init, Counted
<1>3. PollRuns
  BY <1>1 DEF Init, PollRuns, NoPoll, PollRec, Ahead, OnServer
<1>4. MailsMade
  BY <1>1 DEF Init, MailsMade, MadeOf, NoPoll, OnServer, Answerable, Untagged
<1>5. MadeBounded
  BY DEF Init, MadeBounded, BoundOf
<1> QED  BY <1>2, <1>3, <1>4, <1>5 DEF MailInv

LEMMA ArriveMail ==
  ASSUME MailInv, NEW m \in Mail, Arrive(m)
  PROVE  MailInv'
<1>1. PICK k \in {"new", "reply", "void"} : kind' = [kind EXCEPT ![m] = k]
  BY DEF Arrive
<1>2. UNCHANGED <<made, tagged, poll, cuts, kept>> /\ mailbox' = Append(mailbox, m) /\ kind[m] = "none"
  BY DEF Arrive
<1>3. m \notin OnServer
  BY <1>2 DEF MailInv, MailsMade, MadeOf
<1>4. mailbox' \in Seq(Mail) /\ IsInjective(mailbox') /\ OnServer' = OnServer \cup {m}
  BY <1>2, <1>3, AddOne DEF MailInv, PollRuns, OnServer
<1>5. Counted'
  BY <1>1, <1>2 DEF MailInv, Counted
<1>6. PollRuns'
  BY <1>2, <1>4 DEF MailInv, PollRuns, Ahead
<1>7. /\ kind[m] = "none" /\ made[m] = 0 /\ m \notin tagged /\ m \notin poll.done /\ kind'[m] = k
      /\ \A x \in Mail \ {m} : kind'[x] = kind[x]
  BY <1>1, <1>2, <1>3 DEF MailInv, MailsMade, MadeOf, Answerable, PollRuns, Counted
<1>8. poll.step \in {"ingest", "tag"} => cur \in Mail \ {m} /\ cur' = cur
  BY <1>2, <1>3, AtHand DEF MailInv, cur
<1>9. MailsMade'
  <2>1. SUFFICES ASSUME NEW x \in Mail PROVE MadeOf(x)'
    BY DEF MailsMade
  <2>2. MadeOf(x)
    BY DEF MailInv, MailsMade
  <2>3. CASE x = m
    BY <2>2, <2>3, <1>2, <1>4, <1>7, <1>8 DEF MadeOf, Answerable, Untagged
  <2>4. CASE x # m
    BY <2>2, <2>4, <1>2, <1>4, <1>7, <1>8 DEF MadeOf, Answerable, Untagged
  <2> QED  BY <2>3, <2>4
<1>10. MadeBounded'
  <2>1. SUFFICES ASSUME NEW x \in Mail PROVE BoundOf(x)'
    BY DEF MadeBounded
  <2>2. cuts[x] \in Nat /\ kept[x] \in Nat /\ cuts'[x] = cuts[x] /\ kept'[x] = kept[x] /\ made'[x] = made[x]
    BY <1>2, ServicesAssumption DEF MailInv, Counted
  <2>3. CASE x = m
    BY <2>2, <2>3, <1>7 DEF BoundOf
  <2>4. CASE x # m
    <3>1. kind'[x] = kind[x] /\ Untagged(x)' = Untagged(x) /\ tagged' = tagged /\ poll'.done = poll.done
          /\ (x \in OnServer' <=> x \in OnServer)
      BY <2>4, <1>2, <1>4, <1>7, <1>8 DEF Untagged, cur
    <3> QED  BY <3>1, <2>2 DEF MailInv, MadeBounded, BoundOf
  <2> QED  BY <2>3, <2>4
<1> QED  BY <1>5, <1>6, <1>9, <1>10 DEF MailInv

\* The numbers of a mail.
LEMMA Numbers ==
  ASSUME Counted, NEW x \in Mail
  PROVE  made[x] \in Nat /\ cuts[x] \in Nat /\ kept[x] \in Nat
  BY ServicesAssumption DEF Counted

LEMMA PollNowMail ==
  ASSUME MailInv, pollNow
  PROVE  MailInv'
<1>1. /\ UNCHANGED <<kind, mailbox, made, tagged, cuts, kept>> /\ mailbox # << >> /\ poll = NoPoll
      /\ poll' = [step |-> "look", ahead |-> toProcess, done |-> {}]
  BY DEF pollNow
<1>2. toProcess \in Seq(Mail) /\ toProcess # << >> /\ IsInjective(toProcess)
      /\ Range(toProcess) \subseteq OnServer
  <2>1. mailbox \in Seq(Mail) /\ IsInjective(mailbox)
    BY DEF MailInv, PollRuns
  <2>2. Len(mailbox) \in Nat \ {0}
    BY <2>1, <1>1, EmptySeq
  <2> DEFINE n == IF Len(mailbox) < MaxPerRun THEN Len(mailbox) ELSE MaxPerRun
  <2>3. n \in 1..Len(mailbox) /\ toProcess = SubSeq(mailbox, 1, n)
    BY <2>2, ServicesAssumption DEF toProcess
  <2> HIDE DEF n
  <2> QED  BY <2>1, <2>3, <1>1, FirstOnes DEF OnServer
<1>3. PollRuns'
  <2>1. poll' \in PollRec
    BY <1>1, <1>2 DEF PollRec
  <2>2. Ahead' \subseteq OnServer' /\ OnServer' = OnServer
    BY <1>1, <1>2 DEF Ahead, OnServer
  <2> QED  BY <1>1, <1>2, <2>1, <2>2 DEF MailInv, PollRuns
<1>4. OnServer' = OnServer /\ poll'.step = "look" /\ poll'.done = {} /\ poll.step = "idle" /\ poll.done = {}
  BY <1>1 DEF OnServer, NoPoll
<1>5. MailsMade'
  BY <1>1, <1>4 DEF MailInv, MailsMade, MadeOf, Answerable, Untagged
<1>6. MadeBounded'
  BY <1>1, <1>4 DEF MailInv, MadeBounded, BoundOf, Untagged
<1> QED  BY <1>1, <1>3, <1>5, <1>6 DEF MailInv, Counted

LEMMA LookMail ==
  ASSUME MailInv, Look
  PROVE  MailInv'
<1>1. UNCHANGED <<kind, mailbox, made, tagged, cuts, kept>> /\ poll.step = "look" /\ PollRuns
  BY DEF Look, MailInv
<1>2. OnServer' = OnServer
  BY <1>1 DEF OnServer
<1>3. Counted'
  BY <1>1 DEF MailInv, Counted
<1>4. CASE cur \in tagged
  <2>1. poll' = Through
    BY <1>4 DEF Look
  <2>2. PollRuns' /\ poll'.step \in {"look", "quit"} /\ poll'.done = poll.done \cup {cur}
    BY <2>1, <1>1, GoesOn
  <2>3. cur \in Mail /\ cur \in OnServer
    BY <1>1, AtHand
  <2>4. MailsMade'
    BY <2>2, <2>3, <1>1, <1>2, <1>4 DEF MailInv, MailsMade, MadeOf, Answerable, Untagged
  <2>5. MadeBounded'
    <3>1. SUFFICES ASSUME NEW x \in Mail PROVE BoundOf(x)'
      BY DEF MadeBounded
    <3>2. BoundOf(x) /\ (x = cur => kind[x] = "new")
      BY <2>3, <1>4 DEF MailInv, MadeBounded, MailsMade, MadeOf
    <3> QED  BY <2>2, <3>2, <1>1, <1>2, Numbers DEF MailInv, BoundOf, Untagged
  <2> QED  BY <2>2, <2>4, <2>5, <1>3 DEF MailInv
<1>5. CASE cur \notin tagged
  <2>1. poll' = [poll EXCEPT !.step = "ingest"]
    BY <1>5 DEF Look
  <2>2. PollRuns' /\ poll'.step = "ingest" /\ poll'.done = poll.done /\ cur' = cur
    BY <2>1, <1>1, StaysAt
  <2>3. MailsMade'
    BY <2>2, <1>1, <1>2, <1>5 DEF MailInv, MailsMade, MadeOf, Answerable, Untagged
  <2>4. MadeBounded'
    BY <2>2, <1>1, <1>2 DEF MailInv, MadeBounded, BoundOf, Untagged
  <2> QED  BY <2>2, <2>3, <2>4, <1>3 DEF MailInv
<1> QED  BY <1>4, <1>5

LEMMA IngestMail ==
  ASSUME MailInv, Ingest
  PROVE  MailInv'
<1>1. UNCHANGED <<kind, mailbox, tagged, cuts, kept>> /\ poll.step = "ingest" /\ PollRuns /\ Counted
  BY DEF Ingest, MailInv
<1>2. OnServer' = OnServer
  BY <1>1 DEF OnServer
<1>3. cur \in Mail /\ cur \in OnServer /\ cur \notin poll.done /\ cur \notin tagged
  BY <1>1, AtHand DEF MailInv, MailsMade, MadeOf
<1>4. kind[cur] # "none"
  BY <1>3 DEF MailInv, MailsMade, MadeOf
<1>5. CASE kind[cur] = "void"
  <2>1. poll' = Through /\ made' = made
    BY <1>5 DEF Ingest
  <2>2. PollRuns' /\ poll'.step \in {"look", "quit"} /\ poll'.done = poll.done \cup {cur}
    BY <2>1, <1>1, GoesOn
  <2>3. Counted'
    BY <2>1, <1>1 DEF Counted
  <2>4. MailsMade'
    <3>1. ~Answerable(cur)
      BY <1>5 DEF Answerable
    <3> QED  BY <2>1, <2>2, <3>1, <1>1, <1>2 DEF MailInv, MailsMade, MadeOf, Answerable, Untagged
  <2>5. MadeBounded'
    <3>1. SUFFICES ASSUME NEW x \in Mail PROVE BoundOf(x)'
      BY DEF MadeBounded
    <3>2. BoundOf(x) /\ (x = cur => kind[x] = "void")
      BY <1>5 DEF MailInv, MadeBounded
    <3> QED  BY <2>1, <2>2, <3>2, <1>1, <1>2 DEF BoundOf, Untagged
  <2> QED  BY <2>2, <2>3, <2>4, <2>5 DEF MailInv
<1>6. CASE kind[cur] # "void"
  <2>1. poll' = [poll EXCEPT !.step = "tag"] /\ made' = [made EXCEPT ![cur] = @ + 1]
    BY <1>6 DEF Ingest
  <2>2. PollRuns' /\ poll'.step = "tag" /\ poll'.done = poll.done /\ cur' = cur
    BY <2>1, <1>1, StaysAt
  <2>3. \A x \in Mail : made'[x] = IF x = cur THEN made[x] + 1 ELSE made[x]
    <3>1. made \in [Mail -> Nat]
      BY <1>1 DEF Counted
    <3> QED  BY <2>1, <3>1
  <2>4. Counted'
    <3>1. made \in [Mail -> Nat] /\ made[cur] + 1 \in Nat
      BY <1>1, <1>3 DEF Counted
    <3>2. made' \in [Mail -> Nat]
      BY <2>1, <3>1
    <3> QED  BY <3>2, <1>1 DEF Counted
  <2>5. kind[cur] \in {"new", "reply"}
    BY <1>1, <1>3, <1>4, <1>6 DEF Counted
  <2>6. MailsMade'
    <3>1. SUFFICES ASSUME NEW x \in Mail PROVE MadeOf(x)'
      BY DEF MailsMade
    <3>2. MadeOf(x) /\ made[x] \in Nat
      BY <1>1, Numbers DEF MailInv, MailsMade
    <3>3. CASE x = cur
      BY <3>2, <3>3, <2>2, <2>3, <2>5, <1>1, <1>2, <1>3 DEF MadeOf, Answerable, Untagged
    <3>4. CASE x # cur
      BY <3>2, <3>4, <2>2, <2>3, <1>1, <1>2, <1>3 DEF MadeOf, Answerable, Untagged
    <3> QED  BY <3>3, <3>4
  <2>7. MadeBounded'
    <3>1. SUFFICES ASSUME NEW x \in Mail PROVE BoundOf(x)'
      BY DEF MadeBounded
    <3>2. BoundOf(x) /\ made[x] \in Nat /\ cuts[x] \in Nat /\ kept[x] \in Nat
      BY <1>1, Numbers DEF MailInv, MadeBounded
    <3>3. CASE x = cur
      BY <3>2, <3>3, <2>2, <2>3, <2>5, <1>1, <1>2, <1>3 DEF BoundOf, Untagged
    <3>4. CASE x # cur
      BY <3>2, <3>4, <2>2, <2>3, <1>1, <1>2, <1>3 DEF BoundOf, Untagged
    <3> QED  BY <3>3, <3>4
  <2> QED  BY <2>2, <2>4, <2>6, <2>7 DEF MailInv
<1> QED  BY <1>5, <1>6

LEMMA TagMail ==
  ASSUME MailInv, Tag
  PROVE  MailInv'
<1>1. /\ UNCHANGED <<kind, mailbox, made, cuts, kept>> /\ poll.step = "tag" /\ PollRuns /\ Counted
      /\ poll' = Through /\ tagged' = IF kind[cur] = "new" THEN tagged \cup {cur} ELSE tagged
  BY DEF Tag, MailInv
<1>2. OnServer' = OnServer
  BY <1>1 DEF OnServer
<1>3. cur \in Mail /\ cur \in OnServer /\ cur \notin poll.done /\ Untagged(cur)
  BY <1>1, AtHand DEF Untagged
<1>4. PollRuns' /\ poll'.step \in {"look", "quit"} /\ poll'.done = poll.done \cup {cur}
  BY <1>1, GoesOn
<1>5. Answerable(cur) /\ made[cur] > 0
  BY <1>3 DEF MailInv, MailsMade, MadeOf
<1>6. Counted'
  BY <1>1, <1>3 DEF Counted
<1>7. MailsMade'
  BY <1>1, <1>2, <1>4, <1>5 DEF MailInv, MailsMade, MadeOf, Answerable, Untagged
<1>8. MadeBounded'
  <2>1. SUFFICES ASSUME NEW x \in Mail PROVE BoundOf(x)'
    BY DEF MadeBounded
  <2>2. BoundOf(x)
    BY DEF MailInv, MadeBounded
  <2> QED  BY <2>2, <1>1, <1>2, <1>4 DEF BoundOf, Untagged
<1> QED  BY <1>4, <1>6, <1>7, <1>8 DEF MailInv

\* A failure after the ticket or the comment was written is counted.
Cut ==
  /\ poll.step = "tag" => cuts[cur] < MaxCuts
  /\ cuts' = IF poll.step = "tag" THEN [cuts EXCEPT ![cur] = @ + 1] ELSE cuts

LEMMA CutCounts ==
  ASSUME PollRuns, Counted, Cut
  PROVE  /\ cuts' \in [Mail -> 0..MaxCuts]
         /\ \A x \in Mail : cuts'[x] = cuts[x] + IF Untagged(x) THEN 1 ELSE 0
<1>1. cuts \in [Mail -> 0..MaxCuts] /\ MaxCuts \in Nat
  BY ServicesAssumption DEF Counted
<1>2. CASE poll.step = "tag"
  <2>1. cur \in Mail
    BY <1>2, AtHand
  <2>2. cuts' = [cuts EXCEPT ![cur] = cuts[cur] + 1] /\ cuts[cur] < MaxCuts
    BY <1>2 DEF Cut
  <2>3. cuts[cur] \in 0..MaxCuts /\ cuts[cur] + 1 \in 0..MaxCuts
    BY <1>1, <2>1, <2>2
  <2>4. \A x \in Mail : cuts'[x] = IF x = cur THEN cuts[x] + 1 ELSE cuts[x]
    BY <1>1, <2>2
  <2>5. cuts' \in [Mail -> 0..MaxCuts]
    BY <1>1, <2>2, <2>3
  <2>6. \A x \in Mail : cuts[x] \in Nat
    BY <1>1
  <2> QED  BY <2>4, <2>5, <2>6, <1>2 DEF Untagged
<1>3. CASE poll.step # "tag"
  BY <1>1, <1>3 DEF Cut, Untagged
<1> QED  BY <1>2, <1>3

LEMMA FailOneMail ==
  ASSUME MailInv, FailOne
  PROVE  MailInv'
<1>1. /\ UNCHANGED <<kind, mailbox, made, tagged, kept>> /\ poll.step \in {"ingest", "tag"}
      /\ poll' = GiveUp /\ PollRuns /\ Counted
  BY DEF FailOne, MailInv
<1>2. Cut
  BY DEF FailOne, Cut
<1>3. OnServer' = OnServer
  BY <1>1 DEF OnServer
<1>4. PollRuns' /\ poll'.step \in {"look", "quit"}
  BY <1>1, GoesOn
<1>5. poll'.done = poll.done
  BY <1>1, GoesOn
<1>6. /\ cuts' \in [Mail -> 0..MaxCuts]
      /\ \A x \in Mail : cuts'[x] = cuts[x] + IF Untagged(x) THEN 1 ELSE 0
  BY <1>1, <1>2, CutCounts
<1>7. Counted'
  BY <1>1, <1>6 DEF Counted
<1>8. MailsMade'
  BY <1>1, <1>3, <1>4, <1>5 DEF MailInv, MailsMade, MadeOf, Answerable, Untagged
<1>9. MadeBounded'
  <2>1. SUFFICES ASSUME NEW x \in Mail PROVE BoundOf(x)'
    BY DEF MadeBounded
  <2>2. BoundOf(x) /\ made[x] \in Nat /\ cuts[x] \in Nat /\ kept[x] \in Nat /\ ~Untagged(x)'
    BY <1>1, <1>4, Numbers DEF MailInv, MadeBounded, Untagged
  <2>3. cuts'[x] = cuts[x] + IF Untagged(x) THEN 1 ELSE 0
    BY <1>6
  <2> QED  BY <2>2, <2>3, <1>1, <1>3, <1>5 DEF BoundOf
<1> QED  BY <1>4, <1>7, <1>8, <1>9 DEF MailInv

LEMMA KeepCounts ==
  ASSUME Counted, NEW D \in SUBSET Mail, Keep(D)
  PROVE  /\ kept' \in [Mail -> 0..MaxKept]
         /\ \A x \in Mail : kept'[x] = kept[x] + IF x \in D THEN 1 ELSE 0
<1>1. kept \in [Mail -> 0..MaxKept] /\ MaxKept \in Nat
  BY ServicesAssumption DEF Counted
<1>2. kept' = [m \in Mail |-> IF m \in D THEN kept[m] + 1 ELSE kept[m]] /\ \A m \in D : kept[m] < MaxKept
  BY DEF Keep
<1>3. \A x \in Mail : kept[x] \in 0..MaxKept
  BY <1>1
<1>4. \A x \in Mail : kept'[x] = IF x \in D THEN kept[x] + 1 ELSE kept[x]
  BY <1>2
<1>5. \A x \in Mail : (IF x \in D THEN kept[x] + 1 ELSE kept[x]) \in 0..MaxKept
  BY <1>1, <1>2, <1>3
<1>6. kept' \in [Mail -> 0..MaxKept]
  BY <1>2, <1>5
<1> QED  BY <1>3, <1>4, <1>6

LEMMA QuitMail ==
  ASSUME MailInv, Quit
  PROVE  MailInv'
<1>1. /\ UNCHANGED <<kind, made, tagged, cuts>> /\ poll.step = "quit" /\ poll' = NoPoll
      /\ PollRuns /\ Counted
  BY DEF Quit, MailInv
<1>2. PICK D \in SUBSET poll.done : mailbox' = Without(mailbox, D) /\ Keep(poll.done \ D)
  BY DEF Quit
<1>3. poll.done \in SUBSET Mail
  BY <1>1 DEF PollRuns, PollRec
<1>4. /\ mailbox' \in Seq(Mail) /\ IsInjective(mailbox') /\ OnServer' = OnServer \ D
  BY <1>1, <1>2, WithoutLeaves DEF PollRuns, OnServer
<1>5. /\ kept' \in [Mail -> 0..MaxKept]
      /\ \A x \in Mail : kept'[x] = kept[x] + IF x \in poll.done \ D THEN 1 ELSE 0
  BY <1>1, <1>2, <1>3, KeepCounts
<1>6. PollRuns' /\ poll'.step = "idle" /\ poll'.done = {}
  BY <1>1, <1>4, Stopped
<1>7. Counted'
  BY <1>1, <1>5 DEF Counted
<1>8. MailsMade'
  BY <1>1, <1>2, <1>4, <1>6 DEF MailInv, MailsMade, MadeOf, Answerable, Untagged
<1>9. MadeBounded'
  <2>1. SUFFICES ASSUME NEW x \in Mail PROVE BoundOf(x)'
    BY DEF MadeBounded
  <2>2. BoundOf(x) /\ made[x] \in Nat /\ cuts[x] \in Nat /\ kept[x] \in Nat /\ ~Untagged(x) /\ ~Untagged(x)'
    BY <1>1, <1>6, Numbers DEF MailInv, MadeBounded, Untagged
  <2>3. kept'[x] = kept[x] + IF x \in poll.done \ D THEN 1 ELSE 0
    BY <1>5
  <2> QED  BY <2>2, <2>3, <1>1, <1>2, <1>4, <1>6 DEF BoundOf
<1> QED  BY <1>6, <1>7, <1>8, <1>9 DEF MailInv

LEMMA BreakMail ==
  ASSUME MailInv, Break
  PROVE  MailInv'
<1>1. /\ UNCHANGED <<kind, mailbox, made, tagged>> /\ poll' = NoPoll /\ PollRuns /\ Counted
      /\ Keep(poll.done) /\ Cut
  BY DEF Break, Cut, MailInv
<1>2. OnServer' = OnServer /\ poll.done \in SUBSET Mail
  BY <1>1 DEF OnServer, PollRuns, PollRec
<1>3. /\ kept' \in [Mail -> 0..MaxKept]
      /\ \A x \in Mail : kept'[x] = kept[x] + IF x \in poll.done THEN 1 ELSE 0
  BY <1>1, <1>2, KeepCounts
<1>4. /\ cuts' \in [Mail -> 0..MaxCuts]
      /\ \A x \in Mail : cuts'[x] = cuts[x] + IF Untagged(x) THEN 1 ELSE 0
  BY <1>1, CutCounts
<1>5. PollRuns' /\ poll'.step = "idle" /\ poll'.done = {}
  BY <1>1, Stopped DEF PollRuns
<1>6. Counted'
  BY <1>1, <1>3, <1>4 DEF Counted
<1>7. MailsMade'
  BY <1>1, <1>2, <1>5 DEF MailInv, MailsMade, MadeOf, Answerable, Untagged
<1>8. MadeBounded'
  <2>1. SUFFICES ASSUME NEW x \in Mail PROVE BoundOf(x)'
    BY DEF MadeBounded
  <2>2. BoundOf(x) /\ made[x] \in Nat /\ cuts[x] \in Nat /\ kept[x] \in Nat /\ ~Untagged(x)'
    BY <1>1, <1>5, Numbers DEF MailInv, MadeBounded, Untagged
  <2>3. /\ kept'[x] = kept[x] + IF x \in poll.done THEN 1 ELSE 0
        /\ cuts'[x] = cuts[x] + IF Untagged(x) THEN 1 ELSE 0
    BY <1>3, <1>4
  <2> QED  BY <2>2, <2>3, <1>1, <1>2, <1>5 DEF BoundOf
<1> QED  BY <1>5, <1>6, <1>7, <1>8 DEF MailInv

LEMMA MailStep == MailInv /\ [Next]_vars => MailInv'
<1> SUFFICES ASSUME MailInv, [Next]_vars PROVE MailInv'
  OBVIOUS
<1>1. CASE UNCHANGED vars
  <2>1. UNCHANGED <<OnServer, Ahead, cur>>
    BY <1>1 DEF vars, OnServer, Ahead, cur
  <2>2. Counted' /\ PollRuns'
    BY <1>1, <2>1 DEF vars, MailInv, Counted, PollRuns
  <2>3. MailsMade' /\ MadeBounded'
    BY <1>1, <2>1 DEF vars, MailInv, MailsMade, MadeOf, MadeBounded, BoundOf, Answerable, Untagged
  <2> QED  BY <2>2, <2>3 DEF MailInv
<1>2. ASSUME NEW m \in Mail, Arrive(m) PROVE MailInv'
  BY <1>2, ArriveMail
<1> QED  BY <1>1, <1>2, PollNowMail, LookMail, IngestMail, TagMail, FailOneMail, QuitMail, BreakMail
         DEF Next

\* E-mails (email-ingest.service.ts): none is lost, whatever fails and however often the
\* connection breaks, and each one too many can be laid at the door of a failure.
THEOREM MailsCorrect == ServicesSpec => []MailsAccounted
<1>1. MailInv => MailsAccounted
  <2>1. SUFFICES ASSUME MailInv, NEW m \in Mail
                 PROVE  /\ kind[m] \in {"new", "reply"} /\ m \notin Range(mailbox) => made[m] > 0
                        /\ made[m] <= 1 + cuts[m] + IF kind[m] = "reply" THEN kept[m] ELSE 0
    BY DEF MailsAccounted
  <2>2. MadeOf(m) /\ BoundOf(m)
    BY <2>1 DEF MailInv, MailsMade, MadeBounded
  <2>3. made[m] \in Nat /\ cuts[m] \in Nat /\ kept[m] \in Nat
    BY <2>1, Numbers DEF MailInv
  <2> QED  BY <2>2, <2>3 DEF MadeOf, BoundOf, Answerable, OnServer
<1>2. ServicesInit => MailInv
  BY MailInitial DEF ServicesInit
<1>3. MailInv /\ [ServicesNext]_AllVars => MailInv'
  BY MailStep, Steps
<1> QED  BY <1>1, <1>2, <1>3, PTL DEF ServicesSpec

-----------------------------------------------------------------------------
(* The transcoding.                                                        *)

VideoRec == [status : Coding!Status, good : BOOLEAN, fits : SUBSET Quality]
WorkerRec == [step : {"idle", "taken", "source", "encode", "save"},
              video : SUBSET Video, left : SUBSET Quality, at : SUBSET Quality]

\* A process works on one video, and on one quality of it at a time.
Single(r) ==
  /\ \A u, v \in r.video : u = v
  /\ \A p, q \in r.at : p = q
  /\ r.step \notin {"encode", "save"} => r.left = {}
  /\ r.step # "save" => r.at = {}
  /\ r.at \cap r.left = {}

Encoded(v, q) == row[<<v, q>>] # "none"

\* How far a process, whose record is r, is with video v, the rows say as well.
AtWork(r, v) ==
  /\ r.step = "taken" => video[v].status \in {"PENDING", "deleted"}
  /\ r.step \in {"source", "encode", "save"} => video[v].status \in {"RUNNING", "deleted"}
  /\ r.step = "source" => \A q \in Quality : ~Encoded(v, q)
  /\ \A q \in r.left \cup r.at : ~Encoded(v, q)
  /\ \A q \in r.at : object[<<v, q>>] \in Encoding
  /\ r.step \in {"encode", "save"} /\ Coding!There(v) =>
       \A q \in video[v].fits \ (r.left \cup r.at) : Encoded(v, q)

\* A video that was not queued across a process has at most one, none while its rows are
\* still to be deleted, and the rows that its status calls for.
VideoInv(v) ==
  /\ \A w, u \in Worker : Coding!Works(w, v) /\ Coding!Works(u, v) => w = u
  /\ v \in again => /\ video[v].status \in {"PENDING", "deleted"}
                    /\ \A w \in Worker : ~Coding!Works(w, v)
  /\ video[v].status = "none" => v \notin again /\ \A w \in Worker : ~Coding!Works(w, v)
  /\ video[v].status \in {"none", "deleted"} \/ (video[v].status = "PENDING" /\ v \notin again)
       => \A q \in Quality : ~Encoded(v, q)
  /\ video[v].status = "DONE" => \A q \in video[v].fits : Encoded(v, q)
  /\ \A q \in Quality :
       row[<<v, q>>] \in Encoding /\ ~Coding!Saving(v, q) => row[<<v, q>>] = object[<<v, q>>]
  /\ \A w \in Worker : Coding!Works(w, v) => AtWork(worker[w], v)

CodingTyped ==
  /\ video \in [Video -> VideoRec]
  /\ row \in [Coding!Slot -> Encoding \cup {"none", "upload"}]
  /\ object \in [Coding!Slot -> Encoding \cup {"none"}]
  /\ worker \in [Worker -> WorkerRec]
  /\ again \in SUBSET Video /\ crossed \in SUBSET Video /\ crashed \in SUBSET Video
  /\ stops \in 0..MaxCrashes /\ asked \in 0..MaxAgain

CodingInv ==
  /\ CodingTyped
  /\ \A w \in Worker : Single(worker[w])
  /\ \A v \in Video \ crossed : VideoInv(v)

LEMMA CodingIsTyped == CodingTyped => Coding!TypeOK
  BY DEF CodingTyped, Coding!TypeOK, VideoRec, WorkerRec

LEMMA IdleType == Coding!Idle \in WorkerRec /\ Single(Coding!Idle) /\ Coding!Idle.step = "idle"
  BY DEF Coding!Idle, WorkerRec, Single

\* What a step that is about other videos, or ends a process, leaves of a video.
Untouched(v) ==
  /\ video'[v] = video[v]
  /\ \A q \in Quality : row'[<<v, q>>] = row[<<v, q>>] /\ object'[<<v, q>>] = object[<<v, q>>]
  /\ v \in again' <=> v \in again
  /\ \A w \in Worker : Coding!Works(w, v)' => Coding!Works(w, v) /\ worker'[w] = worker[w]

LEMMA StaysSo ==
  ASSUME NEW v \in Video, VideoInv(v), Untouched(v), CodingTyped
  PROVE  VideoInv(v)'
<1>1. \A q \in Quality : Encoded(v, q)' <=> Encoded(v, q)
  BY DEF Encoded, Untouched
<1>2. \A w, u \in Worker : Coding!Works(w, v)' /\ Coding!Works(u, v)' => w = u
  BY DEF VideoInv, Untouched
<1>3. /\ v \in again' => /\ video'[v].status \in {"PENDING", "deleted"}
                         /\ \A w \in Worker : ~Coding!Works(w, v)'
      /\ video'[v].status = "none" => v \notin again' /\ \A w \in Worker : ~Coding!Works(w, v)'
  BY DEF VideoInv, Untouched
<1>4. /\ video'[v].status \in {"none", "deleted"} \/ (video'[v].status = "PENDING" /\ v \notin again')
           => \A q \in Quality : ~Encoded(v, q)'
      /\ video'[v].status = "DONE" => \A q \in video'[v].fits : Encoded(v, q)'
  <2>1. video[v].fits \in SUBSET Quality
    BY DEF CodingTyped, VideoRec
  <2> QED  BY <1>1, <2>1 DEF VideoInv, Untouched
<1>5. ASSUME NEW q \in Quality, row'[<<v, q>>] \in Encoding, ~Coding!Saving(v, q)'
      PROVE  row'[<<v, q>>] = object'[<<v, q>>]
  <2>1. row'[<<v, q>>] = row[<<v, q>>] /\ object'[<<v, q>>] = object[<<v, q>>]
    BY DEF Untouched
  <2>2. CASE ~Coding!Saving(v, q)
    BY <1>5, <2>1, <2>2 DEF VideoInv
  <2>3. CASE Coding!Saving(v, q)
    <3>1. PICK w \in Worker : Coding!Works(w, v) /\ q \in worker[w].at
      BY <2>3 DEF Coding!Saving
    <3>2. ~Encoded(v, q)
      BY <3>1 DEF VideoInv, AtWork
    <3> QED  BY <3>2, <2>1, <1>5, ServicesAssumption DEF Encoded
  <2> QED  BY <2>2, <2>3
<1>6. ASSUME NEW w \in Worker, Coding!Works(w, v)' PROVE AtWork(worker[w], v)'
  <2>1. Coding!Works(w, v) /\ worker'[w] = worker[w] /\ AtWork(worker[w], v)
    BY <1>6 DEF Untouched, VideoInv
  <2>2. worker[w] \in WorkerRec /\ video[v].fits \in SUBSET Quality
    BY DEF CodingTyped, VideoRec
  <2>3. worker[w].left \in SUBSET Quality /\ worker[w].at \in SUBSET Quality
    BY <2>2 DEF WorkerRec
  <2>4. Coding!There(v)' <=> Coding!There(v)
    BY DEF Coding!There, Untouched
  <2> QED  BY <1>1, <2>1, <2>2, <2>3, <2>4 DEF AtWork, Untouched
<1> QED  BY <1>2, <1>3, <1>4, <1>5, <1>6 DEF VideoInv

\* A process turns to what rec says, about video v.
LEMMA Reassigned ==
  ASSUME CodingInv, NEW w \in Worker, NEW rec \in WorkerRec, Single(rec), NEW v, rec.video \subseteq {v},
         worker' = [worker EXCEPT ![w] = rec]
  PROVE  /\ worker' \in [Worker -> WorkerRec] /\ \A x \in Worker : Single(worker[x])'
         /\ worker'[w] = rec /\ \A x \in Worker \ {w} : worker'[x] = worker[x]
         /\ \A u \in Video, x \in Worker :
              u # v /\ Coding!Works(x, u)' => Coding!Works(x, u) /\ worker'[x] = worker[x]
<1>1. worker \in [Worker -> WorkerRec]
  BY DEF CodingInv, CodingTyped
<1>2. worker' \in [Worker -> WorkerRec] /\ worker'[w] = rec /\ \A x \in Worker \ {w} : worker'[x] = worker[x]
  BY <1>1
<1>3. \A x \in Worker : Single(worker[x])'
  BY <1>2 DEF CodingInv, Single
<1>4. \A u \in Video, x \in Worker :
        u # v /\ Coding!Works(x, u)' => Coding!Works(x, u) /\ worker'[x] = worker[x]
  <2>1. SUFFICES ASSUME NEW u \in Video, NEW x \in Worker, u # v, Coding!Works(x, u)' PROVE x # w
    BY <1>2 DEF Coding!Works
  <2> QED  BY <2>1, <1>2 DEF Coding!Works
<1> QED  BY <1>2, <1>3, <1>4

\* Its record while it is at a step of video v.
LEMMA Busy ==
  ASSUME CodingInv, NEW w \in Worker, NEW v \in Video, Coding!Works(w, v)
  PROVE  /\ worker[w] \in WorkerRec /\ Single(worker[w]) /\ worker[w].video = {v}
         /\ worker[w].left \in SUBSET Quality /\ worker[w].at \in SUBSET Quality
<1>1. worker[w] \in WorkerRec /\ Single(worker[w])
  BY DEF CodingInv, CodingTyped
<1>2. worker[w].left \in SUBSET Quality /\ worker[w].at \in SUBSET Quality
      /\ v \in worker[w].video /\ \A x, y \in worker[w].video : x = y
  BY <1>1 DEF WorkerRec, Single, Coding!Works
<1> QED  BY <1>1, <1>2

LEMMA Status ==
  ASSUME CodingTyped, NEW v \in Video
  PROVE  video[v] \in VideoRec /\ video[v].fits \in SUBSET Quality /\ video[v].status \in Coding!Status
  BY DEF CodingTyped, VideoRec

\* Rewriting the status of a video.
LEMMA StatusSet ==
  ASSUME CodingTyped, NEW v \in Video, NEW st \in Coding!Status, video' = [video EXCEPT ![v].status = st]
  PROVE  /\ video' \in [Video -> VideoRec]
         /\ video'[v].status = st /\ video'[v].fits = video[v].fits /\ video'[v].good = video[v].good
         /\ \A u \in Video \ {v} : video'[u] = video[u]
<1> DEFINE rec == [video[v] EXCEPT !.status = st]
<1>1. video \in [Video -> VideoRec] /\ video[v] \in VideoRec
  BY DEF CodingTyped
<1>2. rec \in VideoRec /\ rec.status = st /\ rec.fits = video[v].fits /\ rec.good = video[v].good
  BY <1>1 DEF VideoRec
<1>3. video' = [video EXCEPT ![v] = rec]
  OBVIOUS
<1> HIDE DEF rec
<1> QED  BY <1>1, <1>2, <1>3

\* Deleting the rows of a video.
LEMMA NoRowsIs ==
  ASSUME CodingTyped, NEW v \in Video
  PROVE  /\ Coding!NoRows(v) \in [Coding!Slot -> Encoding \cup {"none", "upload"}]
         /\ \A u \in Video, q \in Quality :
              Coding!NoRows(v)[<<u, q>>] = IF u = v THEN "none" ELSE row[<<u, q>>]
<1>1. row \in [Coding!Slot -> Encoding \cup {"none", "upload"}]
  BY DEF CodingTyped
<1>2. \A u \in Video, q \in Quality : <<u, q>> \in Coding!Slot /\ <<u, q>>[1] = u
  BY DEF Coding!Slot
<1>3. Coding!NoRows(v) \in [Coding!Slot -> Encoding \cup {"none", "upload"}]
  BY <1>1 DEF Coding!NoRows
<1>4. \A u \in Video, q \in Quality :
        Coding!NoRows(v)[<<u, q>>] = IF u = v THEN "none" ELSE row[<<u, q>>]
  BY <1>2 DEF Coding!NoRows
<1> QED  BY <1>3, <1>4

LEMMA CodingInitial == Coding!Init => CodingInv
<1> SUFFICES ASSUME Coding!Init PROVE CodingInv
  OBVIOUS
<1>1. CodingTyped
  <2>1. [status |-> "none", good |-> FALSE, fits |-> {}] \in VideoRec
    BY DEF VideoRec, Coding!Status
  <2> QED  BY <2>1, IdleType, ServicesAssumption DEF Coding!Init, CodingTyped
<1>2. \A w \in Worker : worker[w] = Coding!Idle
  BY DEF Coding!Init
<1>3. \A v \in Video, q \in Quality : ~Encoded(v, q)
  BY DEF Coding!Init, Encoded, Coding!Slot
<1>4. \A v \in Video : video[v].status = "none" /\ \A w \in Worker : ~Coding!Works(w, v)
  BY <1>2, IdleType DEF Coding!Init, Coding!Works
<1>5. again = {}
  BY DEF Coding!Init
<1>6. \A v \in Video : VideoInv(v)
  BY <1>3, <1>4, <1>5, ServicesAssumption DEF VideoInv, Encoded
<1> QED  BY <1>1, <1>2, <1>6, IdleType DEF CodingInv

\* The steps of the people.

LEMMA CreateVideo ==
  ASSUME CodingInv, NEW v \in Video, Coding!createVideo(v)
  PROVE  CodingInv'
<1>1. UNCHANGED <<row, object, worker, again, crossed, crashed, stops, asked>> /\ video[v].status = "none"
  BY DEF Coding!createVideo
<1>2. PICK F \in SUBSET Quality, g \in BOOLEAN :
        video' = [video EXCEPT ![v] = [status |-> "PENDING", good |-> g, fits |-> F]]
  BY DEF Coding!createVideo
<1>3. CodingTyped
  BY DEF CodingInv
<1> DEFINE rec == [status |-> "PENDING", good |-> g, fits |-> F]
<1>4. rec \in VideoRec /\ rec.status = "PENDING"
  BY DEF VideoRec, Coding!Status
<1>5. video' \in [Video -> VideoRec] /\ video'[v].status = "PENDING"
      /\ \A u \in Video \ {v} : video'[u] = video[u]
  <2>1. video \in [Video -> VideoRec] /\ video' = [video EXCEPT ![v] = rec]
    BY <1>2, <1>3 DEF CodingTyped
  <2> HIDE DEF rec
  <2> QED  BY <2>1, <1>4
<1>6. CodingTyped'
  BY <1>1, <1>3, <1>5 DEF CodingTyped
<1>7. \A w \in Worker : Single(worker[w])'
  BY <1>1 DEF CodingInv, Single
<1>8. ASSUME NEW u \in Video \ crossed' PROVE VideoInv(u)'
  <2>1. VideoInv(u) /\ u \in Video
    BY <1>1, <1>8 DEF CodingInv
  <2>2. \A q \in Quality : Encoded(u, q)' <=> Encoded(u, q)
    BY <1>1 DEF Encoded
  <2>3. \A w \in Worker : Coding!Works(w, u)' <=> Coding!Works(w, u)
    BY <1>1 DEF Coding!Works
  <2>4. CASE u = v
    <3>1. v \notin again /\ (\A w \in Worker : ~Coding!Works(w, v)) /\ \A q \in Quality : ~Encoded(v, q)
      BY <2>1, <2>4, <1>1 DEF VideoInv
    <3> QED  BY <3>1, <2>2, <2>3, <2>4, <1>1, <1>5, ServicesAssumption DEF VideoInv, Encoded
  <2>5. CASE u # v
    <3>1. Untouched(u)
      BY <2>3, <2>5, <1>1, <1>5 DEF Untouched
    <3> QED  BY <2>1, <3>1, <1>3, StaysSo
  <2> QED  BY <2>4, <2>5
<1> QED  BY <1>6, <1>7, <1>8 DEF CodingInv

LEMMA DeleteVideo ==
  ASSUME CodingInv, NEW v \in Video, Coding!deleteVideo(v)
  PROVE  CodingInv'
<1>1. /\ UNCHANGED <<object, worker, again, crossed, crashed, stops, asked>>
      /\ video' = [video EXCEPT ![v].status = "deleted"] /\ row' = Coding!NoRows(v)
  BY DEF Coding!deleteVideo
<1>2. CodingTyped
  BY DEF CodingInv
<1>3. /\ video' \in [Video -> VideoRec] /\ video'[v].status = "deleted"
      /\ \A u \in Video \ {v} : video'[u] = video[u]
  BY <1>1, <1>2, StatusSet DEF Coding!Status
<1>4. /\ row' \in [Coding!Slot -> Encoding \cup {"none", "upload"}]
      /\ \A u \in Video, q \in Quality : row'[<<u, q>>] = IF u = v THEN "none" ELSE row[<<u, q>>]
  BY <1>1, <1>2, NoRowsIs
<1>5. CodingTyped'
  BY <1>1, <1>2, <1>3, <1>4 DEF CodingTyped
<1>6. \A w \in Worker : Single(worker[w])'
  BY <1>1 DEF CodingInv, Single
<1>7. ASSUME NEW u \in Video \ crossed' PROVE VideoInv(u)'
  <2>1. VideoInv(u) /\ u \in Video
    BY <1>1, <1>7 DEF CodingInv
  <2>2. \A w \in Worker : Coding!Works(w, u)' <=> Coding!Works(w, u)
    BY <1>1 DEF Coding!Works
  <2>3. CASE u = v
    <3>1. \A q \in Quality : ~Encoded(v, q)'
      BY <1>4 DEF Encoded
    <3>2. ASSUME NEW w \in Worker, Coding!Works(w, v)' PROVE AtWork(worker[w], v)'
      <4>1. AtWork(worker[w], v) /\ worker'[w] = worker[w] /\ worker[w] \in WorkerRec
        BY <3>2, <2>1, <2>2, <2>3, <1>1, <1>2 DEF VideoInv, CodingTyped
      <4>2. worker[w].left \in SUBSET Quality /\ worker[w].at \in SUBSET Quality
        BY <4>1 DEF WorkerRec
      <4> QED  BY <4>1, <4>2, <3>1, <1>1, <1>3 DEF AtWork, Coding!There
    <3> QED  BY <3>1, <3>2, <2>1, <2>2, <2>3, <1>1, <1>3, <1>4, ServicesAssumption DEF VideoInv
  <2>4. CASE u # v
    <3>1. Untouched(u)
      BY <2>1, <2>2, <2>4, <1>1, <1>3, <1>4 DEF Untouched
    <3> QED  BY <2>1, <3>1, <1>2, StaysSo
  <2> QED  BY <2>3, <2>4
<1> QED  BY <1>5, <1>6, <1>7 DEF CodingInv

LEMMA QueueVideo ==
  ASSUME CodingInv, NEW v \in Video, Coding!Queue(v)
  PROVE  CodingInv'
<1>1. /\ UNCHANGED <<row, object, worker, crashed, stops>>
      /\ video' = [video EXCEPT ![v].status = "PENDING"]
      /\ again' = again \cup {v} /\ asked' = asked + 1 /\ asked < MaxAgain
      /\ crossed' = IF \E w \in Worker : Coding!Works(w, v) THEN crossed \cup {v} ELSE crossed
  BY DEF Coding!Queue
<1>2. CodingTyped
  BY DEF CodingInv
<1>3. /\ video' \in [Video -> VideoRec] /\ video'[v].status = "PENDING"
      /\ \A u \in Video \ {v} : video'[u] = video[u]
  BY <1>1, <1>2, StatusSet DEF Coding!Status
<1>4. CodingTyped'
  <2>1. asked' \in 0..MaxAgain
    BY <1>1, <1>2, ServicesAssumption DEF CodingTyped
  <2>2. crossed' \in SUBSET Video /\ again' \in SUBSET Video
    BY <1>1, <1>2 DEF CodingTyped
  <2> QED  BY <1>1, <1>2, <1>3, <2>1, <2>2 DEF CodingTyped
<1>5. \A w \in Worker : Single(worker[w])'
  BY <1>1 DEF CodingInv, Single
<1>6. ASSUME NEW u \in Video \ crossed' PROVE VideoInv(u)'
  <2>1. VideoInv(u) /\ u \in Video
    BY <1>1, <1>6 DEF CodingInv
  <2>2. \A w \in Worker : Coding!Works(w, u)' <=> Coding!Works(w, u)
    BY <1>1 DEF Coding!Works
  <2>3. CASE u = v
    <3>1. \A w \in Worker : ~Coding!Works(w, v)
      BY <1>1, <1>6, <2>3
    <3>2. \A q \in Quality : Coding!Saving(v, q)' <=> Coding!Saving(v, q)
      BY <1>1 DEF Coding!Saving, Coding!Works
    <3> QED  BY <3>1, <3>2, <2>1, <2>2, <2>3, <1>1, <1>3 DEF VideoInv
  <2>4. CASE u # v
    <3>1. Untouched(u)
      BY <2>1, <2>2, <2>4, <1>1, <1>3 DEF Untouched
    <3> QED  BY <2>1, <3>1, <1>2, StaysSo
  <2> QED  BY <2>3, <2>4
<1> QED  BY <1>4, <1>5, <1>6 DEF CodingInv

LEMMA DeleteRowsOf ==
  ASSUME CodingInv, NEW v \in Video, Coding!DeleteRows(v)
  PROVE  CodingInv'
<1>1. /\ UNCHANGED <<video, object, worker, crashed, stops, asked>>
      /\ v \in again /\ again' = again \ {v}
      /\ \/ row' = Coding!NoRows(v) /\ crossed' = crossed
         \/ crossed' = crossed \cup {v} /\ row' = row
  BY DEF Coding!DeleteRows
<1>2. CodingTyped
  BY DEF CodingInv
<1>3. /\ row' \in [Coding!Slot -> Encoding \cup {"none", "upload"}]
      /\ \A u \in Video, q \in Quality :
           u # v => row'[<<u, q>>] = row[<<u, q>>]
      /\ v \notin crossed' => \A q \in Quality : row'[<<v, q>>] = "none"
  BY <1>1, <1>2, NoRowsIs DEF CodingTyped
<1>4. CodingTyped'
  BY <1>1, <1>2, <1>3 DEF CodingTyped
<1>5. \A w \in Worker : Single(worker[w])'
  BY <1>1 DEF CodingInv, Single
<1>6. ASSUME NEW u \in Video \ crossed' PROVE VideoInv(u)'
  <2>1. VideoInv(u) /\ u \in Video
    BY <1>1, <1>6 DEF CodingInv
  <2>2. \A w \in Worker : Coding!Works(w, u)' <=> Coding!Works(w, u)
    BY <1>1 DEF Coding!Works
  <2>3. CASE u = v
    <3>1. /\ \A w \in Worker : ~Coding!Works(w, v)
          /\ video[v].status \in {"PENDING", "deleted"}
      BY <1>1, <2>1, <2>3 DEF VideoInv
    <3>2. \A q \in Quality : row'[<<v, q>>] = "none"
      BY <1>3, <1>6, <2>3
    <3> QED  BY <3>1, <3>2, <2>2, <2>3, <1>1, ServicesAssumption DEF VideoInv, Encoded
  <2>4. CASE u # v
    <3>1. Untouched(u)
      BY <2>1, <2>2, <2>4, <1>1, <1>3 DEF Untouched
    <3> QED  BY <2>1, <3>1, <1>2, StaysSo
  <2> QED  BY <2>3, <2>4
<1> QED  BY <1>4, <1>5, <1>6 DEF CodingInv

\* The steps of a process.

LEMMA PickNext ==
  ASSUME CodingInv, NEW w \in Worker, NEW v \in Video, Coding!pickNext(w, v)
  PROVE  CodingInv'
<1> DEFINE rec == [Coding!Idle EXCEPT !.step = "taken", !.video = {v}]
<1>1. /\ UNCHANGED <<video, row, object, again, crashed, stops, asked>>
      /\ worker' = [worker EXCEPT ![w] = rec] /\ worker[w] = Coding!Idle /\ video[v].status = "PENDING"
      /\ crossed' = IF v \in again \/ \E u \in Worker : Coding!Works(u, v) THEN crossed \cup {v} ELSE crossed
  BY DEF Coding!pickNext
<1>2. CodingTyped
  BY DEF CodingInv
<1>3. /\ rec \in WorkerRec /\ Single(rec) /\ rec.video = {v} /\ rec.step = "taken"
      /\ rec.left = {} /\ rec.at = {}
  BY DEF Coding!Idle, WorkerRec, Single
<1> HIDE DEF rec
<1>4. /\ worker' \in [Worker -> WorkerRec] /\ \A x \in Worker : Single(worker[x])'
      /\ worker'[w] = rec /\ \A x \in Worker \ {w} : worker'[x] = worker[x]
      /\ \A u \in Video, x \in Worker :
           u # v /\ Coding!Works(x, u)' => Coding!Works(x, u) /\ worker'[x] = worker[x]
  BY <1>1, <1>3, Reassigned
<1>5. CodingTyped'
  BY <1>1, <1>2, <1>4 DEF CodingTyped
<1>6. ASSUME NEW u \in Video \ crossed' PROVE VideoInv(u)'
  <2>1. VideoInv(u) /\ u \in Video
    BY <1>1, <1>6 DEF CodingInv
  <2>2. CASE u = v
    <3>1. v \notin again /\ \A x \in Worker : ~Coding!Works(x, v)
      BY <2>2, <1>1, <1>6
    <3>2. \A x \in Worker : Coding!Works(x, v)' => x = w
      BY <3>1, <1>4 DEF Coding!Works
    <3>3. \A q \in Quality : ~Encoded(v, q) /\ ~Encoded(v, q)'
      BY <2>1, <2>2, <3>1, <1>1 DEF VideoInv, Encoded
    <3>4. AtWork(worker[w], v)'
      BY <3>3, <1>1, <1>3, <1>4 DEF AtWork
    <3> QED  BY <3>1, <3>2, <3>3, <3>4, <2>1, <2>2, <1>1, ServicesAssumption DEF VideoInv, Encoded
  <2>3. CASE u # v
    <3>1. Untouched(u)
      BY <2>1, <2>3, <1>1, <1>4 DEF Untouched
    <3> QED  BY <2>1, <3>1, <1>2, StaysSo
  <2> QED  BY <2>2, <2>3
<1> QED  BY <1>4, <1>5, <1>6 DEF CodingInv

\* A process ends with a video, and its status is set, or is not.
LEMMA EndsWith ==
  ASSUME CodingInv, NEW w \in Worker, NEW v \in Video, Coding!End(w), Coding!Works(w, v),
         UNCHANGED <<object, again, crossed, crashed, stops, asked>>,
         video' \in [Video -> VideoRec], row' \in [Coding!Slot -> Encoding \cup {"none", "upload"}],
         video'[v].fits = video[v].fits,
         \A u \in Video \ {v} : /\ video'[u] = video[u]
                                /\ \A q \in Quality : row'[<<u, q>>] = row[<<u, q>>],
         v \notin crossed => /\ video'[v].status \notin {"none", "PENDING"}
                             /\ video'[v].status = "deleted" => \A q \in Quality : ~Encoded(v, q)'
                             /\ video'[v].status = "DONE" => \A q \in video[v].fits : Encoded(v, q)'
                             /\ \A q \in Quality :
                                  row'[<<v, q>>] \in Encoding => row'[<<v, q>>] = object[<<v, q>>]
  PROVE  CodingInv'
<1>1. worker' = [worker EXCEPT ![w] = Coding!Idle]
  BY DEF Coding!End
<1>2. CodingTyped
  BY DEF CodingInv
<1>3. Coding!Idle.video \subseteq {v}
  BY DEF Coding!Idle
<1>4. /\ worker' \in [Worker -> WorkerRec] /\ \A x \in Worker : Single(worker[x])'
      /\ worker'[w] = Coding!Idle /\ \A x \in Worker \ {w} : worker'[x] = worker[x]
      /\ \A u \in Video, x \in Worker :
           u # v /\ Coding!Works(x, u)' => Coding!Works(x, u) /\ worker'[x] = worker[x]
  BY ZenonT(60), <1>1, <1>3, IdleType, Reassigned
<1>5. CodingTyped'
  BY <1>2, <1>4 DEF CodingTyped
<1>6. ASSUME NEW u \in Video \ crossed' PROVE VideoInv(u)'
  <2>1. VideoInv(u) /\ u \in Video /\ u \notin crossed
    BY <1>6 DEF CodingInv
  <2>2. CASE u = v
    <3>1. v \notin again
      BY <2>1, <2>2 DEF VideoInv
    <3>2. \A x \in Worker : Coding!Works(x, v) => x = w
      BY <2>1, <2>2 DEF VideoInv
    <3>3. \A x \in Worker : ~Coding!Works(x, v)'
      <4>1. SUFFICES ASSUME NEW x \in Worker PROVE ~Coding!Works(x, v)'
        OBVIOUS
      <4>2. CASE x = w
        BY <4>2, <1>4, IdleType DEF Coding!Works
      <4>3. CASE x # w
        BY <4>3, <3>2, <1>4 DEF Coding!Works
      <4> QED  BY <4>2, <4>3
    <3> QED  BY <3>1, <3>3, <2>1, <2>2 DEF VideoInv
  <2>3. CASE u # v
    <3>1. Untouched(u)
      BY <2>1, <2>3, <1>4 DEF Untouched
    <3> QED  BY <2>1, <3>1, <1>2, StaysSo
  <2> QED  BY <2>2, <2>3
<1> QED  BY <1>4, <1>5, <1>6 DEF CodingInv

\* What is known of a video that a process works on and that was not crossed.
LEMMA Working ==
  ASSUME CodingInv, NEW w \in Worker, NEW v \in Video \ crossed, Coding!Works(w, v)
  PROVE  /\ VideoInv(v) /\ AtWork(worker[w], v) /\ v \notin again /\ video[v].status # "none"
         /\ \A x \in Worker : Coding!Works(x, v) => x = w
         /\ video[v].status \in {"PENDING", "deleted"} => \A q \in Quality : ~Encoded(v, q)
  BY DEF CodingInv, VideoInv

\* Rows of no quality that is being saved are those of their objects.
LEMMA RowsTrue ==
  ASSUME CodingInv, NEW v \in Video \ crossed, NEW q \in Quality, row[<<v, q>>] \in Encoding
  PROVE  row[<<v, q>>] = object[<<v, q>>]
<1>1. VideoInv(v)
  BY DEF CodingInv
<1>2. CASE Coding!Saving(v, q)
  <2>1. PICK w \in Worker : Coding!Works(w, v) /\ q \in worker[w].at
    BY <1>2 DEF Coding!Saving
  <2>2. ~Encoded(v, q)
    BY <1>1, <2>1 DEF VideoInv, AtWork
  <2> QED  BY <2>2, ServicesAssumption DEF Encoded
<1> QED  BY <1>1, <1>2 DEF VideoInv

LEMMA FinishVideo ==
  ASSUME CodingInv, NEW w \in Worker, NEW v \in Video, Coding!Finish(w, v)
  PROVE  CodingInv'
<1>1. /\ UNCHANGED <<row, object, again, crossed, crashed, stops, asked>>
      /\ worker[w].step = "encode" /\ Coding!Works(w, v) /\ worker[w].left = {} /\ Coding!There(v)
      /\ video' = [video EXCEPT ![v].status = "DONE"] /\ Coding!End(w)
  BY DEF Coding!Finish
<1>2. CodingTyped
  BY DEF CodingInv
<1>3. /\ video' \in [Video -> VideoRec] /\ video'[v].status = "DONE" /\ video'[v].fits = video[v].fits
      /\ \A u \in Video \ {v} : video'[u] = video[u]
  BY <1>1, <1>2, StatusSet DEF Coding!Status
<1>4. v \notin crossed => \A q \in video[v].fits : Encoded(v, q)'
  <2>1. SUFFICES ASSUME v \notin crossed PROVE \A q \in video[v].fits : Encoded(v, q)
    BY <1>1 DEF Encoded
  <2>2. AtWork(worker[w], v) /\ Single(worker[w])
    BY <2>1, <1>1, Working, Busy
  <2> QED  BY <2>2, <1>1 DEF AtWork, Single
<1>5. v \notin crossed => \A q \in Quality : row'[<<v, q>>] \in Encoding => row'[<<v, q>>] = object[<<v, q>>]
  BY <1>1, RowsTrue
<1>6. row' \in [Coding!Slot -> Encoding \cup {"none", "upload"}]
  BY <1>1, <1>2 DEF CodingTyped
<1> QED  BY <1>1, <1>3, <1>4, <1>5, <1>6, EndsWith

LEMMA FailsVideo ==
  ASSUME CodingInv, NEW w \in Worker, NEW v \in Video, Coding!Fails(w, v)
  PROVE  CodingInv'
<1>1. /\ UNCHANGED <<row, object, again, crossed, crashed, stops, asked>>
      /\ worker[w].step \in {"source", "encode", "save"} /\ Coding!Works(w, v)
      /\ video' = IF Coding!There(v) THEN [video EXCEPT ![v].status = "FAILED"] ELSE video
      /\ Coding!End(w)
  BY DEF Coding!Fails
<1>2. CodingTyped
  BY DEF CodingInv
<1>3. row' \in [Coding!Slot -> Encoding \cup {"none", "upload"}]
  BY <1>1, <1>2 DEF CodingTyped
<1>4. v \notin crossed => \A q \in Quality : row'[<<v, q>>] \in Encoding => row'[<<v, q>>] = object[<<v, q>>]
  BY <1>1, RowsTrue
<1>5. CASE Coding!There(v)
  <2>1. /\ video' \in [Video -> VideoRec] /\ video'[v].status = "FAILED" /\ video'[v].fits = video[v].fits
        /\ \A u \in Video \ {v} : video'[u] = video[u]
    BY <1>1, <1>2, <1>5, StatusSet DEF Coding!Status
  <2> QED  BY <1>1, <1>3, <1>4, <2>1, EndsWith
<1>6. CASE ~Coding!There(v)
  <2>1. video' = video /\ video' \in [Video -> VideoRec] /\ video[v].status \in {"none", "deleted"}
    BY <1>1, <1>2, <1>6 DEF CodingTyped, Coding!There
  <2>2. v \notin crossed => video[v].status = "deleted" /\ \A q \in Quality : ~Encoded(v, q)
    BY <2>1, <1>1, Working
  <2>3. v \notin crossed => video'[v].status = "deleted" /\ \A q \in Quality : ~Encoded(v, q)'
    BY <2>1, <2>2, <1>1 DEF Encoded
  <2> QED  BY <1>1, <1>3, <1>4, <2>1, <2>3, EndsWith
<1> QED  BY <1>5, <1>6

LEMMA SkipVideo ==
  ASSUME CodingInv, NEW w \in Worker, NEW v \in Video, Coding!Skip(w, v)
  PROVE  CodingInv'
<1>1. /\ UNCHANGED <<object, again, crossed, crashed, stops, asked>>
      /\ worker[w].step = "source" /\ Coding!Works(w, v)
      /\ video' = [video EXCEPT ![v].status = "SKIPPED"] /\ Coding!End(w)
      /\ row' = [s \in Coding!Slot |-> IF s[1] = v /\ s[2] \in video[v].fits THEN "upload" ELSE row[s]]
  BY DEF Coding!Skip
<1>2. CodingTyped
  BY DEF CodingInv
<1>3. /\ video' \in [Video -> VideoRec] /\ video'[v].status = "SKIPPED" /\ video'[v].fits = video[v].fits
      /\ \A u \in Video \ {v} : video'[u] = video[u]
  BY <1>1, <1>2, StatusSet DEF Coding!Status
<1>4. row' \in [Coding!Slot -> Encoding \cup {"none", "upload"}]
  BY <1>1, <1>2 DEF CodingTyped
<1>5. \A u \in Video, q \in Quality :
        row'[<<u, q>>] = IF u = v /\ q \in video[v].fits THEN "upload" ELSE row[<<u, q>>]
  <2>1. \A u \in Video, q \in Quality :
          <<u, q>> \in Coding!Slot /\ <<u, q>>[1] = u /\ <<u, q>>[2] = q
    BY DEF Coding!Slot
  <2> QED  BY <1>1, <2>1
<1>6. v \notin crossed => \A q \in Quality : row'[<<v, q>>] \in Encoding => row'[<<v, q>>] = object[<<v, q>>]
  BY <1>5, RowsTrue, ServicesAssumption
<1> QED  BY SMTT(30), <1>1, <1>3, <1>4, <1>5, <1>6, EndsWith

LEMMA CrashWorker ==
  ASSUME CodingInv, NEW w \in Worker, Coding!Crash(w)
  PROVE  CodingInv'
<1>1. /\ UNCHANGED <<video, row, object, again, crossed, asked>> /\ stops < MaxCrashes /\ stops' = stops + 1
      /\ crashed' = crashed \cup worker[w].video /\ worker' = [worker EXCEPT ![w] = Coding!Idle]
  BY DEF Coding!Crash, Coding!End
<1>2. CodingTyped
  BY DEF CodingInv
<1>3. worker \in [Worker -> WorkerRec] /\ worker[w].video \in SUBSET Video
  BY <1>2 DEF CodingTyped, WorkerRec
<1>4. /\ worker' \in [Worker -> WorkerRec] /\ worker'[w] = Coding!Idle
      /\ \A x \in Worker \ {w} : worker'[x] = worker[x]
  BY <1>1, <1>3, IdleType
<1>5. \A x \in Worker : Single(worker[x])'
  BY <1>4, IdleType DEF CodingInv, Single
<1>6. CodingTyped'
  <2>1. stops' \in 0..MaxCrashes
    BY <1>1, <1>2, ServicesAssumption DEF CodingTyped
  <2>2. crashed' \in SUBSET Video
    BY <1>1, <1>2, <1>3 DEF CodingTyped
  <2> QED  BY <1>1, <1>2, <1>4, <2>1, <2>2 DEF CodingTyped
<1>7. ASSUME NEW u \in Video \ crossed' PROVE VideoInv(u)'
  <2>1. VideoInv(u) /\ u \in Video
    BY <1>1, <1>7 DEF CodingInv
  <2>2. \A x \in Worker : Coding!Works(x, u)' => Coding!Works(x, u) /\ worker'[x] = worker[x]
    BY <1>4, IdleType DEF Coding!Works
  <2>3. Untouched(u)
    BY <2>2, <1>1 DEF Untouched
  <2> QED  BY <2>1, <2>3, <1>2, StaysSo
<1> QED  BY <1>5, <1>6, <1>7 DEF CodingInv

\* A process goes on with its video.
LEMMA MovesOn ==
  ASSUME CodingInv, NEW w \in Worker, NEW v \in Video, Coding!Works(w, v),
         NEW rec \in WorkerRec, Single(rec), rec.video = {v}, rec.step # "idle",
         worker' = [worker EXCEPT ![w] = rec],
         UNCHANGED <<again, crossed, crashed, stops, asked>>,
         video' \in [Video -> VideoRec], row' \in [Coding!Slot -> Encoding \cup {"none", "upload"}],
         object' \in [Coding!Slot -> Encoding \cup {"none"}],
         \A u \in Video \ {v} :
           /\ video'[u] = video[u]
           /\ \A q \in Quality : row'[<<u, q>>] = row[<<u, q>>] /\ object'[<<u, q>>] = object[<<u, q>>],
         v \notin crossed =>
           /\ video'[v].status \notin {"none", "DONE"}
           /\ video'[v].status \in {"PENDING", "deleted"} => \A q \in Quality : ~Encoded(v, q)'
           /\ AtWork(worker[w], v)'
           /\ \A q \in Quality :
                row'[<<v, q>>] \in Encoding => row'[<<v, q>>] = object'[<<v, q>>]
  PROVE  CodingInv'
<1>1. CodingTyped
  BY DEF CodingInv
<1>2. /\ worker' \in [Worker -> WorkerRec] /\ \A x \in Worker : Single(worker[x])'
      /\ worker'[w] = rec /\ \A x \in Worker \ {w} : worker'[x] = worker[x]
      /\ \A u \in Video, x \in Worker :
           u # v /\ Coding!Works(x, u)' => Coding!Works(x, u) /\ worker'[x] = worker[x]
  BY ZenonT(60), Reassigned
<1>3. CodingTyped'
  BY <1>1, <1>2 DEF CodingTyped
<1>4. ASSUME NEW u \in Video \ crossed' PROVE VideoInv(u)'
  <2>1. VideoInv(u) /\ u \in Video /\ u \notin crossed
    BY <1>4 DEF CodingInv
  <2>2. CASE u = v
    <3>1. v \in Video \ crossed
      BY <2>1, <2>2
    <3>2. v \notin again /\ \A x \in Worker : Coding!Works(x, v) => x = w
      BY <3>1, Working
    <3>3. \A x \in Worker : Coding!Works(x, v)' => x = w
      BY <3>2, <1>2 DEF Coding!Works
    <3> QED  BY <3>1, <3>2, <3>3, <2>1, <2>2 DEF VideoInv
  <2>3. CASE u # v
    <3>1. Untouched(u)
      BY <2>1, <2>3, <1>2 DEF Untouched
    <3> QED  BY <2>1, <3>1, <1>1, StaysSo
  <2> QED  BY <2>2, <2>3
<1> QED  BY <1>2, <1>3, <1>4 DEF CodingInv

LEMMA StartVideo ==
  ASSUME CodingInv, NEW w \in Worker, NEW v \in Video, Coding!Start(w, v)
  PROVE  CodingInv'
<1>1. /\ UNCHANGED <<row, object, again, crossed, crashed, stops, asked>>
      /\ worker[w].step = "taken" /\ Coding!Works(w, v)
  BY DEF Coding!Start
<1>2. CodingTyped
  BY DEF CodingInv
<1>3. /\ row' \in [Coding!Slot -> Encoding \cup {"none", "upload"}]
      /\ object' \in [Coding!Slot -> Encoding \cup {"none"}]
  BY <1>1, <1>2 DEF CodingTyped
<1>4. v \notin crossed => \A q \in Quality : row'[<<v, q>>] \in Encoding => row'[<<v, q>>] = object'[<<v, q>>]
  BY <1>1, RowsTrue
<1>5. CASE Coding!There(v)
  <2>1. /\ video' = [video EXCEPT ![v].status = "RUNNING"]
        /\ worker' = [worker EXCEPT ![w] = [worker[w] EXCEPT !.step = "source"]]
    BY <1>5 DEF Coding!Start
  <2>2. /\ video' \in [Video -> VideoRec] /\ video'[v].status = "RUNNING"
        /\ \A u \in Video \ {v} : video'[u] = video[u]
    BY <1>2, <2>1, StatusSet DEF Coding!Status
  <2>3. PICK r : r = [worker[w] EXCEPT !.step = "source"]
    OBVIOUS
  <2>4. /\ worker[w] \in WorkerRec /\ Single(worker[w]) /\ worker[w].video = {v}
    BY <1>1, Busy
  <2>5. /\ r \in WorkerRec /\ r.step = "source" /\ r.video = {v} /\ r.left = worker[w].left
        /\ r.at = worker[w].at
    BY <2>3, <2>4 DEF WorkerRec
  <2>6. Single(r) /\ r.left = {} /\ r.at = {}
    BY <2>4, <2>5, <1>1 DEF Single
  <2>7. worker' = [worker EXCEPT ![w] = r]
    BY <2>1, <2>3
  <2>8. worker'[w] = r
    BY <2>7, <1>2 DEF CodingTyped
  <2>9. v \notin crossed => /\ \A q \in Quality : ~Encoded(v, q)'
                            /\ AtWork(worker[w], v)'
    <3>1. SUFFICES ASSUME v \notin crossed PROVE (\A q \in Quality : ~Encoded(v, q)') /\ AtWork(worker[w], v)'
      OBVIOUS
    <3>2. \A q \in Quality : ~Encoded(v, q)
      BY <3>1, <1>1, Working DEF AtWork
    <3>3. \A q \in Quality : ~Encoded(v, q)'
      BY <3>2, <1>1 DEF Encoded
    <3> QED  BY <3>3, <2>2, <2>5, <2>6, <2>8 DEF AtWork
  <2> QED  BY <1>1, <1>3, <1>4, <2>2, <2>5, <2>6, <2>7, <2>9, MovesOn
<1>6. CASE ~Coding!There(v)
  <2>1. video' = video /\ Coding!End(w) /\ video[v].status \in {"none", "deleted"}
    BY <1>6 DEF Coding!Start, Coding!There
  <2>2. v \notin crossed => video[v].status = "deleted" /\ \A q \in Quality : ~Encoded(v, q)
    BY <2>1, <1>1, Working
  <2>3. v \notin crossed => video'[v].status = "deleted" /\ \A q \in Quality : ~Encoded(v, q)'
    BY <2>1, <2>2, <1>1 DEF Encoded
  <2>4. video' \in [Video -> VideoRec]
    BY <2>1, <1>2 DEF CodingTyped
  <2>5. v \notin crossed => \A q \in Quality : row'[<<v, q>>] \in Encoding => row'[<<v, q>>] = object[<<v, q>>]
    BY <1>1, <1>4
  <2> QED  BY <1>1, <1>3, <2>1, <2>3, <2>4, <2>5, EndsWith
<1> QED  BY <1>5, <1>6

LEMMA ProbeVideo ==
  ASSUME CodingInv, NEW w \in Worker, NEW v \in Video, Coding!Probe(w, v)
  PROVE  CodingInv'
<1>1. /\ UNCHANGED <<video, row, object, again, crossed, crashed, stops, asked>>
      /\ worker[w].step = "source" /\ Coding!Works(w, v)
      /\ worker' = [worker EXCEPT ![w] = [worker[w] EXCEPT !.step = "encode", !.left = video[v].fits]]
  BY DEF Coding!Probe
<1>2. CodingTyped /\ video[v].fits \in SUBSET Quality
  BY Status DEF CodingInv
<1>3. /\ row' \in [Coding!Slot -> Encoding \cup {"none", "upload"}]
      /\ object' \in [Coding!Slot -> Encoding \cup {"none"}] /\ video' \in [Video -> VideoRec]
  BY <1>1, <1>2 DEF CodingTyped
<1>4. v \notin crossed => \A q \in Quality : row'[<<v, q>>] \in Encoding => row'[<<v, q>>] = object'[<<v, q>>]
  BY <1>1, RowsTrue
<1>5. PICK r : r = [worker[w] EXCEPT !.step = "encode", !.left = video[v].fits]
  OBVIOUS
<1>6. worker[w] \in WorkerRec /\ Single(worker[w]) /\ worker[w].video = {v}
  BY <1>1, Busy
<1>7. /\ r \in WorkerRec /\ r.step = "encode" /\ r.video = {v} /\ r.left = video[v].fits
      /\ r.at = worker[w].at
  BY <1>2, <1>5, <1>6 DEF WorkerRec
<1>8. Single(r) /\ r.at = {}
  BY <1>1, <1>6, <1>7 DEF Single
<1>9. worker' = [worker EXCEPT ![w] = r]
  BY <1>1, <1>5
<1>10. worker'[w] = r
  BY <1>9, <1>2 DEF CodingTyped
<1>11. v \notin crossed => /\ video'[v].status \in {"RUNNING", "deleted"}
                           /\ \A q \in Quality : ~Encoded(v, q)'
                           /\ AtWork(worker[w], v)'
  <2>1. SUFFICES ASSUME v \notin crossed
                 PROVE  /\ video'[v].status \in {"RUNNING", "deleted"}
                        /\ \A q \in Quality : ~Encoded(v, q)'
                        /\ AtWork(worker[w], v)'
    OBVIOUS
  <2>2. AtWork(worker[w], v)
    BY <2>1, <1>1, Working
  <2>3. video'[v].status \in {"RUNNING", "deleted"} /\ \A q \in Quality : ~Encoded(v, q)
    BY <2>2, <1>1 DEF AtWork
  <2>4. \A q \in Quality : ~Encoded(v, q)'
    BY <2>3, <1>1 DEF Encoded
  <2> QED  BY <2>3, <2>4, <1>1, <1>2, <1>7, <1>8, <1>10 DEF AtWork
<1> QED  BY ZenonT(60), <1>1, <1>3, <1>4, <1>7, <1>8, <1>9, <1>11, MovesOn

LEMMA PutTheFile ==
  ASSUME CodingInv, NEW w \in Worker, NEW v \in Video, NEW q \in Quality, Coding!PutFile(w, v, q)
  PROVE  CodingInv'
<1>1. /\ UNCHANGED <<video, row, again, crossed, crashed, stops, asked>>
      /\ worker[w].step = "encode" /\ Coding!Works(w, v) /\ q \in worker[w].left
      /\ worker' = [worker EXCEPT ![w] = [worker[w] EXCEPT !.step = "save", !.left = worker[w].left \ {q},
                                                           !.at = {q}]]
  BY DEF Coding!PutFile
<1>2. PICK e \in Encoding : object' = [object EXCEPT ![<<v, q>>] = e]
  BY DEF Coding!PutFile
<1>3. CodingTyped /\ video[v].fits \in SUBSET Quality
  BY Status DEF CodingInv
<1>4. /\ row' \in [Coding!Slot -> Encoding \cup {"none", "upload"}]
      /\ object' \in [Coding!Slot -> Encoding \cup {"none"}] /\ video' \in [Video -> VideoRec]
  BY <1>1, <1>2, <1>3 DEF CodingTyped
<1>5. \A u \in Video, p \in Quality :
        object'[<<u, p>>] = IF u = v /\ p = q THEN e ELSE object[<<u, p>>]
  BY <1>2, <1>3 DEF CodingTyped, Coding!Slot
<1>6. PICK r : r = [worker[w] EXCEPT !.step = "save", !.left = worker[w].left \ {q}, !.at = {q}]
  OBVIOUS
<1>7. worker[w] \in WorkerRec /\ Single(worker[w]) /\ worker[w].video = {v}
      /\ worker[w].left \in SUBSET Quality
  BY <1>1, Busy
<1>8. /\ r \in WorkerRec /\ r.step = "save" /\ r.video = {v} /\ r.left = worker[w].left \ {q}
      /\ r.at = {q}
  BY <1>6, <1>7 DEF WorkerRec
<1>9. Single(r)
  BY <1>8 DEF Single
<1>10. worker' = [worker EXCEPT ![w] = r]
  BY <1>1, <1>6
<1>11. worker'[w] = r
  BY <1>10, <1>3 DEF CodingTyped
<1>12. v \notin crossed =>
         /\ video'[v].status \in {"RUNNING", "deleted"}
         /\ video'[v].status = "deleted" => \A p \in Quality : ~Encoded(v, p)'
         /\ AtWork(worker[w], v)'
         /\ \A p \in Quality : row'[<<v, p>>] \in Encoding => row'[<<v, p>>] = object'[<<v, p>>]
  <2>1. SUFFICES ASSUME v \notin crossed
                 PROVE  /\ video'[v].status \in {"RUNNING", "deleted"}
                        /\ video'[v].status = "deleted" => \A p \in Quality : ~Encoded(v, p)'
                        /\ AtWork(worker[w], v)'
                        /\ \A p \in Quality :
                             row'[<<v, p>>] \in Encoding => row'[<<v, p>>] = object'[<<v, p>>]
    OBVIOUS
  <2>2. AtWork(worker[w], v) /\ (video[v].status = "deleted" => \A p \in Quality : ~Encoded(v, p))
    BY <2>1, <1>1, Working
  <2>3. \A p \in Quality : Encoded(v, p)' <=> Encoded(v, p)
    BY <1>1 DEF Encoded
  <2>4. video'[v].status \in {"RUNNING", "deleted"} /\ \A p \in worker[w].left : ~Encoded(v, p)
    BY <2>2, <1>1 DEF AtWork
  <2>5. \A p \in Quality : row'[<<v, p>>] \in Encoding => row'[<<v, p>>] = object'[<<v, p>>]
    <3>1. SUFFICES ASSUME NEW p \in Quality, row'[<<v, p>>] \in Encoding
                   PROVE  row'[<<v, p>>] = object'[<<v, p>>]
      OBVIOUS
    <3>2. p # q
      BY <3>1, <2>4, <1>1, ServicesAssumption DEF Encoded
    <3>3. row[<<v, p>>] = object[<<v, p>>]
      BY <3>1, <2>1, <1>1, RowsTrue
    <3> QED  BY <3>2, <3>3, <1>1, <1>5
  <2>6. AtWork(worker[w], v)'
    <3>1. worker[w].at = {}
      BY <1>1, <1>7 DEF Single
    <3>2. \A p \in r.left \cup r.at : ~Encoded(v, p)'
      BY <2>3, <2>4, <1>1, <1>7, <1>8
    <3>3. \A p \in r.at : object'[<<v, p>>] \in Encoding
      BY <1>5, <1>8
    <3>4. Coding!There(v)' => \A p \in video'[v].fits \ (r.left \cup r.at) : Encoded(v, p)'
      <4>1. Coding!There(v)' <=> Coding!There(v)
        BY <1>1 DEF Coding!There
      <4>2. Coding!There(v) => \A p \in video[v].fits \ (worker[w].left \cup worker[w].at) : Encoded(v, p)
        BY <2>2, <1>1 DEF AtWork
      <4> QED  BY <4>1, <4>2, <3>1, <2>3, <1>1, <1>3, <1>8
    <3> QED  BY <3>2, <3>3, <3>4, <2>4, <1>8, <1>11 DEF AtWork
  <2> QED  BY <2>2, <2>3, <2>4, <2>5, <2>6, <1>1
<1>13. \A u \in Video \ {v} :
         /\ video'[u] = video[u]
         /\ \A p \in Quality : row'[<<u, p>>] = row[<<u, p>>] /\ object'[<<u, p>>] = object[<<u, p>>]
  BY <1>1, <1>5
<1>14. UNCHANGED <<again, crossed, crashed, stops, asked>> /\ Coding!Works(w, v) /\ r.step # "idle"
  BY <1>1, <1>8
<1>15. v \notin crossed =>
         /\ video'[v].status \notin {"none", "DONE"}
         /\ video'[v].status \in {"PENDING", "deleted"} => \A p \in Quality : ~Encoded(v, p)'
         /\ AtWork(worker[w], v)'
         /\ \A p \in Quality : row'[<<v, p>>] \in Encoding => row'[<<v, p>>] = object'[<<v, p>>]
  BY <1>12
<1> QED  BY <1>4, <1>8, <1>9, <1>10, <1>13, <1>14, <1>15, MovesOn

LEMMA SaveTheVariant ==
  ASSUME CodingInv, NEW w \in Worker, NEW v \in Video, NEW q \in Quality, Coding!SaveVariant(w, v, q)
  PROVE  CodingInv'
<1>1. /\ UNCHANGED <<video, object, again, crossed, crashed, stops, asked>>
      /\ worker[w].step = "save" /\ Coding!Works(w, v) /\ q \in worker[w].at /\ Coding!There(v)
      /\ row' = [row EXCEPT ![<<v, q>>] = object[<<v, q>>]]
      /\ worker' = [worker EXCEPT ![w] = [worker[w] EXCEPT !.step = "encode", !.at = {}]]
  BY DEF Coding!SaveVariant
<1>2. CodingTyped /\ video[v].fits \in SUBSET Quality
  BY Status DEF CodingInv
<1>3. /\ row' \in [Coding!Slot -> Encoding \cup {"none", "upload"}]
      /\ object' \in [Coding!Slot -> Encoding \cup {"none"}] /\ video' \in [Video -> VideoRec]
  <2>1. object[<<v, q>>] \in Encoding \cup {"none", "upload"}
    BY <1>2 DEF CodingTyped, Coding!Slot
  <2> QED  BY <2>1, <1>1, <1>2 DEF CodingTyped
<1>4. \A u \in Video, p \in Quality :
        row'[<<u, p>>] = IF u = v /\ p = q THEN object[<<v, q>>] ELSE row[<<u, p>>]
  BY <1>1, <1>2 DEF CodingTyped, Coding!Slot
<1>5. PICK r : r = [worker[w] EXCEPT !.step = "encode", !.at = {}]
  OBVIOUS
<1>6. worker[w] \in WorkerRec /\ Single(worker[w]) /\ worker[w].video = {v}
      /\ worker[w].left \in SUBSET Quality
  BY <1>1, Busy
<1>7. /\ r \in WorkerRec /\ r.step = "encode" /\ r.video = {v} /\ r.left = worker[w].left
      /\ r.at = {}
  BY <1>5, <1>6 DEF WorkerRec
<1>8. Single(r)
  BY <1>7 DEF Single
<1>9. worker' = [worker EXCEPT ![w] = r]
  BY <1>1, <1>5
<1>10. worker'[w] = r
  BY <1>9, <1>2 DEF CodingTyped
<1>11. v \notin crossed =>
         /\ video'[v].status = "RUNNING"
         /\ AtWork(worker[w], v)'
         /\ \A p \in Quality : row'[<<v, p>>] \in Encoding => row'[<<v, p>>] = object'[<<v, p>>]
  <2>1. SUFFICES ASSUME v \notin crossed
                 PROVE  /\ video'[v].status = "RUNNING"
                        /\ AtWork(worker[w], v)'
                        /\ \A p \in Quality :
                             row'[<<v, p>>] \in Encoding => row'[<<v, p>>] = object'[<<v, p>>]
    OBVIOUS
  <2>2. AtWork(worker[w], v)
    BY <2>1, <1>1, Working
  <2>3. video'[v].status = "RUNNING" /\ object[<<v, q>>] \in Encoding
    BY <2>2, <1>1 DEF AtWork, Coding!There
  <2>4. worker[w].at = {q} /\ q \notin worker[w].left
    BY <1>1, <1>6 DEF Single
  <2>5. \A p \in Quality : Encoded(v, p)' <=> Encoded(v, p) \/ p = q
    BY <2>3, <1>4, ServicesAssumption DEF Encoded
  <2>6. \A p \in Quality : row'[<<v, p>>] \in Encoding => row'[<<v, p>>] = object'[<<v, p>>]
    BY <2>1, <1>1, <1>4, RowsTrue
  <2>7. AtWork(worker[w], v)'
    <3>1. \A p \in r.left \cup r.at : ~Encoded(v, p)'
      <4>1. \A p \in worker[w].left : ~Encoded(v, p)
        BY <2>2 DEF AtWork
      <4> QED  BY <4>1, <2>4, <2>5, <1>6, <1>7
    <3>2. \A p \in video'[v].fits \ (r.left \cup r.at) : Encoded(v, p)'
      <4>1. \A p \in video[v].fits \ (worker[w].left \cup worker[w].at) : Encoded(v, p)
        BY <2>2, <1>1 DEF AtWork
      <4> QED  BY <4>1, <2>4, <2>5, <1>1, <1>2, <1>7
    <3> QED  BY <3>1, <3>2, <2>3, <1>7, <1>10 DEF AtWork
  <2> QED  BY <2>3, <2>6, <2>7
<1>12. \A u \in Video \ {v} :
         /\ video'[u] = video[u]
         /\ \A p \in Quality : row'[<<u, p>>] = row[<<u, p>>] /\ object'[<<u, p>>] = object[<<u, p>>]
  BY <1>1, <1>4
<1>13. UNCHANGED <<again, crossed, crashed, stops, asked>> /\ Coding!Works(w, v) /\ r.step # "idle"
  BY <1>1, <1>7
<1>14. v \notin crossed =>
         /\ video'[v].status \notin {"none", "DONE"}
         /\ video'[v].status \in {"PENDING", "deleted"} => \A p \in Quality : ~Encoded(v, p)'
         /\ AtWork(worker[w], v)'
         /\ \A p \in Quality : row'[<<v, p>>] \in Encoding => row'[<<v, p>>] = object'[<<v, p>>]
  BY <1>11
<1> QED  BY <1>3, <1>7, <1>8, <1>9, <1>12, <1>13, <1>14, MovesOn

LEMMA CodingStep == CodingInv /\ [Coding!Next]_codingVars => CodingInv'
<1> SUFFICES ASSUME CodingInv, [Coding!Next]_codingVars PROVE CodingInv'
  OBVIOUS
<1>1. CASE UNCHANGED codingVars
  <2>1. CodingTyped' /\ \A w \in Worker : Single(worker[w])'
    BY <1>1 DEF codingVars, CodingInv, CodingTyped, Single
  <2>2. ASSUME NEW u \in Video \ crossed' PROVE VideoInv(u)'
    <3>1. VideoInv(u) /\ Untouched(u) /\ CodingTyped
      BY <1>1, <2>2 DEF codingVars, CodingInv, Untouched, Coding!Works
    <3> QED  BY <3>1, StaysSo
  <2> QED  BY <2>1, <2>2 DEF CodingInv
<1>2. ASSUME NEW v \in Video,
             Coding!createVideo(v) \/ Coding!deleteVideo(v) \/ Coding!Queue(v) \/ Coding!DeleteRows(v)
      PROVE  CodingInv'
  BY <1>2, CreateVideo, DeleteVideo, QueueVideo, DeleteRowsOf
<1>3. ASSUME NEW w \in Worker, NEW v \in Video, Coding!pickNext(w, v) \/ Coding!Work(w, v)
      PROVE  CodingInv'
  <2>1. ASSUME NEW q \in Quality, Coding!PutFile(w, v, q) \/ Coding!SaveVariant(w, v, q)
        PROVE  CodingInv'
    BY <2>1, PutTheFile, SaveTheVariant
  <2> QED  BY <2>1, <1>3, PickNext, StartVideo, SkipVideo, ProbeVideo, FinishVideo, FailsVideo DEF Coding!Work
<1>4. ASSUME NEW w \in Worker, Coding!Crash(w) PROVE CodingInv'
  BY <1>4, CrashWorker
<1> QED  BY <1>1, <1>2, <1>3, <1>4 DEF Coding!Next

LEMMA CodingVerifies == CodingInv => Coding!VariantsVerify
<1> SUFFICES ASSUME CodingInv PROVE Coding!VariantsVerify
  OBVIOUS
<1>1. ASSUME NEW v \in Video \ crossed, NEW q \in Quality
      PROVE  /\ row[<<v, q>>] \in Encoding /\ ~Coding!Saving(v, q) => row[<<v, q>>] = object[<<v, q>>]
             /\ video[v].status = "DONE" /\ q \in video[v].fits => row[<<v, q>>] # "none"
  <2>1. VideoInv(v)
    BY DEF CodingInv
  <2> QED  BY <2>1 DEF VideoInv, Encoded
<1> QED  BY <1>1 DEF Coding!VariantsVerify

\* Transcoding (transcode.service.ts): what a player is pointed at verifies, and a video
\* that is DONE has all its qualities, whatever fails and whichever process stops.
THEOREM VariantsCorrect == ServicesSpec => []VariantsVerify
<1>1. CodingInv => VariantsVerify
  BY CodingVerifies DEF VariantsVerify
<1>2. ServicesInit => CodingInv
  BY CodingInitial DEF ServicesInit
<1>3. CodingInv /\ [ServicesNext]_AllVars => CodingInv'
  BY CodingStep, Steps
<1> QED  BY <1>1, <1>2, <1>3, PTL DEF ServicesSpec

-----------------------------------------------------------------------------
(* The alerts.                                                             *)

Ref == Alerting!Ref
ScanRec == [step : {"idle", "items", "pcs"}, ahead : SUBSET Ref, at : SUBSET Ref]
Raising(x) == {s \in Scanner : x \in scan[s].at}

AlertsTyped ==
  /\ due \in SUBSET Ref /\ open \in [Ref -> Nat] /\ closed \in SUBSET Ref
  /\ scan \in [Scanner -> ScanRec] /\ turns \in 0..MaxTurns
  /\ \A s \in Scanner : \A x, y \in scan[s].at : x = y

\* A row has no more alerts, open or about to be opened, than there are scanners.
AlertsBounded == \A x \in Ref : open[x] + Cardinality(Raising(x)) <= Cardinality(Scanner)

AlertsInv == AlertsTyped /\ AlertsBounded

LEMMA AlertingCounts ==
  ASSUME NEW S PROVE Alerting!Cardinality(S) = Cardinality(S)
<1>1. Alerting!IsFiniteSet(S) = IsFiniteSet(S)
  BY DEF Alerting!IsFiniteSet, IsFiniteSet
<1> QED  BY <1>1 DEF Alerting!Cardinality, Cardinality, Alerting!IsFiniteSet, IsFiniteSet

LEMMA SomeScanners ==
  /\ IsFiniteSet(Scanner) /\ Cardinality(Scanner) \in Nat
  /\ \A S \in SUBSET Scanner : IsFiniteSet(S) /\ Cardinality(S) \in Nat /\ Cardinality(S) <= Cardinality(Scanner)
  /\ \A S \in SUBSET Scanner : \A R \in SUBSET S : Cardinality(R) <= Cardinality(S)
<1>1. IsFiniteSet(Scanner)
  BY ServicesAssumption
<1>2. \A S \in SUBSET Scanner : IsFiniteSet(S) /\ Cardinality(S) <= Cardinality(Scanner)
  BY <1>1, FS_Subset
<1>3. \A S : IsFiniteSet(S) => Cardinality(S) \in Nat
  BY FS_CardinalityType
<1>4. \A S \in SUBSET Scanner : \A R \in SUBSET S : Cardinality(R) <= Cardinality(S)
  BY <1>2, FS_Subset
<1> QED  BY <1>1, <1>2, <1>3, <1>4

LEMMA AlertsTypedRight == AlertsInv => Alerting!TypeOK
<1> SUFFICES ASSUME AlertsInv PROVE Alerting!TypeOK
  OBVIOUS
<1>1. \A x \in Ref : open[x] \in 0..Cardinality(Scanner)
  <2>1. SUFFICES ASSUME NEW x \in Ref PROVE open[x] \in 0..Cardinality(Scanner)
    OBVIOUS
  <2>2. open[x] \in Nat /\ Raising(x) \in SUBSET Scanner
    BY DEF AlertsInv, AlertsTyped, Raising
  <2>3. Cardinality(Raising(x)) \in Nat /\ Cardinality(Scanner) \in Nat
    BY <2>2, SomeScanners
  <2> QED  BY <2>2, <2>3 DEF AlertsInv, AlertsBounded
<1>2. open \in [Ref -> 0..Cardinality(Scanner)]
  BY <1>1 DEF AlertsInv, AlertsTyped
<1>3. Alerting!Cardinality(Scanner) = Cardinality(Scanner)
  BY AlertingCounts
<1> QED  BY <1>2, <1>3 DEF AlertsInv, AlertsTyped, ScanRec, Ref, Alerting!TypeOK

LEMMA AlertsInitial == Alerting!Init => AlertsInv
<1> SUFFICES ASSUME Alerting!Init PROVE AlertsInv
  OBVIOUS
<1>1. Alerting!NoScan \in ScanRec /\ Alerting!NoScan.at = {}
  BY DEF Alerting!NoScan, ScanRec
<1>2. AlertsTyped
  BY <1>1, ServicesAssumption DEF Alerting!Init, AlertsTyped, Ref
<1>3. \A x \in Ref : open[x] = 0 /\ Raising(x) \in SUBSET Scanner
  BY DEF Alerting!Init, Raising, Ref
<1>4. AlertsBounded
  BY <1>3, SomeScanners DEF AlertsBounded
<1> QED  BY <1>2, <1>4 DEF AlertsInv

\* A scanner goes on to rec.
LEMMA Rescanned ==
  ASSUME AlertsTyped, NEW s \in Scanner, NEW rec \in ScanRec, \A x, y \in rec.at : x = y,
         scan' = [scan EXCEPT ![s] = rec]
  PROVE  /\ scan' \in [Scanner -> ScanRec] /\ \A r \in Scanner : \A x, y \in scan'[r].at : x = y
         /\ \A x \in Ref : /\ Raising(x)' \in SUBSET Scanner
                           /\ x \notin rec.at => Raising(x)' = Raising(x) \ {s}
<1>1. scan' \in [Scanner -> ScanRec] /\ scan'[s] = rec /\ \A r \in Scanner \ {s} : scan'[r] = scan[r]
  BY DEF AlertsTyped
<1>2. \A r \in Scanner : \A x, y \in scan'[r].at : x = y
  BY <1>1 DEF AlertsTyped
<1>3. \A x \in Ref : /\ Raising(x)' \in SUBSET Scanner
                     /\ x \notin rec.at => Raising(x)' = Raising(x) \ {s}
  BY <1>1 DEF Raising
<1> QED  BY <1>1, <1>2, <1>3

\* A scanner that goes on without finding anything.
LEMMA ScansOn ==
  ASSUME AlertsInv, NEW s \in Scanner, NEW rec \in ScanRec, rec.at = {},
         scan' = [scan EXCEPT ![s] = rec], UNCHANGED <<due, open, closed, turns>>
  PROVE  AlertsInv'
<1>1. /\ scan' \in [Scanner -> ScanRec] /\ \A r \in Scanner : \A x, y \in scan'[r].at : x = y
      /\ \A x \in Ref : Raising(x)' = Raising(x) \ {s}
  BY Rescanned DEF AlertsInv
<1>2. AlertsTyped'
  BY <1>1 DEF AlertsInv, AlertsTyped
<1>3. AlertsBounded'
  <2>1. SUFFICES ASSUME NEW x \in Ref PROVE open'[x] + Cardinality(Raising(x)') <= Cardinality(Scanner)
    BY DEF AlertsBounded
  <2>2. Raising(x) \in SUBSET Scanner /\ Raising(x)' \in SUBSET Raising(x) /\ Raising(x)' \in SUBSET Scanner
    BY <1>1 DEF Raising
  <2>3. /\ Cardinality(Raising(x)) \in Nat /\ Cardinality(Raising(x)') \in Nat
        /\ Cardinality(Raising(x)') <= Cardinality(Raising(x))
    BY <2>2, SomeScanners
  <2>4. open'[x] = open[x] /\ open[x] \in Nat /\ open[x] + Cardinality(Raising(x)) <= Cardinality(Scanner)
    BY DEF AlertsInv, AlertsTyped, AlertsBounded
  <2> QED  BY <2>3, <2>4, SomeScanners
<1> QED  BY <1>2, <1>3 DEF AlertsInv

LEMMA LookAlert ==
  ASSUME AlertsInv, NEW s \in Scanner, NEW x \in Ref, Alerting!Look(s, x)
  PROVE  AlertsInv'
<1>1. /\ UNCHANGED <<due, open, closed, turns>>
      /\ scan' = [scan EXCEPT ![s] = [scan[s] EXCEPT !.ahead = scan[s].ahead \ {x},
                                                     !.at = IF Alerting!existing(x) THEN {} ELSE {x}]]
  BY DEF Alerting!Look
<1>2. PICK at : at = IF Alerting!existing(x) THEN {} ELSE {x}
  OBVIOUS
<1>3. PICK r : r = [scan[s] EXCEPT !.ahead = scan[s].ahead \ {x}, !.at = at]
  OBVIOUS
<1>4. r \in ScanRec /\ r.at = at
  BY <1>2, <1>3 DEF AlertsInv, AlertsTyped, ScanRec
<1>5. scan' = [scan EXCEPT ![s] = r]
  BY <1>1, <1>2, <1>3
<1>6. CASE at = {}
  BY <1>1, <1>4, <1>5, <1>6, ScansOn
<1>7. CASE at # {}
  <2>1. at = {x} /\ open[x] = 0
    BY <1>2, <1>7 DEF Alerting!existing, AlertsInv, AlertsTyped
  <2>2. /\ scan' \in [Scanner -> ScanRec] /\ \A q \in Scanner : \A y, z \in scan'[q].at : y = z
        /\ \A y \in Ref : Raising(y)' \in SUBSET Scanner /\ (y # x => Raising(y)' = Raising(y) \ {s})
    BY ZenonT(60), <2>1, <1>4, <1>5, Rescanned DEF AlertsInv
  <2>3. AlertsTyped'
    BY <2>2, <1>1 DEF AlertsInv, AlertsTyped
  <2>4. AlertsBounded'
    <3>1. SUFFICES ASSUME NEW y \in Ref PROVE open'[y] + Cardinality(Raising(y)') <= Cardinality(Scanner)
      BY DEF AlertsBounded
    <3>2. CASE y = x
      <4>1. open'[y] = 0 /\ Raising(y)' \in SUBSET Scanner
        BY <3>2, <2>1, <2>2, <1>1
      <4> QED  BY <4>1, SomeScanners
    <3>3. CASE y # x
      <4>1. Raising(y) \in SUBSET Scanner /\ Raising(y)' \in SUBSET Raising(y)
            /\ Raising(y)' \in SUBSET Scanner
        BY <3>3, <2>2 DEF Raising
      <4>2. /\ Cardinality(Raising(y)) \in Nat /\ Cardinality(Raising(y)') \in Nat
            /\ Cardinality(Raising(y)') <= Cardinality(Raising(y))
        BY <4>1, SomeScanners
      <4>3. open'[y] = open[y] /\ open[y] \in Nat /\ open[y] + Cardinality(Raising(y)) <= Cardinality(Scanner)
        BY <1>1 DEF AlertsInv, AlertsTyped, AlertsBounded
      <4> QED  BY <4>2, <4>3, SomeScanners
    <3> QED  BY <3>2, <3>3
  <2> QED  BY <2>3, <2>4 DEF AlertsInv
<1> QED  BY <1>6, <1>7

LEMMA RaiseAlert ==
  ASSUME AlertsInv, NEW s \in Scanner, NEW x \in Ref, Alerting!Raise(s, x)
  PROVE  AlertsInv'
<1>1. /\ UNCHANGED <<due, closed, turns>> /\ x \in scan[s].at
      /\ open' = [open EXCEPT ![x] = open[x] + 1]
      /\ scan' = [scan EXCEPT ![s] = [scan[s] EXCEPT !.at = {}]]
  BY DEF Alerting!Raise
<1>2. PICK r : r = [scan[s] EXCEPT !.at = {}]
  OBVIOUS
<1>3. r \in ScanRec /\ r.at = {}
  BY <1>2 DEF AlertsInv, AlertsTyped, ScanRec
<1>4. scan' = [scan EXCEPT ![s] = r]
  BY <1>1, <1>2
<1>5. /\ scan' \in [Scanner -> ScanRec] /\ \A q \in Scanner : \A y, z \in scan'[q].at : y = z
      /\ \A y \in Ref : Raising(y)' = Raising(y) \ {s}
  BY <1>3, <1>4, Rescanned DEF AlertsInv
<1>6. open \in [Ref -> Nat] /\ open[x] + 1 \in Nat
  BY DEF AlertsInv, AlertsTyped
<1>7. open' \in [Ref -> Nat] /\ open'[x] = open[x] + 1 /\ \A y \in Ref \ {x} : open'[y] = open[y]
  BY <1>1, <1>6
<1>8. AlertsTyped'
  BY <1>1, <1>5, <1>7 DEF AlertsInv, AlertsTyped
<1>9. AlertsBounded'
  <2>1. SUFFICES ASSUME NEW y \in Ref PROVE open'[y] + Cardinality(Raising(y)') <= Cardinality(Scanner)
    BY DEF AlertsBounded
  <2>2. Raising(y) \in SUBSET Scanner /\ Raising(y)' \in SUBSET Scanner /\ Raising(y)' \in SUBSET Raising(y)
    BY <1>5 DEF Raising
  <2>3. /\ IsFiniteSet(Raising(y)) /\ Cardinality(Raising(y)) \in Nat /\ Cardinality(Raising(y)') \in Nat
        /\ Cardinality(Raising(y)') <= Cardinality(Raising(y))
    BY <2>2, SomeScanners
  <2>4. open[y] \in Nat /\ open[y] + Cardinality(Raising(y)) <= Cardinality(Scanner)
    BY <1>6 DEF AlertsInv, AlertsBounded
  <2>5. CASE y = x
    <3>1. s \in Raising(y)
      BY <2>5, <1>1 DEF Raising
    <3>2. Cardinality(Raising(y)') = Cardinality(Raising(y)) - 1
      BY <3>1, <2>3, <1>5, FS_RemoveElement
    <3> QED  BY <3>2, <2>3, <2>4, <2>5, <1>7, SomeScanners
  <2>6. CASE y # x
    BY <2>3, <2>4, <2>6, <1>7, SomeScanners
  <2> QED  BY <2>5, <2>6
<1> QED  BY <1>8, <1>9 DEF AlertsInv

\* Steps that leave the scans alone.
LEMMA TurnAlert ==
  ASSUME AlertsInv, NEW x \in Ref, Alerting!Turn(x)
  PROVE  AlertsInv'
<1>1. /\ UNCHANGED <<open, closed, scan>> /\ turns' = turns + 1 /\ turns < MaxTurns
      /\ due' = IF x \in due THEN due \ {x} ELSE due \cup {x}
  BY DEF Alerting!Turn
<1>2. due' \in SUBSET Ref
  BY <1>1 DEF AlertsInv, AlertsTyped
<1>3. turns' \in 0..MaxTurns
  BY <1>1, ServicesAssumption DEF AlertsInv, AlertsTyped
<1>4. AlertsTyped'
  BY <1>1, <1>2, <1>3 DEF AlertsInv, AlertsTyped
<1>5. AlertsBounded'
  BY <1>1 DEF AlertsInv, AlertsBounded, Raising
<1> QED  BY <1>4, <1>5 DEF AlertsInv

LEMMA DismissAlert ==
  ASSUME AlertsInv, NEW x \in Ref, Alerting!dismiss(x)
  PROVE  AlertsInv'
<1>1. /\ UNCHANGED <<due, scan, turns>> /\ open[x] > 0 /\ open' = [open EXCEPT ![x] = open[x] - 1]
      /\ closed' = closed \cup {x}
  BY DEF Alerting!dismiss
<1>2. open \in [Ref -> Nat] /\ open[x] - 1 \in Nat
  BY <1>1 DEF AlertsInv, AlertsTyped
<1>3. open' \in [Ref -> Nat] /\ \A y \in Ref : open'[y] <= open[y]
  BY <1>1, <1>2
<1>4. AlertsTyped'
  BY <1>1, <1>3 DEF AlertsInv, AlertsTyped
<1>5. AlertsBounded'
  <2>1. SUFFICES ASSUME NEW y \in Ref PROVE open'[y] + Cardinality(Raising(y)) <= Cardinality(Scanner)
    BY <1>1 DEF AlertsBounded, Raising
  <2>2. Raising(y) \in SUBSET Scanner
    BY DEF Raising
  <2>3. Cardinality(Raising(y)) \in Nat /\ open[y] \in Nat /\ open'[y] \in Nat
    BY <2>2, <1>2, <1>3, SomeScanners
  <2>4. open[y] + Cardinality(Raising(y)) <= Cardinality(Scanner)
    BY DEF AlertsInv, AlertsBounded
  <2> QED  BY <2>3, <2>4, <1>3, SomeScanners
<1> QED  BY <1>4, <1>5 DEF AlertsInv

LEMMA AlertsStep == AlertsInv /\ [Alerting!Next]_alertVars => AlertsInv'
<1> SUFFICES ASSUME AlertsInv, [Alerting!Next]_alertVars PROVE AlertsInv'
  OBVIOUS
<1>1. CASE UNCHANGED alertVars
  <2>1. AlertsTyped'
    BY <1>1 DEF alertVars, AlertsInv, AlertsTyped
  <2>2. AlertsBounded'
    BY <1>1 DEF alertVars, AlertsInv, AlertsBounded, Raising
  <2> QED  BY <2>1, <2>2 DEF AlertsInv
<1>2. ASSUME NEW x \in Ref, Alerting!Turn(x) \/ Alerting!dismiss(x) PROVE AlertsInv'
  BY <1>2, TurnAlert, DismissAlert
<1>3. ASSUME NEW s \in Scanner, NEW x \in Ref, Alerting!Look(s, x) \/ Alerting!Raise(s, x)
      PROVE  AlertsInv'
  BY <1>3, LookAlert, RaiseAlert
<1>4. ASSUME NEW s \in Scanner,
             \/ Alerting!runAll(s) \/ Alerting!backupMissedScan(s)
             \/ Alerting!Done(s) \/ Alerting!Headless(s)
      PROVE  AlertsInv'
  <2>1. PICK r : /\ r \in {Alerting!NoScan, [step |-> "items", ahead |-> due \cap Item, at |-> {}],
                           [step |-> "pcs", ahead |-> due \ Item, at |-> {}]}
                 /\ scan' = [scan EXCEPT ![s] = r]
    BY <1>4 DEF Alerting!runAll, Alerting!backupMissedScan, Alerting!Done, Alerting!Headless
  <2>2. due \in SUBSET Ref
    BY DEF AlertsInv, AlertsTyped
  <2>3. r \in ScanRec /\ r.at = {}
    BY <2>1, <2>2 DEF ScanRec, Alerting!NoScan
  <2>4. UNCHANGED <<due, open, closed, turns>>
    BY <1>4 DEF Alerting!runAll, Alerting!backupMissedScan, Alerting!Done, Alerting!Headless
  <2> QED  BY <2>1, <2>3, <2>4, ScansOn
<1> QED  BY <1>1, <1>2, <1>3, <1>4 DEF Alerting!Next, Ref

-----------------------------------------------------------------------------
(* The backups.                                                            *)

RunStatus == {"none", "RUNNING", "SUCCESS", "FAILED", "deleted"}
RunRec == [status : RunStatus, pc : Backups!Pc \cup {"none"}, old : BOOLEAN]
PurgeRec == [step : {"idle", "job", "remove", "delete"}, jobs : SUBSET StorePc, old : SUBSET Run,
             at : SUBSET Run]

BackupsInv ==
  /\ there \in SUBSET Backups!Pc /\ run \in [Run -> RunRec] /\ archive \in SUBSET Run
  /\ fails \in SUBSET Run /\ IsFiniteSet(fails) /\ Cardinality(fails) <= MaxFails
  /\ crashes \in 0..MaxCrashes /\ purge \in PurgeRec

LEMMA BackupsCounts ==
  ASSUME NEW S PROVE Backups!Cardinality(S) = Cardinality(S)
<1>1. Backups!IsFiniteSet(S) = IsFiniteSet(S)
  BY DEF Backups!IsFiniteSet, IsFiniteSet
<1> QED  BY <1>1 DEF Backups!Cardinality, Cardinality, Backups!IsFiniteSet, IsFiniteSet

LEMMA BackupsTyped == BackupsInv => Backups!TypeOK
<1> SUFFICES ASSUME BackupsInv PROVE Backups!TypeOK
  OBVIOUS
<1>1. Backups!Cardinality(fails) <= MaxFails
  BY BackupsCounts DEF BackupsInv
<1> QED  BY <1>1 DEF BackupsInv, PurgeRec, RunRec, RunStatus, Backups!TypeOK

LEMMA NoPurgeType == Backups!NoPurge \in PurgeRec
  BY DEF Backups!NoPurge, PurgeRec

LEMMA BackupsInitial == Backups!Init => BackupsInv
<1> SUFFICES ASSUME Backups!Init PROVE BackupsInv
  OBVIOUS
<1>1. IsFiniteSet({}) /\ Cardinality({}) = 0
  BY FS_EmptySet
<1>2. [status |-> "none", pc |-> "none", old |-> FALSE] \in RunRec
  BY DEF RunRec, RunStatus
<1>3. run \in [Run -> RunRec]
  BY <1>2 DEF Backups!Init
<1> QED  BY <1>1, <1>3, NoPurgeType, ServicesAssumption DEF Backups!Init, BackupsInv

\* What a purge goes on to.
LEMMA OnType ==
  ASSUME NEW p \in PurgeRec PROVE Backups!On(p) \in PurgeRec
<1>1. [p EXCEPT !.step = "remove"] \in PurgeRec /\ [p EXCEPT !.step = "job"] \in PurgeRec
  BY DEF PurgeRec
<1> QED  BY <1>1, NoPurgeType DEF Backups!On

\* Steps that rewrite one run.
LEMMA RunStep ==
  ASSUME BackupsInv, NEW r \in Run, NEW rec \in RunRec, run' = [run EXCEPT ![r] = rec],
         UNCHANGED <<there, archive, fails, crashes>>, purge' \in PurgeRec
  PROVE  BackupsInv'
  BY DEF BackupsInv

LEMMA RunEdits ==
  ASSUME BackupsInv, NEW r \in Run, NEW st \in RunStatus
  PROVE  /\ [run[r] EXCEPT !.status = st] \in RunRec /\ [run[r] EXCEPT !.old = TRUE] \in RunRec
  BY DEF BackupsInv, RunRec

LEMMA AgentStepBackups ==
  ASSUME BackupsInv, NEW r \in Run,
         (\E p \in Backups!Pc : Backups!start(r, p)) \/ Backups!Upload(r) \/ Backups!complete(r)
           \/ Backups!fail(r) \/ Backups!Age(r)
  PROVE  BackupsInv'
<1>1. purge \in PurgeRec
  BY DEF BackupsInv
<1>2. ASSUME NEW p \in Backups!Pc, Backups!start(r, p) PROVE BackupsInv'
  <2>1. PICK rec : rec = [status |-> "RUNNING", pc |-> p, old |-> FALSE]
    OBVIOUS
  <2>2. rec \in RunRec
    BY <2>1 DEF RunRec, RunStatus
  <2>3. run' = [run EXCEPT ![r] = rec] /\ UNCHANGED <<there, archive, purge, fails, crashes>>
    BY <1>2, <2>1 DEF Backups!start
  <2> QED  BY <2>2, <2>3, <1>1, RunStep
<1>3. CASE Backups!Upload(r)
  BY <1>3 DEF Backups!Upload, BackupsInv
<1>4. ASSUME NEW rec \in RunRec, run' = [run EXCEPT ![r] = rec], UNCHANGED <<there, archive, purge, fails, crashes>>
      PROVE  BackupsInv'
  BY <1>1, <1>4, RunStep
<1>5. CASE Backups!complete(r)
  <2>1. PICK rec : rec = [run[r] EXCEPT !.status = "SUCCESS"]
    OBVIOUS
  <2>2. run' = [run EXCEPT ![r] = rec] /\ UNCHANGED <<there, archive, purge, fails, crashes>>
    BY <1>5, <2>1 DEF Backups!complete
  <2>3. rec \in RunRec
    BY <2>1, RunEdits DEF RunStatus
  <2> QED  BY <2>2, <2>3, <1>4
<1>6. CASE Backups!fail(r)
  <2>1. PICK rec : rec = [run[r] EXCEPT !.status = "FAILED"]
    OBVIOUS
  <2>2. run' = [run EXCEPT ![r] = rec] /\ UNCHANGED <<there, archive, purge, fails, crashes>>
    BY <1>6, <2>1 DEF Backups!fail
  <2>3. rec \in RunRec
    BY <2>1, RunEdits DEF RunStatus
  <2> QED  BY <2>2, <2>3, <1>4
<1>7. CASE Backups!Age(r)
  <2>1. PICK rec : rec = [run[r] EXCEPT !.old = TRUE]
    OBVIOUS
  <2>2. run' = [run EXCEPT ![r] = rec] /\ UNCHANGED <<there, archive, purge, fails, crashes>>
    BY <1>7, <2>1 DEF Backups!Age
  <2>3. rec \in RunRec
    BY <2>1, RunEdits DEF RunStatus
  <2> QED  BY <2>2, <2>3, <1>4
<1> QED  BY <1>2, <1>3, <1>5, <1>6, <1>7

LEMMA RemovePcBackups ==
  ASSUME BackupsInv, NEW p \in Backups!Pc, Backups!removePc(p)
  PROVE  BackupsInv'
<1>1. /\ UNCHANGED <<archive, purge, fails, crashes>> /\ there' = there \ {p}
      /\ run' = [r \in Run |-> IF run[r].pc = p /\ Backups!Row(r)
                               THEN [run[r] EXCEPT !.status = "deleted"] ELSE run[r]]
  BY DEF Backups!removePc
<1>2. \A r \in Run : [run[r] EXCEPT !.status = "deleted"] \in RunRec /\ run[r] \in RunRec
  BY RunEdits DEF RunStatus, BackupsInv
<1>3. run' \in [Run -> RunRec]
  BY <1>1, <1>2
<1> QED  BY <1>1, <1>3 DEF BackupsInv

LEMMA PurgeStep ==
  ASSUME BackupsInv, purge' \in PurgeRec, UNCHANGED <<there, run, archive, fails, crashes>>
  PROVE  BackupsInv'
  BY DEF BackupsInv

LEMMA ReadJobBackups ==
  ASSUME BackupsInv, NEW p, Backups!ReadJob(p)
  PROVE  BackupsInv'
<1>1. purge' = Backups!On([purge EXCEPT !.jobs = purge.jobs \ {p}, !.old = Backups!Expired(p)])
      /\ UNCHANGED <<there, run, archive, fails, crashes>>
  BY DEF Backups!ReadJob
<1>2. Backups!Expired(p) \in SUBSET Run
  BY DEF Backups!Expired
<1>3. [purge EXCEPT !.jobs = purge.jobs \ {p}, !.old = Backups!Expired(p)] \in PurgeRec
  BY <1>2 DEF BackupsInv, PurgeRec
<1>4. purge' \in PurgeRec
  BY <1>1, <1>3, OnType
<1> QED  BY <1>1, <1>4, PurgeStep

LEMMA RemoveArchiveBackups ==
  ASSUME BackupsInv, NEW r \in Run, Backups!RemoveArchive(r)
  PROVE  BackupsInv'
<1>1. /\ UNCHANGED <<there, run, crashes>>
      /\ purge' = [purge EXCEPT !.step = "delete", !.old = purge.old \ {r}, !.at = {r}]
  BY DEF Backups!RemoveArchive
<1>2. \/ archive' = archive \ {r} /\ fails' = fails
      \/ Cardinality(fails) < MaxFails /\ fails' = fails \cup {r} /\ archive' = archive
  BY BackupsCounts DEF Backups!RemoveArchive
<1>3. purge' \in PurgeRec
  BY <1>1 DEF BackupsInv, PurgeRec
<1>4. fails' \in SUBSET Run /\ archive' \in SUBSET Run
  BY <1>2 DEF BackupsInv
<1>5. IsFiniteSet(fails') /\ Cardinality(fails') <= MaxFails
  <2>1. IsFiniteSet(fails) /\ Cardinality(fails) <= MaxFails /\ Cardinality(fails) \in Nat /\ MaxFails \in Nat
    BY FS_CardinalityType, ServicesAssumption DEF BackupsInv
  <2>2. CASE fails' = fails
    BY <2>1, <2>2
  <2>3. CASE Cardinality(fails) < MaxFails /\ fails' = fails \cup {r}
    <3>1. /\ IsFiniteSet(fails \cup {r})
          /\ Cardinality(fails \cup {r}) = IF r \in fails THEN Cardinality(fails) ELSE Cardinality(fails) + 1
      BY <2>1, FS_AddElement
    <3> QED  BY <2>1, <2>3, <3>1
  <2> QED  BY <2>2, <2>3, <1>2
<1> QED  BY <1>1, <1>3, <1>4, <1>5 DEF BackupsInv

LEMMA DeleteRunBackups ==
  ASSUME BackupsInv, NEW r \in Run, Backups!DeleteRun(r)
  PROVE  BackupsInv'
<1>1. UNCHANGED <<there, archive, fails, crashes>>
  BY DEF Backups!DeleteRun
<1>2. CASE Backups!Row(r)
  <2>1. PICK rec : rec = [run[r] EXCEPT !.status = "deleted"]
    OBVIOUS
  <2>2. run' = [run EXCEPT ![r] = rec] /\ purge' = Backups!On([purge EXCEPT !.at = {}])
    BY <1>2, <2>1 DEF Backups!DeleteRun
  <2>3. rec \in RunRec
    BY <2>1, RunEdits DEF RunStatus
  <2>4. [purge EXCEPT !.at = {}] \in PurgeRec
    BY DEF BackupsInv, PurgeRec
  <2>5. purge' \in PurgeRec
    BY <2>2, <2>4, OnType
  <2> QED  BY <2>2, <2>3, <2>5, <1>1, RunStep
<1>3. CASE ~Backups!Row(r)
  BY <1>1, <1>3, NoPurgeType, PurgeStep DEF Backups!DeleteRun
<1> QED  BY <1>2, <1>3

LEMMA BackupsStep == BackupsInv /\ [Backups!Next]_backupVars => BackupsInv'
<1> SUFFICES ASSUME BackupsInv, [Backups!Next]_backupVars PROVE BackupsInv'
  OBVIOUS
<1>1. CASE UNCHANGED backupVars
  BY <1>1 DEF backupVars, BackupsInv
<1>2. CASE Backups!purgeOld
  <2>1. [step |-> "job", jobs |-> StorePc, old |-> {}, at |-> {}] \in PurgeRec
    BY DEF PurgeRec
  <2> QED  BY <2>1, <1>2, PurgeStep DEF Backups!purgeOld
<1>3. CASE Backups!Crash
  <2>1. /\ UNCHANGED <<there, run, archive, fails>> /\ purge' = Backups!NoPurge
        /\ crashes < MaxCrashes /\ crashes' = crashes + 1
    BY <1>3 DEF Backups!Crash
  <2>2. crashes' \in 0..MaxCrashes
    BY <2>1, ServicesAssumption DEF BackupsInv
  <2> QED  BY <2>1, <2>2, NoPurgeType DEF BackupsInv
<1>4. ASSUME NEW r \in Run,
             \/ (\E p \in Backups!Pc : Backups!start(r, p)) \/ Backups!Upload(r) \/ Backups!complete(r)
             \/ Backups!fail(r) \/ Backups!Age(r) \/ Backups!RemoveArchive(r) \/ Backups!DeleteRun(r)
      PROVE  BackupsInv'
  BY <1>4, AgentStepBackups, RemoveArchiveBackups, DeleteRunBackups
<1>5. ASSUME NEW p \in Backups!Pc, Backups!removePc(p) \/ Backups!ReadJob(p) PROVE BackupsInv'
  BY <1>5, RemovePcBackups, ReadJobBackups
<1> QED  BY <1>1, <1>2, <1>3, <1>4, <1>5 DEF Backups!Next

-----------------------------------------------------------------------------
\* Every service keeps its tables within their types, and no row of the alerts gets more
\* open alerts than there are scanners: each looks for an open one before it raises one.
THEOREM ServicesTyped == ServicesSpec => []AllTyped
<1>1. MailInv /\ BackupsInv /\ AlertsInv /\ CodingInv => AllTyped
  BY MailTyped, BackupsTyped, AlertsTypedRight, CodingIsTyped DEF AllTyped, CodingInv
<1>2. ServicesInit => MailInv /\ BackupsInv /\ AlertsInv /\ CodingInv
  BY MailInitial, BackupsInitial, AlertsInitial, CodingInitial DEF ServicesInit
<1>3. MailInv /\ [ServicesNext]_AllVars => MailInv'
  BY MailStep, Steps
<1>4. BackupsInv /\ [ServicesNext]_AllVars => BackupsInv'
  BY BackupsStep, Steps
<1>5. AlertsInv /\ [ServicesNext]_AllVars => AlertsInv'
  BY AlertsStep, Steps
<1>6. CodingInv /\ [ServicesNext]_AllVars => CodingInv'
  BY CodingStep, Steps
<1> QED  BY <1>1, <1>2, <1>3, <1>4, <1>5, <1>6, PTL DEF ServicesSpec

-----------------------------------------------------------------------------
(* The purge: it takes up runs that are old, which are not uploaded again,  *)
(* and the archive of the one whose row it is about to delete is gone.      *)

PurgeInv ==
  /\ \A r \in Run : run[r].status = "none" => ~run[r].old
  /\ \A r \in purge.old \cup purge.at : run[r].old
  /\ \A r \in purge.at : r \notin archive \/ r \in fails
  /\ \A r \in Run : run[r].status = "deleted" /\ run[r].pc \in there =>
       run[r].old /\ (r \notin archive \/ r \in fails)

LEMMA PurgeStart == Backups!Init => PurgeInv
  BY DEF Backups!Init, Backups!NoPurge, PurgeInv

\* What the purge goes on to holds no more runs than it held.
LEMMA OnHolds ==
  ASSUME NEW p \in PurgeRec
  PROVE  Backups!On(p).old \subseteq p.old /\ Backups!On(p).at \subseteq p.at
<1>1. [p EXCEPT !.step = "remove"].old = p.old /\ [p EXCEPT !.step = "remove"].at = p.at
  BY DEF PurgeRec
<1>2. [p EXCEPT !.step = "job"].old = p.old /\ [p EXCEPT !.step = "job"].at = p.at
  BY DEF PurgeRec
<1> QED  BY <1>1, <1>2 DEF Backups!On, Backups!NoPurge

\* A run that is rewritten and not deleted.
LEMMA RunKept ==
  ASSUME BackupsInv, PurgeInv, NEW r \in Run, NEW rec \in RunRec, run' = [run EXCEPT ![r] = rec],
         UNCHANGED <<there, archive, purge, fails>>, rec.status \notin {"none", "deleted"},
         run[r].old => rec.old
  PROVE  PurgeInv'
<1>1. run'[r] = rec /\ \A x \in Run \ {r} : run'[x] = run[x]
  BY DEF BackupsInv
<1>2. purge.old \subseteq Run /\ purge.at \subseteq Run
  BY DEF BackupsInv, PurgeRec
<1> QED  BY <1>1, <1>2 DEF PurgeInv

LEMMA PurgeByAgent ==
  ASSUME BackupsInv, PurgeInv, NEW r \in Run,
         (\E p \in Backups!Pc : Backups!start(r, p)) \/ Backups!Upload(r) \/ Backups!complete(r)
           \/ Backups!fail(r) \/ Backups!Age(r)
  PROVE  PurgeInv'
<1>1. run[r] \in RunRec /\ run \in [Run -> RunRec]
  BY DEF BackupsInv
<1>2. ASSUME NEW p \in Backups!Pc, Backups!start(r, p) PROVE PurgeInv'
  <2>1. PICK rec : rec = [status |-> "RUNNING", pc |-> p, old |-> FALSE]
    OBVIOUS
  <2>2. rec \in RunRec /\ rec.status = "RUNNING"
    BY <2>1 DEF RunRec, RunStatus
  <2>3. run' = [run EXCEPT ![r] = rec] /\ UNCHANGED <<there, archive, purge, fails>>
        /\ run[r].status = "none"
    BY <1>2, <2>1 DEF Backups!start
  <2>4. ~run[r].old
    BY <2>3 DEF PurgeInv
  <2> QED  BY <2>2, <2>3, <2>4, RunKept
<1>3. CASE Backups!Upload(r)
  <2>1. ~run[r].old /\ archive' = archive \cup {r} /\ UNCHANGED <<there, run, purge, fails>>
    BY <1>3 DEF Backups!Upload
  <2> QED  BY <2>1 DEF PurgeInv
<1>4. CASE Backups!complete(r)
  <2>1. PICK rec : rec = [run[r] EXCEPT !.status = "SUCCESS"]
    OBVIOUS
  <2>2. rec \in RunRec /\ rec.status = "SUCCESS" /\ rec.old = run[r].old
    BY <1>1, <2>1 DEF RunRec, RunStatus
  <2>3. run' = [run EXCEPT ![r] = rec] /\ UNCHANGED <<there, archive, purge, fails>>
    BY <1>4, <2>1 DEF Backups!complete
  <2> QED  BY <2>2, <2>3, RunKept
<1>5. CASE Backups!fail(r)
  <2>1. PICK rec : rec = [run[r] EXCEPT !.status = "FAILED"]
    OBVIOUS
  <2>2. rec \in RunRec /\ rec.status = "FAILED" /\ rec.old = run[r].old
    BY <1>1, <2>1 DEF RunRec, RunStatus
  <2>3. run' = [run EXCEPT ![r] = rec] /\ UNCHANGED <<there, archive, purge, fails>>
    BY <1>5, <2>1 DEF Backups!fail
  <2> QED  BY <2>2, <2>3, RunKept
<1>6. CASE Backups!Age(r)
  <2>1. PICK rec : rec = [run[r] EXCEPT !.old = TRUE]
    OBVIOUS
  <2>2. rec \in RunRec /\ rec.status = run[r].status /\ rec.old /\ rec.pc = run[r].pc
    BY <1>1, <2>1 DEF RunRec
  <2>3. /\ run' = [run EXCEPT ![r] = rec] /\ UNCHANGED <<there, archive, purge, fails>>
        /\ run[r].status # "none" /\ ~run[r].old
    BY <1>6, <2>1 DEF Backups!Age
  <2>4. ~(run[r].status = "deleted" /\ run[r].pc \in there)
    BY <2>3 DEF PurgeInv
  <2>5. run'[r] = rec /\ \A x \in Run \ {r} : run'[x] = run[x]
    BY <1>1, <2>3
  <2>6. purge.old \subseteq Run /\ purge.at \subseteq Run
    BY DEF BackupsInv, PurgeRec
  <2> QED  BY <2>2, <2>3, <2>4, <2>5, <2>6 DEF PurgeInv
<1> QED  BY <1>2, <1>3, <1>4, <1>5, <1>6

LEMMA PurgeByRemoval ==
  ASSUME BackupsInv, PurgeInv, NEW p \in Backups!Pc, Backups!removePc(p)
  PROVE  PurgeInv'
<1>1. UNCHANGED <<archive, purge, fails>> /\ there' = there \ {p}
  BY DEF Backups!removePc
<1>2. \A r \in Run : run'[r] = IF run[r].pc = p /\ Backups!Row(r)
                               THEN [run[r] EXCEPT !.status = "deleted"] ELSE run[r]
  BY DEF Backups!removePc
<1>3. \A r \in Run : /\ [run[r] EXCEPT !.status = "deleted"].old = run[r].old
                     /\ [run[r] EXCEPT !.status = "deleted"].pc = run[r].pc
                     /\ [run[r] EXCEPT !.status = "deleted"].status = "deleted"
  BY DEF BackupsInv, RunRec
<1>4. \A r \in Run : /\ run'[r].old = run[r].old /\ run'[r].pc = run[r].pc
                     /\ run'[r].status = run[r].status \/ (run[r].pc = p /\ run'[r].status = "deleted")
  BY <1>2, <1>3
<1>5. purge.old \subseteq Run /\ purge.at \subseteq Run
  BY DEF BackupsInv, PurgeRec
<1> QED  BY <1>1, <1>4, <1>5 DEF PurgeInv

LEMMA PurgeByItself ==
  ASSUME BackupsInv, PurgeInv, NEW p \in PurgeRec, purge' = Backups!On(p) \/ purge' = Backups!NoPurge,
         \A r \in p.old \cup p.at : run[r].old, \A r \in p.at : r \notin archive \/ r \in fails,
         UNCHANGED <<there, run, archive, fails>>
  PROVE  PurgeInv'
<1>1. purge'.old \subseteq p.old /\ purge'.at \subseteq p.at
  BY OnHolds DEF Backups!NoPurge
<1> QED  BY <1>1 DEF PurgeInv

LEMMA PurgeByReading ==
  ASSUME BackupsInv, PurgeInv, NEW p, Backups!ReadJob(p)
  PROVE  PurgeInv'
<1>1. PICK q : q = [purge EXCEPT !.jobs = purge.jobs \ {p}, !.old = Backups!Expired(p)]
  OBVIOUS
<1>2. purge' = Backups!On(q) /\ UNCHANGED <<there, run, archive, fails>>
  BY <1>1 DEF Backups!ReadJob
<1>3. Backups!Expired(p) \in SUBSET Run /\ \A r \in Backups!Expired(p) : run[r].old
  BY DEF Backups!Expired
<1>4. q \in PurgeRec /\ q.old = Backups!Expired(p) /\ q.at = purge.at
  BY <1>1, <1>3 DEF BackupsInv, PurgeRec
<1>5. \A r \in q.old \cup q.at : run[r].old
  BY <1>3, <1>4 DEF PurgeInv
<1>6. \A r \in q.at : r \notin archive \/ r \in fails
  BY <1>4 DEF PurgeInv
<1> QED  BY <1>2, <1>4, <1>5, <1>6, PurgeByItself

LEMMA PurgeByArchive ==
  ASSUME BackupsInv, PurgeInv, NEW r \in Run, Backups!RemoveArchive(r)
  PROVE  PurgeInv'
<1>1. /\ UNCHANGED <<there, run>> /\ r \in purge.old
      /\ purge' = [purge EXCEPT !.step = "delete", !.old = purge.old \ {r}, !.at = {r}]
  BY DEF Backups!RemoveArchive
<1>2. \/ archive' = archive \ {r} /\ fails' = fails
      \/ fails' = fails \cup {r} /\ archive' = archive
  BY DEF Backups!RemoveArchive
<1>3. purge'.old = purge.old \ {r} /\ purge'.at = {r}
  BY <1>1 DEF BackupsInv, PurgeRec
<1> QED  BY <1>1, <1>2, <1>3 DEF PurgeInv

LEMMA PurgeByDeletion ==
  ASSUME BackupsInv, PurgeInv, NEW r \in Run, Backups!DeleteRun(r)
  PROVE  PurgeInv'
<1>1. UNCHANGED <<there, archive, fails>> /\ r \in purge.at
  BY DEF Backups!DeleteRun
<1>2. CASE Backups!Row(r)
  <2>1. PICK rec, q : rec = [run[r] EXCEPT !.status = "deleted"] /\ q = [purge EXCEPT !.at = {}]
    OBVIOUS
  <2>2. run' = [run EXCEPT ![r] = rec] /\ purge' = Backups!On(q)
    BY <1>2, <2>1 DEF Backups!DeleteRun
  <2>3. rec.status = "deleted" /\ rec.old = run[r].old
    BY <2>1 DEF BackupsInv, RunRec
  <2>4. run'[r] = rec /\ \A x \in Run \ {r} : run'[x] = run[x]
    BY <2>2 DEF BackupsInv
  <2>5. q \in PurgeRec /\ q.old = purge.old /\ q.at = {}
    BY <2>1 DEF BackupsInv, PurgeRec
  <2>6. purge'.old \subseteq purge.old /\ purge'.at = {} /\ purge.old \subseteq Run
    BY <2>2, <2>5, OnHolds DEF PurgeRec
  <2>7. run[r].old /\ (r \notin archive \/ r \in fails)
    BY <1>1 DEF PurgeInv
  <2> QED  BY <1>1, <2>3, <2>4, <2>6, <2>7 DEF PurgeInv
<1>3. CASE ~Backups!Row(r)
  <2>1. purge' = Backups!NoPurge /\ run' = run
    BY <1>3 DEF Backups!DeleteRun
  <2> QED  BY <1>1, <2>1 DEF PurgeInv, Backups!NoPurge
<1> QED  BY <1>2, <1>3

LEMMA PurgeKeeps == BackupsInv /\ PurgeInv /\ [Backups!Next]_backupVars => PurgeInv'
<1> SUFFICES ASSUME BackupsInv, PurgeInv, [Backups!Next]_backupVars PROVE PurgeInv'
  OBVIOUS
<1>1. CASE UNCHANGED backupVars
  BY <1>1 DEF backupVars, PurgeInv
<1>2. CASE Backups!purgeOld
  BY <1>2 DEF Backups!purgeOld, PurgeInv
<1>3. CASE Backups!Crash
  BY <1>3 DEF Backups!Crash, Backups!NoPurge, PurgeInv
<1>4. ASSUME NEW r \in Run,
             \/ (\E p \in Backups!Pc : Backups!start(r, p)) \/ Backups!Upload(r) \/ Backups!complete(r)
             \/ Backups!fail(r) \/ Backups!Age(r) \/ Backups!RemoveArchive(r) \/ Backups!DeleteRun(r)
      PROVE  PurgeInv'
  BY <1>4, PurgeByAgent, PurgeByArchive, PurgeByDeletion
<1>5. ASSUME NEW p \in Backups!Pc, Backups!removePc(p) \/ Backups!ReadJob(p) PROVE PurgeInv'
  BY <1>5, PurgeByRemoval, PurgeByReading
<1> QED  BY <1>1, <1>2, <1>3, <1>4, <1>5 DEF Backups!Next

\* Backups (backups-retention.service.ts): the purge deletes no row before its archive is gone or
\* was refused, and none comes back: of a PC that is still on the list, no archive is left that no
\* row tells of.  It is what ExpiredRunsGo promises, of any number of runs, without the "at last".
THEOREM PurgeCorrect == ServicesSpec => []Backups!PurgedLeaveNothing
<1>1. PurgeInv => Backups!PurgedLeaveNothing
  BY DEF PurgeInv, Backups!PurgedLeaveNothing
<1>2. ServicesInit => BackupsInv /\ PurgeInv
  BY BackupsInitial, PurgeStart DEF ServicesInit
<1>3. BackupsInv /\ [ServicesNext]_AllVars => BackupsInv'
  BY BackupsStep, Steps
<1>4. BackupsInv /\ PurgeInv /\ [ServicesNext]_AllVars => PurgeInv'
  BY PurgeKeeps, Steps
<1> QED  BY <1>1, <1>2, <1>3, <1>4, PTL DEF ServicesSpec

-----------------------------------------------------------------------------
(* No video is left RUNNING by a process that goes on.                      *)

\* A step of process w at video v leaves the others at theirs.
LEMMA OthersWork ==
  ASSUME CodingInv, NEW w \in Worker, NEW v \in Video, Coding!Works(w, v), NEW rec,
         worker' = [worker EXCEPT ![w] = rec], NEW u \in Video, u # v, NEW x \in Worker, Coding!Works(x, u)
  PROVE  Coding!Works(x, u)'
<1>1. worker[w].video = {v}
  BY Busy
<1>2. x # w
  BY <1>1 DEF Coding!Works
<1> QED  BY <1>2 DEF Coding!Works, CodingInv, CodingTyped

\* The status of video v alone is rewritten, or none is, and no process leaves another one.
LEMMA RunningElse ==
  ASSUME CodingInv, Coding!RunningHasProcess, NEW v \in Video,
         \A u \in Video \ {v} : video'[u].status = video[u].status,
         \A u \in Video \ {v}, x \in Worker : Coding!Works(x, u) => Coding!Works(x, u)',
         crashed \subseteq crashed', video'[v].status = "RUNNING" => v \in crashed' \/ \E x \in Worker : Coding!Works(x, v)'
  PROVE  Coding!RunningHasProcess'
<1>1. ASSUME NEW u \in Video, video'[u].status = "RUNNING"
      PROVE  u \in crashed' \/ \E x \in Worker : Coding!Works(x, u)'
  <2>1. CASE u = v
    BY <1>1, <2>1
  <2>2. CASE u # v
    <3>1. u \in crashed \/ \E x \in Worker : Coding!Works(x, u)
      BY <1>1, <2>2 DEF Coding!RunningHasProcess
    <3> QED  BY <2>2, <3>1
  <2> QED  BY <2>1, <2>2
<1> QED  BY <1>1 DEF Coding!RunningHasProcess

LEMMA RunningByUser ==
  ASSUME CodingInv, Coding!RunningHasProcess, NEW v \in Video,
         Coding!createVideo(v) \/ Coding!deleteVideo(v) \/ Coding!Queue(v) \/ Coding!DeleteRows(v)
  PROVE  Coding!RunningHasProcess'
<1>1. worker' = worker /\ crashed' = crashed
  BY DEF Coding!createVideo, Coding!deleteVideo, Coding!Queue, Coding!DeleteRows
<1>2. \A u \in Video, x \in Worker : Coding!Works(x, u) => Coding!Works(x, u)'
  BY <1>1 DEF Coding!Works
<1>3. video \in [Video -> VideoRec]
  BY DEF CodingInv, CodingTyped
<1>4. CASE Coding!createVideo(v)
  <2>1. PICK F \in SUBSET Quality, g \in BOOLEAN :
          video' = [video EXCEPT ![v] = [status |-> "PENDING", good |-> g, fits |-> F]]
    BY <1>4 DEF Coding!createVideo
  <2>2. video'[v].status = "PENDING" /\ \A u \in Video \ {v} : video'[u] = video[u]
    BY <1>3, <2>1
  <2> QED  BY <1>1, <1>2, <2>2, RunningElse
<1>5. ASSUME NEW st \in Coding!Status, st # "RUNNING", video' = [video EXCEPT ![v].status = st]
      PROVE  Coding!RunningHasProcess'
  <2>1. video'[v].status = st /\ \A u \in Video \ {v} : video'[u] = video[u]
    BY <1>5, StatusSet DEF CodingInv
  <2> QED  BY <1>1, <1>2, <1>5, <2>1, RunningElse
<1>6. CASE Coding!deleteVideo(v)
  <2>1. video' = [video EXCEPT ![v].status = "deleted"]
    BY <1>6 DEF Coding!deleteVideo
  <2> QED  BY <1>5, <2>1 DEF Coding!Status
<1>7. CASE Coding!Queue(v)
  <2>1. video' = [video EXCEPT ![v].status = "PENDING"]
    BY <1>7 DEF Coding!Queue
  <2> QED  BY <1>5, <2>1 DEF Coding!Status
<1>8. CASE Coding!DeleteRows(v)
  <2>1. video' = video
    BY <1>8 DEF Coding!DeleteRows
  <2> QED  BY <1>1, <2>1 DEF Coding!RunningHasProcess, Coding!Works
<1> QED  BY <1>4, <1>6, <1>7, <1>8

\* A process that stays with its video.
LEMMA RunningGoesOn ==
  ASSUME CodingInv, Coding!RunningHasProcess, NEW w \in Worker, NEW v \in Video, Coding!Works(w, v),
         NEW rec, worker' = [worker EXCEPT ![w] = rec], rec.step # "idle", rec.video = worker[w].video,
         \A u \in Video \ {v} : video'[u].status = video[u].status, crashed' = crashed
  PROVE  Coding!RunningHasProcess'
<1>1. worker'[w] = rec
  BY DEF CodingInv, CodingTyped
<1>2. Coding!Works(w, v)'
  BY <1>1 DEF Coding!Works
<1>3. \A u \in Video \ {v}, x \in Worker : Coding!Works(x, u) => Coding!Works(x, u)'
  BY OthersWork
<1> QED  BY <1>2, <1>3, RunningElse

\* A process that ends leaves its video in another status, unless it is none of a process's.
LEMMA RunningEnds ==
  ASSUME CodingInv, Coding!RunningHasProcess, NEW w \in Worker, NEW v \in Video, Coding!Works(w, v),
         Coding!End(w), \A u \in Video \ {v} : video'[u].status = video[u].status,
         video'[v].status # "RUNNING", crashed' = crashed
  PROVE  Coding!RunningHasProcess'
<1>1. worker' = [worker EXCEPT ![w] = Coding!Idle]
  BY DEF Coding!End
<1>2. \A u \in Video \ {v}, x \in Worker : Coding!Works(x, u) => Coding!Works(x, u)'
  BY <1>1, OthersWork
<1> QED  BY <1>2, RunningElse

LEMMA RunningByWork ==
  ASSUME CodingInv, Coding!RunningHasProcess, NEW w \in Worker, NEW v \in Video, Coding!Work(w, v)
  PROVE  Coding!RunningHasProcess'
<1>1. CodingTyped /\ worker[w] \in WorkerRec
  BY DEF CodingInv, CodingTyped
<1>2. ASSUME NEW st \in Coding!Status, st # "RUNNING", video' = [video EXCEPT ![v].status = st],
             Coding!Works(w, v), Coding!End(w), crashed' = crashed
      PROVE  Coding!RunningHasProcess'
  <2>1. video'[v].status = st /\ \A u \in Video \ {v} : video'[u] = video[u]
    BY <1>1, <1>2, StatusSet
  <2> QED  BY <1>2, <2>1, RunningEnds
<1>3. ASSUME Coding!Works(w, v), ~Coding!There(v), Coding!End(w), video' = video, crashed' = crashed
      PROVE  Coding!RunningHasProcess'
  <2>1. video'[v].status # "RUNNING"
    BY <1>3 DEF Coding!There
  <2> QED  BY <1>3, <2>1, RunningEnds
<1>4. CASE Coding!Start(w, v)
  <2>1. CASE Coding!There(v)
    <3>1. PICK rec : rec = [worker[w] EXCEPT !.step = "source"]
      OBVIOUS
    <3>2. rec.step = "source" /\ rec.video = worker[w].video
      BY <1>1, <3>1 DEF WorkerRec
    <3>3. worker' = [worker EXCEPT ![w] = rec] /\ video' = [video EXCEPT ![v].status = "RUNNING"]
          /\ Coding!Works(w, v) /\ crashed' = crashed
      BY <1>4, <2>1, <3>1 DEF Coding!Start
    <3>4. \A u \in Video \ {v} : video'[u] = video[u]
      BY <1>1, <3>3, StatusSet DEF Coding!Status
    <3> QED  BY <3>2, <3>3, <3>4, RunningGoesOn
  <2>2. CASE ~Coding!There(v)
    BY <1>3, <1>4, <2>2 DEF Coding!Start
  <2> QED  BY <2>1, <2>2
<1>5. CASE Coding!Skip(w, v)
  <2>1. "SKIPPED" \in Coding!Status /\ "SKIPPED" # "RUNNING"
    BY DEF Coding!Status
  <2> QED  BY <1>2, <1>5, <2>1 DEF Coding!Skip
<1>6. CASE Coding!Finish(w, v)
  <2>1. "DONE" \in Coding!Status /\ "DONE" # "RUNNING"
    BY DEF Coding!Status
  <2> QED  BY <1>2, <1>6, <2>1 DEF Coding!Finish
<1>7. CASE Coding!Fails(w, v)
  <2>1. "FAILED" \in Coding!Status /\ "FAILED" # "RUNNING"
    BY DEF Coding!Status
  <2>2. Coding!Works(w, v) /\ Coding!End(w) /\ crashed' = crashed
        /\ video' = IF Coding!There(v) THEN [video EXCEPT ![v].status = "FAILED"] ELSE video
    BY <1>7 DEF Coding!Fails
  <2> QED  BY <1>2, <1>3, <2>1, <2>2
<1>8. ASSUME NEW rec, rec.step # "idle", rec.video = worker[w].video, worker' = [worker EXCEPT ![w] = rec],
             video' = video, crashed' = crashed, Coding!Works(w, v)
      PROVE  Coding!RunningHasProcess'
  BY <1>8, RunningGoesOn
<1>9. CASE Coding!Probe(w, v)
  <2>1. PICK rec : rec = [worker[w] EXCEPT !.step = "encode", !.left = video[v].fits]
    OBVIOUS
  <2>2. rec.step = "encode" /\ rec.video = worker[w].video
    BY <1>1, <2>1 DEF WorkerRec
  <2> QED  BY <1>8, <1>9, <2>1, <2>2 DEF Coding!Probe
<1>10. ASSUME NEW q \in Quality, Coding!PutFile(w, v, q) PROVE Coding!RunningHasProcess'
  <2>1. PICK rec : rec = [worker[w] EXCEPT !.step = "save", !.left = worker[w].left \ {q}, !.at = {q}]
    OBVIOUS
  <2>2. rec.step = "save" /\ rec.video = worker[w].video
    BY <1>1, <2>1 DEF WorkerRec
  <2>3. worker' = [worker EXCEPT ![w] = rec] /\ video' = video /\ crashed' = crashed /\ Coding!Works(w, v)
    BY <1>10, <2>1 DEF Coding!PutFile
  <2> QED  BY <1>8, <2>2, <2>3
<1>11. ASSUME NEW q \in Quality, Coding!SaveVariant(w, v, q) PROVE Coding!RunningHasProcess'
  <2>1. PICK rec : rec = [worker[w] EXCEPT !.step = "encode", !.at = {}]
    OBVIOUS
  <2>2. rec.step = "encode" /\ rec.video = worker[w].video
    BY <1>1, <2>1 DEF WorkerRec
  <2>3. worker' = [worker EXCEPT ![w] = rec] /\ video' = video /\ crashed' = crashed /\ Coding!Works(w, v)
    BY <1>11, <2>1 DEF Coding!SaveVariant
  <2> QED  BY <1>8, <2>2, <2>3
<1> QED  BY <1>4, <1>5, <1>6, <1>7, <1>9, <1>10, <1>11 DEF Coding!Work

LEMMA RunningKept ==
  CodingInv /\ Coding!RunningHasProcess /\ [Coding!Next]_codingVars => Coding!RunningHasProcess'
<1> SUFFICES ASSUME CodingInv, Coding!RunningHasProcess, [Coding!Next]_codingVars
             PROVE  Coding!RunningHasProcess'
  OBVIOUS
<1>1. CASE UNCHANGED codingVars
  BY <1>1 DEF codingVars, Coding!RunningHasProcess, Coding!Works
<1>2. ASSUME NEW v \in Video,
             Coding!createVideo(v) \/ Coding!deleteVideo(v) \/ Coding!Queue(v) \/ Coding!DeleteRows(v)
      PROVE  Coding!RunningHasProcess'
  BY <1>2, RunningByUser
<1>3. ASSUME NEW w \in Worker, NEW v \in Video, Coding!pickNext(w, v) PROVE Coding!RunningHasProcess'
  <2>1. PICK rec : rec = [Coding!Idle EXCEPT !.step = "taken", !.video = {v}]
    OBVIOUS
  <2>2. worker[w] = Coding!Idle /\ worker' = [worker EXCEPT ![w] = rec] /\ video' = video /\ crashed' = crashed
    BY <1>3, <2>1 DEF Coding!pickNext
  <2>3. \A x \in Worker : x # w => worker'[x] = worker[x]
    BY <2>2 DEF CodingInv, CodingTyped
  <2>4. \A u \in Video : ~Coding!Works(w, u)
    BY <2>2, IdleType DEF Coding!Works
  <2>5. \A u \in Video, x \in Worker : Coding!Works(x, u) => Coding!Works(x, u)'
    BY <2>3, <2>4 DEF Coding!Works
  <2> QED  BY <2>2, <2>5 DEF Coding!RunningHasProcess
<1>4. ASSUME NEW w \in Worker, NEW v \in Video, Coding!Work(w, v) PROVE Coding!RunningHasProcess'
  BY <1>4, RunningByWork
<1>5. ASSUME NEW w \in Worker, Coding!Crash(w) PROVE Coding!RunningHasProcess'
  <2>1. crashed' = crashed \cup worker[w].video /\ worker' = [worker EXCEPT ![w] = Coding!Idle] /\ video' = video
    BY <1>5 DEF Coding!Crash, Coding!End
  <2>2. \A x \in Worker : x # w => worker'[x] = worker[x]
    BY <2>1 DEF CodingInv, CodingTyped
  <2>3. \A u \in Video, x \in Worker : Coding!Works(x, u) => Coding!Works(x, u)' \/ u \in crashed'
    BY <2>1, <2>2 DEF Coding!Works
  <2> QED  BY <2>1, <2>3 DEF Coding!RunningHasProcess
<1> QED  BY <1>1, <1>2, <1>3, <1>4, <1>5 DEF Coding!Next

\* Transcoding: whatever fails, is deleted or is queued again meanwhile, a video is RUNNING only
\* while a process works on it, or after one that worked on it stopped.  It is why QueueDrains
\* names those alone.
THEOREM RunningCorrect == ServicesSpec => []Coding!RunningHasProcess
<1>1. ServicesInit => CodingInv /\ Coding!RunningHasProcess
  <2>1. Coding!Init => Coding!RunningHasProcess
    BY DEF Coding!Init, Coding!RunningHasProcess
  <2> QED  BY <2>1, CodingInitial DEF ServicesInit
<1>2. CodingInv /\ [ServicesNext]_AllVars => CodingInv'
  BY CodingStep, Steps
<1>3. CodingInv /\ Coding!RunningHasProcess /\ [ServicesNext]_AllVars => Coding!RunningHasProcess'
  BY RunningKept, Steps
<1> QED  BY <1>1, <1>2, <1>3, PTL DEF ServicesSpec
===============================================================================
