------------------------------ MODULE MailIntake ------------------------------
(***************************************************************************)
(* E-mails that become tickets and comments                                *)
(* (helpdesk/email-ingest.service.ts over helpdesk/pop3-client.ts).  Every *)
(* minute a poll fetches the mailbox, works through the first maxPerRun    *)
(* mails and deletes those it got through.                                 *)
(*                                                                         *)
(* A mail is recognised by an event that carries its uid, which is written *)
(* last; only the event of a new ticket is looked for.  The mail server    *)
(* lets one session in at a time (RFC 1939), and deletes at its end.       *)
(***************************************************************************)
EXTENDS Naturals, Sequences, FiniteSets, SequencesExt

CONSTANTS
  Mail,
  MaxPerRun,  \* HELPDESK_POP3_MAX_PER_RUN
  MaxCuts,    \* bound on the failures after a mail's ticket or comment was written
  MaxKept     \* bound on the polls that leave a mail they are through with on the server

VARIABLES
  kind,    \* what a mail is: not sent yet, for a new ticket, a reply, or nothing to make of
  mailbox, \* the mails on the server, in order of arrival
  made,    \* tickets (or comments, for a reply) each mail has become
  tagged,  \* mails with a CREATED event that carries their uid
  poll,    \* the poll in progress: mails ahead, mails it is through with, what is next
  cuts,    \* history: per mail, failures between its ticket or comment and its event
  kept     \* history: per mail, polls that were through with it and left it on the server

vars == <<kind, mailbox, made, tagged, poll, cuts, kept>>

NoPoll == [step |-> "idle", ahead |-> << >>, done |-> {}]

TypeOK ==
  /\ kind \in [Mail -> {"none", "new", "reply", "void"}]
  /\ Range(mailbox) \subseteq Mail /\ IsInjective(mailbox)
  /\ made \in [Mail -> Nat] /\ tagged \subseteq Mail
  /\ poll.step \in {"idle", "look", "ingest", "tag", "quit"}
  /\ Range(poll.ahead) \subseteq Mail /\ poll.done \subseteq Mail
  /\ cuts \in [Mail -> 0..MaxCuts] /\ kept \in [Mail -> 0..MaxKept]

cur == Head(poll.ahead)

\* A mail comes in; a reply carries the code of a ticket in its subject.
Arrive(m) ==
  /\ kind[m] = "none"
  /\ \E k \in {"new", "reply", "void"} : kind' = [kind EXCEPT ![m] = k]
  /\ mailbox' = Append(mailbox, m)
  /\ UNCHANGED <<made, tagged, poll, cuts, kept>>

toProcess == SubSeq(mailbox, 1, IF Len(mailbox) < MaxPerRun THEN Len(mailbox) ELSE MaxPerRun)

Through == [poll EXCEPT !.step = IF Len(poll.ahead) = 1 THEN "quit" ELSE "look",
                        !.ahead = Tail(@), !.done = @ \cup {cur}]
GiveUp == [Through EXCEPT !.done = poll.done]

pollNow ==
  /\ poll = NoPoll /\ mailbox # << >>
  /\ poll' = [step |-> "look", ahead |-> toProcess, done |-> {}]
  /\ UNCHANGED <<kind, mailbox, made, tagged, cuts, kept>>

\* A mail that became a ticket is skipped, and deleted with the others.
Look ==
  /\ poll.step = "look"
  /\ poll' = IF cur \in tagged THEN Through ELSE [poll EXCEPT !.step = "ingest"]
  /\ UNCHANGED <<kind, mailbox, made, tagged, cuts, kept>>

\* mutant: a mail of which nothing can be made is not deleted, and is first again
IngestStuck ==
  /\ poll.step = "ingest"
  /\ IF kind[cur] = "void"
     THEN poll' = GiveUp /\ UNCHANGED made
     ELSE poll' = [poll EXCEPT !.step = "tag"] /\ made' = [made EXCEPT ![cur] = @ + 1]
  /\ UNCHANGED <<kind, mailbox, tagged, cuts, kept>>

\* The ticket or the comment, with its attachments: one that fails is left out.
Ingest ==
  /\ poll.step = "ingest"
  /\ IF kind[cur] = "void"
     THEN poll' = Through /\ UNCHANGED made
     ELSE poll' = [poll EXCEPT !.step = "tag"] /\ made' = [made EXCEPT ![cur] = @ + 1]
  /\ UNCHANGED <<kind, mailbox, tagged, cuts, kept>>

\* The event: CREATED for a ticket, COMMENT_ADDED for a reply, which Look is blind to.
Tag ==
  /\ poll.step = "tag"
  /\ tagged' = IF kind[cur] = "new" THEN tagged \cup {cur} ELSE tagged
  /\ poll' = Through
  /\ UNCHANGED <<kind, mailbox, made, cuts, kept>>

\* mutant: a mail that failed is deleted as well
FailThrough ==
  /\ poll.step \in {"ingest", "tag"}
  /\ poll.step = "tag" => cuts[cur] < MaxCuts
  /\ cuts' = IF poll.step = "tag" THEN [cuts EXCEPT ![cur] = @ + 1] ELSE cuts
  /\ poll' = Through
  /\ UNCHANGED <<kind, mailbox, made, tagged, kept>>

\* A mail that fails stays on the server, and the poll goes on with the next.
FailOne ==
  /\ poll.step \in {"ingest", "tag"}
  /\ poll.step = "tag" => cuts[cur] < MaxCuts
  /\ cuts' = IF poll.step = "tag" THEN [cuts EXCEPT ![cur] = @ + 1] ELSE cuts
  /\ poll' = GiveUp
  /\ UNCHANGED <<kind, mailbox, made, tagged, kept>>

Keep(D) ==
  /\ \A m \in D : kept[m] < MaxKept
  /\ kept' = [m \in Mail |-> IF m \in D THEN kept[m] + 1 ELSE kept[m]]

\* What is left of the mails s without those in D, in the same order.
Without(s, D) ==
  LET left[i \in 0..Len(s)] == IF i = 0 THEN << >>
                               ELSE IF s[i] \in D THEN left[i - 1] ELSE Append(left[i - 1], s[i])
  IN left[Len(s)]

\* The deletions are asked for, where a failure skips those that are left, and take
\* effect as the session ends.
Quit ==
  /\ poll.step = "quit"
  /\ \E D \in SUBSET poll.done :
       /\ mailbox' = Without(mailbox, D)
       /\ Keep(poll.done \ D)
  /\ poll' = NoPoll
  /\ UNCHANGED <<kind, made, tagged, cuts>>

\* The connection, or the server process, breaks: the mailbox stays as it was.
Break ==
  /\ poll # NoPoll
  /\ Keep(poll.done)
  /\ poll.step = "tag" => cuts[cur] < MaxCuts
  /\ cuts' = IF poll.step = "tag" THEN [cuts EXCEPT ![cur] = @ + 1] ELSE cuts
  /\ poll' = NoPoll
  /\ UNCHANGED <<kind, mailbox, made, tagged>>

Init ==
  /\ kind = [m \in Mail |-> "none"] /\ mailbox = << >>
  /\ made = [m \in Mail |-> 0] /\ tagged = {} /\ poll = NoPoll
  /\ cuts = [m \in Mail |-> 0] /\ kept = [m \in Mail |-> 0]

Next ==
  \/ \E m \in Mail : Arrive(m)
  \/ pollNow \/ Look \/ Ingest \/ Tag \/ FailOne \/ Quit \/ Break

\* The cron job polls on, the connection does not break for ever at the same point,
\* and no mail fails for ever.
Fairness ==
  /\ WF_vars(pollNow) /\ WF_vars(Tag) /\ SF_vars(Look) /\ SF_vars(Quit)
  /\ \A m \in Mail : SF_vars(poll.ahead # << >> /\ cur = m /\ Ingest)

Spec == Init /\ [][Next]_vars /\ Fairness

-----------------------------------------------------------------------------
\* A mail leaves the server only once it has become a ticket or a comment (if
\* anything can be made of it), and becomes more than one only by a failure right
\* before its event was written - or, for a reply, by a poll that had added it and
\* broke before it was deleted.
MailsAccounted ==
  \A m \in Mail :
    /\ kind[m] \in {"new", "reply"} /\ m \notin Range(mailbox) => made[m] > 0
    /\ made[m] <= 1 + cuts[m] + IF kind[m] = "reply" THEN kept[m] ELSE 0

\* Every mail of which something can be made becomes a ticket or a comment, though
\* any attempt may fail: the cron job polls for ever, and no mail fails for ever.
EveryMailHandled ==
  \A m \in Mail : kind[m] \in {"new", "reply"} ~> made[m] > 0
=============================================================================
