------------------------------- MODULE PcFleet -------------------------------
(***************************************************************************)
(* The enrolment of a PC (agents/agents.service.ts) and the API keys it is *)
(* given (discovery/api-keys.service.ts).  The installer redeems a token   *)
(* and gets a key of its own; a new enrolment of the same PC revokes the   *)
(* key before.                                                             *)
(*                                                                         *)
(* enroll() is a row of statements without a transaction: it works on the  *)
(* token and the PC it read first, and any statement may be the last.  The *)
(* asset it books in is a Create of AssetRegister.                         *)
(***************************************************************************)
EXTENDS Integers, FiniteSets

CONSTANTS
  Token,
  Uses,     \* enrolments a token is issued for
  Pc,       \* StorePc rows that may come to exist for one machine
  MaxKeys,  \* bound on the ApiKey rows
  Request,  \* enrolments the server may be handling at one time
  None

VARIABLES
  tokens,     \* the EnrollmentToken table
  pcs,        \* the StorePc table
  keys,       \* the ApiKey table
  req,        \* what each request slot is doing
  byHand,     \* history: keys that were revoked by hand
  disturbed   \* history: PCs an enrolment of which died half way or overlapped another

vars == <<tokens, pcs, keys, req, byHand, disturbed>>

Key == 1..MaxKeys  \* in the order they are made
Idle == [step |-> "idle", token |-> None, pc |-> None, old |-> None, new |-> None]

TypeOK ==
  /\ tokens \in [Token -> [left : Int, state : {"none", "live", "expired", "revoked"}]]
  /\ pcs \in [Pc -> [state : {"none", "enrolled", "deleted"}, key : Key \cup {None}]]
  /\ keys \in [Key -> [state : {"none", "live", "revoked"}, pc : Pc \cup {None}]]
  /\ req \in [Request -> [step : {"idle", "upsert", "revoke", "mint", "bind", "link", "spend"},
                          token : Token \cup {None}, pc : Pc \cup {None},
                          old : Key \cup {None}, new : Key \cup {None}]]
  /\ byHand \subseteq Key /\ disturbed \subseteq Pc

\* The steps in which enroll() replaces the key of its PC.
Rekeying(q) == req[q].step \in {"revoke", "mint", "bind", "link"}

issueToken(t) ==
  /\ tokens[t].state = "none"
  /\ tokens' = [tokens EXCEPT ![t] = [left |-> Uses, state |-> "live"]]
  /\ UNCHANGED <<pcs, keys, req, byHand, disturbed>>

Expire(t) ==
  /\ tokens[t].state = "live"
  /\ tokens' = [tokens EXCEPT ![t].state = "expired"]
  /\ UNCHANGED <<pcs, keys, req, byHand, disturbed>>

revokeToken(t) ==
  /\ tokens[t].state \in {"live", "expired"}
  /\ tokens' = [tokens EXCEPT ![t] = [left |-> 0, state |-> "revoked"]]
  /\ UNCHANGED <<pcs, keys, req, byHand, disturbed>>

revokeKey(k) ==
  /\ keys[k].state # "none"
  /\ keys' = [keys EXCEPT ![k].state = "revoked"]
  /\ byHand' = byHand \cup {k}
  /\ UNCHANGED <<tokens, pcs, req, disturbed>>

\* The row goes; the key of the PC stays as it is.
DeletePc(p) ==
  /\ pcs[p].state = "enrolled"
  /\ pcs' = [pcs EXCEPT ![p] = [state |-> "deleted", key |-> None]]
  /\ UNCHANGED <<tokens, keys, req, byHand, disturbed>>

-----------------------------------------------------------------------------
(* enroll(), statement by statement.                                       *)

Redeem(q, t) ==
  /\ req[q] = Idle
  /\ tokens[t].state = "live" /\ tokens[t].left > 0
  /\ req' = [req EXCEPT ![q].step = "upsert", ![q].token = t]
  /\ UNCHANGED <<tokens, pcs, keys, byHand, disturbed>>

\* The PC of that name, or else a new row.
UpsertPc(q, p) ==
  /\ req[q].step = "upsert"
  /\ \/ pcs[p].state = "enrolled"
     \/ pcs[p].state = "none" /\ \A o \in Pc : pcs[o].state # "enrolled"
  /\ pcs' = [pcs EXCEPT ![p].state = "enrolled"]
  /\ req' = [req EXCEPT ![q].step = "revoke", ![q].pc = p, ![q].old = pcs[p].key]
  /\ disturbed' = IF \E r \in Request : Rekeying(r) /\ req[r].pc = p
                  THEN disturbed \cup {p} ELSE disturbed
  /\ UNCHANGED <<tokens, keys, byHand>>

\* mutant: a new enrolment leaves the key before in force
RevokeNot(q) ==
  /\ req[q].step = "revoke"
  /\ req' = [req EXCEPT ![q].step = "mint", ![q].old = None]
  /\ UNCHANGED <<tokens, pcs, keys, byHand, disturbed>>

\* The key that was linked when enroll() read the PC.
RevokeOld(q) ==
  /\ req[q].step = "revoke"
  /\ keys' = [k \in Key |-> IF k = req[q].old THEN [keys[k] EXCEPT !.state = "revoked"] ELSE keys[k]]
  /\ req' = [req EXCEPT ![q].step = "mint", ![q].old = None]
  /\ UNCHANGED <<tokens, pcs, byHand, disturbed>>

Mint(q, k) ==
  /\ req[q].step = "mint" /\ keys[k].state = "none" /\ \A j \in 1..(k - 1) : keys[j].state # "none"
  /\ keys' = [keys EXCEPT ![k].state = "live"]
  /\ req' = [req EXCEPT ![q].step = "bind", ![q].new = k]
  /\ UNCHANGED <<tokens, pcs, byHand, disturbed>>

Bind(q) ==
  /\ req[q].step = "bind"
  /\ keys' = [keys EXCEPT ![req[q].new].pc = req[q].pc]
  /\ req' = [req EXCEPT ![q].step = "link"]
  /\ UNCHANGED <<tokens, pcs, byHand, disturbed>>

Link(q) ==
  /\ req[q].step = "link" /\ pcs[req[q].pc].state = "enrolled"
  /\ pcs' = [pcs EXCEPT ![req[q].pc].key = req[q].new]
  /\ req' = [req EXCEPT ![q] = [Idle EXCEPT !.step = "spend", !.token = req[q].token]]
  /\ UNCHANGED <<tokens, keys, byHand, disturbed>>

\* mutant: an enrolment is charged for the PC and for its key
SpendTwice(q) ==
  /\ req[q].step = "spend"
  /\ tokens' = [tokens EXCEPT ![req[q].token].left = @ - 2]
  /\ req' = [req EXCEPT ![q] = Idle]
  /\ UNCHANGED <<pcs, keys, byHand, disturbed>>

Spend(q) ==
  /\ req[q].step = "spend"
  /\ tokens' = [tokens EXCEPT ![req[q].token].left = @ - 1]
  /\ req' = [req EXCEPT ![q] = Idle]
  /\ UNCHANGED <<pcs, keys, byHand, disturbed>>

\* An enrolment fails, or the server stops, at its next statement.
Fail(q) ==
  /\ req[q] # Idle
  /\ disturbed' = IF Rekeying(q) THEN disturbed \cup {req[q].pc} ELSE disturbed
  /\ req' = [req EXCEPT ![q] = Idle]
  /\ UNCHANGED <<tokens, pcs, keys, byHand>>

Init ==
  /\ tokens = [t \in Token |-> [left |-> 0, state |-> "none"]]
  /\ pcs = [p \in Pc |-> [state |-> "none", key |-> None]]
  /\ keys = [k \in Key |-> [state |-> "none", pc |-> None]]
  /\ req = [q \in Request |-> Idle]
  /\ byHand = {} /\ disturbed = {}

Next ==
  \/ \E t \in Token : issueToken(t) \/ Expire(t) \/ revokeToken(t)
  \/ \E k \in Key : revokeKey(k)
  \/ \E p \in Pc : DeletePc(p)
  \/ \E q \in Request :
       \/ \E t \in Token : Redeem(q, t)
       \/ \E p \in Pc : UpsertPc(q, p)
       \/ \E k \in Key : Mint(q, k)
       \/ RevokeOld(q) \/ Bind(q) \/ Link(q) \/ Spend(q) \/ Fail(q)

Spec == Init /\ [][Next]_vars

-----------------------------------------------------------------------------
\* However often a PC is enrolled, the key linked to it is the only one in force
\* for it, and is in force unless it was revoked by hand - except while an
\* enrolment replaces it, or after one that died half way or overlapped another.
OneKeyInForce ==
  \A p \in Pc \ disturbed :
    pcs[p].state = "enrolled" /\ (\A q \in Request : Rekeying(q) => req[q].pc # p) =>
      /\ \A k \in Key : keys[k].state = "live" /\ keys[k].pc = p => k = pcs[p].key
      /\ pcs[p].key # None => keys[pcs[p].key].state = "live" \/ pcs[p].key \in byHand

\* A token that is not revoked is overdrawn only by enrolments that had found it
\* good and overlapped: by no more of them than run beside the one that used it up.
TokenNotOverdrawn ==
  \A t \in Token : tokens[t].state # "revoked" => tokens[t].left >= 1 - Cardinality(Request)
=============================================================================
