---------------------------- MODULE MCLogistics ----------------------------
(* Logistics for TLC: request slots are interchangeable.                   *)
EXTENDS Logistics, TLC

RequestSymmetry == Permutations(Request)

\* Statuses, codes and requests do not depend on the quantities in stock, and the
\* properties of the transfers speak of nothing else: states that differ only in
\* the ledger are one.
Documents == <<grv, ibt, notes, req, posted, overlapped>>
=============================================================================
