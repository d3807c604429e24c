----------------------------- MODULE MCTickets -----------------------------
(* Tickets for TLC: two priorities and a policy that tells them apart.     *)
EXTENDS Tickets, TLC

Policy == [p \in Priority |-> p]
RequestSymmetry == Permutations(Request)
=============================================================================
