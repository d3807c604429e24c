-------------------------- MODULE MCSignagePlayer --------------------------
(* SignagePlayer for TLC: videos are interchangeable.                      *)
EXTENDS SignagePlayer, TLC

VideoSymmetry == Permutations(Video)
=============================================================================
