------------------------- MODULE MCSignageCommands -------------------------
(* SignageCommands for TLC: operators and handlers are interchangeable.    *)
EXTENDS SignageCommands, TLC

SlotSymmetry == Permutations(Operator) \cup Permutations(Handler)

\* The kinds of the first and of the second command in each run.
QueueKinds == <<{"SHELL"}, {"SYNC", "UNHANDLED"}>>
LiveKinds == <<{"RUN", "RESTART"}, {"RUN", "RESTART"}>>
TwiceKinds == <<{"RUN"}>>
=============================================================================
