-------------------------- MODULE CommandDelivery --------------------------
(***************************************************************************)
(* What the signage command queue promises whoever queues a command: it is *)
(* attempted on its device only after every command queued earlier for     *)
(* that device, perhaps more than once, and it is never closed before it   *)
(* was attempted nor reopened afterwards.                                  *)
(***************************************************************************)
EXTENDS Integers

CONSTANTS
  MaxCmd,    \* commands, numbered in the order they are queued
  Device,
  NoDevice   \* not a device: the target of a command that is not queued

Cmd == 1 .. MaxCmd

VARIABLES
  target,     \* the device a command was queued for
  attempted,  \* commands some device has started on
  closed      \* commands with a final result

vars == <<target, attempted, closed>>

Queued == {c \in Cmd : target[c] # NoDevice}

Init ==
  /\ target = [c \in Cmd |-> NoDevice]
  /\ attempted = {}
  /\ closed = {}

Announce(c, d) ==
  /\ c \notin Queued
  /\ \A b \in Cmd : b < c => b \in Queued
  /\ target' = [target EXCEPT ![c] = d]
  /\ UNCHANGED <<attempted, closed>>

Attempt(c) ==
  /\ c \in Queued
  /\ \A b \in Queued : b < c /\ target[b] = target[c] => b \in attempted
  /\ attempted' = attempted \cup {c}
  /\ UNCHANGED <<target, closed>>

Close(c) ==
  /\ c \in attempted
  /\ closed' = closed \cup {c}
  /\ UNCHANGED <<target, attempted>>

Next == \E c \in Cmd : (\E d \in Device : Announce(c, d)) \/ Attempt(c) \/ Close(c)

Spec == Init /\ [][Next]_vars
=============================================================================
