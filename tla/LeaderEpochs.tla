---------------------------- MODULE LeaderEpochs ----------------------------
(***************************************************************************)
(* What the leader lease promises to the code that asks isLeader().        *)
(*                                                                         *)
(* Leadership is a sequence of epochs, each granted to one instance.  Only *)
(* the instance of the newest epoch can lead, it may stop and resume       *)
(* within its epoch, and no new epoch begins while somebody leads: a       *)
(* leader's epoch number is a fencing token that nobody has overtaken.     *)
(***************************************************************************)
EXTENDS Integers, Sequences

CONSTANTS
  Instance,
  None       \* nobody: not an Instance

VARIABLES
  leader,    \* the instance that leads, or None
  epochs     \* the instance each epoch was granted to, oldest first

NewestEpochOf(i) == epochs # <<>> /\ epochs[Len(epochs)] = i

Init ==
  /\ leader = None
  /\ epochs = <<>>

NewEpoch(i) ==
  /\ leader = None
  /\ epochs' = Append(epochs, i)
  /\ UNCHANGED leader

Lead(i) ==
  /\ leader = None
  /\ NewestEpochOf(i)
  /\ leader' = i
  /\ UNCHANGED epochs

StepDown ==
  /\ leader # None
  /\ leader' = None
  /\ UNCHANGED epochs

Next ==
  \/ \E i \in Instance : NewEpoch(i) \/ Lead(i)
  \/ StepDown

vars == <<leader, epochs>>

Spec == Init /\ [][Next]_vars
=============================================================================
