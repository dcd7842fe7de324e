--------------------------- MODULE ConfigRollout ---------------------------
(***************************************************************************)
(* What a config rollout promises on one node: the release in service is   *)
(* the last known good one, except while a newer release is being tried.   *)
(* A trial ends in its promotion or in a return to the last known good.    *)
(***************************************************************************)
EXTENDS Integers

VARIABLES
  inService,   \* the release the node is configured with
  known        \* the last known good release

Init == inService = 0 /\ known = 0

Try ==
  /\ inService = known
  /\ inService' \in Int
  /\ inService' > known
  /\ UNCHANGED known

Promote ==
  /\ known' = inService
  /\ UNCHANGED inService

RollBack ==
  /\ inService' = known
  /\ UNCHANGED known

vars == <<inService, known>>

Next == Try \/ Promote \/ RollBack

Spec == Init /\ [][Next]_vars
=============================================================================
