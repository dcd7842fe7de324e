-------------------------- MODULE BroadcastOutcome --------------------------
(***************************************************************************)
(* What the journal of a cluster operation promises: "succeeded" is only   *)
(* recorded when every target has carried the operation out, and           *)
(* "partially_failed" when some target has.  "failed" promises nothing: a  *)
(* target may carry the operation out before or after it is recorded.  A   *)
(* recorded outcome can only be taken back by "failed".                    *)
(***************************************************************************)
CONSTANT Target

VARIABLES
  targets,   \* the targets of the operation; empty until it is created
  reached,   \* the targets that have carried it out
  outcome    \* "open" or the recorded outcome

Init == targets = {} /\ reached = {} /\ outcome = "open"

Create ==
  /\ targets = {}
  /\ targets' \in (SUBSET Target) \ {{}}
  /\ UNCHANGED <<reached, outcome>>

Reach ==
  /\ \E n \in targets : reached' = reached \cup {n}
  /\ UNCHANGED <<targets, outcome>>

Conclude ==
  /\ targets # {}
  /\ \/ outcome = "open" /\ reached = targets /\ outcome' = "succeeded"
     \/ outcome = "open" /\ reached # {} /\ outcome' = "partially_failed"
     \/ outcome' = "failed"
  /\ UNCHANGED <<targets, reached>>

vars == <<targets, reached, outcome>>

Spec == Init /\ [][Create \/ Reach \/ Conclude]_vars
=============================================================================
