--------------------------- MODULE MCAdvisoryLock ---------------------------
(***************************************************************************)
(* Two callers of one process, for TLC.  (MCServices has the instance with *)
(* two processes.)                                                         *)
(***************************************************************************)
EXTENDS AdvisoryLock

MCProcess == {1, 2}
MCTwoCallers == {1, 2}
MCOneProcessOf == [w \in Caller |-> 2]
=============================================================================
