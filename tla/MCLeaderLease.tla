--------------------------- MODULE MCLeaderLease ---------------------------
(***************************************************************************)
(* Instances of LeaderLease for TLC.                                       *)
(***************************************************************************)
EXTENDS LeaderLease

\* Clocks that agree with the database.
MCNoSkew == [i \in Instance |-> 0]

\* One clock lags by a tick, the others agree.
MCOneLags ==
  LET slow == CHOOSE i \in Instance : TRUE
  IN  [i \in Instance |-> IF i = slow THEN -1 ELSE 0]
=============================================================================
