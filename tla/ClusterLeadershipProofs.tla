---------------------- MODULE ClusterLeadershipProofs ----------------------
(***************************************************************************)
(* Proofs about ClusterLeadership, for any instances and any number of     *)
(* lapses.                                                                 *)
(***************************************************************************)
EXTENDS ClusterLeadership, TLAPS

USE LeadershipAssumption DEF LeadershipAssumption

-----------------------------------------------------------------------------
(* Type correctness.                                                       *)

NodeRow == [status : {"none", "active", "stale", "inactive"},
            isLeader : BOOLEAN, beat : Fresh..Old]

Job == [at : {"idle", "beat", "flags", "delete", "owner"},
        seen : Instance \cup {None},
        todo : SUBSET {"enforce", "set", "clear"},
        sweep : BOOLEAN]

(* A local record of the lease is backed by the row. *)
HeldIsOwned == \A i \in Instance : held[i] => owner = i

(* A reconciliation sets a flag only if there is a leader. *)
SetHasLeader == \A i \in Instance : "set" \in job[i].todo => job[i].seen # None

ElectionTyped ==
  /\ check \in [Instance -> [Check -> {"idle", "verify", "resign", "alert"}]]
  /\ isCurrentlyLeader \in [Instance -> BOOLEAN]
  /\ interval \in [Instance -> BOOLEAN]

LeaseTyped ==
  /\ process \in [Instance -> {"new", "up", "closing", "dead"}]
  /\ owner \in Instance \cup {None}
  /\ held \in [Instance -> BOOLEAN]
  /\ lapses \in 0..MaxLapses
  /\ HeldIsOwned

NodesTyped == node \in [Instance -> NodeRow]

JobsTyped == job \in [Instance -> Job] /\ SetHasLeader

LEMMA TypeParts ==
  /\ TypeOK <=> ElectionTyped /\ LeaseTyped /\ NodesTyped /\ JobsTyped
  /\ (TypeOK <=> ElectionTyped /\ LeaseTyped /\ NodesTyped /\ JobsTyped)'
  BY DEF TypeOK, ElectionTyped, LeaseTyped, NodesTyped, JobsTyped, NodeRow, Job,
         HeldIsOwned, SetHasLeader

(* A job that is over, or that comes to enforceOneLeader. *)
LEMMA JobEnds ==
  ASSUME JobsTyped, NEW i \in Instance, Done(i)
  PROVE  JobsTyped'
  BY DEF JobsTyped, SetHasLeader, Job, Done, NoJob

(* A job that comes to deleteOldNodes. *)
LEMMA JobDeletes ==
  ASSUME JobsTyped, NEW i \in Instance,
         job' = [job EXCEPT ![i] = [NoJob EXCEPT !.at = "delete"]]
  PROVE  JobsTyped'
<1> DEFINE deletes == [NoJob EXCEPT !.at = "delete"]
<1>1. NoJob \in Job /\ NoJob.todo = {}
  BY DEF NoJob, Job
<1>2. deletes \in Job /\ deletes.todo = {}
  BY <1>1 DEF Job
<1> HIDE DEF deletes
<1>3. job' = [job EXCEPT ![i] = deletes]
  BY DEF deletes
<1> QED
  BY <1>2, <1>3 DEF JobsTyped, SetHasLeader

LEMMA JobEnforces ==
  ASSUME JobsTyped, ActiveLeader' \in Instance \cup {None},
         NEW i \in Instance, NEW sweep \in BOOLEAN, Enforce(i, sweep)
  PROVE  JobsTyped'
  BY DEF JobsTyped, SetHasLeader, Job, Enforce

LEMMA JobReconciled ==
  ASSUME JobsTyped, NEW i \in Instance, NEW w \in {"set", "clear"}, Reconciled(i, w)
  PROVE  JobsTyped'
<1>1. CASE job[i].todo # {w}
  BY <1>1 DEF JobsTyped, SetHasLeader, Job, Reconciled
<1>2. CASE job[i].todo = {w} /\ job[i].sweep
  BY <1>2, JobDeletes DEF Reconciled
<1>3. CASE job[i].todo = {w} /\ ~job[i].sweep
  BY <1>3, JobEnds DEF Reconciled
<1> QED
  BY <1>1, <1>2, <1>3

(* The ways of acquiring, failing to acquire and releasing the lease. *)
LEMMA LeaseMoves ==
  ASSUME LeaseTyped, UNCHANGED process, NEW i \in Instance,
         Acquires(i) \/ Refused(i) \/ Releases(i)
  PROVE  LeaseTyped'
<1> USE DEF LeaseTyped, HeldIsOwned
<1>1. CASE Acquires(i)
  BY <1>1 DEF Acquires
<1>2. CASE Refused(i)
  BY <1>2 DEF Refused, Faulty
<1>3. CASE Releases(i)
  BY <1>3 DEF Releases, Faulty
<1> QED
  BY <1>1, <1>2, <1>3

(* Who holds nothing has nothing to release, and nobody else's lease goes. *)
LEMMA ReleasedAlone ==
  ASSUME LeaseTyped, NEW i \in Instance,
         owner' = IF held[i] THEN None ELSE owner,
         held' = [held EXCEPT ![i] = FALSE]
  PROVE  /\ owner' \in Instance \cup {None}
         /\ held' \in [Instance -> BOOLEAN]
         /\ HeldIsOwned'
  BY DEF LeaseTyped, HeldIsOwned

LEMMA FaultyMoves ==
  ASSUME LeaseTyped, Faulty, UNCHANGED <<process, lease>>
  PROVE  LeaseTyped'
  BY DEF LeaseTyped, HeldIsOwned, Faulty, lease

LEMMA LeaseStays ==
  ASSUME LeaseTyped, UNCHANGED <<process, lease, lapses>>
  PROVE  LeaseTyped'
  BY DEF LeaseTyped, HeldIsOwned, lease

LEMMA ElectionStays ==
  ASSUME ElectionTyped, UNCHANGED election
  PROVE  ElectionTyped'
  BY DEF ElectionTyped, election

LEMMA JobsStay ==
  ASSUME JobsTyped, UNCHANGED job
  PROVE  JobsTyped'
  BY DEF JobsTyped, SetHasLeader

LEMMA NodesStay ==
  ASSUME NodesTyped, UNCHANGED node
  PROVE  NodesTyped'
  BY DEF NodesTyped

-----------------------------------------------------------------------------
(* The steps of ClusterHeartbeatService.                                   *)

LEMMA HeartbeatTypes ==
  ASSUME ElectionTyped, LeaseTyped, NodesTyped, JobsTyped, NEW i \in Instance,
         ReadHeartbeat(i) \/ WriteHeartbeat(i)
  PROVE  ElectionTyped' /\ LeaseTyped' /\ NodesTyped' /\ JobsTyped'
<1>1. CASE ReadHeartbeat(i)
  <2>1. JobsTyped'
    BY <1>1 DEF ReadHeartbeat, JobsTyped, SetHasLeader, Job, NoJob, LeaseTyped
  <2> QED
    BY <1>1, <2>1, LeaseStays, ElectionStays, NodesStay DEF ReadHeartbeat
<1>2. CASE WriteHeartbeat(i)
  <2>1. NodesTyped'
    <3>1. ASSUME NEW leads \in BOOLEAN,
                 node' = [node EXCEPT ![i] =
                            [status |-> "active", isLeader |-> leads, beat |-> Fresh]]
          PROVE  NodesTyped'
      BY <3>1 DEF NodesTyped, NodeRow, Fresh, Old
    <3>2. (job[i].seen = i) \in BOOLEAN
      OBVIOUS
    <3> QED
      BY <1>2, <3>1, <3>2, NodesStay DEF WriteHeartbeat
  <2>2. ElectionTyped' /\ LeaseTyped'
    BY <1>2, LeaseStays, ElectionStays DEF WriteHeartbeat
  <2>3. JobsTyped'
    <3>1. ActiveLeader' \in Instance \cup {None}
      BY <2>2 DEF ActiveLeader, LeaseTyped
    <3> QED
      BY <1>2, <3>1, JobEnds, JobEnforces DEF WriteHeartbeat
  <2> QED
    BY <2>1, <2>2, <2>3
<1> QED
  BY <1>1, <1>2

LEMMA CleanupTypes ==
  ASSUME ElectionTyped, LeaseTyped, NodesTyped, JobsTyped, NEW i \in Instance,
         cleanupStaleNodes(i) \/ deleteOldNodes(i)
  PROVE  ElectionTyped' /\ LeaseTyped' /\ NodesTyped' /\ JobsTyped'
<1>1. CASE cleanupStaleNodes(i)
  <2>1. NodesTyped'
    BY <1>1 DEF cleanupStaleNodes, NodesTyped, NodeRow
  <2>2. ElectionTyped' /\ LeaseTyped'
    BY <1>1, LeaseStays, ElectionStays DEF cleanupStaleNodes
  <2>3. ActiveLeader' \in Instance \cup {None}
    BY <2>2 DEF ActiveLeader, LeaseTyped
  <2>4. JobsTyped'
    BY <1>1, <2>3, JobEnforces DEF cleanupStaleNodes
  <2> QED
    BY <2>1, <2>2, <2>4
<1>2. CASE deleteOldNodes(i)
  <2>1. NodesTyped'
    BY <1>2 DEF deleteOldNodes, NodesTyped, NodeRow, NoNode, Fresh, Old
  <2> QED
    BY <1>2, <2>1, LeaseStays, ElectionStays, JobEnds DEF deleteOldNodes
<1> QED
  BY <1>1, <1>2

LEMMA FlagsTypes ==
  ASSUME ElectionTyped, LeaseTyped, NodesTyped, JobsTyped, NEW i \in Instance,
         ClearFlags(i) \/ SetFlag(i)
  PROVE  ElectionTyped' /\ LeaseTyped' /\ NodesTyped' /\ JobsTyped'
<1>1. CASE ClearFlags(i)
  <2>1. NodesTyped'
    BY <1>1 DEF ClearFlags, NodesTyped, NodeRow
  <2> QED
    BY <1>1, <2>1, LeaseStays, ElectionStays, JobReconciled DEF ClearFlags
<1>2. CASE SetFlag(i)
  <2>1. NodesTyped'
    BY <1>2 DEF SetFlag, NodesTyped, NodeRow, JobsTyped, SetHasLeader, Job
  <2> QED
    BY <1>2, <2>1, LeaseStays, ElectionStays, JobReconciled DEF SetFlag
<1> QED
  BY <1>1, <1>2

LEMMA LeaderTypes ==
  ASSUME ElectionTyped, LeaseTyped, NodesTyped, JobsTyped, NEW i \in Instance,
         ensureLeaderExists(i) \/ TrustLease(i) \/ Requested(i) \/ FailJob(i)
  PROVE  ElectionTyped' /\ LeaseTyped' /\ NodesTyped' /\ JobsTyped'
<1>1. CASE ensureLeaderExists(i)
  <2>1. ElectionTyped' /\ LeaseTyped' /\ NodesTyped'
    BY <1>1, LeaseMoves, LeaseStays, ElectionStays, NodesStay DEF ensureLeaderExists
  <2>2. ActiveLeader' \in Instance \cup {None}
    BY <2>1 DEF ActiveLeader, LeaseTyped
  <2>3. ASSUME job' = [job EXCEPT ![i] = [NoJob EXCEPT !.at = "owner", !.seen = owner]]
        PROVE  JobsTyped'
    BY <2>3 DEF JobsTyped, SetHasLeader, Job, NoJob, LeaseTyped
  <2> QED
    BY <1>1, <2>1, <2>2, <2>3, JobEnforces DEF ensureLeaderExists
<1>2. CASE TrustLease(i)
  <2>1. ElectionTyped' /\ LeaseTyped' /\ NodesTyped'
    BY <1>2, LeaseMoves, LeaseStays, ElectionStays, NodesStay DEF TrustLease
  <2>2. ActiveLeader' \in Instance \cup {None}
    BY <2>1 DEF ActiveLeader, LeaseTyped
  <2> QED
    BY <1>2, <2>1, <2>2, JobEnforces DEF TrustLease
<1>3. CASE tryBecomeLeader(i)
  <2>1. ElectionTyped' /\ LeaseTyped' /\ NodesTyped'
    BY <1>3, LeaseMoves, ElectionStays, NodesStay DEF tryBecomeLeader
  <2>2. ActiveLeader' \in Instance \cup {None}
    BY <2>1 DEF ActiveLeader, LeaseTyped
  <2> QED
    BY <1>3, <2>1, <2>2, JobEnforces, JobsStay DEF tryBecomeLeader
<1>4. CASE manualEnforceLeader(i)
  <2>1. ElectionTyped' /\ LeaseTyped' /\ NodesTyped'
    BY <1>4, LeaseStays, ElectionStays, NodesStay DEF manualEnforceLeader
  <2>2. ActiveLeader' \in Instance \cup {None}
    BY <2>1 DEF ActiveLeader, LeaseTyped
  <2> QED
    BY <1>4, <2>1, <2>2, JobEnforces DEF manualEnforceLeader
<1>5. CASE FailJob(i)
  <2>1. ElectionTyped' /\ LeaseTyped' /\ NodesTyped'
    BY <1>5, FaultyMoves, ElectionStays, NodesStay DEF FailJob
  <2>2. CASE job[i].sweep
    BY <1>5, <2>1, <2>2, JobDeletes DEF FailJob
  <2>3. CASE ~job[i].sweep
    BY <1>5, <2>1, <2>3, JobEnds DEF FailJob
  <2> QED
    BY <2>2, <2>3
<1> QED
  BY <1>1, <1>2, <1>3, <1>4, <1>5 DEF Requested

-----------------------------------------------------------------------------
(* The steps of leaderElectionCheck, of the lease and of the processes.    *)

(* A check goes to another place. *)
LEMMA CheckGoes ==
  ASSUME ElectionTyped, NEW i \in Instance, NEW c \in Check,
         NEW place \in {"idle", "verify", "resign", "alert"}, CheckGoto(i, c, place)
  PROVE  /\ check' \in [Instance -> [Check -> {"idle", "verify", "resign", "alert"}]]
         /\ check'[i][c] = place
         /\ \A j \in Instance \ {i} : check'[j] = check[j]
  BY DEF ElectionTyped, CheckGoto

LEMMA FlagMoves ==
  ASSUME ElectionTyped, NEW i \in Instance, NEW leads \in BOOLEAN, Lead(i, leads)
  PROVE  /\ isCurrentlyLeader' \in [Instance -> BOOLEAN]
         /\ isCurrentlyLeader'[i] = leads
         /\ \A j \in Instance \ {i} : isCurrentlyLeader'[j] = isCurrentlyLeader[j]
  BY DEF ElectionTyped, Lead

LEMMA IntervalMoves ==
  ASSUME ElectionTyped, NEW i \in Instance, NEW renews \in BOOLEAN, Renew(i, renews)
  PROVE  /\ interval' \in [Instance -> BOOLEAN]
         /\ interval'[i] = renews
         /\ \A j \in Instance \ {i} : interval'[j] = interval[j]
  BY DEF ElectionTyped, Renew

(***************************************************************************)
(* How the flag and the interval stand at each place of a check: they      *)
(* agree but after the flag was set and during the alert, and after it was *)
(* reset and until the lease is released.                                  *)
(***************************************************************************)
RenewalAt(i, c) ==
  CASE check[i][c] = "alert" -> isCurrentlyLeader[i]
    [] check[i][c] = "resign" -> ~isCurrentlyLeader[i]
    [] OTHER -> interval[i] = isCurrentlyLeader[i]

(* What a step of a check leaves at its new place, and that it is alone in *)
(* the election of its process.                                            *)
LEMMA CheckMoves ==
  ASSUME ElectionTyped, NEW i \in Instance, NEW c \in Check,
         BeginCheck(i, c) \/ ContinueCheck(i, c) \/ CheckThrows(i, c)
  PROVE  /\ ElectionTyped'
         /\ \A j \in Instance \ {i} :
              /\ check'[j] = check[j]
              /\ isCurrentlyLeader'[j] = isCurrentlyLeader[j]
              /\ interval'[j] = interval[j]
         /\ RenewalAt(i, c) => RenewalAt(i, c)'
<1> USE DEF ElectionTyped, RenewalAt
<1>1. CASE LoseLeadership(i, c)
  BY <1>1, FlagMoves, IntervalMoves DEF LoseLeadership, CheckAt
<1>2. CASE VerifyLeadership(i, c)
  BY <1>2, CheckGoes DEF VerifyLeadership, CheckAt
<1>3. CASE RunForLeader(i, c)
  BY <1>3, CheckGoes, FlagMoves DEF RunForLeader, CheckAt
<1>4. CASE CompareLeaders(i, c)
  BY <1>4, CheckGoes, FlagMoves DEF CompareLeaders, CheckAt
<1>5. CASE Resign(i, c)
  BY <1>5, CheckGoes, IntervalMoves DEF Resign, CheckAt
<1>6. CASE StartRenewals(i, c)
  BY <1>6, CheckGoes, IntervalMoves DEF StartRenewals, CheckAt
<1>7. CASE CheckThrows(i, c)
  <2>1. CASE isCurrentlyLeader[i]
    BY <1>7, <2>1, CheckGoes, FlagMoves, IntervalMoves DEF CheckThrows, CheckAt
  <2>2. CASE ~isCurrentlyLeader[i]
    BY <1>7, <2>2, CheckGoes DEF CheckThrows, CheckAt
  <2> QED
    BY <2>1, <2>2
<1> QED
  BY <1>1, <1>2, <1>3, <1>4, <1>5, <1>6, <1>7 DEF BeginCheck, ContinueCheck

LEMMA CheckTypes ==
  ASSUME ElectionTyped, LeaseTyped, NodesTyped, JobsTyped, NEW i \in Instance,
         NEW c \in Check, BeginCheck(i, c) \/ ContinueCheck(i, c) \/ CheckThrows(i, c)
  PROVE  ElectionTyped' /\ LeaseTyped' /\ NodesTyped' /\ JobsTyped'
<1>1. NodesTyped' /\ JobsTyped' /\ UNCHANGED process
  BY JobsStay, NodesStay
  DEF BeginCheck, ContinueCheck, LoseLeadership, VerifyLeadership, RunForLeader,
      CompareLeaders, Resign, StartRenewals, CheckThrows
<1>2. ElectionTyped'
  BY CheckMoves DEF ElectionTyped
<1>3. LeaseTyped'
  <2>1. CASE LoseLeadership(i, c) \/ VerifyLeadership(i, c) \/ CompareLeaders(i, c)
             \/ StartRenewals(i, c)
    BY <2>1, LeaseStays
    DEF LoseLeadership, VerifyLeadership, CompareLeaders, StartRenewals
  <2>2. CASE RunForLeader(i, c) \/ Resign(i, c)
    BY <2>2, LeaseMoves DEF RunForLeader, Resign
  <2>3. CASE CheckThrows(i, c)
    <3>1. CASE isCurrentlyLeader[i]
      <4>1. /\ owner' = IF held[i] THEN None ELSE owner
            /\ held' = [held EXCEPT ![i] = FALSE]
            /\ Faulty /\ UNCHANGED process
        BY <2>3, <3>1 DEF CheckThrows
      <4>2. /\ owner' \in Instance \cup {None}
            /\ held' \in [Instance -> BOOLEAN]
            /\ HeldIsOwned'
        BY <4>1, ReleasedAlone
      <4> QED
        BY <4>1, <4>2 DEF Faulty, LeaseTyped
    <3>2. CASE ~isCurrentlyLeader[i]
      BY <2>3, <3>2, FaultyMoves DEF CheckThrows
    <3> QED
      BY <3>1, <3>2
  <2> QED
    BY <2>1, <2>2, <2>3 DEF BeginCheck, ContinueCheck
<1> QED
  BY <1>1, <1>2, <1>3

LEMMA ProcessTypes ==
  ASSUME ElectionTyped, LeaseTyped, NodesTyped, JobsTyped, NEW i \in Instance,
         Register(i) \/ unregisterNode(i) \/ onApplicationShutdown(i) \/ Crash(i) \/ Age(i)
  PROVE  ElectionTyped' /\ LeaseTyped' /\ NodesTyped' /\ JobsTyped'
<1>1. CASE Register(i)
  <2>1. LeaseTyped'
    BY <1>1 DEF Register, Faulty, LeaseTyped, HeldIsOwned, lease
  <2>2. NodesTyped'
    BY <1>1 DEF Register, NodesTyped, NodeRow, Fresh, Old
  <2> QED
    BY <1>1, <2>1, <2>2, ElectionStays, JobsStay DEF Register
<1>2. CASE unregisterNode(i)
  <2>1. LeaseTyped'
    BY <1>2 DEF unregisterNode, LeaseTyped, HeldIsOwned
  <2>2. NodesTyped'
    BY <1>2 DEF unregisterNode, NodesTyped, NodeRow, Fresh, Old
  <2> QED
    BY <1>2, <2>1, <2>2, ElectionStays, JobsStay DEF unregisterNode
<1>3. CASE onApplicationShutdown(i) \/ Crash(i)
  <2>1. Gone(i)
    BY <1>3 DEF onApplicationShutdown, Crash
  <2>2. ElectionTyped' /\ NodesTyped'
    BY <2>1, NodesStay DEF Gone, ElectionTyped, NoCheck
  <2>3. JobsTyped'
    BY <2>1, JobEnds DEF Gone, Done
  <2>4. LeaseTyped'
    <3>1. CASE onApplicationShutdown(i)
      BY <1>3, <3>1, ReleasedAlone DEF onApplicationShutdown, Gone, LeaseTyped
    <3>2. CASE Crash(i)
      BY <3>2 DEF Crash, Gone, Faulty, LeaseTyped, HeldIsOwned
    <3> QED
      BY <1>3, <3>1, <3>2
  <2> QED
    BY <2>2, <2>3, <2>4
<1>4. CASE Age(i)
  <2>1. LeaseTyped'
    BY <1>4, FaultyMoves, LeaseStays DEF Age
  <2>2. NodesTyped'
    BY <1>4 DEF Age, NodesTyped, NodeRow, Fresh, Old
  <2> QED
    BY <1>4, <2>1, <2>2, ElectionStays, JobsStay DEF Age
<1> QED
  BY <1>1, <1>2, <1>3, <1>4

LEMMA TypeStep == TypeOK /\ [Next]_vars => TypeOK'
<1> SUFFICES ASSUME ElectionTyped, LeaseTyped, NodesTyped, JobsTyped, [Next]_vars
             PROVE  ElectionTyped' /\ LeaseTyped' /\ NodesTyped' /\ JobsTyped'
  BY TypeParts
<1>1. CASE Expire
  <2>1. LeaseTyped'
    BY <1>1 DEF Expire, Faulty, LeaseTyped, HeldIsOwned
  <2> QED
    BY <1>1, <2>1, ElectionStays, NodesStay, JobsStay DEF Expire
<1>2. ASSUME NEW i \in Instance,
             \/ Register(i)
             \/ ReadHeartbeat(i) \/ cleanupStaleNodes(i) \/ ensureLeaderExists(i)
             \/ Requested(i) \/ ContinueJob(i) \/ FailJob(i)
             \/ \E c \in Check : BeginCheck(i, c) \/ ContinueCheck(i, c) \/ CheckThrows(i, c)
             \/ unregisterNode(i) \/ onApplicationShutdown(i) \/ Crash(i) \/ Age(i)
      PROVE  ElectionTyped' /\ LeaseTyped' /\ NodesTyped' /\ JobsTyped'
  BY <1>2, HeartbeatTypes, CleanupTypes, FlagsTypes, LeaderTypes, CheckTypes, ProcessTypes
  DEF ContinueJob
<1>3. CASE UNCHANGED vars
  BY <1>3, LeaseStays, ElectionStays, NodesStay, JobsStay DEF vars, lease, election
<1> QED
  BY <1>1, <1>2, <1>3 DEF Next

(***************************************************************************)
(* Every variable keeps its type, whoever the checks and jobs interleave   *)
(* with; a local record of the lease is always backed by the row.          *)
(***************************************************************************)
THEOREM TypeCorrect == Spec => []TypeOK
<1>1. Init => TypeOK
  BY DEF Init, TypeOK, NoNode, NoJob, NoCheck, Fresh, Old
<1> QED
  BY <1>1, TypeStep, PTL DEF Spec

-----------------------------------------------------------------------------
(* Who renews.                                                             *)

(* The checks of a process do not overlap. *)
OneCheck == \A c, d \in Check : c = d

RenewalInv ==
  \A i \in Instance :
    /\ \A c \in Check : RenewalAt(i, c)
    /\ check[i] = NoCheck => interval[i] = isCurrentlyLeader[i]

LEMMA RenewalStep ==
  ASSUME OneCheck, TypeOK, RenewalInv, [Next]_vars
  PROVE  RenewalInv'
<1> USE DEF RenewalInv
<1>1. CASE UNCHANGED election
  BY <1>1 DEF election, NoCheck, RenewalAt
<1>2. ASSUME NEW i \in Instance, NEW c \in Check,
             BeginCheck(i, c) \/ ContinueCheck(i, c) \/ CheckThrows(i, c)
      PROVE  RenewalInv'
  <2>1. /\ \A j \in Instance \ {i} :
             /\ check'[j] = check[j]
             /\ isCurrentlyLeader'[j] = isCurrentlyLeader[j]
             /\ interval'[j] = interval[j]
        /\ RenewalAt(i, c)'
    BY <1>2, TypeParts, CheckMoves
  <2>2. \A d \in Check : RenewalAt(i, d)'
    BY <2>1 DEF OneCheck
  <2>3. NoCheck[c] = "idle"
    BY DEF NoCheck
  <2>4. check'[i] = NoCheck => interval'[i] = isCurrentlyLeader'[i]
    BY <2>1, <2>3 DEF RenewalAt
  <2>5. ASSUME NEW j \in Instance \ {i}
        PROVE  /\ \A d \in Check : RenewalAt(j, d)'
               /\ check'[j] = NoCheck => interval'[j] = isCurrentlyLeader'[j]
    BY <2>1 DEF RenewalAt
  <2>6. NoCheck' = NoCheck
    BY DEF NoCheck
  <2> QED
    BY <2>2, <2>4, <2>5, <2>6
<1>3. ASSUME NEW i \in Instance, onApplicationShutdown(i) \/ Crash(i)
      PROVE  RenewalInv'
  <2>1. Gone(i)
    BY <1>3 DEF onApplicationShutdown, Crash
  <2>2. /\ check'[i] = NoCheck
        /\ ~isCurrentlyLeader'[i] /\ ~interval'[i]
        /\ \A j \in Instance \ {i} :
             /\ check'[j] = check[j]
             /\ isCurrentlyLeader'[j] = isCurrentlyLeader[j]
             /\ interval'[j] = interval[j]
    BY <2>1, TypeParts DEF Gone, ElectionTyped
  <2>3. /\ isCurrentlyLeader' \in [Instance -> BOOLEAN]
        /\ interval' \in [Instance -> BOOLEAN]
    BY <2>1, TypeParts DEF Gone, ElectionTyped
  <2> QED
    BY <2>2, <2>3 DEF NoCheck, RenewalAt
<1>4. [Next]_vars =>
        \/ UNCHANGED election
        \/ \E i \in Instance :
             \/ onApplicationShutdown(i) \/ Crash(i)
             \/ \E c \in Check : BeginCheck(i, c) \/ ContinueCheck(i, c) \/ CheckThrows(i, c)
  BY DEF Next, Expire, Register, ReadHeartbeat, cleanupStaleNodes, ensureLeaderExists,
         Requested, tryBecomeLeader, manualEnforceLeader, ContinueJob, WriteHeartbeat,
         ClearFlags, SetFlag, deleteOldNodes, TrustLease, FailJob, unregisterNode, Age,
         vars, election
<1> QED
  BY <1>1, <1>2, <1>3, <1>4

(***************************************************************************)
(* As long as the checks of a process do not overlap, it renews            *)
(* certificates exactly if it takes itself for the leader, whatever        *)
(* happens to the lease, to the jobs of ClusterHeartbeatService and to the *)
(* other processes during a check.                                         *)
(***************************************************************************)
THEOREM RenewalIsTheLeaders ==
  ASSUME OneCheck
  PROVE  Spec => []RenewalFollowsLeadership
<1>1. Init => RenewalInv
  BY DEF Init, RenewalInv, RenewalAt, NoCheck
<1>2. RenewalInv => RenewalFollowsLeadership
  BY DEF RenewalInv, RenewalFollowsLeadership, AtRest
<1> QED
  BY <1>1, <1>2, RenewalStep, TypeCorrect, PTL DEF Spec
=============================================================================
