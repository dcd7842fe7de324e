------------------------- MODULE ClusterLeadership -------------------------
(***************************************************************************)
(* Who leads the cluster, what the nodes' rows say about it, and who       *)
(* renews certificates: ClusterHeartbeatService, which keeps the rows and  *)
(* their leader flags, composed with CertificateService's election, on top *)
(* of the leader lease.                                                    *)
(*                                                                         *)
(* The lease is what LeaderLease shows of it with a pool of one connection *)
(* and clocks in step: a call of DistributedLockService is one step, and   *)
(* an instance that holds the lease by its own record owns the row.        *)
(*                                                                         *)
(* A coroutine pauses where what it has read may grow stale before it is   *)
(* used: between a reading of the lease and what is written on its         *)
(* account, between a decision and the call that carries it out.  Queries  *)
(* in a row of which the later ones look for themselves are one step.  The *)
(* services' timers start jobs at any time, one job of                     *)
(* ClusterHeartbeatService per instance at a time.                         *)
(***************************************************************************)
EXTENDS Integers, FiniteSets

CONSTANTS
  Instance,     \* process starts (instanceId)
  None,         \* nobody: not an Instance
  Check,        \* checks of one process that can be in progress at a time
  MaxLapses     \* bound: deaths, shutdowns, lost renewals, late heartbeats
                \* of live nodes and failed queries, together

ASSUME LeadershipAssumption ==
  /\ None \notin Instance
  /\ MaxLapses \in Nat

VARIABLES
  process,      \* "new", "up", "closing" (after onModuleDestroy) or "dead"
  owner,        \* ownerNodeId of the ClusterLease row until it expires
  held,         \* the instance's own record says that it holds the lease
  node,         \* the ClusterNode rows
  job,          \* the coroutine of ClusterHeartbeatService, per instance
  check,        \* the coroutines of leaderElectionCheck, per instance
  isCurrentlyLeader,
  interval,     \* the renewal interval is set
  lapses        \* faults so far

vars == <<process, owner, held, node, job, check, isCurrentlyLeader, interval, lapses>>

lease == <<owner, held>>
election == <<check, isCurrentlyLeader, interval>>

-----------------------------------------------------------------------------
Faulty == lapses < MaxLapses /\ lapses' = lapses + 1

Running(i) == process[i] \in {"up", "closing"}

\* Age of lastHeartbeat: within staleThresholdMs, beyond it, or beyond
\* deleteThresholdMs.
Fresh == 0
Late == 1
Old == 2

NoNode == [status |-> "none", isLeader |-> FALSE, beat |-> Fresh]

Listed(i) == node[i].status # "none"

\* activeLeaderNode of getLeaderLeaseState.
ActiveLeader ==
  IF owner # None /\ node[owner].status = "active" THEN owner ELSE None

\* seen: the owner of the lease, or the active leader, as it was read;
\* todo: the statements left of a reconciliation; sweep: deleteOldNodes follows.
NoJob == [at |-> "idle", seen |-> None, todo |-> {}, sweep |-> FALSE]

At(i, place) == Running(i) /\ job[i].at = place
Idle(i) == process[i] = "up" /\ job[i] = NoJob
Done(i) == job' = [job EXCEPT ![i] = NoJob]

EnforceUnowned(i, sweep) ==  \* faulty: sets a flag although nobody leads
  job' = [job EXCEPT ![i] =
            [at |-> "flags", seen |-> ActiveLeader', todo |-> {"set", "clear"}, sweep |-> sweep]]

\* enforceOneLeader reads the lease, after all that has just been written.
Enforce(i, sweep) ==
  job' = [job EXCEPT ![i] =
            [at |-> "flags",
             seen |-> ActiveLeader',
             todo |-> IF ActiveLeader' = None THEN {"clear"} ELSE {"set", "clear"},
             sweep |-> sweep]]

-----------------------------------------------------------------------------
(* The lease.                                                              *)

\* acquireLease: the row is claimable, or i's already.
Acquires(i) ==
  /\ owner \in {None, i}
  /\ owner' = i
  /\ held' = [held EXCEPT ![i] = TRUE]
  /\ UNCHANGED lapses

\* acquireLease returns null: the row is another's, or an error was caught,
\* and then the statement may have been executed all the same.
Refused(i) ==
  /\ UNCHANGED held
  /\ \/ owner \notin {None, i} /\ UNCHANGED <<owner, lapses>>
     \/ owner \in {None, i} /\ Faulty /\ owner' \in {owner, i}

\* releaseLease: nothing without a local record; an error leaves the row.
Releases(i) ==
  /\ held' = [held EXCEPT ![i] = FALSE]
  /\ \/ /\ owner' = IF held[i] THEN None ELSE owner
        /\ UNCHANGED lapses
     \/ held[i] /\ Faulty /\ UNCHANGED owner

\* The lease expires: its owner is gone or does not know of it, or its
\* renewals have failed for a whole TTL.
Expire ==
  /\ owner # None
  /\ IF held[owner] THEN Faulty ELSE UNCHANGED lapses
  /\ held' = [held EXCEPT ![owner] = FALSE]
  /\ owner' = None
  /\ UNCHANGED <<process, node, job, election>>

-----------------------------------------------------------------------------
(* The nodes' rows.                                                        *)

NoCheck == [c \in Check |-> "idle"]

Init ==
  /\ process = [i \in Instance |-> "new"]
  /\ owner = None
  /\ held = [i \in Instance |-> FALSE]
  /\ node = [i \in Instance |-> NoNode]
  /\ job = [i \in Instance |-> NoJob]
  /\ check = [i \in Instance |-> NoCheck]
  /\ isCurrentlyLeader = [i \in Instance |-> FALSE]
  /\ interval = [i \in Instance |-> FALSE]
  /\ lapses = 0

\* onModuleInit: registerNode writes the row, or fails and is not tried
\* again; the timers start either way.
Register(i) ==
  /\ process[i] = "new"
  /\ process' = [process EXCEPT ![i] = "up"]
  /\ \/ /\ node' = [node EXCEPT ![i].status = "active", ![i].beat = Fresh]
        /\ UNCHANGED lapses
     \/ Faulty /\ UNCHANGED node
  /\ UNCHANGED <<lease, job, election>>

\* sendHeartbeat, first half: it reads the lease and its owner's row.
ReadHeartbeat(i) ==
  /\ Idle(i)
  /\ job' = [job EXCEPT ![i] = [NoJob EXCEPT
       !.at = "beat",
       !.seen = owner,
       !.todo = IF owner = i \/ ActiveLeader = None THEN {"enforce"} ELSE {}]]
  /\ UNCHANGED <<process, lease, node, election, lapses>>

WriteHeartbeatOfRow(i) ==  \* faulty: does not revive a row that was marked stale
  /\ At(i, "beat")
  /\ UNCHANGED <<process, lease, election, lapses>>
  /\ IF Listed(i)
     THEN /\ node' = [node EXCEPT ![i].beat = Fresh, ![i].isLeader = (job[i].seen = i)]
          /\ IF job[i].todo = {} THEN Done(i) ELSE Enforce(i, FALSE)
     ELSE UNCHANGED node /\ Done(i)

\* sendHeartbeat, second half: the row becomes active whatever it was; the
\* update of a row that was deleted throws, and nothing else is done.
WriteHeartbeat(i) ==
  /\ At(i, "beat")
  /\ UNCHANGED <<process, lease, election, lapses>>
  /\ IF Listed(i)
     THEN /\ node' = [node EXCEPT ![i] =
                        [status |-> "active", isLeader |-> job[i].seen = i, beat |-> Fresh]]
          /\ IF job[i].todo = {} THEN Done(i) ELSE Enforce(i, FALSE)
     ELSE UNCHANGED node /\ Done(i)

IsStale(j) == node[j].status = "active" /\ node[j].beat >= Late

\* cleanupStaleNodes, from its timer, onModuleInit or manualCleanup:
\* updateMany looks for the stale nodes again and marks them.
cleanupStaleNodes(i) ==
  /\ Idle(i)
  /\ UNCHANGED <<process, lease, election, lapses>>
  /\ node' = [j \in Instance |->
                IF IsStale(j) THEN [node[j] EXCEPT !.status = "stale", !.isLeader = FALSE]
                              ELSE node[j]]
  /\ Enforce(i, TRUE)

deleteOldNodes(i) ==
  /\ At(i, "delete")
  /\ node' = [j \in Instance |->
                IF node[j].status \in {"stale", "inactive"} /\ node[j].beat = Old
                THEN NoNode ELSE node[j]]
  /\ Done(i)
  /\ UNCHANGED <<process, lease, election, lapses>>

\* What comes after statement w of a reconciliation.
Reconciled(i, w) ==
  IF job[i].todo # {w} THEN job' = [job EXCEPT ![i].todo = @ \ {w}]
  ELSE IF job[i].sweep THEN job' = [job EXCEPT ![i] = [NoJob EXCEPT !.at = "delete"]]
  ELSE Done(i)

\* reconcileLeaderFlagsFromLease: its two statements, in any order.
ClearFlags(i) ==
  /\ At(i, "flags")
  /\ "clear" \in job[i].todo
  /\ node' = [j \in Instance |-> [node[j] EXCEPT !.isLeader = @ /\ j = job[i].seen]]
  /\ Reconciled(i, "clear")
  /\ UNCHANGED <<process, lease, election, lapses>>

SetFlag(i) ==
  /\ At(i, "flags")
  /\ "set" \in job[i].todo
  /\ node' = IF Listed(job[i].seen) THEN [node EXCEPT ![job[i].seen].isLeader = TRUE] ELSE node
  /\ Reconciled(i, "set")
  /\ UNCHANGED <<process, lease, election, lapses>>

-----------------------------------------------------------------------------
(* ensureLeaderExists and tryBecomeLeader.                                 *)

\* ensureLeaderExists, from its timers or admin/ensure-leader: somebody is
\* active, and the lease is read; if nobody has it, tryAcquireLeaderLock.
ensureLeaderExists(i) ==
  /\ Idle(i)
  /\ UNCHANGED <<process, node, election>>
  /\ \E j \in Instance : node[j].status = "active"
  /\ \/ /\ owner # None
        /\ job' = [job EXCEPT ![i] = [NoJob EXCEPT !.at = "owner", !.seen = owner]]
        /\ UNCHANGED <<lease, lapses>>
     \/ /\ owner = None
        /\ Acquires(i) \/ Refused(i)
        /\ Enforce(i, FALSE)

\* With the owner's row at hand, a local record that contradicts the lease
\* as it was read is given up.
TrustLease(i) ==
  /\ At(i, "owner")
  /\ UNCHANGED <<process, node, election>>
  /\ IF job[i].seen # i THEN Releases(i) ELSE UNCHANGED <<lease, lapses>>
  /\ Enforce(i, FALSE)

\* tryBecomeLeader, and manualEnforceLeader, which only reconciles.
tryBecomeLeader(i) ==
  /\ Idle(i)
  /\ UNCHANGED <<process, node, election>>
  /\ \/ Acquires(i) /\ Enforce(i, FALSE)
     \/ owner \in {None, i} /\ Refused(i) /\ UNCHANGED job

manualEnforceLeader(i) ==
  /\ Idle(i)
  /\ UNCHANGED <<process, lease, node, election, lapses>>
  /\ Enforce(i, FALSE)

\* A query fails.  enforceOneLeader swallows it, and a clean-up goes on to
\* deleteOldNodes; every other job is over.
FailJob(i) ==
  /\ Running(i) /\ job[i] # NoJob
  /\ Faulty
  /\ IF job[i].sweep
     THEN job' = [job EXCEPT ![i] = [NoJob EXCEPT !.at = "delete"]]
     ELSE Done(i)
  /\ UNCHANGED <<process, lease, node, election>>

-----------------------------------------------------------------------------
(* leaderElectionCheck of CertificateService.                              *)

CheckAt(i, c, place) == Running(i) /\ check[i][c] = place
CheckGoto(i, c, place) == check' = [check EXCEPT ![i][c] = place]

Lead(i, leads) == isCurrentlyLeader' = [isCurrentlyLeader EXCEPT ![i] = leads]
Renew(i, renews) == interval' = [interval EXCEPT ![i] = renews]

\* Checks come from onModuleInit, the interval of 30 s and retries after 2 s
\* and 5 s.  Here: leadership was lost.  The alert that follows changes nothing.
LoseLeadership(i, c) ==
  /\ CheckAt(i, c, "idle")
  /\ isCurrentlyLeader[i] /\ ~held[i]
  /\ Lead(i, FALSE)
  /\ Renew(i, FALSE)
  /\ UNCHANGED <<process, lease, node, job, check, lapses>>

\* The lease is still held: getLeaderNode is asked.
VerifyLeadership(i, c) ==
  /\ CheckAt(i, c, "idle")
  /\ isCurrentlyLeader[i] /\ held[i]
  /\ CheckGoto(i, c, "verify")
  /\ UNCHANGED <<process, lease, node, job, isCurrentlyLeader, interval, lapses>>

\* Its answer: another active leader makes this one resign.
CompareLeaders(i, c) ==
  /\ CheckAt(i, c, "verify")
  /\ IF ActiveLeader \in {None, i}
     THEN CheckGoto(i, c, "idle") /\ UNCHANGED isCurrentlyLeader
     ELSE CheckGoto(i, c, "resign") /\ Lead(i, FALSE)
  /\ UNCHANGED <<process, lease, node, job, interval, lapses>>

ResignKeepingInterval(i, c) ==  \* faulty: the renewals go on
  /\ CheckAt(i, c, "resign")
  /\ Releases(i)
  /\ CheckGoto(i, c, "idle")
  /\ UNCHANGED <<process, node, job, isCurrentlyLeader, interval>>

\* The interval is cleared once the release has been answered.
Resign(i, c) ==
  /\ CheckAt(i, c, "resign")
  /\ Releases(i)
  /\ Renew(i, FALSE)
  /\ CheckGoto(i, c, "idle")
  /\ UNCHANGED <<process, node, job, isCurrentlyLeader>>

\* The catch clause, after a failed query: stop, then release.
CheckThrows(i, c) ==
  /\ CheckAt(i, c, "verify")
  /\ Faulty
  /\ IF isCurrentlyLeader[i]
     THEN /\ Lead(i, FALSE) /\ Renew(i, FALSE)
          /\ owner' = IF held[i] THEN None ELSE owner
          /\ held' = [held EXCEPT ![i] = FALSE]
     ELSE UNCHANGED <<lease, isCurrentlyLeader, interval>>
  /\ CheckGoto(i, c, "idle")
  /\ UNCHANGED <<process, node, job>>

\* Not the leader: acquireLeaderLock, and an alert if that was successful.
RunForLeader(i, c) ==
  /\ CheckAt(i, c, "idle")
  /\ ~isCurrentlyLeader[i]
  /\ \/ Acquires(i) /\ Lead(i, TRUE) /\ CheckGoto(i, c, "alert")
     \/ Refused(i) /\ UNCHANGED <<check, isCurrentlyLeader>>
  /\ UNCHANGED <<process, node, job, interval>>

\* The alert has been sent, and the renewals start.
StartRenewals(i, c) ==
  /\ CheckAt(i, c, "alert")
  /\ Renew(i, TRUE)
  /\ CheckGoto(i, c, "idle")
  /\ UNCHANGED <<process, lease, node, job, isCurrentlyLeader, lapses>>

-----------------------------------------------------------------------------
(* Shutdown and death.                                                     *)

\* onModuleDestroy of ClusterHeartbeatService: its timers end, the lease is
\* released and the row, if there is one, becomes inactive; jobs and checks
\* that are in progress go on, and so do the timers of CertificateService.
unregisterNode(i) ==
  /\ process[i] = "up"
  /\ lapses < MaxLapses
  /\ process' = [process EXCEPT ![i] = "closing"]
  /\ held' = [held EXCEPT ![i] = FALSE]
  /\ owner' = IF held[i] THEN None ELSE owner
  /\ node' = IF Listed(i)
             THEN [node EXCEPT ![i] = [status |-> "inactive", isLeader |-> FALSE, beat |-> Fresh]]
             ELSE node
  /\ lapses' = lapses + 1
  /\ UNCHANGED <<job, election>>

\* The memory of the process is gone.
Gone(i) ==
  /\ process' = [process EXCEPT ![i] = "dead"]
  /\ held' = [held EXCEPT ![i] = FALSE]
  /\ job' = [job EXCEPT ![i] = NoJob]
  /\ check' = [check EXCEPT ![i] = NoCheck]
  /\ isCurrentlyLeader' = [isCurrentlyLeader EXCEPT ![i] = FALSE]
  /\ interval' = [interval EXCEPT ![i] = FALSE]
  /\ UNCHANGED node

\* onApplicationShutdown of CertificateService releases once more, and the
\* process exits.
onApplicationShutdown(i) ==
  /\ process[i] = "closing"
  /\ owner' = IF held[i] THEN None ELSE owner
  /\ Gone(i)
  /\ UNCHANGED lapses

Crash(i) ==
  /\ Running(i)
  /\ Faulty
  /\ Gone(i)
  /\ UNCHANGED owner

\* Time passes without a heartbeat; for a node that is up, that is a fault.
Age(i) ==
  /\ Listed(i) /\ node[i].beat < Old
  /\ IF process[i] = "dead" THEN UNCHANGED lapses ELSE Faulty
  /\ node' = [node EXCEPT ![i].beat = @ + 1]
  /\ UNCHANGED <<process, lease, job, election>>

-----------------------------------------------------------------------------
\* What may begin on an administrator's request only.
Requested(i) == tryBecomeLeader(i) \/ manualEnforceLeader(i)

ContinueJob(i) ==
  WriteHeartbeat(i) \/ ClearFlags(i) \/ SetFlag(i) \/ deleteOldNodes(i) \/ TrustLease(i)

BeginCheck(i, c) == LoseLeadership(i, c) \/ VerifyLeadership(i, c) \/ RunForLeader(i, c)

ContinueCheck(i, c) == CompareLeaders(i, c) \/ Resign(i, c) \/ StartRenewals(i, c)

Next ==
  \/ Expire
  \/ \E i \in Instance :
       \/ Register(i)
       \/ ReadHeartbeat(i) \/ cleanupStaleNodes(i) \/ ensureLeaderExists(i)
       \/ Requested(i) \/ ContinueJob(i) \/ FailJob(i)
       \/ \E c \in Check : BeginCheck(i, c) \/ ContinueCheck(i, c) \/ CheckThrows(i, c)
       \/ unregisterNode(i) \/ onApplicationShutdown(i) \/ Crash(i) \/ Age(i)

Spec == Init /\ [][Next]_vars

(***************************************************************************)
(* What has begun goes on, the timers of the heartbeat and of the clean-up *)
(* come round again and again, and time passes for the dead.  Fairness of  *)
(* the timers is strong because the one job per instance, which the code   *)
(* does not have, makes them wait for one another.  Nothing is assumed of  *)
(* elections and of the administrator's requests.                          *)
(***************************************************************************)
FairSpec ==
  /\ Spec
  /\ \A i \in Instance :
       /\ WF_vars(Register(i) \/ ContinueJob(i) \/ onApplicationShutdown(i))
       /\ WF_vars(process[i] = "dead" /\ Age(i))
       /\ SF_vars(ReadHeartbeat(i))
       /\ SF_vars(cleanupStaleNodes(i))

-----------------------------------------------------------------------------
(* Properties.                                                             *)

TypeOK ==
  /\ process \in [Instance -> {"new", "up", "closing", "dead"}]
  /\ owner \in Instance \cup {None}
  /\ held \in [Instance -> BOOLEAN]
  /\ node \in [Instance -> [status : {"none", "active", "stale", "inactive"},
                            isLeader : BOOLEAN, beat : Fresh..Old]]
  /\ job \in [Instance ->
       [at : {"idle", "beat", "flags", "delete", "owner"},
        seen : Instance \cup {None},
        todo : SUBSET {"enforce", "set", "clear"},
        sweep : BOOLEAN]]
  /\ \A i \in Instance : /\ held[i] => owner = i
                         /\ "set" \in job[i].todo => job[i].seen # None
  /\ check \in [Instance -> [Check -> {"idle", "verify", "resign", "alert"}]]
  /\ isCurrentlyLeader \in [Instance -> BOOLEAN]
  /\ interval \in [Instance -> BOOLEAN]
  /\ lapses \in 0..MaxLapses

\* No check is in progress.
AtRest(i) == process[i] = "up" /\ check[i] = NoCheck

(***************************************************************************)
(* Between two checks a node renews certificates exactly if it takes       *)
(* itself for the leader: no way out of leaderElectionCheck, by resigning, *)
(* by an error or by a lost lease, leaves one without the other.  Needs    *)
(* checks that do not overlap; `interval` is one timer for all of them.    *)
(***************************************************************************)
RenewalFollowsLeadership ==
  \A i \in Instance : AtRest(i) => interval[i] = isCurrentlyLeader[i]

\* A node that renews certificates takes itself for the leader.
OnlyLeaderRenews ==
  \A i \in Instance : AtRest(i) /\ interval[i] => isCurrentlyLeader[i]

\* What the rows should say of the nodes and of the owner of the lease.
RowsAreTrue ==
  \A i \in Instance :
    /\ process[i] = "up" => node[i].status \in {"active", "none"}
    /\ process[i] = "dead" => node[i].status # "active"
    /\ node[i].isLeader <=> ActiveLeader = i

(***************************************************************************)
(* Once leadership stays where it is and a node stays up, the rows come to *)
(* tell the truth and keep to it: nodes that are up are active (unless     *)
(* their row is gone: no heartbeat writes it again), the dead are not, and *)
(* the leader flag is the lease owner's alone, whatever stale readings of  *)
(* the lease heartbeats and reconciliations have written before.           *)
(***************************************************************************)
Settled(o) == owner = o /\ \E i \in Instance : process[i] = "up"

RegistrySettles == \A o \in Instance \cup {None} : <>[]Settled(o) => <>[]RowsAreTrue
=============================================================================
