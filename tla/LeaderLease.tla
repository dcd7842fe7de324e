---------------------------- MODULE LeaderLease ----------------------------
(***************************************************************************)
(* The leader lease of DistributedLockService.  Every control-plane        *)
(* process keeps a local record of the lease (heldLeases) and talks to one *)
(* row of the table ClusterLease through its pool of database connections. *)
(* A call (acquire, renew, release) reads the local record, waits for a    *)
(* connection, executes one SQL statement and updates the local record     *)
(* when the answer arrives: other calls of the same process, other         *)
(* processes, crashes and the clock may come in between.                   *)
(*                                                                         *)
(* An Instance is one start of one process: instanceId is drawn afresh at  *)
(* every start, so a restart is another Instance.                          *)
(*                                                                         *)
(* Time is relative.  Instead of expiresAt the model keeps the time left   *)
(* until it on the database's clock, which Tick decreases in every place   *)
(* an expiresAt is kept.  It stops at -Lag, past which no clock can tell   *)
(* two instants of the past apart.                                         *)
(***************************************************************************)
EXTENDS Integers, Sequences, FiniteSets

CONSTANTS
  Instance,       \* process starts (instanceId)
  None,           \* SQL NULL in ownerNodeId
  Connection,     \* the pool of every process: connection_limit, 1 by default
  Ttl,            \* ttlSeconds, in ticks
  Skew,           \* local clock minus database clock, per instance
  Lag,            \* no local clock is further behind the database than this
  MaxGeneration,  \* bound: generations that may be granted
  MaxWaiting      \* bound: statements of one process waiting for a connection

ASSUME LeaseAssumption ==
  /\ None \notin Instance
  /\ Ttl \in Nat \ {0}
  /\ Lag \in Nat
  /\ Skew \in [Instance -> Int]
  /\ \A i \in Instance : Skew[i] >= -Lag
  /\ MaxGeneration \in Nat
  /\ MaxWaiting \in Nat

VARIABLES
  process,      \* "new", "up" or "down"
  row,          \* the ClusterLease row of the leader lease
  held,         \* heldLeases, per instance
  waiting,      \* statements issued and not executed yet
  connection,   \* the answer each connection carries back
  granted       \* history: the instance each generation was granted to

vars == <<process, row, held, waiting, connection, granted>>

-----------------------------------------------------------------------------
(* Data.  A lease of generation 0 is no lease: generations start at 1.     *)

Lease == [generation : Nat, left : Int]
NotHeld == [generation |-> 0, left |-> 0]

Row == [owner : Instance \cup {None}, generation : Nat, left : Int]
NoRow == [owner |-> None, generation |-> 0, left |-> 0]

Operation == {"acquire", "renew", "release"}
Statement == [op : Operation, generation : Nat]

Answer == [op : Operation \cup {"idle"},
           outcome : {"row", "noRow", "error"},
           lease : Lease]
Idle == [op |-> "idle", outcome |-> "noRow", lease |-> NotHeld]

Tracked(i) == held[i].generation > 0

\* The column values that RETURNING gives back (toLeaseSnapshot).
Snapshot(r) == [generation |-> r.generation, left |-> r.left]

\* The local clock has reached expiresAt (getActiveHeldLease).
ExpiredLocally(i) == held[i].left <= Skew[i]

\* isLeader(): a tracked lease that has not expired on the local clock.
IsLeader(i) == process[i] = "up" /\ Tracked(i) /\ ~ExpiredLocally(i)

-----------------------------------------------------------------------------
Init ==
  /\ process = [i \in Instance |-> "new"]
  /\ row = NoRow
  /\ held = [i \in Instance |-> NotHeld]
  /\ waiting = [i \in Instance |-> {}]
  /\ connection = [i \in Instance |-> [c \in Connection |-> Idle]]
  /\ granted = <<>>

Start(i) ==
  /\ process[i] = "new"
  /\ process' = [process EXCEPT ![i] = "up"]
  /\ UNCHANGED <<row, held, waiting, connection, granted>>

(***************************************************************************)
(* The process dies, or leaves after releaseAllLocks.  Its memory is gone; *)
(* statements that had already reached the database are still executed.    *)
(***************************************************************************)
Crash(i) ==
  /\ process[i] = "up"
  /\ process' = [process EXCEPT ![i] = "down"]
  /\ held' = [held EXCEPT ![i] = NotHeld]
  /\ \E sent \in SUBSET waiting[i] : waiting' = [waiting EXCEPT ![i] = sent]
  /\ UNCHANGED <<row, connection, granted>>

Issue(i, op) ==
  /\ process[i] = "up"
  /\ Cardinality(waiting[i]) < MaxWaiting
  /\ waiting' = [waiting EXCEPT ![i] =
                   @ \cup {[op |-> op, generation |-> held[i].generation]}]
  /\ UNCHANGED <<process, row, held, connection, granted>>

\* tryAcquireLeaderLock, acquireLeaderLock: acquireLease with autoRenew.
CallAcquire(i) == Issue(i, "acquire")

\* The renewal timer: it exists exactly while the lease is tracked.  The
\* local lease may have expired meanwhile: renewLease does not look.
CallRenew(i) == Tracked(i) /\ Issue(i, "renew")

\* releaseLease, from releaseLeaderLock or releaseAllLocks.
CallRelease(i) == Tracked(i) /\ Issue(i, "release")

\* Any reader of the local lease drops it once it has expired.
getActiveHeldLease(i) ==
  /\ process[i] = "up"
  /\ Tracked(i)
  /\ ExpiredLocally(i)
  /\ held' = [held EXCEPT ![i] = NotHeld]
  /\ UNCHANGED <<process, row, waiting, connection, granted>>

-----------------------------------------------------------------------------
(* The statements, on the database.  Each is one atomic SQL statement.     *)

\* Faulty variants, which the checked properties tell from the code: a
\* WHERE without the owner, a take-over that forgets the expiry or accepts
\* a lease with a tick to go, a fencing token that goes down or stays.
OwnedAtAnyOwner(i, g) == row.generation = g
ClaimableEarly(i) == row.left <= 1 \/ row.owner \in {None, i}
ClaimableUnowned(i) == row.owner \in {None, i}
AcquireRowCountingDown(i) ==
  [owner |-> i,
   generation |-> IF row.owner = i THEN row.generation ELSE row.generation - 1,
   left |-> Ttl]
AcquireRowKeepingGeneration(i) ==
  [owner |-> i,
   generation |-> IF row.owner = None THEN row.generation + 1
                                      ELSE row.generation,
   left |-> Ttl]

\* The WHERE of renewLease and releaseLease.
OwnedAt(i, g) == row.owner = i /\ row.generation = g

\* The answer to statement s arrives, or the connection fails before it.
Reply(i, c, s, outcome, lease) ==
  \E answer \in {[op |-> s.op, outcome |-> outcome, lease |-> lease],
                 [op |-> s.op, outcome |-> "error", lease |-> NotHeld]} :
    connection' = [connection EXCEPT ![i][c] = answer]

\* The WHERE of acquireLease's upsert: expired, unowned or its own.
Claimable(i) == row.left <= 0 \/ row.owner \in {None, i}

\* The row acquireLease writes: a new generation unless i owns it already.
AcquireRow(i) ==
  [owner |-> i,
   generation |-> IF row.owner = i THEN row.generation ELSE row.generation + 1,
   left |-> Ttl]

acquireLease(i, c, s) ==
  LET new == AcquireRow(i) IN
  /\ s.op = "acquire"
  /\ Claimable(i)
  /\ new.generation <= MaxGeneration
  /\ row' = new
  /\ granted' = IF row.owner = i THEN granted ELSE Append(granted, i)
  /\ Reply(i, c, s, "row", Snapshot(new))

renewLease(i, c, s) ==
  LET new == [row EXCEPT !.left = Ttl] IN
  /\ s.op = "renew"
  /\ OwnedAt(i, s.generation)
  /\ row' = new
  /\ Reply(i, c, s, "row", Snapshot(new))
  /\ UNCHANGED granted

releaseLease(i, c, s) ==
  LET new == [owner |-> None, generation |-> row.generation, left |-> 0] IN
  /\ s.op = "release"
  /\ OwnedAt(i, s.generation)
  /\ row' = new
  /\ Reply(i, c, s, "row", Snapshot(new))
  /\ UNCHANGED granted

\* The WHERE clause selects nothing, or the statement never executes.
NothingUpdated(i, c, s) ==
  /\ \/ /\ s.op = "acquire"
        /\ ~Claimable(i)
        /\ Reply(i, c, s, "noRow", NotHeld)
     \/ /\ s.op \in {"renew", "release"}
        /\ ~OwnedAt(i, s.generation)
        /\ Reply(i, c, s, "noRow", NotHeld)
     \/ Reply(i, c, s, "error", NotHeld)
  /\ UNCHANGED <<row, granted>>

\* A waiting statement gets a free connection and is executed.
Execute(i, c, s) ==
  /\ s \in waiting[i]
  /\ connection[i][c] = Idle
  /\ waiting' = [waiting EXCEPT ![i] = @ \ {s}]
  /\ \/ acquireLease(i, c, s)
     \/ renewLease(i, c, s)
     \/ releaseLease(i, c, s)
     \/ NothingUpdated(i, c, s)
  /\ UNCHANGED <<process, held>>

(***************************************************************************)
(* The call resumes with its answer.  acquireLease and renewLease track    *)
(* the row they got; a renewal without a row and every release untrack,    *)
(* whatever the local record holds by now.                                 *)
(***************************************************************************)
Resume(i, c) ==
  LET answer == connection[i][c]
  IN  /\ process[i] = "up"
      /\ answer # Idle
      /\ connection' = [connection EXCEPT ![i][c] = Idle]
      /\ \/ /\ answer.op \in {"acquire", "renew"}       \* trackHeldLease
            /\ answer.outcome = "row"
            /\ held' = [held EXCEPT ![i] = answer.lease]
         \/ /\ \/ answer.op = "renew" /\ answer.outcome = "noRow"
               \/ answer.op = "release"
            /\ held' = [held EXCEPT ![i] = NotHeld]     \* untrackHeldLease
         \/ /\ \/ answer.op = "acquire" /\ answer.outcome # "row"
               \/ answer.op = "renew" /\ answer.outcome = "error"
            /\ UNCHANGED held
      /\ UNCHANGED <<process, row, waiting, granted>>

-----------------------------------------------------------------------------
Less(t) == IF t > -Lag THEN t - 1 ELSE t

Older(lease) == [lease EXCEPT !.left = IF lease = NotHeld THEN 0 ELSE Less(@)]

\* One tick of real time, on every clock.
Tick ==
  /\ row' = [row EXCEPT !.left = Less(@)]
  /\ held' = [i \in Instance |-> Older(held[i])]
  /\ connection' = [i \in Instance |-> [c \in Connection |->
                      [connection[i][c] EXCEPT !.lease = Older(@)]]]
  /\ UNCHANGED <<process, waiting, granted>>

Next ==
  \/ \E i \in Instance :
       \/ Start(i) \/ Crash(i)
       \/ CallAcquire(i) \/ CallRenew(i) \/ CallRelease(i)
       \/ getActiveHeldLease(i)
       \/ \E c \in Connection :
            \/ \E s \in waiting[i] : Execute(i, c, s)
            \/ Resume(i, c)
  \/ Tick

Spec == Init /\ [][Next]_vars

(***************************************************************************)
(* Time passes; every process that is up keeps trying to lead (the timers  *)
(* of leaderElectionCheck and ensureLeaderExists) and its event loop       *)
(* resumes answered calls; the pool serves waiting statements in turn, and *)
(* the database does not fail every acquisition.  Fairness of CallAcquire  *)
(* is strong because only MaxWaiting makes it wait for other statements.   *)
(***************************************************************************)
AcquireAnswered(i, c) ==
  \E s \in waiting[i] :
    /\ s.op = "acquire"
    /\ Execute(i, c, s)
    /\ connection'[i][c].outcome # "error"

FairSpec ==
  /\ Spec
  /\ WF_vars(Tick)
  /\ \A i \in Instance :
       /\ SF_vars(CallAcquire(i))
       /\ \A c \in Connection :
            /\ WF_vars(\E s \in waiting[i] : Execute(i, c, s))
            /\ WF_vars(Resume(i, c))
            /\ SF_vars(AcquireAnswered(i, c))

-----------------------------------------------------------------------------
(* Properties.                                                             *)

TypeOK ==
  /\ process \in [Instance -> {"new", "up", "down"}]
  /\ row \in Row
  /\ held \in [Instance -> Lease]
  /\ waiting \in [Instance -> SUBSET Statement]
  /\ connection \in [Instance -> [Connection -> Answer]]
  /\ granted \in Seq(Instance)

\* A release has been executed or has failed, and its caller has not resumed.
Releasing(i) == \E c \in Connection : connection[i][c].op = "release"

\* Leadership by the database's clock, outside the window of a release.
Leads(i) == Tracked(i) /\ held[i].left > 0 /\ ~Releasing(i)

(***************************************************************************)
(* An instance that leads owns the row, at the generation it believes in,  *)
(* and no longer than the row says: no answer that arrives late, after a   *)
(* renewal, a release, an expiry or a take-over, leaves a stale record     *)
(* that passes for leadership.  Needs statements of one process to be      *)
(* answered in order (the default pool of one connection).                 *)
(***************************************************************************)
BeliefIsGrounded ==
  \A i \in Instance :
    Leads(i) => OwnedAt(i, held[i].generation) /\ held[i].left <= row.left

(***************************************************************************)
(* Two instances answer isLeader() with true only while one of them waits  *)
(* for the answer of its own release, or runs on a clock that lags behind  *)
(* the database and has overrun its lease by less than that lag.           *)
(***************************************************************************)
SingleLeader ==
  \A i, j \in Instance :
    IsLeader(i) /\ IsLeader(j) /\ i # j =>
      \E k \in {i, j} : Releasing(k) \/ held[k].left <= 0

(***************************************************************************)
(* Fencing: no two instances ever hold the same generation, expired or     *)
(* not, however answers are delayed: the generation tells them apart.      *)
(***************************************************************************)
UniqueTokens ==
  \A i, j \in Instance :
    Tracked(i) /\ Tracked(j) /\ i # j => held[i].generation # held[j].generation

(***************************************************************************)
(* The lease implements epochs of leadership: a generation is an epoch,    *)
(* and the leader is the instance that leads.  Needs a pool of one.        *)
(***************************************************************************)
Leader == IF \E i \in Instance : Leads(i)
          THEN CHOOSE i \in Instance : Leads(i)
          ELSE None

Epochs == INSTANCE LeaderEpochs WITH leader <- Leader, epochs <- granted

ImplementsEpochs == Epochs!Spec

(***************************************************************************)
(* The lease of a dead process does not stay with it as long as some       *)
(* process is up to claim it (and the bound on generations is not spent).  *)
(***************************************************************************)
DeadOwnerReplaced ==
  \A i \in Instance :
    (process[i] = "down" /\ row.owner = i) ~>
      \/ row.owner # i
      \/ row.generation = MaxGeneration
      \/ \A j \in Instance : process[j] # "up"
=============================================================================
