---------------------------- MODULE AdvisoryLock ----------------------------
(***************************************************************************)
(* One named lock of DistributedLockService.withLock, built on PostgreSQL  *)
(* session-level advisory locks (the issuance of a certificate is guarded  *)
(* by one).  Such a lock belongs to the database session, that is, to a    *)
(* connection of the process's pool, not to the caller: a session that     *)
(* holds it gets it again, and has to unlock it as often.  The process     *)
(* itself keeps one entry per name in heldLocks, shared by its callers.    *)
(*                                                                         *)
(* A query runs on any free connection of the pool, which stays taken      *)
(* until the caller resumes with the answer.  A query that fails takes its *)
(* connection, and the session's locks, with it.  A process that shuts     *)
(* down gives up what is in heldLocks while its callers may be at work.    *)
(***************************************************************************)
EXTENDS Naturals, FiniteSets

CONSTANTS
  Process,      \* the nodes
  Caller,       \* concurrent calls of withLock and releaseAllLocks
  ProcessOf,    \* the process of each caller
  Connection,   \* connections of each pool, 1 by default
  MaxRetries,   \* maxRetries, 3 by default
  MaxLosses,    \* bound: sessions that end, deaths and shutdowns
  MaxHolds      \* bound: how often a session may hold the lock

LockAssumption ==
  /\ ProcessOf \in [Caller -> Process]
  /\ MaxRetries \in Nat \ {0}
  /\ MaxLosses \in Nat
  /\ MaxHolds \in Nat

VARIABLES
  session,    \* how often each session holds the lock
  heldLocks,  \* whether the process's map has an entry
  caller,     \* where each caller is
  on,         \* the connection that each caller's query has taken
  retries,    \* attempts that have failed
  losses,     \* sessions lost, deaths and shutdowns so far
  exposed     \* history: processes that lost a session with the lock, or gave it
              \* up in a shutdown, since they started

vars == <<session, heldLocks, caller, on, retries, losses, exposed>>

-----------------------------------------------------------------------------
\* No session but s holds the lock.
Free(s) ==
  \A p \in Process, c \in Connection : <<p, c>> # s => session[p][c] = 0

\* No other caller has to take an answer from connection c of process p.
Available(p, c) ==
  \A w \in Caller : ProcessOf[w] = p => on[w] # c

Init ==
  /\ session = [p \in Process |-> [c \in Connection |-> 0]]
  /\ heldLocks = [p \in Process |-> FALSE]
  /\ caller = [w \in Caller |-> "idle"]
  /\ on = [w \in Caller |-> "none"]
  /\ retries = [w \in Caller |-> 0]
  /\ losses = 0
  /\ exposed = {}

Goto(w, from, to) ==
  /\ caller[w] = from
  /\ caller' = [caller EXCEPT ![w] = to]

GiveBack(w) == on' = [on EXCEPT ![w] = "none"]

withLock(w) ==
  /\ Goto(w, "idle", "acquire")
  /\ retries' = [retries EXCEPT ![w] = 0]
  /\ UNCHANGED <<session, heldLocks, on, losses, exposed>>

\* tryAcquireLock: the query, on one of the sessions of the process.
Query(w, c) ==
  LET p == ProcessOf[w] IN
  /\ Available(p, c)
  /\ on' = [on EXCEPT ![w] = c]
  /\ IF Free(<<p, c>>)
     THEN /\ Goto(w, "acquire", "acquired")
          /\ session[p][c] < MaxHolds
          /\ session' = [session EXCEPT ![p][c] = @ + 1]
     ELSE /\ Goto(w, "acquire", "denied")
          /\ UNCHANGED session
  /\ UNCHANGED <<heldLocks, retries, losses, exposed>>

\* tryAcquireLock: the answer.  From here on the caller's function runs.
Enter(w) ==
  /\ Goto(w, "acquired", "running")
  /\ heldLocks' = [heldLocks EXCEPT ![ProcessOf[w]] = TRUE]
  /\ GiveBack(w)
  /\ UNCHANGED <<session, retries, losses, exposed>>

RetryOnceMore(w) ==     \* faulty: counts the retries, not the attempts
  /\ Goto(w, "denied", IF retries[w] < MaxRetries THEN "acquire" ELSE "idle")
  /\ retries' = [retries EXCEPT ![w] = @ + 1]
  /\ GiveBack(w)
  /\ UNCHANGED <<session, heldLocks, losses, exposed>>

Retry(w) ==
  /\ Goto(w, "denied", IF retries[w] + 1 < MaxRetries THEN "acquire" ELSE "idle")
  /\ retries' = [retries EXCEPT ![w] = @ + 1]
  /\ GiveBack(w)
  /\ UNCHANGED <<session, heldLocks, losses, exposed>>

\* The function has returned or thrown: releaseLock looks at heldLocks.
releaseLock(w) ==
  /\ Goto(w, "running", IF heldLocks[ProcessOf[w]] THEN "release" ELSE "idle")
  /\ UNCHANGED <<session, heldLocks, on, retries, losses, exposed>>

\* releaseAllLocks, when the process shuts down: releaseLock of what is in
\* heldLocks, whoever is inside.
releaseAllLocks(w) ==
  /\ heldLocks[ProcessOf[w]]
  /\ losses < MaxLosses
  /\ losses' = losses + 1
  /\ Goto(w, "idle", "closing")
  /\ exposed' = exposed \cup {ProcessOf[w]}
  /\ UNCHANGED <<session, heldLocks, on, retries>>

Releases(w) == Goto(w, "release", "released") \/ Goto(w, "closing", "released")

UnlockAll(w, c) ==     \* faulty: pg_advisory_unlock_all
  /\ Available(ProcessOf[w], c)
  /\ on' = [on EXCEPT ![w] = c]
  /\ Releases(w)
  /\ session' = [session EXCEPT ![ProcessOf[w]][c] = 0]
  /\ UNCHANGED <<heldLocks, retries, losses, exposed>>

\* releaseLock: the query.  Its result is not looked at.
Unlock(w, c) ==
  LET p == ProcessOf[w] IN
  /\ Available(ProcessOf[w], c)
  /\ on' = [on EXCEPT ![w] = c]
  /\ Releases(w)
  /\ session' = [session EXCEPT ![p][c] = IF @ > 0 THEN @ - 1 ELSE 0]
  /\ UNCHANGED <<heldLocks, retries, losses, exposed>>

Forget(w) ==
  /\ Goto(w, "released", "idle")
  /\ heldLocks' = [heldLocks EXCEPT ![ProcessOf[w]] = FALSE]
  /\ GiveBack(w)
  /\ UNCHANGED <<session, retries, losses, exposed>>

(***************************************************************************)
(* A session ends: the pool closes an idle connection, or the connection   *)
(* fails, with the query of a caller or without one.                       *)
(***************************************************************************)
LoseSession(p, c) ==
  /\ losses < MaxLosses
  /\ losses' = losses + 1
  /\ session' = [session EXCEPT ![p][c] = 0]
  /\ exposed' = IF session[p][c] > 0 THEN exposed \cup {p} ELSE exposed
  /\ \/ UNCHANGED caller
     \/ \E w \in Caller :
          /\ ProcessOf[w] = p
          /\ \/ Goto(w, "acquire", "denied")
             \/ Goto(w, "release", "idle") \/ Goto(w, "closing", "idle")
  /\ UNCHANGED <<heldLocks, on, retries>>

Crash(p) ==
  /\ losses < MaxLosses
  /\ losses' = losses + 1
  /\ session' = [session EXCEPT ![p] = [c \in Connection |-> 0]]
  /\ heldLocks' = [heldLocks EXCEPT ![p] = FALSE]
  /\ exposed' = exposed \ {p}
  /\ caller' = [w \in Caller |-> IF ProcessOf[w] = p THEN "idle" ELSE caller[w]]
  /\ on' = [w \in Caller |-> IF ProcessOf[w] = p THEN "none" ELSE on[w]]
  /\ UNCHANGED retries

Next ==
  \/ \E w \in Caller :
       \/ withLock(w) \/ Enter(w) \/ Retry(w) \/ releaseLock(w) \/ Forget(w)
       \/ releaseAllLocks(w)
       \/ \E c \in Connection : Query(w, c) \/ Unlock(w, c)
  \/ \E p \in Process :
       Crash(p) \/ \E c \in Connection : LoseSession(p, c)

Spec == Init /\ [][Next]_vars

-----------------------------------------------------------------------------
(* Properties.                                                             *)

TypeOK ==
  /\ session \in [Process -> [Connection -> 0 .. MaxHolds]]
  /\ heldLocks \in [Process -> BOOLEAN]
  /\ caller \in [Caller -> {"idle", "acquire", "acquired", "denied", "running",
                            "release", "closing", "released"}]
  /\ on \in [Caller -> Connection \cup {"none"}]
  /\ retries \in [Caller -> 0 .. MaxRetries]
  /\ losses \in 0 .. MaxLosses
  /\ exposed \subseteq Process

Holds(w) == caller[w] \in {"acquired", "running", "release"}

(***************************************************************************)
(* withLock excludes other processes: the entry that callers of one        *)
(* process share never makes one of them unlock what another one still     *)
(* relies on.  The exceptions are a process whose session ended with the   *)
(* lock and one that is shutting down, whose releaseAllLocks unlocks under *)
(* functions that still run; both are over with a restart.                 *)
(***************************************************************************)
ExcludesOthers ==
  \A v, w \in Caller :
    Holds(v) /\ Holds(w) =>
      ProcessOf[v] = ProcessOf[w] \/ {ProcessOf[v], ProcessOf[w]} \cap exposed # {}

(***************************************************************************)
(* "Execute a function with an exclusive lock" (comment of withLock).      *)
(***************************************************************************)
Exclusive ==
  \A v, w \in Caller : caller[v] = "running" /\ caller[w] = "running" => v = w
=============================================================================
