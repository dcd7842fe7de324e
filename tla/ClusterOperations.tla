------------------------- MODULE ClusterOperations -------------------------
(***************************************************************************)
(* One broadcast operation (a cluster reload, a certificate activation) of *)
(* ClusterOperationsService.  The initiator writes the operation and an    *)
(* acknowledgement per target, carries the operation out itself, then      *)
(* calls all other targets in parallel over HTTP with a timeout and        *)
(* records each answer; at the end it reads the acknowledgements once and  *)
(* records the outcome.  A caller in the same process may poll for it.     *)
(*                                                                         *)
(* Any query can fail, and when an update fails nobody knows whether the   *)
(* database has executed it.  The initiator can die at any point; nothing  *)
(* resumes its operations.  A target that was called goes on whether or    *)
(* not anybody still waits for its answer.                                 *)
(***************************************************************************)
EXTENDS FiniteSets, Naturals

CONSTANTS
  Initiator,   \* the node that runs the operation
  Peer         \* the other active nodes

ASSUME OperationsAssumption == Initiator \notin Peer /\ IsFiniteSet(Peer)

Target == Peer \cup {Initiator}

VARIABLES
  operation,   \* the ClusterOperation row
  ack,         \* status of the ClusterOperationAck row of each target
  runner,      \* where executeOperation is
  call,        \* runLocalTarget and runRemoteTarget, per target
  seen,        \* the acknowledgements refreshOperation has read
  node,        \* what each target has done about the operation
  caller       \* waitForOperationToSettle

vars == <<operation, ack, runner, call, seen, node, caller>>

-----------------------------------------------------------------------------
Final == {"succeeded", "failed"}
Terminal == {"succeeded", "failed", "partially_failed"}

NoCall == [at |-> "none", result |-> "ok"]
Targets == {n \in Target : ack[n] # "none"}

\* The nodes with an acknowledgement in one of the statuses.
AckedAs(acks, statuses) == {n \in Target : acks[n] \in statuses}

\* Faulty: forgets the acknowledgement of the initiator.
OutcomeOfPeers(acks) ==
  LET peers == {n \in Peer : acks[n] # "none"}
  IN  IF \A n \in peers : acks[n] = "succeeded" THEN "succeeded"
      ELSE IF \A n \in peers : acks[n] = "failed" THEN "failed"
      ELSE "partially_failed"

(***************************************************************************)
(* calculateOperationStatus, on the acknowledgements as they were read.    *)
(***************************************************************************)
Outcome(acks) ==
  LET all == {n \in Target : acks[n] # "none"}
      completed == AckedAs(acks, Final)
  IN  CASE completed = {} -> "pending"
        [] completed # {} /\ completed # all -> "running"
        [] completed = all /\ completed # {} ->
             IF AckedAs(acks, {"failed"}) = {} THEN "succeeded"
             ELSE IF AckedAs(acks, {"succeeded"}) = {} THEN "failed"
             ELSE "partially_failed"

Init ==
  /\ operation = [status |-> "none", completed |-> 0, succeeded |-> 0, failed |-> 0]
  /\ ack = [n \in Target |-> "none"]
  /\ runner = "idle"
  /\ call = [n \in Target |-> NoCall]
  /\ seen = [n \in Target |-> "none"]
  /\ node = [n \in Target |-> "idle"]
  /\ caller = "none"

(***************************************************************************)
(* enqueueBroadcastOperation.  The targets are the active nodes at this    *)
(* moment, the initiator always among them; only itself when broadcast is  *)
(* off or the active nodes cannot be read (resolveTargets).                *)
(***************************************************************************)
Create ==
  /\ runner = "idle"
  /\ operation' = [operation EXCEPT !.status = "pending"]
  /\ \E peers \in SUBSET Peer :
       ack' = [n \in Target |->
                 IF n \in peers \cup {Initiator} THEN "pending" ELSE "none"]
  /\ runner' = "endpoints"
  /\ UNCHANGED <<call, seen, node, caller>>

\* The endpoint of each peer is written.  An error goes to the caller, and the
\* operation is never executed: it stays pending for good.  The caller may
\* also fail to read the operation back, which then goes on without it.
WriteEndpoints ==
  /\ runner = "endpoints"
  /\ \/ runner' = "start" /\ caller' \in {"waiting", "refused"}
     \/ runner' = "abandoned" /\ caller' = "refused" /\ Targets # {Initiator}
  /\ UNCHANGED <<operation, ack, call, seen, node>>

(***************************************************************************)
(* executeOperation.                                                       *)
(***************************************************************************)
Running == [operation EXCEPT !.status = "running"]

Start ==
  /\ runner = "start"
  /\ \/ /\ operation' = Running
        /\ runner' = "local"
        /\ call' = [call EXCEPT ![Initiator].at = "start"]
     \/ /\ operation' \in {operation, Running}
        /\ runner' = "catch"
        /\ UNCHANGED call
  /\ UNCHANGED <<ack, seen, node, caller>>

\* The coroutine of target n goes on to the given place.
Moves(n, place, result) ==
  call' = [call EXCEPT ![n] = [at |-> place, result |-> result]]

AckBecomes(n, status) == ack' = [ack EXCEPT ![n] = status]

\* The coroutines live in the initiator's process.
Alive == runner # "gone"

markAckStarted(n) ==
  /\ Alive
  /\ call[n].at = "start"
  /\ \/ AckBecomes(n, "running") /\ Moves(n, "working", "ok")
     \/ (AckBecomes(n, "running") \/ UNCHANGED ack) /\ Moves(n, "threw", "error")
  /\ node' = IF call'[n].at = "working" THEN [node EXCEPT ![n] = "called"]
                                        ELSE node
  /\ UNCHANGED <<operation, runner, seen, caller>>

\* No API key, or no valid endpoint: the peer is not called.
Unreachable(n) ==
  /\ Alive
  /\ n \in Peer
  /\ call[n].at = "start"
  /\ Moves(n, "mark", "error")
  /\ UNCHANGED <<operation, ack, runner, seen, node, caller>>

AnswerUnchecked(n) ==     \* faulty: does not look at response.ok
  /\ Alive
  /\ call[n].at = "working"
  /\ node[n] \in {"applied", "refused"}
  /\ Moves(n, "mark", "ok")
  /\ UNCHANGED <<operation, ack, runner, seen, node, caller>>

\* The answer of the target: a response, or an exception of localAction.
Answer(n) ==
  /\ Alive
  /\ call[n].at = "working"
  /\ \/ node[n] = "applied" /\ Moves(n, "mark", "ok")
     \/ node[n] = "refused" /\ Moves(n, "mark", IF n \in Peer THEN "refused"
                                                              ELSE "error")
  /\ UNCHANGED <<operation, ack, runner, seen, node, caller>>

AbortRefused(n) ==     \* faulty: the network may fail, there is no timeout
  /\ Alive
  /\ n \in Peer
  /\ call[n].at = "working" /\ node[n] = "refused"
  /\ Moves(n, "mark", "error")
  /\ UNCHANGED <<operation, ack, runner, seen, node, caller>>

\* The call is aborted by its timeout or by the network.
Abort(n) ==
  /\ Alive
  /\ n \in Peer
  /\ call[n].at = "working"
  /\ Moves(n, "mark", "error")
  /\ UNCHANGED <<operation, ack, runner, seen, node, caller>>

\* An update that fails ends up in the catch, which records a failure.
markAckSucceeded(n) ==
  /\ Alive
  /\ call[n].at = "mark" /\ call[n].result = "ok"
  /\ \/ AckBecomes(n, "succeeded") /\ Moves(n, "done", "ok")
     \/ (AckBecomes(n, "succeeded") \/ UNCHANGED ack) /\ Moves(n, "mark", "error")
  /\ UNCHANGED <<operation, runner, seen, node, caller>>

\* When the update for a refused call fails, the catch tries it once more.
markAckFailed(n) ==
  /\ Alive
  /\ call[n].at = "mark" /\ call[n].result # "ok"
  /\ \/ AckBecomes(n, "failed") /\ Moves(n, "done", "error")
     \/ /\ AckBecomes(n, "failed") \/ UNCHANGED ack
        /\ Moves(n, IF call[n].result = "refused" THEN "mark" ELSE "threw", "error")
  /\ UNCHANGED <<operation, runner, seen, node, caller>>

\* The local target is done: all peers are called at once.
CallPeers ==
  /\ runner = "local"
  /\ call[Initiator].at = "done"
  /\ runner' = "remote"
  /\ call' = [n \in Target |-> IF n \in Targets \ {Initiator}
                               THEN [at |-> "start", result |-> "ok"]
                               ELSE call[n]]
  /\ UNCHANGED <<operation, ack, seen, node, caller>>

\* Promise.all: the first exception is enough, the other calls go on.
Rejected ==
  /\ runner \in {"local", "remote"}
  /\ \E n \in Target : call[n].at = "threw"
  /\ runner' = "catch"
  /\ UNCHANGED <<operation, ack, call, seen, node, caller>>

(***************************************************************************)
(* refreshOperation reads the acknowledgements, then records the outcome.  *)
(***************************************************************************)
ReadAcks ==
  /\ runner = "remote"
  /\ \A n \in Targets : call[n].at = "done"
  /\ \/ runner' = "write" /\ seen' = ack
     \/ runner' = "catch" /\ UNCHANGED seen
  /\ UNCHANGED <<operation, ack, call, node, caller>>

\* Faulty: counts the failures twice.
RefreshedTwice == [status |-> Outcome(seen),
                   completed |-> Cardinality(AckedAs(seen, Final))
                                 + Cardinality(AckedAs(seen, {"failed"})),
                   succeeded |-> Cardinality(AckedAs(seen, {"succeeded"})),
                   failed |-> Cardinality(AckedAs(seen, {"failed"}))]

Refreshed == [status |-> Outcome(seen),
              completed |-> Cardinality(AckedAs(seen, Final)),
              succeeded |-> Cardinality(AckedAs(seen, {"succeeded"})),
              failed |-> Cardinality(AckedAs(seen, {"failed"}))]

WriteOutcome ==
  /\ runner = "write"
  /\ \/ runner' = "done" /\ operation' = Refreshed
     \/ runner' = "catch" /\ operation' \in {operation, Refreshed}
  /\ UNCHANGED <<ack, call, seen, node, caller>>

\* The catch of enqueueBroadcastOperation.  When its own update fails the
\* rejection is unhandled, which ends the process.
RecordFailure ==
  LET failed == [operation EXCEPT !.status = "failed"] IN
  /\ runner = "catch"
  /\ \/ runner' = "done" /\ operation' = failed /\ UNCHANGED caller
     \/ /\ runner' = "gone"
        /\ operation' \in {operation, failed}
        /\ caller' = IF caller = "waiting" THEN "gone" ELSE caller
  /\ UNCHANGED <<ack, call, seen, node>>

Crash ==
  /\ runner \notin {"idle", "gone"}
  /\ runner' = "gone"
  /\ caller' = IF caller = "waiting" THEN "gone" ELSE caller
  /\ node' = [node EXCEPT ![Initiator] =
                IF @ = "called" THEN "lost" ELSE @]
  /\ UNCHANGED <<operation, ack, call, seen>>

(***************************************************************************)
(* waitForOperationToSettle: a poll, or the end of the caller's patience.  *)
(***************************************************************************)
Poll ==
  /\ caller = "waiting"
  /\ operation.status \in Terminal
  /\ caller' = operation.status
  /\ UNCHANGED <<operation, ack, runner, call, seen, node>>

GiveUp ==
  /\ caller = "waiting"
  /\ caller' = "timedOut"
  /\ UNCHANGED <<operation, ack, runner, call, seen, node>>

(***************************************************************************)
(* A target carries the operation out, fails to, or never gets to it.      *)
(***************************************************************************)
Work(n) ==
  /\ node[n] = "called"
  /\ n = Initiator => Alive
  /\ \E result \in {"applied", "refused", "lost"} :
       /\ n = Initiator => result # "lost"
       /\ node' = [node EXCEPT ![n] = result]
  /\ UNCHANGED <<operation, ack, runner, call, seen, caller>>

Next ==
  \/ Create \/ WriteEndpoints \/ Start \/ CallPeers \/ Rejected
  \/ ReadAcks \/ WriteOutcome \/ RecordFailure \/ Crash
  \/ Poll \/ GiveUp
  \/ \E n \in Target :
       \/ markAckStarted(n) \/ Unreachable(n) \/ Answer(n) \/ Abort(n)
       \/ markAckSucceeded(n) \/ markAckFailed(n) \/ Work(n)

Spec == Init /\ [][Next]_vars

(***************************************************************************)
(* The event loop of the initiator runs its coroutines, queries return,    *)
(* the timers of aborted calls fire, and its own action comes to an end.   *)
(* Nothing is assumed of the peers and the network.                        *)
(***************************************************************************)
RunnerStep ==
  \/ WriteEndpoints \/ Start \/ CallPeers \/ Rejected
  \/ ReadAcks \/ WriteOutcome \/ RecordFailure

CallStep(n) ==
  \/ markAckStarted(n) \/ Answer(n) \/ Abort(n)
  \/ markAckSucceeded(n) \/ markAckFailed(n)

FairSpec ==
  /\ Spec
  /\ WF_vars(RunnerStep)
  /\ WF_vars(Work(Initiator))
  /\ \A n \in Target : WF_vars(CallStep(n))

-----------------------------------------------------------------------------
(* Properties.                                                             *)

AckStatus == {"none", "pending", "running", "succeeded", "failed"}
Count == 0 .. Cardinality(Target)

TypeOK ==
  /\ operation \in [status : {"none", "pending", "running"} \cup Terminal,
                    completed : Count, succeeded : Count, failed : Count]
  /\ ack \in [Target -> AckStatus]
  /\ runner \in {"idle", "endpoints", "start", "local", "remote", "write",
                 "catch", "done", "abandoned", "gone"}
  /\ call \in [Target -> [at : {"none", "start", "working", "mark", "done", "threw"},
                          result : {"ok", "refused", "error"}]]
  /\ seen \in [Target -> AckStatus]
  /\ node \in [Target -> {"idle", "called", "applied", "refused", "lost"}]
  /\ caller \in {"none", "refused", "waiting", "timedOut", "gone"} \cup Terminal

Applied == {n \in Target : node[n] = "applied"}

(***************************************************************************)
(* An acknowledgement that says a node succeeded is true, although calls   *)
(* are aborted and updates are lost or executed without an answer.         *)
(***************************************************************************)
AcksAreTrue == AckedAs(ack, {"succeeded"}) \subseteq Applied

(***************************************************************************)
(* "succeeded" and "partially_failed" are recorded when every coroutine    *)
(* has said its last word: they agree with the acknowledgements and with   *)
(* the counts shown beside them from then on.                              *)
(***************************************************************************)
OutcomeMatchesAcks ==
  operation.status \in {"succeeded", "partially_failed"} =>
    /\ AckedAs(ack, Final) = Targets
    /\ operation.completed = Cardinality(Targets)
    /\ operation.succeeded = Cardinality(AckedAs(ack, {"succeeded"}))
    /\ operation.failed = Cardinality(AckedAs(ack, {"failed"}))
    /\ operation.status = "succeeded" <=> operation.failed = 0

(***************************************************************************)
(* A caller that waitForOperationToSettle tells of success can rely on it: *)
(* every target has carried the operation out (the activation of a         *)
(* certificate is recorded on the strength of that).                       *)
(***************************************************************************)
CallerCanRely == caller = "succeeded" => Applied = Targets

\* The journal implements BroadcastOutcome.
Broadcast == INSTANCE BroadcastOutcome WITH
  targets <- Targets,
  reached <- Applied,
  outcome <- IF operation.status \in Terminal THEN operation.status ELSE "open"

ImplementsBroadcast == Broadcast!Spec

(***************************************************************************)
(* Every operation that executeOperation is called for comes to an outcome *)
(* although peers never answer and queries fail, as long as its initiator  *)
(* lives.  (It is not called when the update of an endpoint fails, and     *)
(* nothing ever changes the status of that operation: WriteEndpoints.)     *)
(***************************************************************************)
ReachesOutcome ==
  runner = "start" ~> operation.status \in Terminal \/ runner = "gone"
=============================================================================
