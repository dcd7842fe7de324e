---------------------- MODULE ClusterOperationsProofs ----------------------
(***************************************************************************)
(* Proofs about ClusterOperations, for any finite set of peers.            *)
(***************************************************************************)
EXTENDS ClusterOperations, FiniteSetTheorems, TLAPS

USE OperationsAssumption DEF OperationsAssumption

-----------------------------------------------------------------------------
(* Acknowledgements, as sets and as counts.                                *)

(* There are finitely many targets. *)
LEMMA TargetsFinite == IsFiniteSet(Target) /\ Cardinality(Target) \in Nat
BY FS_AddElement, FS_CardinalityType DEF Target

(* The targets with some acknowledgements are finite in number, and their  *)
(* number is 0 only if there are none.                                     *)
LEMMA AckedCounts ==
  ASSUME NEW acks, NEW statuses
  PROVE  /\ AckedAs(acks, statuses) \subseteq Target
         /\ IsFiniteSet(AckedAs(acks, statuses))
         /\ Cardinality(AckedAs(acks, statuses)) \in Count
         /\ Cardinality(AckedAs(acks, statuses)) = 0 <=> AckedAs(acks, statuses) = {}
<1>1. AckedAs(acks, statuses) \subseteq Target
  BY DEF AckedAs
<1>2. IsFiniteSet(Target)
  BY TargetsFinite
<1>3. /\ IsFiniteSet(AckedAs(acks, statuses))
      /\ Cardinality(AckedAs(acks, statuses)) <= Cardinality(Target)
  BY <1>1, <1>2, FS_Subset
<1>4. /\ Cardinality(AckedAs(acks, statuses)) \in Nat
      /\ Cardinality(Target) \in Nat
  BY <1>2, <1>3, FS_CardinalityType
<1>5. Cardinality(AckedAs(acks, statuses)) = 0 <=> AckedAs(acks, statuses) = {}
  BY <1>3, FS_EmptySet
<1> QED
  BY <1>1, <1>3, <1>4, <1>5 DEF Count

(* calculateOperationStatus has a value, and what refreshOperation writes  *)
(* is an operation.                                                        *)
LEMMA OutcomeTypes ==
  /\ Outcome(seen) \in {"pending", "running"} \cup Terminal
  /\ Refreshed \in [status : {"none", "pending", "running"} \cup Terminal,
                    completed : Count, succeeded : Count, failed : Count]
<1>1. Outcome(seen) \in {"pending", "running"} \cup Terminal
  BY DEF Outcome, Terminal
<1> QED
  BY <1>1, AckedCounts DEF Refreshed

-----------------------------------------------------------------------------
(* Type correctness.                                                       *)

LEMMA MovesTyped ==
  ASSUME TypeOK, NEW n \in Target,
         NEW place \in {"working", "mark", "done", "threw"},
         NEW result \in {"ok", "refused", "error"},
         Moves(n, place, result)
  PROVE  call' \in [Target -> [at : {"none", "start", "working", "mark", "done", "threw"},
                               result : {"ok", "refused", "error"}]]
BY DEF TypeOK, Moves

LEMMA TypeStep == TypeOK /\ [Next]_vars => TypeOK'
<1> SUFFICES ASSUME TypeOK, [Next]_vars PROVE TypeOK'
  OBVIOUS
<1> USE DEF TypeOK
<1>1. CASE Create
  BY <1>1 DEF Create, AckStatus, Terminal
<1>2. CASE WriteEndpoints
  BY <1>2 DEF WriteEndpoints, Terminal
<1>3. CASE Start
  BY <1>3 DEF Start, Running, Terminal, Target
<1>4. CASE CallPeers
  BY <1>4 DEF CallPeers
<1>5. CASE Rejected
  BY <1>5 DEF Rejected
<1>6. CASE ReadAcks
  BY <1>6 DEF ReadAcks
<1>7. CASE WriteOutcome
  BY <1>7, OutcomeTypes DEF WriteOutcome
<1>8. CASE RecordFailure
  BY <1>8 DEF RecordFailure, Terminal
<1>9. CASE Crash
  BY <1>9 DEF Crash, Terminal, Target
<1>10. CASE Poll
  BY <1>10 DEF Poll
<1>11. CASE GiveUp
  BY <1>11 DEF GiveUp
<1>12. ASSUME NEW n \in Target, markAckStarted(n) PROVE TypeOK'
  <2>1. /\ ack' \in [Target -> AckStatus]
        /\ node' \in [Target -> {"idle", "called", "applied", "refused", "lost"}]
    BY <1>12 DEF markAckStarted, AckBecomes, AckStatus
  <2>2. Moves(n, "working", "ok") \/ Moves(n, "threw", "error")
    BY <1>12 DEF markAckStarted
  <2>3. call' \in [Target -> [at : {"none", "start", "working", "mark", "done", "threw"},
                              result : {"ok", "refused", "error"}]]
    BY <2>2, MovesTyped
  <2> QED
    BY <1>12, <2>1, <2>3 DEF markAckStarted
<1>13. ASSUME NEW n \in Target, Unreachable(n) \/ Answer(n) \/ Abort(n) PROVE TypeOK'
  <2>1. \E result \in {"ok", "refused", "error"} : Moves(n, "mark", result)
    BY <1>13 DEF Unreachable, Answer, Abort
  <2>2. call' \in [Target -> [at : {"none", "start", "working", "mark", "done", "threw"},
                              result : {"ok", "refused", "error"}]]
    BY <2>1, MovesTyped
  <2> QED
    BY <1>13, <2>2 DEF Unreachable, Answer, Abort
<1>14. ASSUME NEW n \in Target, markAckSucceeded(n) \/ markAckFailed(n) PROVE TypeOK'
  <2>1. \E place \in {"mark", "done", "threw"}, result \in {"ok", "refused", "error"} :
          Moves(n, place, result)
    BY <1>14 DEF markAckSucceeded, markAckFailed
  <2>2. call' \in [Target -> [at : {"none", "start", "working", "mark", "done", "threw"},
                              result : {"ok", "refused", "error"}]]
    BY <2>1, MovesTyped
  <2>3. ack' \in [Target -> AckStatus]
    BY <1>14 DEF markAckSucceeded, markAckFailed, AckBecomes, AckStatus
  <2> QED
    BY <1>14, <2>2, <2>3 DEF markAckSucceeded, markAckFailed
<1>15. ASSUME NEW n \in Target, Work(n) PROVE TypeOK'
  BY <1>15 DEF Work
<1>16. CASE UNCHANGED vars
  BY <1>16 DEF vars
<1> QED
  BY <1>1, <1>2, <1>3, <1>4, <1>5, <1>6, <1>7, <1>8, <1>9, <1>10, <1>11, <1>12,
     <1>13, <1>14, <1>15, <1>16 DEF Next

(***************************************************************************)
(* Every variable keeps its type, and the counts recorded in the journal   *)
(* never exceed the number of targets.                                     *)
(***************************************************************************)
THEOREM TypeCorrect == Spec => []TypeOK
<1>1. Init => TypeOK
  <2>1. 0 \in Count
    BY TargetsFinite DEF Count
  <2> QED
    BY <2>1 DEF Init, TypeOK, NoCall, AckStatus
<1> QED
  BY <1>1, TypeStep, PTL DEF Spec

-----------------------------------------------------------------------------
(* The journal and the coroutines.                                         *)

\* Every target's coroutine has recorded its last word.
Finished == Targets # {} /\ \A n \in Targets : call[n].at = "done"

(***************************************************************************)
(* How far a target can be, by the place of its coroutine: it is untouched *)
(* until the coroutine has started, it has carried the operation out when  *)
(* the coroutine is about to record a success, and its acknowledgement is  *)
(* final when the coroutine is done.                                       *)
(***************************************************************************)
CallsInv ==
  \A n \in Target :
    /\ call[n].at # "none" => ack[n] # "none"
    /\ call[n].at \in {"none", "start"} => node[n] = "idle" /\ ack[n] \in {"none", "pending"}
    /\ call[n].at = "mark" /\ call[n].result = "ok" => node[n] = "applied"
    /\ call[n].at = "done" => ack[n] \in Final
    /\ ack[n] = "succeeded" => node[n] = "applied"

(***************************************************************************)
(* How far the journal can be, by the place of executeOperation: no        *)
(* outcome before the acknowledgements have been read, and these are still *)
(* what was read when the outcome is written.                              *)
(***************************************************************************)
RunnerInv ==
  /\ runner = "idle" => Targets = {}
  /\ runner # "idle" => Initiator \in Targets
  /\ runner \in {"idle", "endpoints", "start"} => \A n \in Target : call[n].at = "none"
  /\ runner = "local" => \A n \in Peer : call[n].at = "none"
  /\ runner \in {"idle", "endpoints", "start", "local", "remote", "write"} =>
       operation.status \notin Terminal
  /\ runner = "write" => Finished /\ seen = ack

\* An outcome other than "failed" is that of the acknowledgements.
RecordInv ==
  operation.status \in {"succeeded", "partially_failed"} =>
    /\ Finished
    /\ operation.status = Outcome(ack)
    /\ operation.completed = Cardinality(AckedAs(ack, Final))
    /\ operation.succeeded = Cardinality(AckedAs(ack, {"succeeded"}))
    /\ operation.failed = Cardinality(AckedAs(ack, {"failed"}))

CallerInv == caller = "succeeded" => Finished /\ Targets \subseteq Applied

JournalInv == CallsInv /\ RunnerInv /\ RecordInv /\ CallerInv

(* Once every coroutine has recorded its last word, the acknowledgements   *)
(* stay as they are.                                                       *)
LEMMA FinishedStays ==
  ASSUME TypeOK, CallsInv, RunnerInv, Finished, [Next]_vars
  PROVE  ack' = ack /\ call' = call /\ Targets' = Targets /\ Finished'
<1>1. \A n \in Target : call[n].at \in {"none", "done"}
  BY DEF CallsInv, Finished, Targets
<1>2. ack' = ack /\ call' = call
  <2>1. CASE Create
    BY <2>1 DEF Create, RunnerInv, Finished
  <2>2. CASE Start
    <3>1. call[Initiator].at = "none" /\ call[Initiator].at = "done"
      BY <2>2 DEF Start, RunnerInv, Finished, Target
    <3> QED
      BY <3>1
  <2>3. CASE CallPeers
    <3>1. \A n \in Peer : call[n].at = "none"
      BY <2>3 DEF CallPeers, RunnerInv
    <3>2. Targets \ {Initiator} = {}
      BY <3>1 DEF Finished, Targets, Target
    <3>3. call' = [n \in Target |-> call[n]] /\ ack' = ack
      BY <2>3, <3>2 DEF CallPeers
    <3> QED
      BY <3>3 DEF TypeOK
  <2>4. ASSUME NEW n \in Target,
               \/ markAckStarted(n) \/ Unreachable(n) \/ Answer(n) \/ Abort(n)
               \/ markAckSucceeded(n) \/ markAckFailed(n)
        PROVE  FALSE
    BY <1>1, <2>4 DEF markAckStarted, Unreachable, Answer, Abort, markAckSucceeded,
                      markAckFailed
  <2> QED
    BY <2>1, <2>2, <2>3, <2>4
    DEF Next, vars, WriteEndpoints, Rejected, ReadAcks, WriteOutcome, RecordFailure,
        Crash, Poll, GiveUp, Work
<1> QED
  BY <1>2 DEF Finished, Targets

(* Nothing undoes what a target has carried out. *)
LEMMA AppliedStays ==
  ASSUME TypeOK, CallsInv, [Next]_vars
  PROVE  Applied \subseteq Applied'
<1>1. ASSUME NEW n \in Target, markAckStarted(n) PROVE Applied \subseteq Applied'
  BY <1>1 DEF markAckStarted, CallsInv, Applied, TypeOK
<1>2. CASE Crash
  BY <1>2 DEF Crash, Applied, TypeOK, Target
<1>3. ASSUME NEW n \in Target, Work(n) PROVE Applied \subseteq Applied'
  BY <1>3 DEF Work, Applied, TypeOK
<1>4. CASE node' = node
  BY <1>4 DEF Applied
<1> QED
  BY <1>1, <1>2, <1>3, <1>4
  DEF Next, vars, Create, WriteEndpoints, Start, CallPeers, Rejected, ReadAcks,
      WriteOutcome, RecordFailure, Poll, GiveUp, Unreachable, Answer, Abort,
      markAckSucceeded, markAckFailed

LEMMA CallsStep ==
  ASSUME TypeOK, CallsInv, RunnerInv, [Next]_vars
  PROVE  CallsInv'
<1> USE DEF CallsInv, TypeOK
<1>1. CASE Create
  BY <1>1 DEF Create, RunnerInv, Targets
<1>2. CASE Start
  <2>1. Initiator \in Targets
    BY <1>2 DEF Start, RunnerInv
  <2> QED
    BY <1>2, <2>1 DEF Start, RunnerInv, Targets
<1>3. CASE CallPeers
  <2>1. \A n \in Peer : call[n].at = "none"
    BY <1>3 DEF CallPeers, RunnerInv
  <2>2. \A n \in Targets \ {Initiator} : n \in Peer /\ n \in Target /\ ack[n] # "none"
    BY DEF Targets, Target
  <2> QED
    BY <1>3, <2>1, <2>2 DEF CallPeers
<1>4. CASE Crash
  BY <1>4 DEF Crash, Target
<1>5. ASSUME NEW n \in Target, markAckStarted(n) PROVE CallsInv'
  <2>1. CASE AckBecomes(n, "running") /\ Moves(n, "working", "ok")
    BY <1>5, <2>1 DEF markAckStarted, AckBecomes, Moves
  <2>2. CASE (AckBecomes(n, "running") \/ UNCHANGED ack) /\ Moves(n, "threw", "error")
    BY <1>5, <2>2 DEF markAckStarted, AckBecomes, Moves
  <2> QED
    BY <1>5, <2>1, <2>2 DEF markAckStarted
<1>6. ASSUME NEW n \in Target, Unreachable(n) \/ Answer(n) \/ Abort(n) PROVE CallsInv'
  BY <1>6 DEF Unreachable, Answer, Abort, Moves
<1>7. ASSUME NEW n \in Target, markAckSucceeded(n) PROVE CallsInv'
  BY <1>7 DEF markAckSucceeded, AckBecomes, Moves, Final
<1>8. ASSUME NEW n \in Target, markAckFailed(n) PROVE CallsInv'
  BY <1>8 DEF markAckFailed, AckBecomes, Moves, Final
<1>9. ASSUME NEW n \in Target, Work(n) PROVE CallsInv'
  BY <1>9 DEF Work
<1>10. CASE UNCHANGED <<ack, call, node>>
  BY <1>10
<1> QED
  BY <1>1, <1>2, <1>3, <1>4, <1>5, <1>6, <1>7, <1>8, <1>9, <1>10
  DEF Next, vars, WriteEndpoints, Rejected, ReadAcks, WriteOutcome, RecordFailure,
      Poll, GiveUp

LEMMA RunnerInvStep ==
  ASSUME TypeOK, CallsInv, RunnerInv, [Next]_vars
  PROVE  RunnerInv'
<1> USE DEF RunnerInv
<1>1. CASE Create
  BY <1>1 DEF Create, Targets, Target, TypeOK, Terminal
<1>2. CASE WriteEndpoints
  BY <1>2 DEF WriteEndpoints, Targets
<1>3. CASE Start
  BY <1>3 DEF Start, Running, Targets, Target, TypeOK, Terminal
<1>4. CASE CallPeers
  BY <1>4 DEF CallPeers, Targets
<1>5. CASE Rejected
  BY <1>5 DEF Rejected, Targets
<1>6. CASE ReadAcks
  BY <1>6 DEF ReadAcks, Targets, Finished
<1>7. CASE WriteOutcome \/ RecordFailure \/ Crash
  BY <1>7 DEF WriteOutcome, RecordFailure, Crash, Targets
<1>8. ASSUME NEW n \in Target,
             \/ markAckStarted(n) \/ Unreachable(n) \/ Answer(n) \/ Abort(n)
             \/ markAckSucceeded(n) \/ markAckFailed(n)
      PROVE  RunnerInv'
  <2>1. /\ call[n].at \in {"start", "working", "mark"}
        /\ UNCHANGED <<operation, runner, seen>>
    BY <1>8 DEF markAckStarted, Unreachable, Answer, Abort, markAckSucceeded,
                markAckFailed
  <2>2. /\ \A m \in Target \ {n} : call'[m] = call[m]
        /\ \E status \in {"running", "succeeded", "failed"} :
             AckBecomes(n, status) \/ UNCHANGED ack
    BY <1>8 DEF markAckStarted, Unreachable, Answer, Abort, markAckSucceeded,
                markAckFailed, Moves, TypeOK
  <2>3. n \in Targets
    BY <2>1 DEF CallsInv, Targets
  <2>4. Targets' = Targets
    BY <2>2, <2>3 DEF AckBecomes, Targets, TypeOK
  <2>5. runner \notin {"idle", "endpoints", "start", "write"}
    BY <2>1, <2>3 DEF Finished
  <2>6. runner = "local" => n = Initiator
    BY <2>1 DEF Target
  <2> QED
    BY <2>1, <2>2, <2>4, <2>5, <2>6 DEF Target
<1>9. CASE UNCHANGED <<operation, ack, runner, call, seen>>
  BY <1>9 DEF Targets, Finished
<1> QED
  BY <1>1, <1>2, <1>3, <1>4, <1>5, <1>6, <1>7, <1>8, <1>9
  DEF Next, vars, Poll, GiveUp, Work

(* The outcome of acknowledgements that are all final. *)
LEMMA FinishedOutcome ==
  ASSUME Finished, CallsInv
  PROVE  /\ AckedAs(ack, Final) = Targets
         /\ Outcome(ack) \in Terminal
         /\ Outcome(ack) = "succeeded" <=> AckedAs(ack, {"failed"}) = {}
         /\ Outcome(ack) = "partially_failed" => AckedAs(ack, {"succeeded"}) # {}
<1>1. AckedAs(ack, Final) = Targets /\ Targets # {}
  BY DEF Finished, CallsInv, Targets, AckedAs, Final
<1>2. Outcome(ack) = IF AckedAs(ack, {"failed"}) = {} THEN "succeeded"
                     ELSE IF AckedAs(ack, {"succeeded"}) = {} THEN "failed"
                     ELSE "partially_failed"
  BY <1>1 DEF Outcome, Targets
<1> QED
  BY <1>1, <1>2 DEF Terminal

LEMMA RecordStep ==
  ASSUME TypeOK, CallsInv, RunnerInv, RecordInv, [Next]_vars
  PROVE  RecordInv'
<1>1. CASE operation.status \in {"succeeded", "partially_failed"} /\ operation' = operation
  <2>1. ack' = ack /\ Finished'
    BY <1>1, FinishedStays DEF RecordInv
  <2> QED
    BY <1>1, <2>1 DEF RecordInv, AckedAs, Outcome
<1>2. CASE operation' = Refreshed /\ runner = "write" /\ UNCHANGED <<ack, call>>
  <2>1. Finished /\ seen = ack
    BY <1>2 DEF RunnerInv
  <2>2. operation' = [status |-> Outcome(ack),
                      completed |-> Cardinality(AckedAs(ack, Final)),
                      succeeded |-> Cardinality(AckedAs(ack, {"succeeded"})),
                      failed |-> Cardinality(AckedAs(ack, {"failed"}))]
    BY <1>2, <2>1 DEF Refreshed
  <2>3. Finished'
    BY <1>2, <2>1 DEF Finished, Targets
  <2> QED
    BY <1>2, <2>2, <2>3 DEF RecordInv, AckedAs, Outcome
<1>3. CASE operation'.status \notin {"succeeded", "partially_failed"}
  BY <1>3 DEF RecordInv
<1>4. CASE Create \/ Start
  BY <1>3, <1>4 DEF Create, Start, Running, TypeOK, RunnerInv, Terminal
<1>5. CASE WriteOutcome
  BY <1>1, <1>2, <1>3, <1>5 DEF WriteOutcome
<1>6. CASE RecordFailure
  BY <1>1, <1>3, <1>6 DEF RecordFailure, TypeOK
<1>7. CASE operation' = operation
  BY <1>1, <1>3, <1>7
<1> QED
  BY <1>4, <1>5, <1>6, <1>7
  DEF Next, vars, WriteEndpoints, CallPeers, Rejected, ReadAcks, Crash, Poll, GiveUp,
      markAckStarted, Unreachable, Answer, Abort, markAckSucceeded, markAckFailed, Work

(* An operation that is recorded as succeeded has been carried out by all  *)
(* targets.                                                                *)
LEMMA SuccessIsTrue ==
  ASSUME CallsInv, RecordInv, operation.status = "succeeded"
  PROVE  Finished /\ Targets \subseteq Applied
<1>1. Finished /\ Outcome(ack) = "succeeded"
  BY DEF RecordInv
<1>2. AckedAs(ack, Final) = Targets /\ AckedAs(ack, {"failed"}) = {}
  BY <1>1, FinishedOutcome
<1>3. Targets \subseteq AckedAs(ack, {"succeeded"})
  BY <1>2 DEF AckedAs, Final
<1> QED
  BY <1>1, <1>3 DEF CallsInv, AckedAs, Applied

LEMMA CallerStep ==
  ASSUME TypeOK, JournalInv, [Next]_vars
  PROVE  CallerInv'
<1> USE DEF JournalInv
<1>1. CASE caller = "succeeded"
  BY <1>1, FinishedStays, AppliedStays DEF CallerInv
<1>2. CASE Poll
  <2>1. caller' = operation.status /\ Targets' = Targets /\ Applied' = Applied
        /\ (Finished => Finished')
    BY <1>2 DEF Poll, Targets, Applied, Finished
  <2> QED
    BY <2>1, SuccessIsTrue DEF CallerInv
<1>3. CASE caller' # "succeeded"
  BY <1>3 DEF CallerInv
<1> QED
  BY <1>1, <1>2, <1>3
  DEF Next, vars, Create, WriteEndpoints, Start, CallPeers, Rejected, ReadAcks,
      WriteOutcome, RecordFailure, Crash, GiveUp, Unreachable, Answer, Abort,
      markAckStarted, markAckSucceeded, markAckFailed, Work

LEMMA JournalCorrect == Spec => []JournalInv
<1>1. Init => JournalInv
  BY DEF Init, JournalInv, CallsInv, RunnerInv, RecordInv, CallerInv, Targets, NoCall,
         Terminal
<1>2. TypeOK /\ JournalInv /\ [Next]_vars => JournalInv'
  BY CallsStep, RunnerInvStep, RecordStep, CallerStep DEF JournalInv
<1> QED
  BY <1>1, <1>2, TypeCorrect, PTL DEF Spec

(***************************************************************************)
(* markAckSucceeded never records a success of a target that has not       *)
(* carried the operation out, whatever calls are aborted and whichever     *)
(* updates are lost or executed without an answer.                         *)
(***************************************************************************)
THEOREM AcksTellTheTruth == Spec => []AcksAreTrue
<1>1. CallsInv => AcksAreTrue
  BY DEF CallsInv, AcksAreTrue, AckedAs, Applied
<1> QED
  BY <1>1, JournalCorrect, PTL DEF JournalInv

(***************************************************************************)
(* What refreshOperation records as "succeeded" or "partially_failed"      *)
(* agrees with the acknowledgements, and with the counts, for good.        *)
(***************************************************************************)
THEOREM OutcomeIsThatOfAcks == Spec => []OutcomeMatchesAcks
<1>1. ASSUME CallsInv, RecordInv PROVE OutcomeMatchesAcks
  <2> SUFFICES ASSUME operation.status \in {"succeeded", "partially_failed"}
               PROVE  /\ AckedAs(ack, Final) = Targets
                      /\ operation.completed = Cardinality(Targets)
                      /\ operation.succeeded = Cardinality(AckedAs(ack, {"succeeded"}))
                      /\ operation.failed = Cardinality(AckedAs(ack, {"failed"}))
                      /\ operation.status = "succeeded" <=> operation.failed = 0
    BY DEF OutcomeMatchesAcks
  <2>1. /\ AckedAs(ack, Final) = Targets
        /\ Outcome(ack) = "succeeded" <=> AckedAs(ack, {"failed"}) = {}
    BY <1>1, FinishedOutcome DEF RecordInv
  <2>2. Cardinality(AckedAs(ack, {"failed"})) = 0 <=> AckedAs(ack, {"failed"}) = {}
    BY AckedCounts
  <2> QED
    BY <1>1, <2>1, <2>2 DEF RecordInv
<1> QED
  BY <1>1, JournalCorrect, PTL DEF JournalInv

(***************************************************************************)
(* When waitForOperationToSettle tells its caller of success, exactly the  *)
(* targets have carried the operation out, and nobody else has.            *)
(***************************************************************************)
THEOREM CallersCanRely == Spec => []CallerCanRely
<1>1. ASSUME TypeOK, CallsInv, CallerInv PROVE CallerCanRely
  <2>1. Applied \subseteq Targets
    BY <1>1 DEF CallsInv, Applied, Targets, TypeOK
  <2> QED
    BY <1>1, <2>1 DEF CallerInv, CallerCanRely
<1> QED
  BY <1>1, TypeCorrect, JournalCorrect, PTL DEF JournalInv

-----------------------------------------------------------------------------
(* The abstract specification.                                             *)

\* What the journal shows as the outcome.
Shown == IF operation.status \in Terminal THEN operation.status ELSE "open"

(* Once there is an operation, its targets stay the same. *)
LEMMA TargetsStay ==
  ASSUME TypeOK, CallsInv, [Next]_vars, ~Create
  PROVE  Targets' = Targets
<1>1. ASSUME NEW n \in Target, markAckStarted(n) \/ markAckSucceeded(n) \/ markAckFailed(n)
      PROVE  Targets' = Targets
  <2>1. ack[n] # "none"
    BY <1>1 DEF CallsInv, markAckStarted, markAckSucceeded, markAckFailed
  <2>2. \E status \in {"running", "succeeded", "failed"} :
          AckBecomes(n, status) \/ UNCHANGED ack
    BY <1>1 DEF markAckStarted, markAckSucceeded, markAckFailed
  <2> QED
    BY <2>1, <2>2 DEF AckBecomes, Targets, TypeOK
<1>2. CASE UNCHANGED ack
  BY <1>2 DEF Targets
<1> QED
  BY <1>1, <1>2
  DEF Next, vars, WriteEndpoints, Start, CallPeers, Rejected, ReadAcks, WriteOutcome,
      RecordFailure, Crash, Poll, GiveUp, Unreachable, Answer, Abort, Work

(* The step in which a target gets to carry the operation out. *)
LEMMA WorkReaches ==
  ASSUME TypeOK, CallsInv, NEW n \in Target, Work(n)
  PROVE  Applied' = Applied \/ (n \in Targets /\ Applied' = Applied \cup {n})
<1>1. n \in Targets
  BY DEF Work, CallsInv, Targets, TypeOK
<1>2. PICK result \in {"applied", "refused", "lost"} : node' = [node EXCEPT ![n] = result]
  BY DEF Work
<1>3. n \notin Applied
  BY DEF Work, Applied
<1> QED
  BY <1>1, <1>2, <1>3 DEF Applied, TypeOK

(* Of all other steps none changes what has been carried out. *)
LEMMA OnlyWorkReaches ==
  ASSUME TypeOK, CallsInv, [Next]_vars, \A n \in Target : ~Work(n)
  PROVE  Applied' = Applied
<1>1. ASSUME NEW n \in Target, markAckStarted(n) PROVE Applied' = Applied
  <2>1. node[n] = "idle"
    BY <1>1 DEF markAckStarted, CallsInv
  <2> QED
    BY <1>1, <2>1 DEF markAckStarted, Applied, TypeOK
<1>2. CASE Crash
  BY <1>2 DEF Crash, Applied, TypeOK, Target
<1>3. CASE UNCHANGED node
  BY <1>3 DEF Applied
<1> QED
  BY <1>1, <1>2, <1>3
  DEF Next, vars, Create, WriteEndpoints, Start, CallPeers, Rejected, ReadAcks,
      WriteOutcome, RecordFailure, Poll, GiveUp, Unreachable, Answer, Abort,
      markAckSucceeded, markAckFailed

(* Writing the outcome concludes the abstract operation. *)
LEMMA WriteConcludes ==
  ASSUME TypeOK, JournalInv, WriteOutcome, Shown' # Shown
  PROVE  /\ Shown = "open"
         /\ \/ Applied = Targets /\ Shown' = "succeeded"
            \/ Applied # {} /\ Shown' = "partially_failed"
            \/ Shown' = "failed"
<1>1. runner = "write" /\ Finished /\ seen = ack /\ operation.status \notin Terminal
  BY DEF WriteOutcome, JournalInv, RunnerInv
<1>2. operation' = Refreshed
  BY DEF WriteOutcome, Shown
<1>3. operation'.status = Outcome(ack) /\ Outcome(ack) \in Terminal
  BY <1>1, <1>2, FinishedOutcome DEF Refreshed, JournalInv
<1>4. Shown = "open" /\ Shown' = Outcome(ack)
  BY <1>1, <1>3 DEF Shown
<1>5. CASE Outcome(ack) = "succeeded"
  <2>1. AckedAs(ack, Final) = Targets /\ AckedAs(ack, {"failed"}) = {}
    BY <1>1, <1>5, FinishedOutcome DEF JournalInv
  <2>2. Targets \subseteq Applied
    BY <2>1 DEF JournalInv, CallsInv, AckedAs, Applied, Final
  <2>3. Applied \subseteq Targets
    BY DEF JournalInv, CallsInv, Applied, Targets, TypeOK
  <2> QED
    BY <1>4, <1>5, <2>2, <2>3
<1>6. CASE Outcome(ack) = "partially_failed"
  <2>1. AckedAs(ack, {"succeeded"}) # {}
    BY <1>1, <1>6, FinishedOutcome DEF JournalInv
  <2>2. Applied # {}
    BY <2>1 DEF JournalInv, CallsInv, AckedAs, Applied
  <2> QED
    BY <1>4, <1>6, <2>2
<1> QED
  BY <1>3, <1>4, <1>5, <1>6 DEF Terminal

(* Of all other steps only the catch changes the outcome shown, to failed. *)
LEMMA OnlyFailureOtherwise ==
  ASSUME TypeOK, JournalInv, [Next]_vars, ~WriteOutcome, Shown' # Shown
  PROVE  RecordFailure /\ Targets # {} /\ Shown' = "failed"
<1>1. RecordFailure
  BY DEF Next, vars, Create, WriteEndpoints, Start, Running, CallPeers, Rejected,
         ReadAcks, Crash, Poll, GiveUp, Unreachable, Answer, Abort, markAckStarted,
         markAckSucceeded, markAckFailed, Work, Shown, TypeOK, JournalInv, RunnerInv,
         Terminal
<1>2. runner = "catch"
  BY <1>1 DEF RecordFailure
<1>3. Initiator \in Targets
  BY <1>2 DEF JournalInv, RunnerInv
<1>4. operation'.status = "failed"
  BY <1>1 DEF RecordFailure, Shown, TypeOK
<1> QED
  BY <1>1, <1>3, <1>4 DEF Shown, Terminal

(***************************************************************************)
(* The journal keeps the promise of BroadcastOutcome: "succeeded" is shown *)
(* only when all targets have carried the operation out, and a recorded    *)
(* outcome is only taken back by "failed".                                 *)
(***************************************************************************)
THEOREM JournalImplementsBroadcast == Spec => ImplementsBroadcast
<1>1. Init => Broadcast!Init
  BY DEF Init, Broadcast!Init, Targets, Applied, Terminal
<1>2. TypeOK /\ JournalInv /\ [Next]_vars
        => [Broadcast!Create \/ Broadcast!Reach \/ Broadcast!Conclude]_(Broadcast!vars)
  <2> SUFFICES ASSUME TypeOK, JournalInv, [Next]_vars
               PROVE  [Broadcast!Create \/ Broadcast!Reach \/ Broadcast!Conclude]_(Broadcast!vars)
    OBVIOUS
  <2> USE DEF JournalInv
  <2>1. CASE Create
    <3>1. Targets = {} /\ Targets' # {} /\ Targets' \subseteq Target
      BY <2>1 DEF Create, RunnerInv, Targets, Target
    <3>2. Applied' = Applied /\ Shown' = Shown
      BY <2>1 DEF Create, Applied, Shown, RunnerInv, TypeOK, Terminal
    <3> QED
      BY <3>1, <3>2 DEF Broadcast!Create, Shown
  <2>2. ASSUME NEW n \in Target, Work(n) PROVE Broadcast!Reach \/ UNCHANGED Broadcast!vars
    <3>1. Targets' = Targets /\ Shown' = Shown
      BY <2>2 DEF Work, Targets, Shown
    <3> QED
      BY <2>2, <3>1, WorkReaches DEF Broadcast!Reach, Broadcast!vars, Shown
  <2>3. CASE ~Create /\ \A n \in Target : ~Work(n)
    <3>1. Targets' = Targets /\ Applied' = Applied
      BY <2>3, TargetsStay, OnlyWorkReaches
    <3>2. CASE Shown' = Shown
      BY <3>1, <3>2 DEF Broadcast!vars, Shown
    <3>3. CASE WriteOutcome /\ Shown' # Shown
      <4>1. Targets # {}
        BY <3>3 DEF WriteOutcome, RunnerInv
      <4> QED
        BY <3>1, <3>3, <4>1, WriteConcludes DEF Broadcast!Conclude, Shown
    <3>4. CASE ~WriteOutcome /\ Shown' # Shown
      BY <3>1, <3>4, OnlyFailureOtherwise DEF Broadcast!Conclude, Shown
    <3> QED
      BY <3>2, <3>3, <3>4
  <2> QED
    BY <2>1, <2>2, <2>3
<1> QED
  BY <1>1, <1>2, TypeCorrect, JournalCorrect, PTL
  DEF Spec, ImplementsBroadcast, Broadcast!Spec
=============================================================================
