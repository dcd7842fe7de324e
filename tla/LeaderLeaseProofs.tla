------------------------- MODULE LeaderLeaseProofs -------------------------
(***************************************************************************)
(* Proofs about LeaderLease, for every set of instances and connections,   *)
(* every TTL and every clock skew.                                         *)
(***************************************************************************)
EXTENDS LeaderLease, TLAPS

-----------------------------------------------------------------------------
(* Type correctness.                                                       *)

USE LeaseAssumption DEF LeaseAssumption

(* The empty lease, row and answer have their types. *)
LEMMA LeaseTypes ==
  /\ NotHeld \in Lease
  /\ NoRow \in Row
  /\ Idle \in Answer
BY DEF NotHeld, Lease, NoRow, Row, Idle, Answer

(* Renewing and releasing the row keep its type. *)
LEMMA RowUpdateTypes ==
  ASSUME NEW r \in Row
  PROVE  /\ [r EXCEPT !.left = Ttl] \in Row
         /\ [owner |-> None, generation |-> r.generation, left |-> 0] \in Row
<1>1. Ttl \in Int
  OBVIOUS
<1>2. [r EXCEPT !.left = Ttl] \in Row
  BY <1>1 DEF Row
<1>3. [owner |-> None, generation |-> r.generation, left |-> 0] \in Row
  BY DEF Row
<1> QED
  BY <1>2, <1>3

(* What the code copies out of a row is a lease. *)
LEMMA SnapshotTypes == \A r \in Row : Snapshot(r) \in Lease
BY DEF Snapshot, Row, Lease

(* Answering a statement keeps the type of the connections. *)
LEMMA ReplyTypes ==
  ASSUME TypeOK, NEW i \in Instance, NEW c \in Connection,
         NEW s \in Statement, NEW outcome \in {"row", "noRow", "error"},
         NEW lease \in Lease, Reply(i, c, s, outcome, lease)
  PROVE  connection' \in [Instance -> [Connection -> Answer]]
<1>1. PICK a \in {[op |-> s.op, outcome |-> outcome, lease |-> lease],
                  [op |-> s.op, outcome |-> "error", lease |-> NotHeld]} :
            connection' = [connection EXCEPT ![i][c] = a]
  BY DEF Reply
<1>2. a \in Answer
  BY LeaseTypes DEF Statement, Answer
<1> QED
  BY <1>1, <1>2 DEF TypeOK

(* The lease that an answer carries is typed. *)
LEMMA AnswerTypes ==
  ASSUME NEW a \in Answer
  PROVE  /\ a.lease \in Lease
         /\ a.lease.generation \in Nat
         /\ a.lease.left \in Int
<1>1. a.lease \in Lease
  BY DEF Answer
<1> QED
  BY <1>1 DEF Lease

(* A tick of the clock keeps the types of times and leases. *)
LEMMA AgeTypes ==
  /\ \A t \in Int : Less(t) \in Int
  /\ \A l \in Lease : Older(l) \in Lease
<1>1. \A t \in Int : Less(t) \in Int
  BY DEF Less
<1>2. ASSUME NEW l \in Lease PROVE Older(l) \in Lease
  BY <1>1 DEF Older, Lease
<1> QED
  BY <1>1, <1>2

(* Running a statement in the database preserves TypeOK. *)
LEMMA ExecuteTypes ==
  ASSUME TypeOK, NEW i \in Instance, NEW c \in Connection,
         NEW s \in waiting[i], Execute(i, c, s)
  PROVE  TypeOK'
<1> USE DEF TypeOK
<1>1. s \in Statement
  OBVIOUS
<1>2. waiting' \in [Instance -> SUBSET Statement]
  BY DEF Execute
<1>3. row' \in Row /\ granted' \in Seq(Instance)
      /\ connection' \in [Instance -> [Connection -> Answer]]
  <2>1. CASE acquireLease(i, c, s)
    <3>1. AcquireRow(i) \in Row
      BY DEF AcquireRow, Row
    <3>2. Snapshot(AcquireRow(i)) \in Lease
      BY <3>1, SnapshotTypes
    <3>3. Reply(i, c, s, "row", Snapshot(AcquireRow(i)))
      BY <2>1 DEF acquireLease
    <3> QED
      BY <2>1, <3>1, <3>2, <3>3, <1>1, ReplyTypes DEF acquireLease
  <2>2. CASE renewLease(i, c, s)
    <3> DEFINE new == [row EXCEPT !.left = Ttl]
    <3>1. new \in Row
      BY RowUpdateTypes
    <3>2. row' = new /\ granted' = granted /\ Reply(i, c, s, "row", Snapshot(new))
      BY <2>2 DEF renewLease
    <3> QED
      BY <3>1, <3>2, <1>1, SnapshotTypes, ReplyTypes
  <2>3. CASE releaseLease(i, c, s)
    <3> DEFINE new == [owner |-> None, generation |-> row.generation, left |-> 0]
    <3>1. new \in Row
      BY RowUpdateTypes
    <3>2. row' = new /\ granted' = granted /\ Reply(i, c, s, "row", Snapshot(new))
      BY <2>3 DEF releaseLease
    <3> QED
      BY <3>1, <3>2, <1>1, SnapshotTypes, ReplyTypes
  <2>4. CASE NothingUpdated(i, c, s)
    BY <2>4, <1>1, LeaseTypes, ReplyTypes DEF NothingUpdated
  <2> QED
    BY <2>1, <2>2, <2>3, <2>4 DEF Execute
<1> QED
  BY <1>2, <1>3 DEF Execute

(* Every step preserves TypeOK. *)
LEMMA TypeStep == TypeOK /\ [Next]_vars => TypeOK'
<1> SUFFICES ASSUME TypeOK, [Next]_vars PROVE TypeOK'
  OBVIOUS
<1> USE DEF TypeOK
<1>1. ASSUME NEW i \in Instance, Start(i) PROVE TypeOK'
  BY <1>1 DEF Start
<1>2. ASSUME NEW i \in Instance, Crash(i) PROVE TypeOK'
  BY <1>2, LeaseTypes DEF Crash
<1>3. ASSUME NEW i \in Instance, NEW op \in Operation, Issue(i, op) PROVE TypeOK'
  BY <1>3 DEF Issue, Statement, Lease
<1>4. ASSUME NEW i \in Instance, getActiveHeldLease(i) PROVE TypeOK'
  BY <1>4, LeaseTypes DEF getActiveHeldLease
<1>5. ASSUME NEW i \in Instance, NEW c \in Connection, Resume(i, c) PROVE TypeOK'
  <2>1. connection[i][c].lease \in Lease
    BY DEF Answer
  <2> QED
    BY <1>5, <2>1, LeaseTypes DEF Resume
<1>6. ASSUME Tick PROVE TypeOK'
  <2>1. row' \in Row
    BY <1>6, AgeTypes DEF Tick, Row
  <2>2. held' \in [Instance -> Lease]
    BY <1>6, AgeTypes DEF Tick
  <2>3. ASSUME NEW i \in Instance, NEW c \in Connection
        PROVE [connection[i][c] EXCEPT !.lease = Older(@)] \in Answer
    <3>1. connection[i][c] \in Answer
      OBVIOUS
    <3> QED
      BY <3>1, AgeTypes DEF Answer
  <2> QED
    BY <1>6, <2>1, <2>2, <2>3 DEF Tick
<1>7. CASE UNCHANGED vars
  BY <1>7 DEF vars
<1> QED
  BY <1>1, <1>2, <1>3, <1>4, <1>5, <1>6, <1>7, ExecuteTypes
  DEF Next, CallAcquire, CallRenew, CallRelease, Operation

(***************************************************************************)
(* The type invariant holds whatever the pool and the clocks.              *)
(***************************************************************************)
THEOREM TypeCorrect == Spec => []TypeOK
<1>1. Init => TypeOK
  BY LeaseTypes DEF Init, TypeOK
<1> QED
  BY <1>1, TypeStep, PTL DEF Spec

-----------------------------------------------------------------------------
(* Fencing.                                                                *)

\* In history h, generation g was granted to instance i.
GrantedIn(h, i, g) == g \in 1..Len(h) /\ h[g] = i

\* An answer that will be tracked when its call resumes.
Granting(answer) ==
  answer.op \in {"acquire", "renew"} /\ answer.outcome = "row"

(***************************************************************************)
(* The history of grants has one entry per generation, the row's owner is  *)
(* its newest entry, and whatever an instance holds, or is about to hold,  *)
(* was granted to it.                                                      *)
(***************************************************************************)
FencingInv ==
  /\ row.generation = Len(granted)
  /\ row.owner # None => GrantedIn(granted, row.owner, row.generation)
  /\ \A i \in Instance : Tracked(i) => GrantedIn(granted, i, held[i].generation)
  /\ \A i \in Instance, c \in Connection :
       Granting(connection[i][c]) =>
         GrantedIn(granted, i, connection[i][c].lease.generation)

\* Nothing granted is ever forgotten.
LEMMA HistoryGrows ==
  ASSUME NEW h \in Seq(Instance), NEW i \in Instance
  PROVE  /\ Append(h, i) \in Seq(Instance)
         /\ GrantedIn(Append(h, i), i, Len(h) + 1)
         /\ Len(Append(h, i)) = Len(h) + 1
         /\ \A j, g : GrantedIn(h, j, g) => GrantedIn(Append(h, i), j, g)
<1>1. /\ Append(h, i) \in Seq(Instance)
      /\ Len(Append(h, i)) = Len(h) + 1
      /\ Append(h, i)[Len(h) + 1] = i
      /\ \A g \in 1..Len(h) : Append(h, i)[g] = h[g]
      /\ Len(h) \in Nat
  OBVIOUS
<1> QED
  BY <1>1 DEF GrantedIn

\* The answer of a statement is granted if the lease it carries is.
LEMMA FencedReply ==
  ASSUME TypeOK, FencingInv, NEW i \in Instance, NEW c \in Connection,
         NEW s \in Statement, NEW outcome \in {"row", "noRow", "error"},
         NEW lease \in Lease, Reply(i, c, s, outcome, lease),
         \A j, g : GrantedIn(granted, j, g) => GrantedIn(granted', j, g),
         s.op \in {"acquire", "renew"} /\ outcome = "row" =>
           GrantedIn(granted', i, lease.generation)
  PROVE  \A j \in Instance, d \in Connection :
           Granting(connection'[j][d]) =>
             GrantedIn(granted', j, connection'[j][d].lease.generation)
<1>1. PICK a \in {[op |-> s.op, outcome |-> outcome, lease |-> lease],
                  [op |-> s.op, outcome |-> "error", lease |-> NotHeld]} :
            connection' = [connection EXCEPT ![i][c] = a]
  BY DEF Reply
<1>2. Granting(a) => GrantedIn(granted', i, a.lease.generation)
  BY DEF Granting
<1> SUFFICES ASSUME NEW j \in Instance, NEW d \in Connection,
                    Granting(connection'[j][d])
             PROVE  GrantedIn(granted', j, connection'[j][d].lease.generation)
  OBVIOUS
<1>3. CASE j = i /\ d = c
  <2>1. connection'[j][d] = a
    BY <1>1, <1>3 DEF TypeOK
  <2> QED
    BY <1>2, <1>3, <2>1
<1>4. CASE ~(j = i /\ d = c)
  <2>1. connection'[j][d] = connection[j][d]
    BY <1>1, <1>4 DEF TypeOK
  <2>2. GrantedIn(granted, j, connection[j][d].lease.generation)
    BY <2>1 DEF FencingInv
  <2> QED
    BY <2>1, <2>2
<1> QED
  BY <1>3, <1>4

(* Running a statement preserves the fencing invariant. *)
LEMMA FencingExecute ==
  ASSUME TypeOK, TypeOK', FencingInv, NEW i \in Instance, NEW c \in Connection,
         NEW s \in waiting[i], Execute(i, c, s)
  PROVE  FencingInv'
<1>1. s \in Statement /\ held' = held
  BY DEF Execute, TypeOK
\* It is enough that nothing granted is forgotten and that the row and the
\* answer are granted.
<1>2. ASSUME \A j, g : GrantedIn(granted, j, g) => GrantedIn(granted', j, g),
             row'.generation = Len(granted'),
             row'.owner # None => GrantedIn(granted', row'.owner, row'.generation),
             NEW outcome \in {"row", "noRow", "error"}, NEW lease \in Lease,
             Reply(i, c, s, outcome, lease),
             s.op \in {"acquire", "renew"} /\ outcome = "row" =>
               GrantedIn(granted', i, lease.generation)
      PROVE  FencingInv'
  <2>1. \A j \in Instance, d \in Connection :
          Granting(connection'[j][d]) =>
            GrantedIn(granted', j, connection'[j][d].lease.generation)
    BY <1>1, <1>2, FencedReply
  <2>2. \A j \in Instance :
          Tracked(j)' => GrantedIn(granted', j, held'[j].generation)
    BY <1>1, <1>2 DEF FencingInv, Tracked
  <2> QED
    BY <1>2, <2>1, <2>2 DEF FencingInv, Granting
<1>3. CASE acquireLease(i, c, s)
  <2> DEFINE new == AcquireRow(i)
  <2>1. /\ row' = new
        /\ granted' = IF row.owner = i THEN granted ELSE Append(granted, i)
        /\ Reply(i, c, s, "row", Snapshot(new))
    BY <1>3 DEF acquireLease
  <2>2. /\ \A j, g : GrantedIn(granted, j, g) => GrantedIn(granted', j, g)
        /\ new.generation = Len(granted')
        /\ new.owner = i
        /\ GrantedIn(granted', i, new.generation)
    <3>1. CASE row.owner = i
      <4>1. granted' = granted /\ new.generation = row.generation /\ new.owner = i
        BY <2>1, <3>1 DEF AcquireRow
      <4> QED
        BY <3>1, <4>1 DEF FencingInv
    <3>2. CASE row.owner # i
      <4>1. /\ granted' = Append(granted, i)
            /\ new.generation = Len(granted) + 1
            /\ new.owner = i
        BY <2>1, <3>2 DEF AcquireRow, FencingInv
      <4> QED
        BY <4>1, HistoryGrows DEF TypeOK
    <3> QED
      BY <3>1, <3>2
  <2>3. Snapshot(new) \in Lease /\ Snapshot(new).generation = new.generation
    BY <2>1, SnapshotTypes DEF Snapshot, TypeOK
  <2> QED
    BY <1>2, <2>1, <2>2, <2>3
<1>4. CASE renewLease(i, c, s)
  <2> DEFINE new == [row EXCEPT !.left = Ttl]
  <2>1. /\ row' = new /\ granted' = granted
        /\ Reply(i, c, s, "row", Snapshot(new))
        /\ row.owner = i
    BY <1>4 DEF renewLease, OwnedAt
  <2>2. Snapshot(new) \in Lease
    BY RowUpdateTypes, SnapshotTypes DEF TypeOK
  <2>3. /\ new.generation = row.generation
        /\ new.owner = row.owner
        /\ Snapshot(new).generation = row.generation
    BY DEF TypeOK, Row, Snapshot
  <2>4. GrantedIn(granted, i, row.generation) /\ row.generation = Len(granted)
    BY <2>1 DEF FencingInv
  <2>5. GrantedIn(granted', i, Snapshot(new).generation)
    BY <2>1, <2>3, <2>4
  <2>6. /\ row'.generation = Len(granted')
        /\ GrantedIn(granted', row'.owner, row'.generation)
    BY <2>1, <2>3, <2>4
  <2> HIDE DEF new
  <2> QED
    BY <1>2, <2>1, <2>2, <2>5, <2>6
<1>5. CASE releaseLease(i, c, s)
  <2> DEFINE new == [owner |-> None, generation |-> row.generation, left |-> 0]
  <2>1. /\ row' = new /\ granted' = granted
        /\ Reply(i, c, s, "row", Snapshot(new))
        /\ s.op = "release"
    BY <1>5 DEF releaseLease
  <2>2. Snapshot(new) \in Lease
    BY RowUpdateTypes, SnapshotTypes DEF TypeOK
  <2> QED
    BY <1>2, <2>1, <2>2 DEF FencingInv
<1>6. CASE NothingUpdated(i, c, s)
  <2>1. row' = row /\ granted' = granted
    BY <1>6 DEF NothingUpdated
  <2>2. PICK outcome \in {"noRow", "error"} : Reply(i, c, s, outcome, NotHeld)
    BY <1>6 DEF NothingUpdated
  <2> QED
    BY <1>2, <2>1, <2>2, LeaseTypes DEF FencingInv
<1> QED
  BY <1>3, <1>4, <1>5, <1>6 DEF Execute

(* The passage of time preserves the fencing invariant. *)
LEMMA FencingTick ==
  ASSUME TypeOK, FencingInv, Tick
  PROVE  FencingInv'
<1> USE DEF TypeOK
<1>1. row'.generation = row.generation /\ row'.owner = row.owner /\ granted' = granted
  BY DEF Tick, Row
<1>2. \A l \in Lease : Older(l).generation = l.generation
  BY DEF Older, Lease
<1>3. \A j \in Instance : held'[j].generation = held[j].generation
  BY <1>2 DEF Tick
<1>4. ASSUME NEW j \in Instance, NEW d \in Connection
      PROVE  /\ connection'[j][d].lease.generation = connection[j][d].lease.generation
             /\ connection'[j][d].op = connection[j][d].op
             /\ connection'[j][d].outcome = connection[j][d].outcome
  <2>1. connection[j][d] \in Answer
    OBVIOUS
  <2>2. connection'[j][d] = [connection[j][d] EXCEPT !.lease = Older(@)]
    BY DEF Tick
  <2> QED
    BY <1>2, <2>1, <2>2, AnswerTypes DEF Answer
<1> HIDE DEF TypeOK
<1>5. \A j \in Instance : Tracked(j)' => GrantedIn(granted', j, held'[j].generation)
  BY <1>1, <1>3 DEF FencingInv, Tracked
<1>6. \A j \in Instance, d \in Connection :
        Granting(connection'[j][d]) =>
          GrantedIn(granted', j, connection'[j][d].lease.generation)
  BY <1>1, <1>4 DEF FencingInv, Granting
<1> QED
  BY <1>1, <1>5, <1>6 DEF FencingInv, Granting

(* Every step preserves the fencing invariant. *)
LEMMA FencingStep == TypeOK /\ TypeOK' /\ FencingInv /\ [Next]_vars => FencingInv'
<1> SUFFICES ASSUME TypeOK, TypeOK', FencingInv, [Next]_vars PROVE FencingInv'
  OBVIOUS
<1> USE DEF TypeOK
<1>1. ASSUME NEW i \in Instance, Start(i) PROVE FencingInv'
  BY <1>1 DEF Start, FencingInv, GrantedIn, Tracked, Granting
<1>2. ASSUME NEW i \in Instance, Crash(i) PROVE FencingInv'
  <2>1. \A j \in Instance : held'[j] = IF j = i THEN NotHeld ELSE held[j]
    BY <1>2 DEF Crash
  <2> QED
    BY <1>2, <2>1 DEF Crash, FencingInv, GrantedIn, Tracked, Granting, NotHeld
<1>3. ASSUME NEW i \in Instance, NEW op \in Operation, Issue(i, op) PROVE FencingInv'
  BY <1>3 DEF Issue, FencingInv, GrantedIn, Tracked, Granting
<1>4. ASSUME NEW i \in Instance, getActiveHeldLease(i) PROVE FencingInv'
  <2>1. \A j \in Instance : held'[j] = IF j = i THEN NotHeld ELSE held[j]
    BY <1>4 DEF getActiveHeldLease
  <2> QED
    BY <1>4, <2>1
    DEF getActiveHeldLease, FencingInv, GrantedIn, Tracked, Granting, NotHeld
<1>5. ASSUME NEW i \in Instance, NEW c \in Connection, Resume(i, c) PROVE FencingInv'
  <2>1. row' = row /\ granted' = granted
    BY <1>5 DEF Resume
  <2>2. \A j \in Instance, d \in Connection :
          Granting(connection[j][d])' => connection'[j][d] = connection[j][d]
    BY <1>5 DEF Resume, Granting, Idle
  <2>3. ASSUME NEW j \in Instance, Tracked(j)'
        PROVE  GrantedIn(granted, j, held'[j].generation)
    <3>1. CASE held'[j] = held[j]
      BY <2>3, <3>1 DEF FencingInv, Tracked
    <3>2. CASE j = i /\ Granting(connection[i][c]) /\ held'[i] = connection[i][c].lease
      BY <3>2 DEF FencingInv
    <3>3. CASE held'[j] = NotHeld
      BY <2>3, <3>3 DEF Tracked, NotHeld
    <3> QED
      BY <1>5, <3>1, <3>2, <3>3 DEF Resume, Granting
  <2> QED
    BY <2>1, <2>2, <2>3 DEF FencingInv, GrantedIn, Granting
<1>6. CASE UNCHANGED vars
  BY <1>6 DEF vars, FencingInv, GrantedIn, Tracked, Granting
<1> QED
  BY <1>1, <1>2, <1>3, <1>4, <1>5, <1>6, FencingExecute, FencingTick
  DEF Next, CallAcquire, CallRenew, CallRelease, Operation

(* The fencing invariant holds of every behaviour. *)
LEMMA FencingCorrect == Spec => []FencingInv
<1>1. Init => FencingInv
  BY DEF Init, FencingInv, NoRow, NotHeld, Idle, Tracked, Granting
<1> QED
  BY <1>1, TypeCorrect, FencingStep, PTL DEF Spec

(***************************************************************************)
(* No two instances hold the same fencing token, whatever the size of the  *)
(* pool, the delays of answers, the crashes and the clocks.                *)
(***************************************************************************)
THEOREM TokensAreUnique == Spec => []UniqueTokens
<1>1. FencingInv => UniqueTokens
  BY DEF FencingInv, UniqueTokens, GrantedIn
<1> QED
  BY <1>1, FencingCorrect, PTL

-----------------------------------------------------------------------------
(* Leadership, when the statements of a process are answered in order.     *)

\* The default pool: at most one statement of a process is under way.
PoolOfOne == \A c, d \in Connection : c = d

\* The row grants everything the lease says.
Covered(i, lease) == OwnedAt(i, lease.generation) /\ lease.left <= row.left

(***************************************************************************)
(* The local records and the answers under way never claim more than the   *)
(* row grants.  An answer is covered until it is resumed because no other  *)
(* statement of its process can execute before, and no other instance can  *)
(* claim a row that has time left.                                         *)
(***************************************************************************)
GroundInv ==
  /\ row.left <= Ttl
  /\ BeliefIsGrounded
  /\ \A i \in Instance, c \in Connection :
       Granting(connection[i][c]) /\ connection[i][c].lease.left > 0 =>
         Covered(i, connection[i][c].lease)

\* An instance with a covered lease that has time left excludes all others.
LEMMA CoveredExcludes ==
  ASSUME NEW i \in Instance, NEW j \in Instance, i # j,
         TypeOK, NEW lease \in Lease, lease.left > 0, Covered(j, lease)
  PROVE  ~Claimable(i) /\ row.owner # i
BY DEF Covered, OwnedAt, Claimable, TypeOK, Row, Lease

(* Running a statement preserves the grounding of beliefs. *)
LEMMA GroundExecute ==
  ASSUME PoolOfOne, TypeOK, TypeOK', GroundInv,
         NEW i \in Instance, NEW c \in Connection,
         NEW s \in waiting[i], Execute(i, c, s)
  PROVE  GroundInv'
<1>1. s \in Statement /\ held' = held /\ connection[i][c] = Idle
  BY DEF Execute, TypeOK
<1>2. /\ ~Releasing(i)
      /\ \A d \in Connection : d = c /\ ~Granting(connection[i][d])
  BY <1>1 DEF PoolOfOne, Releasing, Granting, Idle
<1>3. /\ \A j \in Instance : held[j] \in Lease
      /\ \A j \in Instance, d \in Connection : connection[j][d].lease \in Lease
  BY AnswerTypes DEF TypeOK
\* What is left to show once the statement is known to keep the others'
\* leases covered: its own record and its own answer.
<1>4. ASSUME row'.left <= Ttl,
             \A j \in Instance \ {i}, l \in Lease :
               l.left > 0 /\ Covered(j, l) => Covered(j, l)',
             s.op = "release" \/ (Leads(i) => Covered(i, held[i])'),
             NEW outcome \in {"row", "noRow", "error"}, NEW lease \in Lease,
             Reply(i, c, s, outcome, lease),
             s.op \in {"acquire", "renew"} /\ outcome = "row" => Covered(i, lease)'
      PROVE  GroundInv'
  <2>1. PICK a \in {[op |-> s.op, outcome |-> outcome, lease |-> lease],
                    [op |-> s.op, outcome |-> "error", lease |-> NotHeld]} :
              connection' = [connection EXCEPT ![i][c] = a]
    BY <1>4 DEF Reply
  <2>2. connection'[i][c] = a
    BY <2>1 DEF TypeOK
  <2>3. \A j \in Instance, d \in Connection :
          j # i => connection'[j][d] = connection[j][d]
    BY <2>1 DEF TypeOK
  <2>4. ASSUME NEW j \in Instance, NEW d \in Connection,
               Granting(connection'[j][d]), connection'[j][d].lease.left > 0
        PROVE  Covered(j, connection[j][d].lease)'
    <3>1. CASE j = i
      <4>1. connection'[j][d] = a
        BY <1>2, <2>2, <3>1
      <4> QED
        BY <1>4, <2>4, <3>1, <4>1 DEF Granting, Covered
    <3>2. CASE j # i
      <4>1. connection'[j][d] = connection[j][d]
        BY <2>3, <3>2
      <4>2. Covered(j, connection[j][d].lease)
        BY <2>4, <4>1 DEF GroundInv
      <4> QED
        BY <1>3, <1>4, <2>4, <3>2, <4>1, <4>2 DEF Covered
    <3> QED
      BY <3>1, <3>2
  <2>5. ASSUME NEW j \in Instance, Leads(j)' PROVE Covered(j, held[j])'
    <3>1. CASE j = i
      <4>1. s.op # "release"
        BY <2>2, <2>5, <3>1 DEF Leads, Releasing
      <4>2. Leads(i)
        BY <1>1, <1>2, <2>5, <3>1 DEF Leads, Tracked
      <4> QED
        BY <1>4, <3>1, <4>1, <4>2
    <3>2. CASE j # i
      <4>1. Leads(j)
        BY <1>1, <2>3, <2>5, <3>2 DEF Leads, Tracked, Releasing
      <4>2. held[j].left > 0 /\ Covered(j, held[j])
        BY <4>1 DEF GroundInv, BeliefIsGrounded, Covered, Leads
      <4> QED
        BY <1>1, <1>3, <1>4, <3>2, <4>2 DEF Covered
    <3> QED
      BY <3>1, <3>2
  <2> QED
    BY <1>4, <2>4, <2>5 DEF GroundInv, BeliefIsGrounded, Covered, Granting
\* A statement that wins the row for i finds no other covered lease.
<1>5. ASSUME Claimable(i) \/ row.owner = i
      PROVE  \A j \in Instance \ {i}, l \in Lease :
               l.left > 0 /\ Covered(j, l) => Covered(j, l)'
  BY <1>5, CoveredExcludes
<1>6. Leads(i) => /\ row.owner = i
                  /\ row.generation = held[i].generation
                  /\ held[i].left <= Ttl
  BY <1>3 DEF GroundInv, BeliefIsGrounded, OwnedAt, TypeOK, Row, Lease
<1>7. CASE acquireLease(i, c, s)
  <2> DEFINE new == AcquireRow(i)
  <2>1. row' = new /\ Claimable(i) /\ Reply(i, c, s, "row", Snapshot(new))
    BY <1>7 DEF acquireLease
  <2>2. /\ new.left = Ttl
        /\ new.owner = i
        /\ row.owner = i => new.generation = row.generation
    BY DEF AcquireRow
  <2>3. PICK lease \in Lease :
          lease = Snapshot(new) /\ lease.generation = new.generation /\ lease.left = Ttl
    BY <2>1, <2>2, SnapshotTypes DEF Snapshot, TypeOK
  <2> HIDE DEF new
  <2>4. Covered(i, lease)'
    BY <2>1, <2>2, <2>3 DEF Covered, OwnedAt
  <2>5. Leads(i) => Covered(i, held[i])'
    BY <1>1, <1>6, <2>1, <2>2 DEF Covered, OwnedAt
  <2> QED
    BY <1>4, <1>5, <2>1, <2>2, <2>3, <2>4, <2>5
<1>8. CASE renewLease(i, c, s)
  <2> DEFINE new == [row EXCEPT !.left = Ttl]
  <2>1. row' = new /\ row.owner = i /\ Reply(i, c, s, "row", Snapshot(new))
    BY <1>8 DEF renewLease, OwnedAt
  <2>2. new.left = Ttl /\ new.owner = row.owner /\ new.generation = row.generation
    BY DEF TypeOK, Row
  <2>3. PICK lease \in Lease :
          lease = Snapshot(new) /\ lease.generation = new.generation /\ lease.left = Ttl
    <3>1. Snapshot(new) \in Lease
      BY RowUpdateTypes, SnapshotTypes DEF TypeOK
    <3>2. Snapshot(new).generation = new.generation /\ Snapshot(new).left = new.left
      BY DEF Snapshot
    <3> QED
      BY <2>2, <3>1, <3>2
  <2> HIDE DEF new
  <2>4. Covered(i, lease)'
    BY <2>1, <2>2, <2>3 DEF Covered, OwnedAt
  <2>5. Leads(i) => Covered(i, held[i])'
    BY <1>1, <1>6, <2>1, <2>2 DEF Covered, OwnedAt
  <2> QED
    BY <1>4, <1>5, <2>1, <2>2, <2>3, <2>4, <2>5
<1>9. CASE releaseLease(i, c, s)
  <2> DEFINE new == [owner |-> None, generation |-> row.generation, left |-> 0]
  <2>1. /\ row' = new /\ row.owner = i /\ s.op = "release"
        /\ Reply(i, c, s, "row", Snapshot(new))
    BY <1>9 DEF releaseLease, OwnedAt
  <2>2. Snapshot(new) \in Lease
    BY RowUpdateTypes, SnapshotTypes DEF TypeOK
  <2>3. row'.left <= Ttl
    BY <2>1
  <2> QED
    BY <1>4, <1>5, <2>1, <2>2, <2>3
<1>10. CASE NothingUpdated(i, c, s)
  <2>1. row' = row
    BY <1>10 DEF NothingUpdated
  <2>2. PICK outcome \in {"noRow", "error"} : Reply(i, c, s, outcome, NotHeld)
    BY <1>10 DEF NothingUpdated
  <2>3. \A j \in Instance, l \in Lease : Covered(j, l) <=> Covered(j, l)'
    BY <2>1 DEF Covered, OwnedAt
  <2>4. Leads(i) => Covered(i, held[i])'
    BY <1>1, <2>1 DEF GroundInv, BeliefIsGrounded, Covered, OwnedAt
  <2> QED
    BY <1>4, <2>1, <2>2, <2>3, <2>4, LeaseTypes DEF GroundInv
<1> QED
  BY <1>7, <1>8, <1>9, <1>10 DEF Execute

(* Applying an answer to the held lease preserves the grounding. *)
LEMMA GroundResume ==
  ASSUME PoolOfOne, TypeOK, GroundInv,
         NEW i \in Instance, NEW c \in Connection, Resume(i, c)
  PROVE  GroundInv'
<1>1. /\ row' = row
      /\ \A d \in Connection : d = c
      /\ \A j \in Instance : j # i => held'[j] = held[j]
      /\ \A j \in Instance, d \in Connection :
           j # i => connection'[j][d] = connection[j][d]
      /\ connection'[i][c] = Idle
  BY DEF Resume, TypeOK, PoolOfOne
<1>2. ASSUME NEW j \in Instance, NEW d \in Connection,
             Granting(connection'[j][d]), connection'[j][d].lease.left > 0
      PROVE  Covered(j, connection[j][d].lease)'
  <2>1. j # i
    BY <1>1, <1>2 DEF Granting, Idle
  <2> QED
    BY <1>1, <1>2, <2>1 DEF GroundInv, Covered, OwnedAt
<1>3. ASSUME NEW j \in Instance, Leads(j)' PROVE Covered(j, held[j])'
  <2>1. CASE j # i
    <3>1. Leads(j)
      BY <1>1, <1>3, <2>1 DEF Leads, Tracked, Releasing
    <3> QED
      BY <1>1, <2>1, <3>1 DEF GroundInv, BeliefIsGrounded, Covered, OwnedAt
  <2>2. CASE j = i /\ Granting(connection[i][c]) /\ held'[i] = connection[i][c].lease
    BY <1>1, <1>3, <2>2 DEF GroundInv, Leads, Covered, OwnedAt
  <2>3. CASE j = i /\ held'[i] = NotHeld
    BY <1>3, <2>3 DEF Leads, Tracked, NotHeld
  <2>4. CASE j = i /\ held'[i] = held[i] /\ connection[i][c].op \in {"acquire", "renew"}
    <3>1. Leads(i)
      BY <1>1, <1>3, <2>4 DEF Leads, Tracked, Releasing
    <3> QED
      BY <1>1, <2>4, <3>1 DEF GroundInv, BeliefIsGrounded, Covered, OwnedAt
  <2>5. \/ Granting(connection[i][c]) /\ held'[i] = connection[i][c].lease
        \/ held'[i] = NotHeld
        \/ held'[i] = held[i] /\ connection[i][c].op \in {"acquire", "renew"}
    BY DEF Resume, Granting, TypeOK
  <2> QED
    BY <2>1, <2>2, <2>3, <2>4, <2>5
<1> QED
  BY <1>1, <1>2, <1>3 DEF GroundInv, BeliefIsGrounded, Covered, Granting

\* Time that passes does not uncover a lease that still has time left.
LEMMA GroundTick ==
  ASSUME TypeOK, GroundInv, Tick
  PROVE  GroundInv'
<1>1. /\ row'.owner = row.owner
      /\ row'.generation = row.generation
      /\ row'.left = Less(row.left)
      /\ row.left \in Int
  BY DEF Tick, TypeOK, Row
<1>2. \A l \in Lease : /\ Older(l).generation = l.generation
                       /\ Older(l).left > 0 => Older(l).left = Less(l.left)
  BY DEF Older, Lease
<1>3. \A l \in Lease : l.left \in Int
  BY DEF Lease
<1>4. ASSUME NEW j \in Instance, NEW l \in Lease, Older(l).left > 0
      PROVE  /\ l.left > 0
             /\ Covered(j, l) => Covered(j, Older(l))'
  <2> DEFINE o == Older(l)
  <2>1. o.generation = l.generation /\ o.left = Less(l.left)
    BY <1>2, <1>4
  <2>2. l.left > 0
    BY <1>3, <1>4, <2>1 DEF Less
  <2>3. l.left <= row.left => o.left <= row'.left
    BY <1>1, <1>3, <2>1, <2>2 DEF Less
  <2> QED
    BY <1>1, <2>1, <2>2, <2>3 DEF Covered, OwnedAt
<1>5. ASSUME NEW j \in Instance, NEW d \in Connection
      PROVE  /\ connection'[j][d].lease = Older(connection[j][d].lease)
             /\ connection'[j][d].op = connection[j][d].op
             /\ connection'[j][d].outcome = connection[j][d].outcome
             /\ connection[j][d].lease \in Lease
  <2>1. connection[j][d] \in Answer
    BY DEF TypeOK
  <2>2. connection'[j][d] = [connection[j][d] EXCEPT !.lease = Older(@)]
    BY DEF Tick
  <2> QED
    BY <2>1, <2>2, AnswerTypes DEF Answer
<1>6. ASSUME NEW j \in Instance
      PROVE  held'[j] = Older(held[j]) /\ held[j] \in Lease
  BY DEF Tick, TypeOK
<1>7. ASSUME NEW j \in Instance, NEW d \in Connection,
             Granting(connection'[j][d]), connection'[j][d].lease.left > 0
      PROVE  Covered(j, connection[j][d].lease)'
  <2>1. Granting(connection[j][d])
    BY <1>5, <1>7 DEF Granting
  <2> QED
    BY <1>4, <1>5, <1>7, <2>1 DEF GroundInv, Covered
<1>8. ASSUME NEW j \in Instance, Leads(j)' PROVE Covered(j, held[j])'
  <2>1. Older(held[j]).left > 0 /\ held[j].left > 0
    BY <1>4, <1>6, <1>8 DEF Leads
  <2>2. Leads(j)
    BY <1>2, <1>5, <1>6, <1>8, <2>1 DEF Leads, Tracked, Releasing
  <2> QED
    BY <1>4, <1>6, <2>1, <2>2 DEF GroundInv, BeliefIsGrounded, Covered
<1>9. row'.left <= Ttl
  BY <1>1 DEF GroundInv, Less
<1> QED
  BY <1>7, <1>8, <1>9 DEF GroundInv, BeliefIsGrounded, Covered, Granting

(* Every step preserves the grounding of beliefs. *)
LEMMA GroundStep ==
  ASSUME PoolOfOne
  PROVE  TypeOK /\ TypeOK' /\ GroundInv /\ [Next]_vars => GroundInv'
<1> SUFFICES ASSUME TypeOK, TypeOK', GroundInv, [Next]_vars PROVE GroundInv'
  OBVIOUS
\* A step that at most forgets local records.
<1>1. ASSUME UNCHANGED <<row, connection>>,
             \A i \in Instance : held'[i] = held[i] \/ held'[i] = NotHeld
      PROVE  GroundInv'
  <2>1. ASSUME NEW i \in Instance, Leads(i)' PROVE held'[i] = held[i] /\ Leads(i)
    BY <1>1, <2>1 DEF Leads, Tracked, Releasing, NotHeld
  <2> QED
    BY <1>1, <2>1 DEF GroundInv, BeliefIsGrounded, Covered, OwnedAt, Granting
<1>2. ASSUME NEW i \in Instance, Start(i) PROVE GroundInv'
  BY <1>1, <1>2 DEF Start
<1>3. ASSUME NEW i \in Instance, Crash(i) PROVE GroundInv'
  BY <1>1, <1>3 DEF Crash, TypeOK
<1>4. ASSUME NEW i \in Instance, NEW op \in Operation, Issue(i, op) PROVE GroundInv'
  BY <1>1, <1>4 DEF Issue
<1>5. ASSUME NEW i \in Instance, getActiveHeldLease(i) PROVE GroundInv'
  BY <1>1, <1>5 DEF getActiveHeldLease, TypeOK
<1>6. CASE UNCHANGED vars
  BY <1>1, <1>6 DEF vars
<1> QED
  BY <1>2, <1>3, <1>4, <1>5, <1>6, GroundExecute, GroundResume, GroundTick
  DEF Next, CallAcquire, CallRenew, CallRelease, Operation

(* Beliefs are grounded in every behaviour without lag. *)
LEMMA GroundCorrect ==
  ASSUME PoolOfOne
  PROVE  Spec => []GroundInv
<1>1. Init => GroundInv
  BY DEF Init, GroundInv, BeliefIsGrounded, Leads, Tracked, NoRow, NotHeld, Idle, Granting
<1> QED
  BY <1>1, TypeCorrect, GroundStep, PTL DEF Spec

(***************************************************************************)
(* With the default pool, what an instance believes about its leadership   *)
(* is backed by the row, through crashes, lost answers and expiry.         *)
(***************************************************************************)
THEOREM BeliefsAreGrounded ==
  ASSUME PoolOfOne
  PROVE  Spec => []BeliefIsGrounded
<1>1. GroundInv => BeliefIsGrounded
  BY DEF GroundInv
<1> QED
  BY <1>1, GroundCorrect, PTL

(* At most one instance leads in a state that is grounded. *)
LEMMA OneLeads ==
  ASSUME BeliefIsGrounded, NEW i \in Instance, NEW j \in Instance,
         Leads(i), Leads(j)
  PROVE  i = j
BY DEF BeliefIsGrounded, OwnedAt

(***************************************************************************)
(* With the default pool, two instances call themselves leader only while  *)
(* one of them is releasing or has overrun its lease on a lagging clock.   *)
(***************************************************************************)
THEOREM LeaderIsSingle ==
  ASSUME PoolOfOne
  PROVE  Spec => []SingleLeader
<1>1. TypeOK /\ BeliefIsGrounded => SingleLeader
  <2> SUFFICES ASSUME TypeOK, BeliefIsGrounded,
                      NEW i \in Instance, NEW j \in Instance, i # j,
                      IsLeader(i), IsLeader(j),
                      ~Releasing(i), ~Releasing(j),
                      ~(held[i].left <= 0), ~(held[j].left <= 0)
               PROVE  FALSE
    BY DEF SingleLeader
  <2>1. held[i].left \in Int /\ held[j].left \in Int
    BY DEF TypeOK, Lease
  <2>2. Leads(i) /\ Leads(j)
    BY <2>1 DEF Leads, IsLeader
  <2> QED
    BY <2>2, OneLeads
<1> QED
  BY <1>1, TypeCorrect, BeliefsAreGrounded, PTL

-----------------------------------------------------------------------------
(* Refinement: the lease implements epochs of leadership.                  *)

LeaderLeads ==
  /\ \A i \in Instance : Leads(i) <=> Leader = i
  /\ Leader \in Instance \cup {None}

(* The leader of the refinement mapping is the one that leads. *)
LEMMA LeaderIsWhoLeads == BeliefIsGrounded => LeaderLeads
<1> SUFFICES ASSUME BeliefIsGrounded PROVE LeaderLeads
  OBVIOUS
<1> USE DEF LeaderLeads
<1>1. CASE \E i \in Instance : Leads(i)
  <2>1. Leader \in Instance /\ Leads(Leader)
    BY <1>1 DEF Leader
  <2> QED
    BY <2>1, OneLeads
<1>2. CASE ~ \E i \in Instance : Leads(i)
  BY <1>2 DEF Leader
<1> QED
  BY <1>1, <1>2

(* The same, of the next state. *)
LEMMA LeaderIsWhoLeadsNext == BeliefIsGrounded' => LeaderLeads'
BY LeaderIsWhoLeads, PTL

\* A new epoch: nobody leads before the statement that opens it, nor after.
LEMMA EpochStep ==
  ASSUME PoolOfOne, TypeOK, GroundInv, GroundInv',
         NEW i \in Instance, NEW c \in Connection, NEW s \in waiting[i],
         Execute(i, c, s), granted' # granted
  PROVE  granted' = Append(granted, i) /\ Leader = None /\ Leader' = None
<1>1. acquireLease(i, c, s) /\ row.owner # i
  BY DEF Execute, acquireLease, renewLease, releaseLease, NothingUpdated
<1>2. granted' = Append(granted, i)
  BY <1>1 DEF acquireLease
<1>3. ASSUME NEW j \in Instance, Leads(j) PROVE FALSE
  <2>1. Covered(j, held[j]) /\ held[j].left > 0 /\ held[j] \in Lease
    BY <1>3 DEF GroundInv, BeliefIsGrounded, Covered, Leads, TypeOK
  <2>2. j # i
    BY <1>1, <2>1 DEF Covered, OwnedAt
  <2> QED
    BY <1>1, <2>1, <2>2, CoveredExcludes DEF acquireLease
<1>4. ASSUME NEW j \in Instance, Leads(j)' PROVE FALSE
  <2>1. held' = held
    BY DEF Execute
  <2>2. \A d \in Connection : connection[j][d].op = "release" =>
          connection'[j][d].op = "release"
    <3>1. connection[i][c] = Idle
      BY DEF Execute
    <3>2. \A d \in Connection : ~(j = i /\ d = c) =>
            connection'[j][d] = connection[j][d]
      BY <1>1 DEF acquireLease, Reply, TypeOK
    <3> QED
      BY <3>1, <3>2 DEF Idle
  <2>3. Leads(j)
    BY <1>4, <2>1, <2>2 DEF Leads, Tracked, Releasing
  <2> QED
    BY <1>3, <2>3
<1> QED
  BY <1>2, <1>3, <1>4 DEF Leader

\* Without a new epoch, the row does not pass from one instance to another.
LEMMA NoHandover ==
  ASSUME [Next]_vars, TypeOK, granted' = granted
  PROVE  row'.owner \in {row.owner, None}
<1>1. ASSUME NEW i \in Instance, NEW c \in Connection, NEW s \in waiting[i],
             Execute(i, c, s)
      PROVE  row'.owner \in {row.owner, None}
  <2>1. CASE acquireLease(i, c, s)
    <3>1. granted \in Seq(Instance) /\ Append(granted, i) # granted
      <4>1. granted \in Seq(Instance)
        BY DEF TypeOK
      <4>2. Len(Append(granted, i)) = Len(granted) + 1 /\ Len(granted) \in Nat
        BY <4>1
      <4> QED
        BY <4>1, <4>2
    <3>2. row.owner = i
      BY <2>1, <3>1 DEF acquireLease
    <3> QED
      BY <2>1, <3>2 DEF acquireLease, AcquireRow
  <2>2. CASE renewLease(i, c, s)
    BY <2>2 DEF renewLease, TypeOK, Row
  <2>3. CASE releaseLease(i, c, s)
    BY <2>3 DEF releaseLease
  <2>4. CASE NothingUpdated(i, c, s)
    BY <2>4 DEF NothingUpdated
  <2> QED
    BY <1>1, <2>1, <2>2, <2>3, <2>4 DEF Execute
<1>2. CASE Tick
  BY <1>2 DEF Tick, TypeOK, Row
<1>3. CASE row' = row
  BY <1>3
<1>4. ~Tick /\ row' # row =>
        \E i \in Instance, c \in Connection : \E s \in waiting[i] : Execute(i, c, s)
  BY DEF Next, vars, Start, Crash, CallAcquire, CallRenew, CallRelease, Issue,
         getActiveHeldLease, Resume
<1> QED
  BY <1>1, <1>2, <1>3, <1>4

(***************************************************************************)
(* With the default pool the lease implements LeaderEpochs: an epoch       *)
(* begins only while nobody leads, and only its instance leads in it.      *)
(***************************************************************************)
THEOREM LeaseImplementsEpochs ==
  ASSUME PoolOfOne
  PROVE  Spec => ImplementsEpochs
<1>1. Init => Epochs!Init
  BY DEF Init, Epochs!Init, Leader, Leads, Tracked, NotHeld
<1>2. TypeOK /\ TypeOK' /\ GroundInv /\ GroundInv' /\ FencingInv' /\ [Next]_vars
        => [Epochs!Next]_(Epochs!vars)
  <2> SUFFICES ASSUME TypeOK, TypeOK', GroundInv, GroundInv', FencingInv', [Next]_vars
               PROVE  [Epochs!Next]_(Epochs!vars)
    OBVIOUS
  <2>1. /\ BeliefIsGrounded
        /\ \A i \in Instance : Leads(i) <=> Leader = i
        /\ Leader \in Instance \cup {None}
    BY LeaderIsWhoLeads DEF GroundInv, LeaderLeads
  <2>2. /\ BeliefIsGrounded'
        /\ \A i \in Instance : Leads(i)' <=> Leader' = i
        /\ Leader' \in Instance \cup {None}
    BY LeaderIsWhoLeadsNext DEF GroundInv, LeaderLeads
  <2>3. CASE granted' # granted
    <3>1. PICK i \in Instance, c \in Connection : \E s \in waiting[i] : Execute(i, c, s)
      BY <2>3 DEF Next, vars, Start, Crash, CallAcquire, CallRenew, CallRelease,
                  Issue, getActiveHeldLease, Resume, Tick
    <3> QED
      BY <2>3, <3>1, EpochStep DEF Epochs!Next, Epochs!NewEpoch
  <2>4. CASE granted' = granted
    <3>1. CASE Leader' = Leader
      BY <2>4, <3>1 DEF Epochs!vars
    <3>2. CASE Leader # None /\ Leader' = None
      BY <2>4, <3>2 DEF Epochs!Next, Epochs!StepDown
    <3>3. CASE Leader' # Leader /\ Leader' # None
      <4>1. PICK j \in Instance : Leader' = j
        BY <2>2, <3>3
      <4>2. row'.owner = j
        BY <2>2, <4>1 DEF BeliefIsGrounded, OwnedAt
      <4>3. row.owner = j
        BY <2>4, <4>2, NoHandover
      <4>4. Leader = None
        BY <2>1, <3>3, <4>1, <4>3 DEF BeliefIsGrounded, OwnedAt
      <4>5. Epochs!NewestEpochOf(j)
        BY <2>4, <4>2 DEF FencingInv, GrantedIn, Epochs!NewestEpochOf, TypeOK
      <4> QED
        BY <2>4, <4>1, <4>4, <4>5 DEF Epochs!Next, Epochs!Lead
    <3> QED
      BY <3>1, <3>2, <3>3
  <2> QED
    BY <2>3, <2>4
<1> QED
  BY <1>1, <1>2, TypeCorrect, GroundCorrect, FencingCorrect, PTL
  DEF Spec, ImplementsEpochs, Epochs!Spec
=============================================================================
