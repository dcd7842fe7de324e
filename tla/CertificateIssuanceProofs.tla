---------------------- MODULE CertificateIssuanceProofs ----------------------
(***************************************************************************)
(* Proofs about CertificateIssuance, for any nodes, requests, faults and   *)
(* numbers of orders and artifacts.                                        *)
(***************************************************************************)
EXTENDS CertificateIssuance, SequenceTheorems, WellFoundedInduction, TLAPS

USE IssuanceAssumption DEF IssuanceAssumption

-----------------------------------------------------------------------------
(* Sequences, and the latest of several.                                   *)

(* Some numbers up to n have a greatest one, which Latest returns.         *)
LEMMA LatestIn ==
  ASSUME NEW n \in Nat, NEW S \in SUBSET (1..n), S # {}
  PROVE  Latest(S) \in S
<1> DEFINE below == {n - x : x \in S}
           less == {p \in Nat \X Nat : p[1] < p[2]}
<1>1. below \subseteq Nat /\ below # {}
  <2>1. \A x \in S : n - x \in Nat
    OBVIOUS
  <2>2. PICK x \in S : TRUE
    OBVIOUS
  <2> QED
    BY <2>1, <2>2
<1>2. IsWellFoundedOn(less, Nat)
  BY NatLessThanWellFounded DEF OpToRel
<1>3. PICK d \in below : \A e \in below : ~ (<<e, d>> \in less)
  <2> HIDE DEF below, less
  <2> QED
    BY <1>1, <1>2, WFMin
<1>4. \A e \in below : ~ (e < d)
  BY <1>1, <1>3
<1>5. PICK x \in S : d = n - x
  OBVIOUS
<1>6. ASSUME NEW y \in S
      PROVE  y <= x
  <2>1. ~ (n - y < d)
    BY <1>4
  <2> QED
    BY <2>1, <1>5
<1> QED
  BY <1>6 DEF Latest

(* A function on 1..n is a sequence of length n. *)
LEMMA FunctionSeq ==
  ASSUME NEW R, NEW n \in Nat, NEW s \in [1..n -> R]
  PROVE  s \in Seq(R) /\ Len(s) = n
  BY SeqDef

-----------------------------------------------------------------------------
(* The types, and what a request can remember at each place.               *)

(* The kinds of request that make a certificate. *)
Makes == {"ensure", "upload", "selfSigned"}

Order == [status : {"active", "failed", "activated"},
          retry : {"none", "closed", "open"},
          source : Makes]

Artifact(n) == [order : 1..n, current : BOOLEAN, activated : BOOLEAN, fresh : BOOLEAN]

Call(m) == [by : Flow \cup {Nobody}, node : Node, version : 1..m]

Request == [at : Place, task : Kind, order : Nat, version : 0 .. MaxArtifacts + 1,
            waiting : SUBSET Node]

\* The places before a request has an order, those of ensureCertificate only,
\* and those of activateArtifactAcrossCluster.
Unordering == {"idle", "find", "findFailed", "create"}
Ensuring == {"lookup", "lock", "lastLook", "recheck", "publish", "acme", "catch",
             "catchFirst", "fail", "reused"}
Activating == {"distribute", "enqueue", "rollout", "rolloutFailed", "save", "saveFirst",
               "clear", "mark", "complete"}

(* With n orders and m artifacts, a request has an order that is there, and *)
(* an artifact when it activates one.                                       *)
Remembers(r, n, m) ==
  /\ r.order \in 0..n
  /\ r.at \in Unordering <=> r.order = 0
  /\ r.at \in Unordering => r.version = 0
  /\ r.at \in {"find", "findFailed", "create", "version", "record"} => r.task \in Makes
  /\ r.at \in Ensuring => r.task = "ensure"
  /\ r.at \in {"supply", "failMaterial"} => r.task \in {"upload", "selfSigned"}
  /\ r.at \in Activating => r.version \in 1..m
  /\ r.at = "resume" => \/ r.version = 0 /\ r.task \in Makes
                        \/ r.version \in 1..m /\ r.task = "retry"

RowsTyped ==
  /\ orders \in Seq(Order) /\ Len(orders) <= MaxOrders
  /\ artifacts \in Seq(Artifact(Len(orders))) /\ Len(artifacts) <= MaxArtifacts
  /\ certificate \in [version : {Missing} \cup 0..Len(artifacts), orphaned : BOOLEAN]

FlowTyped ==
  /\ flow \in [Flow -> Request]
  /\ \A f \in Flow : Remembers(flow[f], Len(orders), Len(artifacts))

\* The places of a request that is in the lock, and of one that relies on it.
Locked == Issuing \cup {"recheck", "catch", "catchFirst"}
Held == Locked \cup {"reused", "fail"}

LockTyped ==
  /\ lock \subseteq Flow
  /\ \A f \in lock : flow[f].at \in Held /\ flow[f].task = "ensure"

CallsTyped ==
  /\ calls \subseteq Call(Len(artifacts))
  /\ \A c \in calls : c.by # Nobody => At(c.by, "rollout")

DisksTyped ==
  /\ installed \in [Node -> 0..Len(artifacts)]
  /\ copy \in [Node -> {Missing} \cup 0..Len(artifacts)]

CountsTyped ==
  /\ requests \in Nat /\ faults \in Nat
  /\ sessionLost \in BOOLEAN
  /\ sessionLost => faults > 0

TypeInv == RowsTyped /\ FlowTyped /\ LockTyped /\ CallsTyped /\ DisksTyped /\ CountsTyped

(* The rows as functions. *)
LEMMA RowFacts ==
  ASSUME RowsTyped
  PROVE  /\ Len(orders) \in Nat /\ Len(artifacts) \in Nat
         /\ DOMAIN orders = 1..Len(orders) /\ DOMAIN artifacts = 1..Len(artifacts)
         /\ orders \in [1..Len(orders) -> Order]
         /\ artifacts \in [1..Len(artifacts) -> Artifact(Len(orders))]
  BY LenProperties DEF RowsTyped

LEMMA TypeInvIsEnough == TypeInv => TypeOK
<1> SUFFICES ASSUME TypeInv PROVE TypeOK
  OBVIOUS
<1>1. /\ DOMAIN orders = 1..Len(orders) /\ DOMAIN artifacts = 1..Len(artifacts)
      /\ Len(orders) \in Nat /\ Len(artifacts) \in Nat
  BY RowFacts DEF TypeInv
<1>2. /\ orders \in Seq([status : {"active", "failed", "activated"},
                         retry : {"none", "closed", "open"},
                         source : {"ensure", "upload", "selfSigned"}])
      /\ artifacts \in Seq([order : DOMAIN orders, current : BOOLEAN,
                            activated : BOOLEAN, fresh : BOOLEAN])
      /\ Len(orders) <= MaxOrders /\ Len(artifacts) <= MaxArtifacts
  BY <1>1 DEF TypeInv, RowsTyped, Order, Artifact, Makes
<1>3. certificate \in [version : {Missing, 0} \cup DOMAIN artifacts, orphaned : BOOLEAN]
  BY <1>1 DEF TypeInv, RowsTyped
<1>4. flow \in [Flow -> [at : Place, task : Kind, order : {0} \cup DOMAIN orders,
                         version : 0 .. MaxArtifacts + 1, waiting : SUBSET Node]]
  BY <1>1 DEF TypeInv, FlowTyped, Request, Remembers
<1>5. lock \subseteq {f \in Flow : Busy(f)}
  BY DEF TypeInv, LockTyped, Busy, At, Held, Locked, Issuing
<1>6. /\ calls \subseteq [by : Flow \cup {Nobody}, node : Node, version : DOMAIN artifacts]
      /\ \A c \in calls : c.by # Nobody => At(c.by, "rollout")
  BY <1>1 DEF TypeInv, CallsTyped, Call
<1>7. /\ installed \in [Node -> {0} \cup DOMAIN artifacts]
      /\ copy \in [Node -> {Missing, 0} \cup DOMAIN artifacts]
  BY <1>1 DEF TypeInv, DisksTyped
<1> QED
  BY <1>2, <1>3, <1>4, <1>5, <1>6, <1>7 DEF TypeOK

LEMMA IdleIsTyped ==
  /\ Idle \in Request
  /\ \A n, m \in Nat : Remembers(Idle, n, m)
<1>1. Idle \in Request
  BY DEF Idle, Doing, Request, Place, Kind
<1>2. /\ Idle.at = "idle" /\ Idle.order = 0 /\ Idle.version = 0
      /\ Idle.at \notin Ensuring /\ Idle.at \notin Activating /\ Idle.at \in Unordering
  BY DEF Idle, Doing, Unordering, Ensuring, Activating
<1> QED
  BY <1>1, <1>2 DEF Remembers

LEMMA InitTypes == Init => TypeInv
<1> SUFFICES ASSUME Init PROVE TypeInv
  OBVIOUS
<1>1. RowsTyped
  BY EmptySeq DEF Init, RowsTyped
<1>2. Len(orders) = 0 /\ Len(artifacts) = 0
  BY EmptySeq DEF Init
<1>3. FlowTyped
  BY <1>2, IdleIsTyped DEF Init, FlowTyped
<1>4. LockTyped /\ CallsTyped /\ CountsTyped
  BY DEF Init, LockTyped, CallsTyped, CountsTyped
<1>5. DisksTyped
  BY <1>2 DEF Init, DisksTyped
<1> QED
  BY <1>1, <1>3, <1>4, <1>5 DEF TypeInv

-----------------------------------------------------------------------------
(* What a step does to a request, and to an order.                         *)

(* A request goes to another place. *)
LEMMA Goes ==
  ASSUME flow \in [Flow -> Request], NEW f \in Flow, NEW place \in Place, Goto(f, place)
  PROVE  /\ flow' \in [Flow -> Request]
         /\ \A g \in Flow \ {f} : flow'[g] = flow[g]
         /\ flow'[f].at = place
         /\ flow'[f].task = flow[f].task /\ flow'[f].order = flow[f].order
         /\ flow'[f].version = flow[f].version /\ flow'[f].waiting = flow[f].waiting
  BY DEF Goto, Request

(* A request goes to another place with an order. *)
LEMMA Takes ==
  ASSUME flow \in [Flow -> Request], NEW f \in Flow, NEW place \in Place, NEW o \in Nat,
         TakesOrder(f, o, place)
  PROVE  /\ flow' \in [Flow -> Request]
         /\ \A g \in Flow \ {f} : flow'[g] = flow[g]
         /\ flow'[f].at = place /\ flow'[f].order = o
         /\ flow'[f].task = flow[f].task /\ flow'[f].version = flow[f].version
  BY DEF TakesOrder, Request

(* A request is at another place, with other things to remember. *)
LEMMA Becomes ==
  ASSUME flow \in [Flow -> Request], NEW f \in Flow, NEW r \in Request,
         flow' = [flow EXCEPT ![f] = r]
  PROVE  /\ flow' \in [Flow -> Request]
         /\ \A g \in Flow \ {f} : flow'[g] = flow[g]
         /\ flow'[f] = r
  OBVIOUS

LEMMA OrderMoves ==
  ASSUME RowsTyped, NEW o \in 1..Len(orders),
         NEW status \in {"active", "failed", "activated"},
         NEW retry \in {"none", "closed", "open"}, OrderBecomes(o, status, retry)
  PROVE  /\ orders' \in Seq(Order)
         /\ Len(orders') = Len(orders)
         /\ orders'[o].status = status
         /\ \A p \in 1..Len(orders) : p # o => orders'[p] = orders[p]
<1>1. /\ orders' \in [1..Len(orders) -> Order]
      /\ orders'[o].status = status
      /\ \A p \in 1..Len(orders) : p # o => orders'[p] = orders[p]
  BY RowFacts DEF OrderBecomes, Order
<1> QED
  BY <1>1, RowFacts, FunctionSeq

(* More orders and artifacts do not harm what a request remembers. *)
LEMMA StillRemembers ==
  ASSUME NEW r \in Request, NEW n \in Nat, NEW m \in Nat, Remembers(r, n, m),
         NEW k \in Nat, NEW l \in Nat, n <= k, m <= l
  PROVE  Remembers(r, k, l)
  BY DEF Remembers

(* What a step of request f leaves of the requests: it alone moves. *)
Advances(f) ==
  /\ flow' \in [Flow -> Request]
  /\ \A g \in Flow \ {f} : flow'[g] = flow[g]
  /\ Remembers(flow'[f], Len(orders'), Len(artifacts'))
  /\ flow'[f].task = flow[f].task \/ flow'[f] = Idle

RowsGrow ==
  /\ RowsTyped'
  /\ Len(orders') >= Len(orders)
  /\ Len(artifacts') >= Len(artifacts)

LEMMA RowsStay ==
  ASSUME RowsTyped, UNCHANGED store
  PROVE  RowsGrow
  BY RowFacts DEF RowsGrow, RowsTyped, store

LEMMA OrderStep ==
  ASSUME RowsTyped, NEW o \in 1..Len(orders),
         NEW status \in {"active", "failed", "activated"},
         NEW retry \in {"none", "closed", "open"}, OrderBecomes(o, status, retry),
         UNCHANGED <<artifacts, certificate>>
  PROVE  RowsGrow /\ Len(orders') = Len(orders)
  BY OrderMoves, RowFacts DEF RowsGrow, RowsTyped

(* The request ends. *)
LEMMA EndMoves ==
  ASSUME FlowTyped, RowsGrow, NEW f \in Flow, flow' = [flow EXCEPT ![f] = Idle]
  PROVE  Advances(f) /\ flow'[f] = Idle
<1>1. Len(orders') \in Nat /\ Len(artifacts') \in Nat
  BY LenProperties DEF RowsGrow, RowsTyped
<1> QED
  BY <1>1, IdleIsTyped, Becomes DEF FlowTyped, Advances

(* An exception: the request ends, or goes on in its catch clause.         *)
LEMMA ThrowMoves ==
  ASSUME FlowTyped, RowsTyped, RowsGrow, NEW f \in Flow, Busy(f), Throws(f)
  PROVE  /\ Advances(f)
         /\ \/ flow'[f] = Idle /\ lock' = lock \ {f}
            \/ /\ flow'[f].at = "catch" /\ flow[f].at \in Issuing
               /\ flow'[f].order = flow[f].order /\ UNCHANGED lock
            \/ /\ flow'[f].at = "failMaterial" /\ flow[f].task \in {"upload", "selfSigned"}
               /\ flow'[f].order = flow[f].order /\ UNCHANGED lock
         /\ flow[f].task \in Makes /\ flow[f].at \in Issuing
              => flow'[f].order = flow[f].order
<1>1. Len(orders) \in Nat /\ Len(artifacts) \in Nat
      /\ Len(orders') \in Nat /\ Len(artifacts') \in Nat
  BY LenProperties DEF RowsTyped, RowsGrow
<1>2. flow \in [Flow -> Request] /\ Remembers(flow[f], Len(orders), Len(artifacts))
  BY DEF FlowTyped
<1>3. CASE flow[f].task = "ensure" /\ flow[f].at \in Issuing
  <2>1. Goto(f, "catch") /\ UNCHANGED lock
    BY <1>3 DEF Throws
  <2>2. /\ flow' \in [Flow -> Request]
        /\ \A g \in Flow \ {f} : flow'[g] = flow[g]
        /\ flow'[f].at = "catch" /\ flow'[f].task = "ensure"
        /\ flow'[f].order = flow[f].order
    BY <1>2, <1>3, <2>1, Goes DEF Place
  <2>3. flow[f].order \in 0..Len(orders) /\ flow[f].order # 0
    BY <1>2, <1>3 DEF Remembers, Unordering, Issuing
  <2>4. Remembers(flow'[f], Len(orders'), Len(artifacts'))
    BY <1>1, <2>2, <2>3 DEF Remembers, Unordering, Ensuring, Activating, RowsGrow
  <2> QED
    BY <1>3, <2>1, <2>2, <2>4 DEF Advances
<1>4. CASE /\ flow[f].task \in {"upload", "selfSigned"}
           /\ flow[f].at \in Issuing \cup {"supply"}
  <2>1. Goto(f, "failMaterial") /\ UNCHANGED lock
    BY <1>4 DEF Throws
  <2>2. /\ flow' \in [Flow -> Request]
        /\ \A g \in Flow \ {f} : flow'[g] = flow[g]
        /\ flow'[f].at = "failMaterial" /\ flow'[f].task = flow[f].task
        /\ flow'[f].order = flow[f].order
    BY <1>2, <1>4, <2>1, Goes DEF Place
  <2>3. flow[f].order \in 0..Len(orders) /\ flow[f].order # 0
    BY <1>2, <1>4 DEF Remembers, Unordering, Issuing
  <2>4. Remembers(flow'[f], Len(orders'), Len(artifacts'))
    BY <1>1, <1>4, <2>2, <2>3 DEF Remembers, Unordering, Ensuring, Activating, RowsGrow
  <2> QED
    BY <1>4, <2>1, <2>2, <2>4 DEF Advances
<1>5. CASE /\ ~(flow[f].task = "ensure" /\ flow[f].at \in Issuing)
           /\ ~(/\ flow[f].task \in {"upload", "selfSigned"}
                /\ flow[f].at \in Issuing \cup {"supply"})
  <2>1. Ends(f)
    BY <1>5 DEF Throws
  <2> QED
    BY <1>5, <2>1, EndMoves DEF Ends, Makes
<1> QED
  BY <1>3, <1>4, <1>5

-----------------------------------------------------------------------------
(* The rows and the requests, action by action.                            *)

\* All that the steps below need to know of the state before.
LEMMA Before ==
  ASSUME RowsTyped, FlowTyped, NEW f \in Flow
  PROVE  /\ Len(orders) \in Nat /\ Len(artifacts) \in Nat
         /\ DOMAIN orders = 1..Len(orders) /\ DOMAIN artifacts = 1..Len(artifacts)
         /\ orders \in [1..Len(orders) -> Order]
         /\ artifacts \in [1..Len(artifacts) -> Artifact(Len(orders))]
         /\ flow \in [Flow -> Request]
         /\ flow[f] \in Request
         /\ Remembers(flow[f], Len(orders), Len(artifacts))
  BY RowFacts DEF FlowTyped

(* A request that only goes to another place, and stays within its rights. *)
LEMMA GotoAdvances ==
  ASSUME RowsTyped, FlowTyped, NEW f \in Flow, NEW place \in Place, Goto(f, place),
         RowsGrow,
         place \in Unordering <=> flow[f].order = 0,
         place \in Unordering => flow[f].version = 0,
         place \in {"find", "findFailed", "create", "version", "record"} =>
           flow[f].task \in Makes,
         place \in Ensuring => flow[f].task = "ensure",
         place \in {"supply", "failMaterial"} => flow[f].task \in {"upload", "selfSigned"},
         place \in Activating => flow[f].version \in 1..Len(artifacts'),
         place # "resume"
  PROVE  Advances(f)
<1>1. Len(orders') \in Nat /\ Len(artifacts') \in Nat
  BY LenProperties DEF RowsGrow, RowsTyped
<1>2. flow[f].order \in 0..Len(orders')
  BY <1>1, Before DEF Remembers, RowsGrow
<1> QED
  BY <1>1, <1>2, Before, Goes DEF Advances, Remembers

(* A request that has just got its order. *)
LEMMA TakeAdvances ==
  ASSUME RowsTyped, FlowTyped, NEW f \in Flow, NEW place \in Place, NEW o \in Nat,
         TakesOrder(f, o, place), RowsGrow,
         o \in 1..Len(orders'), flow[f].version = 0, flow[f].task \in Makes,
         place = Work(flow[f].task) \/ place = "resume"
  PROVE  Advances(f)
<1>1. Len(orders') \in Nat /\ Len(artifacts') \in Nat
  BY LenProperties DEF RowsGrow, RowsTyped
<1>2. place \in {"lookup", "supply", "resume"}
  BY DEF Work
<1>3. /\ place = "lookup" => flow[f].task = "ensure"
      /\ place = "supply" => flow[f].task \in {"upload", "selfSigned"}
  BY DEF Work, Makes
<1>4. /\ flow' \in [Flow -> Request]
      /\ \A g \in Flow \ {f} : flow'[g] = flow[g]
      /\ flow'[f].at = place /\ flow'[f].order = o
      /\ flow'[f].task = flow[f].task /\ flow'[f].version = 0
  BY Before, Takes
<1>5. Remembers(flow'[f], Len(orders'), Len(artifacts'))
  BY <1>1, <1>2, <1>3, <1>4 DEF Remembers, Unordering, Ensuring, Activating
<1> QED
  BY <1>4, <1>5 DEF Advances

LEMMA WorkIsPlace == \A t : Work(t) \in Place
  BY DEF Work, Place

LEMMA FindMoves ==
  ASSUME RowsTyped, FlowTyped, NEW f \in Flow, FindActive(f) \/ FindFailed(f)
  PROVE  RowsGrow /\ Advances(f)
<1>0. /\ Len(orders) \in Nat /\ DOMAIN orders = 1..Len(orders)
      /\ Remembers(flow[f], Len(orders), Len(artifacts))
  BY Before
<1>1. RowsGrow /\ Len(orders') = Len(orders)
  BY RowsStay DEF FindActive, FindFailed, store
<1>2. flow[f].order = 0 /\ flow[f].version = 0 /\ flow[f].task \in Makes
  BY <1>0 DEF FindActive, FindFailed, At, Remembers, Unordering
<1>3. ASSUME NEW place \in {"findFailed", "create"}, Goto(f, place)
      PROVE  Advances(f)
  <2>1. /\ place \in Place /\ place \in Unordering /\ place \notin Ensuring
        /\ place \notin Activating /\ place # "resume"
    BY DEF Place, Unordering, Ensuring, Activating
  <2> QED
    BY <1>1, <1>2, <1>3, <2>1, GotoAdvances
<1>4. ASSUME NEW status, OrdersIn(status) # {}
      PROVE  Latest(OrdersIn(status)) \in 1..Len(orders)
  <2>1. OrdersIn(status) \in SUBSET (1..Len(orders))
    BY <1>0 DEF OrdersIn
  <2> QED
    BY <1>0, <1>4, <2>1, LatestIn
<1>5. ASSUME NEW status, OrdersIn(status) # {}, NEW place,
             place = Work(flow[f].task) \/ place = "resume",
             TakesOrder(f, Latest(OrdersIn(status)), place)
      PROVE  Advances(f)
  <2>1. place \in Place
    BY <1>5, WorkIsPlace DEF Place
  <2> QED
    BY <1>0, <1>1, <1>2, <1>4, <1>5, <2>1, TakeAdvances
<1>6. CASE FindActive(f)
  <2>1. CASE OrdersIn("active") = {}
    BY <1>1, <1>3, <1>6, <2>1 DEF FindActive
  <2>2. CASE OrdersIn("active") # {}
    <3>1. TakesOrder(f, Latest(OrdersIn("active")), Work(flow[f].task))
      BY <1>6, <2>2 DEF FindActive
    <3> QED
      BY <1>1, <1>5, <2>2, <3>1
  <2> QED
    BY <2>1, <2>2
<1>7. CASE FindFailed(f)
  <2>1. CASE Goto(f, "create")
    BY <1>1, <1>3, <2>1
  <2>2. CASE OrdersIn("failed") # {} /\ TakesOrder(f, Latest(OrdersIn("failed")), "resume")
    BY <1>1, <1>5, <2>2
  <2> QED
    BY <1>7, <2>1, <2>2 DEF FindFailed
<1> QED
  BY <1>6, <1>7

LEMMA ResumeMoves ==
  ASSUME RowsTyped, FlowTyped, NEW f \in Flow, ResumeOrder(f)
  PROVE  RowsGrow /\ Advances(f)
<1>0. /\ Len(orders) \in Nat /\ Len(artifacts) \in Nat
      /\ Remembers(flow[f], Len(orders), Len(artifacts))
  BY Before
<1>1. flow[f].order \in 1..Len(orders)
  BY <1>0 DEF ResumeOrder, At, Remembers, Unordering
<1>2. RowsGrow /\ Len(artifacts') = Len(artifacts)
  BY <1>1, OrderStep DEF ResumeOrder
<1>3. CASE flow[f].version > 0
  <2>1. flow[f].version \in 1..Len(artifacts)
    BY <1>0, <1>3 DEF ResumeOrder, At, Remembers
  <2>2. Goto(f, "distribute")
    BY <1>3 DEF ResumeOrder
  <2> QED
    BY <1>1, <1>2, <2>1, <2>2, GotoAdvances
    DEF Place, Issuing, Unordering, Ensuring
<1>4. CASE ~(flow[f].version > 0)
  <2>1. flow[f].task \in Makes
    BY <1>0, <1>4 DEF ResumeOrder, At, Remembers
  <2>2. Goto(f, Work(flow[f].task))
    BY <1>4 DEF ResumeOrder
  <2>3. /\ Work(flow[f].task) \in {"lookup", "supply"}
        /\ Work(flow[f].task) = "lookup" => flow[f].task = "ensure"
        /\ Work(flow[f].task) = "supply" => flow[f].task \in {"upload", "selfSigned"}
    BY <2>1 DEF Work, Makes
  <2>4. /\ Work(flow[f].task) \notin Unordering /\ Work(flow[f].task) \notin Activating
        /\ Work(flow[f].task) # "resume"
        /\ Work(flow[f].task) \notin {"find", "findFailed", "create", "version", "record"}
        /\ Work(flow[f].task) \in Ensuring => Work(flow[f].task) = "lookup"
    BY <2>3 DEF Unordering, Activating, Ensuring
  <2> QED
    BY <1>1, <1>2, <2>2, <2>3, <2>4, GotoAdvances, WorkIsPlace
<1> QED
  BY <1>3, <1>4

LEMMA CreateMoves ==
  ASSUME RowsTyped, FlowTyped, NEW f \in Flow, CreateOrder(f)
  PROVE  RowsGrow /\ Advances(f)
<1>0. /\ Len(orders) \in Nat /\ Len(artifacts) \in Nat
      /\ Remembers(flow[f], Len(orders), Len(artifacts))
  BY Before
<1>1. flow[f].order = 0 /\ flow[f].version = 0 /\ flow[f].task \in Makes
  BY <1>0 DEF CreateOrder, At, Remembers, Unordering
<1>2. CASE Len(orders) < MaxOrders
  <2> DEFINE o == [status |-> "active", retry |-> "none", source |-> flow[f].task]
  <2>1. o \in Order
    BY <1>1 DEF Order
  <2>2. orders' = Append(orders, o) /\ UNCHANGED <<artifacts, certificate>>
    BY <1>2 DEF CreateOrder
  <2> HIDE DEF o
  <2>3. orders' \in Seq(Order) /\ Len(orders') = Len(orders) + 1
    BY <2>1, <2>2, AppendProperties DEF RowsTyped
  <2>4. artifacts \in Seq(Artifact(Len(orders')))
    <3>1. Artifact(Len(orders)) \subseteq Artifact(Len(orders'))
      BY <1>0, <2>3 DEF Artifact
    <3>2. artifacts \in Seq(Artifact(Len(orders)))
      BY DEF RowsTyped
    <3> QED
      BY <1>0, <3>1, <3>2, Before, FunctionSeq
  <2>5. RowsTyped'
    BY <1>0, <1>2, <2>2, <2>3, <2>4 DEF RowsTyped
  <2>6. RowsGrow
    BY <1>0, <2>2, <2>3, <2>5 DEF RowsGrow
  <2>7. TakesOrder(f, Len(orders) + 1, Work(flow[f].task))
    BY <1>2 DEF CreateOrder
  <2> QED
    BY <1>0, <1>1, <2>3, <2>6, <2>7, TakeAdvances, WorkIsPlace
<1>3. CASE ~(Len(orders) < MaxOrders)
  BY <1>3, RowsStay, EndMoves DEF CreateOrder, store
<1> QED
  BY <1>2, <1>3

(* A request that has an order goes to another place that its task and its *)
(* version allow.                                                          *)
LEMMA WorksOn ==
  ASSUME RowsTyped, FlowTyped, NEW f \in Flow, flow[f].at \notin Unordering, RowsGrow,
         NEW place \in Place, Goto(f, place),
         \/ place \in Ensuring /\ flow[f].task = "ensure"
         \/ place \in {"version", "record"} /\ flow[f].task \in Makes
         \/ place \in {"supply", "failMaterial"} /\ flow[f].task \in {"upload", "selfSigned"}
         \/ place \in Activating /\ flow[f].version \in 1..Len(artifacts')
  PROVE  Advances(f)
<1>1. /\ Remembers(flow[f], Len(orders), Len(artifacts))
      /\ Len(orders) \in Nat
  BY Before
<1>2. flow[f].order \in 1..Len(orders)
  BY <1>1 DEF Remembers
<1>3. place \notin Unordering /\ place # "resume"
  BY DEF Unordering, Ensuring, Activating
<1>4. /\ place \in {"version", "record"} => flow[f].task \in Makes
      /\ place \in Ensuring => flow[f].task = "ensure"
      /\ place \in {"supply", "failMaterial"} => flow[f].task \in {"upload", "selfSigned"}
      /\ place \in Activating => flow[f].version \in 1..Len(artifacts')
  BY DEF Ensuring, Activating
<1>5. place \notin {"find", "findFailed", "create"}
  BY <1>3 DEF Unordering
<1> QED
  BY <1>2, <1>3, <1>4, <1>5, GotoAdvances

(* The steps of ensureCertificate up to the issuance, and out of it. *)
LEMMA EnsureMoves ==
  ASSUME RowsTyped, FlowTyped, NEW f \in Flow,
         Lookup(f) \/ Enter(f) \/ Denied(f) \/ LastLook(f) \/ Recheck(f) \/ Catch(f)
  PROVE  RowsGrow /\ Advances(f)
<1>1. /\ Remembers(flow[f], Len(orders), Len(artifacts))
      /\ Len(artifacts) \in Nat
  BY Before
<1>2. flow[f].at \in Ensuring /\ flow[f].at \notin Unordering
  BY DEF Lookup, Enter, Denied, LastLook, Recheck, Catch, At, Ensuring, Unordering
<1>3. flow[f].task = "ensure"
  BY <1>1, <1>2 DEF Remembers
<1>4. RowsGrow
  BY RowsStay DEF Lookup, Enter, Denied, LastLook, Recheck, Catch, store
<1>5. PICK place \in {"lock", "reused", "fail", "recheck", "lastLook", "publish",
                       "catchFirst"} : Goto(f, place)
  BY DEF Lookup, Enter, Denied, LastLook, Recheck, Catch, Reuse, RateLimited
<1>6. place \in Place /\ place \in Ensuring
  BY <1>5 DEF Place, Issuing, Ensuring
<1> QED
  BY <1>2, <1>3, <1>4, <1>5, <1>6, WorksOn

(* The steps of the issuance, and of the other sources of material. *)
LEMMA IssueMoves ==
  ASSUME RowsTyped, FlowTyped, NEW f \in Flow, Publish(f) \/ Obtain(f) \/ Supply(f)
  PROVE  RowsGrow /\ Advances(f)
<1>1. /\ Remembers(flow[f], Len(orders), Len(artifacts))
      /\ Len(orders) \in Nat /\ Len(artifacts) \in Nat
  BY Before
<1>2. flow[f].at \in {"publish", "acme", "supply"} /\ flow[f].at \notin Unordering
  BY DEF Publish, Obtain, Supply, At, Unordering
<1>3. flow[f].order \in 1..Len(orders)
  BY <1>1, <1>2 DEF Remembers
<1>4. RowsGrow
  <2>1. CASE UNCHANGED orders
    BY <2>1, RowsStay DEF Publish, Obtain, Supply, store
  <2>2. CASE OrderBecomes(flow[f].order, "active", "none")
    BY <1>3, <2>2, OrderStep DEF Publish, Obtain, Supply
  <2> QED
    BY <2>1, <2>2 DEF Publish, Obtain, Supply, Issued
<1>5. CASE Publish(f) \/ Obtain(f)
  <2>1. flow[f].task = "ensure"
    BY <1>1, <1>5 DEF Remembers, Ensuring, Publish, Obtain, At
  <2>2. PICK place \in {"acme", "version", "catch"} : Goto(f, place)
    BY <1>5 DEF Publish, Obtain
  <2>3. place \in Place /\ (place \in Ensuring \/ place = "version")
    BY DEF Place, Issuing, Ensuring
  <2> QED
    BY <1>2, <1>4, <2>1, <2>2, <2>3, WorksOn DEF Makes
<1>6. CASE Supply(f)
  <2>1. flow[f].task \in {"upload", "selfSigned"}
    BY <1>1, <1>6 DEF Remembers, Supply, At
  <2>2. PICK place \in {"version", "failMaterial"} : Goto(f, place)
    BY <1>6 DEF Supply, Issued
  <2>3. place \in Place
    BY DEF Place, Issuing
  <2> QED
    BY <1>2, <1>4, <2>1, <2>2, <2>3, WorksOn DEF Makes
<1> QED
  BY <1>5, <1>6

(* The ends of a request, which settle its order. *)
LEMMA SettleMoves ==
  ASSUME RowsTyped, FlowTyped, NEW f \in Flow,
         FailOrder(f) \/ FailMaterial(f) \/ FailActivation(f) \/ Complete(f)
  PROVE  /\ RowsGrow /\ Advances(f) /\ flow'[f] = Idle
         /\ flow[f].order \in 1..Len(orders) /\ Len(orders') = Len(orders)
         /\ orders'[flow[f].order].status # "active"
         /\ \A p \in 1..Len(orders) : p # flow[f].order => orders'[p] = orders[p]
<1>1. /\ Remembers(flow[f], Len(orders), Len(artifacts))
      /\ Len(orders) \in Nat
  BY Before
<1>2. flow[f].order \in 1..Len(orders)
  BY <1>1 DEF Remembers, Unordering, FailOrder, FailMaterial, FailActivation, Complete, At
<1>3. PICK status \in {"failed", "activated"}, retry \in {"closed", "none"} :
        OrderBecomes(flow[f].order, status, retry)
  BY DEF FailOrder, FailMaterial, FailActivation, Complete
<1>4. /\ RowsGrow /\ Len(orders') = Len(orders)
      /\ orders'[flow[f].order].status = status
      /\ \A p \in 1..Len(orders) : p # flow[f].order => orders'[p] = orders[p]
  BY <1>2, <1>3, OrderStep, OrderMoves DEF FailOrder, FailMaterial, FailActivation, Complete
<1>5. flow' = [flow EXCEPT ![f] = Idle]
  BY DEF FailOrder, FailMaterial, FailActivation, Complete, Ends
<1> QED
  BY <1>2, <1>4, <1>5, EndMoves

(* The rows of the artifacts change, none comes or goes. *)
LEMMA ArtifactsStep ==
  ASSUME RowsTyped, artifacts' \in [1..Len(artifacts) -> Artifact(Len(orders))],
         UNCHANGED <<orders, certificate>>
  PROVE  RowsGrow /\ Len(artifacts') = Len(artifacts) /\ Len(orders') = Len(orders)
<1>1. artifacts' \in Seq(Artifact(Len(orders))) /\ Len(artifacts') = Len(artifacts)
  BY RowFacts, FunctionSeq
<1> QED
  BY <1>1, RowFacts DEF RowsGrow, RowsTyped

LEMMA RecordMoves ==
  ASSUME RowsTyped, FlowTyped, NEW f \in Flow, RecordArtifact(f)
  PROVE  RowsGrow /\ Advances(f)
<1>1. /\ Remembers(flow[f], Len(orders), Len(artifacts))
      /\ Len(orders) \in Nat /\ Len(artifacts) \in Nat
  BY Before
<1>2. flow[f].at \notin Unordering /\ flow[f].order \in 1..Len(orders) /\ Busy(f)
  BY <1>1 DEF Remembers, RecordArtifact, At, Unordering, Busy
<1>3. CASE flow[f].version = Len(artifacts) + 1 /\ Len(artifacts) < MaxArtifacts
  <2> DEFINE a == [order |-> flow[f].order, current |-> FALSE,
                   activated |-> FALSE, fresh |-> TRUE]
  <2>1. a \in Artifact(Len(orders))
    BY <1>2 DEF Artifact
  <2>2. /\ artifacts' = Append(artifacts, a) /\ Goto(f, "distribute")
        /\ UNCHANGED <<orders, certificate>>
    BY <1>3 DEF RecordArtifact
  <2> HIDE DEF a
  <2>3. /\ artifacts' \in Seq(Artifact(Len(orders)))
        /\ Len(artifacts') = Len(artifacts) + 1
    BY <2>1, <2>2, AppendProperties DEF RowsTyped
  <2>4. RowsGrow
    BY <1>1, <1>3, <2>2, <2>3 DEF RowsTyped, RowsGrow
  <2>5. "distribute" \in Place /\ "distribute" \in Activating
    BY DEF Place, Issuing, Activating
  <2>6. flow[f].version \in 1..Len(artifacts')
    BY <1>1, <1>3, <2>3
  <2> QED
    BY <1>2, <2>2, <2>4, <2>5, <2>6, WorksOn
<1>4. CASE ~(flow[f].version = Len(artifacts) + 1 /\ Len(artifacts) < MaxArtifacts)
  <2>1. Throws(f) /\ UNCHANGED store
    BY <1>4 DEF RecordArtifact, store
  <2> QED
    BY <1>2, <2>1, RowsStay, ThrowMoves
<1> QED
  BY <1>3, <1>4

LEMMA VersionMoves ==
  ASSUME RowsTyped, FlowTyped, NEW f \in Flow, ReadVersion(f)
  PROVE  RowsGrow /\ Advances(f)
<1>1. /\ Remembers(flow[f], Len(orders), Len(artifacts))
      /\ flow \in [Flow -> Request]
      /\ Len(orders) \in Nat /\ Len(artifacts) \in Nat
  BY Before
<1>2. /\ flow[f].order \in 1..Len(orders) /\ flow[f].task \in Makes
  BY <1>1 DEF Remembers, ReadVersion, At, Unordering
<1>3. RowsGrow /\ UNCHANGED <<orders, artifacts>>
  BY RowsStay DEF ReadVersion, store
<1>4. Len(artifacts) + 1 \in 0 .. MaxArtifacts + 1
  BY <1>1 DEF RowsTyped
<1>5. "record" \in Place
  BY DEF Place, Issuing
<1>6. /\ flow' \in [Flow -> Request]
      /\ \A g \in Flow \ {f} : flow'[g] = flow[g]
      /\ flow'[f].at = "record" /\ flow'[f].order = flow[f].order
      /\ flow'[f].task = flow[f].task
  BY <1>1, <1>4, <1>5 DEF ReadVersion, Request
<1>7. Remembers(flow'[f], Len(orders'), Len(artifacts'))
  BY <1>1, <1>2, <1>3, <1>6 DEF Remembers, Unordering, Ensuring, Activating
<1> QED
  BY <1>3, <1>6, <1>7 DEF Advances

LEMMA DistributeMoves ==
  ASSUME RowsTyped, FlowTyped, NEW f \in Flow,
         Distribute(f) \/ Save(f) \/ ClearOthers(f) \/ Mark(f)
  PROVE  RowsGrow /\ Advances(f) /\ Len(artifacts') = Len(artifacts)
<1>1. /\ Remembers(flow[f], Len(orders), Len(artifacts))
      /\ Len(orders) \in Nat /\ Len(artifacts) \in Nat
      /\ artifacts \in [1..Len(artifacts) -> Artifact(Len(orders))]
  BY Before
<1>2. flow[f].at \in Activating /\ flow[f].at \notin Unordering
  BY DEF Distribute, Save, ClearOthers, Mark, At, Activating, Unordering
<1>3. flow[f].order \in 1..Len(orders) /\ flow[f].version \in 1..Len(artifacts)
  BY <1>1, <1>2 DEF Remembers
<1>4. RowsGrow /\ Len(artifacts') = Len(artifacts)
  <2>1. CASE Distribute(f)
    BY <1>3, <2>1, OrderStep DEF Distribute
  <2>2. CASE Save(f)
    <3>1. CASE UNCHANGED store
      BY <3>1, RowsStay DEF store
    <3>2. CASE certificate' = [version |-> flow[f].version, orphaned |-> FALSE]
      BY <1>1, <1>3, <2>2, <3>2 DEF Save, RowsTyped, RowsGrow
    <3> QED
      BY <2>2, <3>1, <3>2 DEF Save, Saves, store
  <2>3. CASE ClearOthers(f)
    <3>1. \A v \in 1..Len(artifacts) :
            [artifacts[v] EXCEPT !.current = FALSE] \in Artifact(Len(orders))
      BY <1>1 DEF Artifact
    <3>2. artifacts' \in [1..Len(artifacts) -> Artifact(Len(orders))]
      BY <1>1, <2>3, <3>1 DEF ClearOthers
    <3> QED
      BY <2>3, <3>2, ArtifactsStep DEF ClearOthers
  <2>4. CASE Mark(f)
    <3>1. artifacts' \in [1..Len(artifacts) -> Artifact(Len(orders))]
      BY <1>1, <1>3, <2>4 DEF Mark, Artifact
    <3> QED
      BY <2>4, <3>1, ArtifactsStep DEF Mark
  <2> QED
    BY <2>1, <2>2, <2>3, <2>4
<1>5. PICK place \in {"enqueue", "saveFirst", "clear", "mark", "complete"} : Goto(f, place)
  BY DEF Distribute, Save, Saves, ClearOthers, Mark
<1>6. place \in Place /\ place \in Activating
  BY <1>5 DEF Place, Issuing, Activating
<1> QED
  BY <1>2, <1>3, <1>4, <1>5, <1>6, WorksOn

(* An insertion of the row, or the exception of one that comes too late. *)
LEMMA FirstMoves ==
  ASSUME RowsTyped, FlowTyped, NEW f \in Flow, CatchFirst(f) \/ SaveFirst(f)
  PROVE  RowsGrow /\ Advances(f)
<1>1. /\ Remembers(flow[f], Len(orders), Len(artifacts))
      /\ Len(orders) \in Nat /\ Len(artifacts) \in Nat
  BY Before
<1>2. /\ flow[f].at \notin Unordering /\ Busy(f)
      /\ CatchFirst(f) => flow[f].task = "ensure"
      /\ SaveFirst(f) => flow[f].version \in 1..Len(artifacts)
  BY <1>1
  DEF CatchFirst, SaveFirst, At, Busy, Remembers, Unordering, Ensuring, Activating
<1>3. RowsGrow /\ Len(artifacts') = Len(artifacts)
  <2>1. CASE UNCHANGED store
    BY <2>1, RowsStay DEF store
  <2>2. CASE CatchFirst(f) /\ certificate' = [version |-> 0, orphaned |-> FALSE]
    BY <1>1, <2>2 DEF CatchFirst, RowsTyped, RowsGrow
  <2>3. CASE SaveFirst(f) /\ certificate' = [version |-> flow[f].version, orphaned |-> FALSE]
    BY <1>1, <1>2, <2>3 DEF SaveFirst, RowsTyped, RowsGrow
  <2> QED
    BY <2>1, <2>2, <2>3 DEF CatchFirst, SaveFirst, Saves, store
<1>4. {"fail", "clear"} \subseteq Place /\ "fail" \in Ensuring /\ "clear" \in Activating
  BY DEF Place, Issuing, Ensuring, Activating
<1>5. CASE CatchFirst(f) /\ Goto(f, "fail")
  BY <1>2, <1>3, <1>4, <1>5, WorksOn
<1>6. CASE SaveFirst(f) /\ Goto(f, "clear")
  BY <1>2, <1>3, <1>4, <1>6, WorksOn
<1>7. CASE Ends(f)
  BY <1>3, <1>7, EndMoves DEF Ends
<1>8. CASE Throws(f)
  BY <1>2, <1>3, <1>8, ThrowMoves
<1> QED
  BY <1>5, <1>6, <1>7, <1>8 DEF CatchFirst, SaveFirst, Saves

LEMMA RolloutMoves ==
  ASSUME RowsTyped, FlowTyped, NEW f \in Flow, Enqueue(f) \/ Settle(f)
  PROVE  /\ RowsGrow /\ Advances(f) /\ flow'[f].order = flow[f].order
         /\ flow'[f].version = flow[f].version
         /\ flow[f].version \in 1..Len(artifacts)
         /\ Enqueue(f) => flow'[f].at = "rollout"
         /\ Settle(f) => flow'[f].at \in {"save", "rolloutFailed"}
<1>1. /\ Remembers(flow[f], Len(orders), Len(artifacts))
      /\ flow \in [Flow -> Request]
      /\ Len(orders) \in Nat /\ Len(artifacts) \in Nat
  BY Before
<1>2. flow[f].at \in Activating /\ flow[f].at \notin Unordering
  BY DEF Enqueue, Settle, At, Activating, Unordering
<1>3. flow[f].order \in 1..Len(orders) /\ flow[f].version \in 1..Len(artifacts)
  BY <1>1, <1>2 DEF Remembers
<1>4. RowsGrow /\ UNCHANGED <<orders, artifacts>>
  BY RowsStay DEF Enqueue, Settle, store
<1>5. {"rollout", "save", "rolloutFailed"} \subseteq Place
  BY DEF Place, Issuing
<1>6. /\ flow' \in [Flow -> Request]
      /\ \A g \in Flow \ {f} : flow'[g] = flow[g]
      /\ flow'[f].order = flow[f].order /\ flow'[f].task = flow[f].task
      /\ flow'[f].version = flow[f].version
      /\ Enqueue(f) => flow'[f].at = "rollout"
      /\ Settle(f) => flow'[f].at \in {"save", "rolloutFailed"}
  <2>1. CASE Enqueue(f)
    <3>1. PICK targets \in SUBSET Node :
            flow' = [flow EXCEPT ![f].at = "rollout", ![f].waiting = targets]
      BY <2>1 DEF Enqueue
    <3>2. ~Settle(f)
      BY <2>1 DEF Enqueue, Settle, At
    <3> QED
      BY <1>1, <1>5, <3>1, <3>2 DEF Request
  <2>2. CASE Settle(f)
    <3>1. ~Enqueue(f)
      BY <2>2 DEF Enqueue, Settle, At
    <3>2. CASE Goto(f, "save")
      BY <1>1, <1>5, <3>1, <3>2, Goes
    <3>3. CASE flow' = [flow EXCEPT ![f].at = "rolloutFailed", ![f].waiting = {}]
      BY <1>1, <1>5, <3>1, <3>3 DEF Request
    <3> QED
      BY <2>2, <3>2, <3>3 DEF Settle
  <2> QED
    BY <2>1, <2>2
<1>7. Remembers(flow'[f], Len(orders'), Len(artifacts'))
  <2>1. flow'[f].at \in {"rollout", "save", "rolloutFailed"}
    BY <1>6
  <2> QED
    BY <1>1, <1>3, <1>4, <1>6, <2>1 DEF Remembers, Unordering, Ensuring, Activating
<1> QED
  BY <1>3, <1>4, <1>6, <1>7 DEF Advances

LEMMA StepMoves ==
  ASSUME RowsTyped, FlowTyped, NEW f \in Flow, Step(f)
  PROVE  RowsGrow /\ Advances(f)
<1>1. CASE FindActive(f) \/ FindFailed(f)
  BY <1>1, FindMoves
<1>2. CASE ResumeOrder(f)
  BY <1>2, ResumeMoves
<1>3. CASE CreateOrder(f)
  BY <1>3, CreateMoves
<1>4. CASE Lookup(f) \/ Enter(f) \/ Denied(f) \/ LastLook(f) \/ Recheck(f) \/ Catch(f)
  BY <1>4, EnsureMoves
<1>5. CASE Publish(f) \/ Obtain(f) \/ Supply(f)
  BY <1>5, IssueMoves
<1>6. CASE FailOrder(f) \/ FailMaterial(f) \/ FailActivation(f) \/ Complete(f)
  BY <1>6, SettleMoves
<1>7. CASE ReadVersion(f)
  BY <1>7, VersionMoves
<1>8. CASE RecordArtifact(f)
  BY <1>8, RecordMoves
<1>9. CASE Distribute(f) \/ Save(f) \/ ClearOthers(f) \/ Mark(f)
  BY <1>9, DistributeMoves
<1>10. CASE Enqueue(f) \/ Settle(f)
  BY <1>10, RolloutMoves
<1>11. CASE CatchFirst(f) \/ SaveFirst(f)
  BY <1>11, FirstMoves
<1> QED
  BY <1>1, <1>2, <1>3, <1>4, <1>5, <1>6, <1>7, <1>8, <1>9, <1>10, <1>11 DEF Step

(* The other requests remember what they did. *)
LEMMA FlowStep ==
  ASSUME RowsTyped, FlowTyped, RowsGrow, NEW f \in Flow, flow' \in [Flow -> Request],
         \A g \in Flow \ {f} : flow'[g] = flow[g],
         Remembers(flow'[f], Len(orders'), Len(artifacts'))
  PROVE  FlowTyped'
<1>1. /\ Len(orders) \in Nat /\ Len(artifacts) \in Nat
      /\ Len(orders') \in Nat /\ Len(artifacts') \in Nat
  BY LenProperties DEF RowsTyped, RowsGrow
<1>2. ASSUME NEW g \in Flow \ {f}
      PROVE  Remembers(flow'[g], Len(orders'), Len(artifacts'))
  BY <1>1, StillRemembers DEF FlowTyped, RowsGrow
<1> QED
  BY <1>2 DEF FlowTyped

\* A request comes in.
Arrives(f) ==
  \/ \E t \in Makes : Begin(f, t)
  \/ \E o \in DOMAIN orders : BeginRetry(f, o)
  \/ Rollback(f)

\* A request has an artifact to activate, and it is one of its order.
HasArtifact(f) ==
  flow[f].at \in Activating \/ (flow[f].at = "resume" /\ flow[f].version > 0)

OwnsArtifact(f) == artifacts[flow[f].version].order = flow[f].order

(* Requests that are kept apart by nothing but the lock. *)
Mixable(f, g) ==
  flow[f].task = "ensure" /\ flow[g].task = "ensure" /\ NodeOf[g] # NodeOf[f]

LEMMA StartMoves ==
  ASSUME RowsTyped, FlowTyped, NEW f \in Flow, NEW t, NEW r \in Request,
         Remembers(r, Len(orders), Len(artifacts)), Starts(f, t, r),
         t = "ensure" => r.task = "ensure"
  PROVE  /\ RowsGrow /\ FlowTyped'
         /\ At(f, "idle") /\ flow'[f] = r /\ \A g \in Flow \ {f} : flow'[g] = flow[g]
         /\ Overlaps \/ \A g \in Flow \ {f} : Busy(g) => Mixable(f, g)'
         /\ requests' = requests + 1
         /\ UNCHANGED <<store, lock, nodes, faults, sessionLost>>
<1>1. RowsGrow /\ UNCHANGED <<orders, artifacts>>
  BY RowsStay DEF Starts, store
<1>2. /\ flow' \in [Flow -> Request] /\ flow'[f] = r
      /\ \A g \in Flow \ {f} : flow'[g] = flow[g]
  BY Becomes DEF FlowTyped, Starts
<1>3. FlowTyped'
  BY <1>1, <1>2, FlowStep
<1>4. ASSUME ~Overlaps, NEW g \in Flow \ {f}, Busy(g)
      PROVE  Mixable(f, g)'
  <2>1. ~Unordered(f, t, g)
    BY <1>4 DEF Starts
  <2>2. t = "ensure" /\ flow[g].task = "ensure" /\ NodeOf[g] # NodeOf[f]
    <3>1. {t, flow[g].task} = {"ensure"} /\ NodeOf[g] # NodeOf[f]
      BY <1>4, <2>1 DEF Unordered
    <3> QED
      BY <3>1
  <2> QED
    BY <1>2, <2>2 DEF Mixable
<1> QED
  BY <1>1, <1>2, <1>3, <1>4 DEF Starts

LEMMA ArrivalMoves ==
  ASSUME RowsTyped, FlowTyped, NEW f \in Flow, Arrives(f)
  PROVE  /\ RowsGrow /\ FlowTyped'
         /\ At(f, "idle") /\ flow'[f].at \in {"find", "resume", "distribute"}
         /\ flow'[f].at = "distribute" => flow'[f].task # "ensure"
         /\ HasArtifact(f)' => OwnsArtifact(f)'
         /\ \A g \in Flow \ {f} : flow'[g] = flow[g]
         /\ Overlaps \/ \A g \in Flow \ {f} : Busy(g) => Mixable(f, g)'
         /\ requests' = requests + 1
         /\ UNCHANGED <<store, lock, nodes, faults, sessionLost>>
<1>1. /\ Len(orders) \in Nat /\ Len(artifacts) \in Nat
      /\ DOMAIN orders = 1..Len(orders) /\ DOMAIN artifacts = 1..Len(artifacts)
      /\ orders \in [1..Len(orders) -> Order]
      /\ artifacts \in [1..Len(artifacts) -> Artifact(Len(orders))]
      /\ Len(artifacts) \in 0 .. MaxArtifacts + 1
  BY Before DEF RowsTyped
<1>3. ASSUME NEW t \in Makes, Begin(f, t)
      PROVE  \E r \in Request :
               /\ Starts(f, t, r) /\ r.task = t /\ r.at = "find" /\ r.version = 0
               /\ Remembers(r, Len(orders), Len(artifacts))
  <2> DEFINE r == Doing("find", t, 0, 0)
  <2>1. /\ r.at = "find" /\ r.task = t /\ r.order = 0 /\ r.version = 0
        /\ r \in Request
    BY DEF Doing, Request, Place, Kind, Makes
  <2>2. Starts(f, t, r)
    BY <1>3 DEF Begin
  <2> HIDE DEF r
  <2>3. Remembers(r, Len(orders), Len(artifacts))
    BY <1>1, <2>1 DEF Remembers, Unordering, Ensuring, Activating
  <2> QED
    BY <2>1, <2>2, <2>3
<1>4. ASSUME NEW o \in DOMAIN orders, BeginRetry(f, o)
      PROVE  \E r \in Request :
               /\ Starts(f, "retry", r) /\ r.at = "resume"
               /\ r.version = 0 \/ artifacts[r.version].order = r.order
               /\ Remembers(r, Len(orders), Len(artifacts))
  <2> DEFINE own == {v \in DOMAIN artifacts : artifacts[v].order = o}
  <2>1. CASE own # {}
    <3> DEFINE r == Doing("resume", "retry", o, Latest(own))
    <3>1. Latest(own) \in 1..Len(artifacts) /\ artifacts[Latest(own)].order = o
      <4>1. own \in SUBSET (1..Len(artifacts))
        BY <1>1
      <4>2. Latest(own) \in own
        <5> HIDE DEF own
        <5> QED
          BY <1>1, <2>1, <4>1, LatestIn
      <4> QED
        BY <4>1, <4>2
    <3>2. Starts(f, "retry", r)
      BY <1>4, <2>1 DEF BeginRetry
    <3> HIDE DEF own
    <3>3. /\ r.at = "resume" /\ r.task = "retry" /\ r.order = o /\ r.version = Latest(own)
          /\ r \in Request
      BY <1>1, <3>1 DEF Doing, Request, Place, Kind
    <3> HIDE DEF r
    <3>4. Remembers(r, Len(orders), Len(artifacts))
      BY <1>1, <3>1, <3>3 DEF Remembers, Unordering, Ensuring, Activating
    <3> QED
      BY <3>1, <3>2, <3>3, <3>4
  <2>2. CASE own = {}
    <3> DEFINE r == Doing("resume", orders[o].source, o, 0)
    <3>1. orders[o].source \in Makes
      BY <1>1 DEF Order
    <3>2. Starts(f, "retry", r)
      BY <1>4, <2>2 DEF BeginRetry
    <3>3. /\ r.at = "resume" /\ r.task = orders[o].source /\ r.order = o /\ r.version = 0
          /\ r \in Request
      BY <1>1, <3>1 DEF Doing, Request, Place, Kind, Makes
    <3> HIDE DEF r
    <3>4. Remembers(r, Len(orders), Len(artifacts))
      BY <1>1, <3>1, <3>3 DEF Remembers, Unordering, Ensuring, Activating
    <3> QED
      BY <3>2, <3>3, <3>4
  <2> QED
    BY <2>1, <2>2
<1>5. ASSUME Rollback(f)
      PROVE  \E r \in Request :
               /\ Starts(f, "rollback", r) /\ r.at = "distribute" /\ r.task = "rollback"
               /\ artifacts[r.version].order = r.order
               /\ Remembers(r, Len(orders), Len(artifacts))
  <2> DEFINE earlier == {v \in DOMAIN artifacts : v < Latest(Current) /\ artifacts[v].activated}
             r == Doing("distribute", "rollback", artifacts[Latest(earlier)].order,
                        Latest(earlier))
  <2>1. earlier # {} /\ Starts(f, "rollback", r)
    BY <1>5 DEF Rollback
  <2>2. Latest(earlier) \in 1..Len(artifacts)
    <3>1. earlier \in SUBSET (1..Len(artifacts))
      BY <1>1
    <3> HIDE DEF earlier
    <3> QED
      BY <1>1, <2>1, <3>1, LatestIn
  <2> HIDE DEF earlier
  <2>3. artifacts[Latest(earlier)].order \in 1..Len(orders)
    BY <1>1, <2>2 DEF Artifact
  <2>4. /\ r.at = "distribute" /\ r.task = "rollback" /\ r.version = Latest(earlier)
        /\ r.order = artifacts[Latest(earlier)].order
        /\ r \in Request
    BY <1>1, <2>2, <2>3 DEF Doing, Request, Place, Issuing, Kind
  <2> HIDE DEF r
  <2>5. Remembers(r, Len(orders), Len(artifacts))
    BY <1>1, <2>2, <2>3, <2>4 DEF Remembers, Unordering, Ensuring, Activating
  <2> QED
    BY <2>1, <2>4, <2>5
<1>6. \E t, r : /\ r \in Request /\ Starts(f, t, r)
                /\ r.at \in {"find", "resume", "distribute"}
                /\ r.at = "distribute" => r.task # "ensure"
                /\ r.version = 0 \/ artifacts[r.version].order = r.order
                /\ Remembers(r, Len(orders), Len(artifacts))
                /\ t = "ensure" => r.task = "ensure"
  BY <1>3, <1>4, <1>5 DEF Arrives
<1>7. PICK t, r : /\ r \in Request /\ Starts(f, t, r)
                  /\ r.at \in {"find", "resume", "distribute"}
                  /\ r.at = "distribute" => r.task # "ensure"
                  /\ r.version = 0 \/ artifacts[r.version].order = r.order
                  /\ Remembers(r, Len(orders), Len(artifacts))
                  /\ t = "ensure" => r.task = "ensure"
  BY <1>6
<1>8. /\ RowsGrow /\ FlowTyped'
      /\ At(f, "idle") /\ flow'[f] = r /\ \A g \in Flow \ {f} : flow'[g] = flow[g]
      /\ Overlaps \/ \A g \in Flow \ {f} : Busy(g) => Mixable(f, g)'
      /\ requests' = requests + 1
      /\ UNCHANGED <<store, lock, nodes, faults, sessionLost>>
  BY <1>7, StartMoves
<1>9. HasArtifact(f)' => OwnsArtifact(f)'
  <2>1. UNCHANGED artifacts /\ flow'[f] = r
    BY <1>8 DEF store
  <2>2. r.at \in Activating => r.version # 0
    BY <1>1, <1>7 DEF Remembers
  <2>3. HasArtifact(f)' => r.version # 0
    BY <2>1, <2>2 DEF HasArtifact
  <2> QED
    BY <1>7, <2>1, <2>3 DEF OwnsArtifact
<1> QED
  BY <1>7, <1>8, <1>9

-----------------------------------------------------------------------------
(* The lock, the calls and the disks.                                      *)

\* A request goes on, is rejected, or has an exception.
Works(f) == Step(f) \/ RejectUpload(f) \/ Fault(f)

LEMMA WorkMoves ==
  ASSUME RowsTyped, FlowTyped, NEW f \in Flow, Works(f)
  PROVE  RowsGrow /\ Advances(f)
<1>1. CASE RejectUpload(f)
  BY <1>1, RowsStay, EndMoves DEF RejectUpload, Ends
<1>2. CASE Fault(f)
  BY <1>2, RowsStay, ThrowMoves DEF Fault
<1> QED
  BY <1>1, <1>2, StepMoves DEF Works

(* A request takes the lock on its way to the second look, and gives it up *)
(* when it is over.                                                        *)
Enters(f) ==
  /\ lock' = lock \cup {f} /\ At(f, "lock") /\ At(f, "recheck")'
  /\ \A g \in lock : NodeOf[g] = NodeOf[f]

Leaves(f) == lock' = lock \ {f} /\ flow'[f] = Idle

Stays(f) ==
  /\ UNCHANGED lock
  /\ f \in lock => flow'[f].at \in Held
  /\ flow'[f].at \in Locked /\ flow'[f].task = "ensure" => flow[f].at \in Locked

LEMMA WorkLock ==
  ASSUME RowsTyped, FlowTyped, LockTyped, NEW f \in Flow, Works(f)
  PROVE  Enters(f) \/ Leaves(f) \/ Stays(f)
<1>0. /\ Remembers(flow[f], Len(orders), Len(artifacts))
      /\ flow \in [Flow -> Request]
      /\ Advances(f)
  BY Before, WorkMoves
<1>1. f \in lock => flow[f].at \in Held /\ flow[f].task = "ensure"
  BY DEF LockTyped
<1>2. CASE Enter(f)
  <2>1. At(f, "recheck")'
    BY <1>0, <1>2, Goes DEF Enter, At, Place, Issuing
  <2> QED
    BY <1>2, <2>1 DEF Enter, Enters
<1>3. CASE FailOrder(f) \/ FailMaterial(f) \/ FailActivation(f) \/ Complete(f) \/ RejectUpload(f)
  <2>1. Ends(f)
    BY <1>3 DEF FailOrder, FailMaterial, FailActivation, Complete, RejectUpload
  <2> QED
    BY <1>0, <2>1 DEF Ends, Leaves
<1>4. CASE Throws(f) /\ RowsGrow /\ Busy(f)
  <2>1. \/ flow'[f] = Idle /\ lock' = lock \ {f}
        \/ flow'[f].at = "catch" /\ flow[f].at \in Issuing /\ UNCHANGED lock
        \/ /\ flow'[f].at = "failMaterial" /\ flow[f].task \in {"upload", "selfSigned"}
           /\ UNCHANGED lock
    BY <1>4, ThrowMoves
  <2>2. "catch" \in Held /\ Issuing \subseteq Locked /\ "failMaterial" \notin Locked
    BY DEF Held, Locked, Issuing
  <2> QED
    BY <1>1, <2>1, <2>2 DEF Leaves, Stays
<1>5. ASSUME UNCHANGED lock, flow[f].at \in Locked, flow'[f].at \in Held
      PROVE  Stays(f)
  BY <1>5 DEF Stays
<1>6. ASSUME UNCHANGED lock, flow[f].at \notin Held,
             flow'[f].at \notin Locked \/ flow[f].task \notin {"ensure"},
             flow'[f].task = flow[f].task \/ flow'[f] = Idle
      PROVE  Stays(f)
  <2>1. Idle.at \notin Locked
    BY DEF Idle, Doing, Locked, Issuing
  <2> QED
    BY <1>1, <1>6, <2>1 DEF Stays
<1>7. CASE Recheck(f) \/ Publish(f) \/ Obtain(f) \/ Catch(f) \/ Distribute(f) \/ Save(f)
           \/ ClearOthers(f) \/ Mark(f)
  <2>1. UNCHANGED lock /\ flow[f].at \in Locked
    BY <1>7
    DEF Recheck, Publish, Obtain, Catch, Distribute, Save, ClearOthers, Mark, At, Locked, Issuing
  <2>2. PICK place \in {"reused", "publish", "acme", "version", "catch", "fail", "enqueue",
                        "saveFirst", "catchFirst", "clear", "mark", "complete"} :
          Goto(f, place)
    BY <1>7
    DEF Recheck, Publish, Obtain, Catch, Distribute, Save, Saves, ClearOthers, Mark, Reuse
  <2>3. place \in Place /\ place \in Held
    BY <2>2 DEF Place, Held, Locked, Issuing
  <2> QED
    BY <1>0, <1>5, <2>1, <2>2, <2>3, Goes
<1>8. CASE Enqueue(f) \/ Settle(f)
  <2>1. UNCHANGED lock /\ flow[f].at \in Locked
    BY <1>8 DEF Enqueue, Settle, At, Locked, Issuing
  <2>2. flow'[f].at \in {"rollout", "save", "rolloutFailed"}
    BY <1>8, RolloutMoves
  <2> QED
    BY <1>5, <2>1, <2>2 DEF Held, Locked, Issuing
<1>9. CASE ReadVersion(f)
  <2>1. UNCHANGED lock /\ flow[f].at \in Locked /\ flow'[f].at = "record"
    BY <1>0, <1>9 DEF ReadVersion, At, Locked, Issuing, Request
  <2> QED
    BY <1>5, <2>1 DEF Held, Locked, Issuing
<1>10. CASE RecordArtifact(f)
  <2>1. flow[f].at \in Locked /\ Busy(f)
    BY <1>10 DEF RecordArtifact, At, Busy, Locked, Issuing
  <2>2. CASE Goto(f, "distribute") /\ UNCHANGED lock
    <3>1. "distribute" \in Place /\ "distribute" \in Held
      BY DEF Place, Held, Locked, Issuing
    <3> QED
      BY <1>0, <1>5, <2>1, <2>2, <3>1, Goes
  <2>3. CASE Throws(f)
    BY <1>4, <1>10, <2>1, <2>3, WorkMoves
  <2> QED
    BY <1>10, <2>2, <2>3 DEF RecordArtifact
<1>11. CASE Fault(f)
  BY <1>4, <1>11, WorkMoves DEF Fault
<1>12. CASE Lookup(f) \/ Denied(f) \/ LastLook(f) \/ FindActive(f) \/ FindFailed(f)
            \/ ResumeOrder(f) \/ CreateOrder(f) \/ Supply(f)
  <2>1. UNCHANGED lock
    BY <1>12 DEF Lookup, Denied, LastLook, FindActive, FindFailed, ResumeOrder, CreateOrder,
                 Supply
  <2>2. flow[f].at \in {"lookup", "lock", "lastLook", "find", "findFailed", "resume", "create",
                        "supply"}
    BY <1>12 DEF Lookup, Denied, LastLook, FindActive, FindFailed, ResumeOrder, CreateOrder,
                 Supply, At
  <2>3. flow[f].at \notin Held
    BY <2>2 DEF Held, Locked, Issuing
  <2>4. flow'[f].at \notin Locked \/ flow[f].task \notin {"ensure"}
    <3>1. CASE Supply(f)
      BY <1>0, <3>1 DEF Supply, At, Remembers
    <3>2. CASE ResumeOrder(f) /\ flow[f].version > 0
      BY <1>0, <3>2 DEF ResumeOrder, At, Remembers
    <3>3. ASSUME NEW place \in Place, Goto(f, place), place \notin Locked
          PROVE  flow'[f].at \notin Locked
      BY <1>0, <3>3, Goes
    <3>4. /\ \A t : Work(t) \notin Locked
          /\ {"lock", "reused", "fail", "lastLook", "findFailed", "create", "resume"}
               \subseteq Place \ Locked
      BY DEF Work, Locked, Issuing, Place
    <3>5. CASE Lookup(f) \/ Denied(f) \/ LastLook(f)
      BY <3>3, <3>4, <3>5 DEF Lookup, Denied, LastLook, Reuse, RateLimited
    <3>6. CASE ResumeOrder(f) /\ ~(flow[f].version > 0)
      BY <3>3, <3>4, <3>6, WorkIsPlace DEF ResumeOrder
    <3>7. CASE CreateOrder(f) /\ ~(Len(orders) < MaxOrders)
      BY <1>0, <3>7 DEF CreateOrder, Idle, Doing, Locked, Issuing
    <3>8. ASSUME NEW o, NEW place, TakesOrder(f, o, place)
          PROVE  flow'[f].at = place
      BY <1>0, <3>8 DEF TakesOrder, Request
    <3>9. CASE CreateOrder(f) /\ Len(orders) < MaxOrders
      BY <3>4, <3>8, <3>9 DEF CreateOrder
    <3>10. CASE FindActive(f)
      BY <3>3, <3>4, <3>8, <3>10 DEF FindActive
    <3>11. CASE FindFailed(f)
      BY <3>3, <3>4, <3>8, <3>11 DEF FindFailed
    <3> QED
      BY <1>12, <3>1, <3>2, <3>5, <3>6, <3>7, <3>9, <3>10, <3>11
  <2> QED
    BY <1>0, <1>6, <2>1, <2>3, <2>4 DEF Advances
<1>13. CASE CatchFirst(f) \/ SaveFirst(f)
  <2>1. flow[f].at \in Locked /\ Busy(f)
    BY <1>13 DEF CatchFirst, SaveFirst, At, Busy, Locked, Issuing
  <2>2. ASSUME NEW place \in {"fail", "clear"}, Goto(f, place), UNCHANGED lock
        PROVE  Stays(f)
    <3>1. place \in Place /\ place \in Held
      BY DEF Place, Held, Locked, Issuing
    <3> QED
      BY <1>0, <1>5, <2>1, <2>2, <3>1, Goes
  <2>3. CASE Throws(f)
    BY <1>4, <1>13, <2>1, <2>3, FirstMoves
  <2>4. CASE Ends(f)
    BY <1>0, <2>4 DEF Ends, Leaves
  <2> QED
    BY <1>13, <2>2, <2>3, <2>4 DEF CatchFirst, SaveFirst, Saves
<1> QED
  BY <1>2, <1>3, <1>7, <1>8, <1>9, <1>10, <1>11, <1>12, <1>13 DEF Works, Step

(* A lock kept in this way has only requests that rely on it. *)
LEMMA LockStep ==
  ASSUME RowsTyped, FlowTyped, LockTyped, NEW f \in Flow, Advances(f),
         Enters(f) \/ Leaves(f) \/ Stays(f)
  PROVE  LockTyped'
<1>1. Remembers(flow[f], Len(orders), Len(artifacts))
  BY Before
<1>2. CASE Enters(f)
  <2>1. flow[f].task = "ensure" /\ flow'[f].at = "recheck"
    BY <1>1, <1>2 DEF Enters, At, Remembers, Ensuring
  <2>2. flow'[f].task = "ensure" /\ flow'[f].at \in Held
    BY <2>1 DEF Advances, Idle, Doing, Held, Locked
  <2> QED
    BY <1>2, <2>2 DEF Enters, Advances, LockTyped
<1>3. CASE Leaves(f)
  BY <1>3 DEF Leaves, Advances, LockTyped
<1>4. CASE Stays(f)
  <2>1. f \in lock => flow'[f].task = "ensure"
    BY DEF Advances, LockTyped, Idle, Doing
  <2> QED
    BY <1>4, <2>1 DEF Stays, Advances, LockTyped
<1> QED
  BY <1>2, <1>3, <1>4

(* The calls that are left are calls as before, or awaited by nobody. *)
LEMMA UnawaitedCalls ==
  ASSUME CallsTyped, NEW F \in SUBSET Flow, NEW X \in Unawaited(F), NEW c \in X
  PROVE  /\ c \in Call(Len(artifacts))
         /\ c.by # Nobody => c \in calls /\ c.by \notin F
<1> DEFINE late == {d \in calls : d.by = Nobody}
                     \cup {[d EXCEPT !.by = Nobody] : d \in {e \in calls : e.by \in F}}
<1>1. PICK L \in SUBSET late : X = {d \in calls : d.by \notin F \cup {Nobody}} \cup L
  BY DEF Unawaited
<1>2. CASE c \in {d \in calls : d.by \notin F \cup {Nobody}}
  BY <1>2 DEF CallsTyped
<1>3. CASE c \in {d \in calls : d.by = Nobody}
  BY <1>3 DEF CallsTyped
<1>4. CASE c \in {[d EXCEPT !.by = Nobody] : d \in {e \in calls : e.by \in F}}
  <2>1. PICK d \in calls : c = [d EXCEPT !.by = Nobody]
    BY <1>4
  <2>2. d \in Call(Len(artifacts))
    BY DEF CallsTyped
  <2> QED
    BY <2>1, <2>2 DEF Call
<1> QED
  BY <1>1, <1>2, <1>3, <1>4

LEMMA CallsStay ==
  ASSUME RowsTyped, RowsGrow, CallsTyped
  PROVE  calls \subseteq Call(Len(artifacts'))
<1>1. Len(artifacts) \in Nat /\ Len(artifacts') \in Nat
  BY LenProperties DEF RowsTyped, RowsGrow
<1>2. 1..Len(artifacts) \subseteq 1..Len(artifacts')
  BY <1>1 DEF RowsGrow
<1> QED
  BY <1>2 DEF CallsTyped, Call

LEMMA CallsStep ==
  ASSUME RowsTyped, FlowTyped, CallsTyped, NEW f \in Flow, Works(f)
  PROVE  CallsTyped'
<1>0. RowsGrow /\ Advances(f)
  BY WorkMoves
<1>1. CASE Fault(f) \/ Settle(f)
  <2>1. calls' \in Unawaited({f}) /\ UNCHANGED artifacts
    BY <1>1 DEF Fault, Settle, store
  <2>2. ASSUME NEW c \in calls'
        PROVE  c \in Call(Len(artifacts)) /\ (c.by # Nobody => c \in calls /\ c.by \notin {f})
    BY <2>1, UnawaitedCalls
  <2>3. ASSUME NEW c \in calls', c.by # Nobody
        PROVE  At(c.by, "rollout")'
    <3>1. At(c.by, "rollout") /\ c.by \in Flow \ {f}
      BY <2>2, <2>3 DEF CallsTyped, Call
    <3> QED
      BY <1>0, <3>1 DEF Advances, At
  <2> QED
    BY <2>1, <2>2, <2>3 DEF CallsTyped
<1>2. CASE Enqueue(f)
  <2>1. PICK targets \in SUBSET Node :
          calls' = calls \cup [by : {f}, node : targets, version : {flow[f].version}]
    BY <1>2 DEF Enqueue
  <2>2. /\ flow[f].version \in 1..Len(artifacts) /\ UNCHANGED artifacts
        /\ flow'[f].at = "rollout"
    BY <1>2, RolloutMoves DEF Enqueue, store
  <2>3. [by : {f}, node : targets, version : {flow[f].version}] \subseteq Call(Len(artifacts))
    BY <2>2 DEF Call
  <2>4. calls' \subseteq Call(Len(artifacts'))
    BY <2>1, <2>2, <2>3 DEF CallsTyped
  <2>5. ASSUME NEW c \in calls', c.by # Nobody
        PROVE  At(c.by, "rollout")'
    <3>1. CASE c.by = f
      BY <2>2, <3>1 DEF At
    <3>2. CASE c.by # f
      <4>1. c \in calls
        BY <2>1, <3>2
      <4>2. c.by \in Flow \ {f} /\ At(c.by, "rollout")
        BY <2>5, <3>2, <4>1 DEF CallsTyped, Call
      <4> QED
        BY <1>0, <4>2 DEF Advances, At
    <3> QED
      BY <3>1, <3>2
  <2> QED
    BY <2>4, <2>5 DEF CallsTyped
<1>3. CASE ~Fault(f) /\ ~Settle(f) /\ ~Enqueue(f)
  <2>1. UNCHANGED calls /\ flow[f].at # "rollout"
    BY <1>3 DEF Works, Step, RejectUpload, FindActive, FindFailed, ResumeOrder, CreateOrder,
      Lookup, Enter, Denied, LastLook, Recheck, Publish, Obtain, Catch, CatchFirst, FailOrder,
      Supply, FailMaterial, ReadVersion, RecordArtifact, Distribute, FailActivation, Save,
      SaveFirst, ClearOthers, Mark, Complete, nodes, At
  <2>2. calls' \subseteq Call(Len(artifacts'))
    BY <1>0, <2>1, CallsStay
  <2>3. ASSUME NEW c \in calls, c.by # Nobody
        PROVE  At(c.by, "rollout")'
    <3>1. c.by \in Flow /\ At(c.by, "rollout")
      BY <2>3 DEF CallsTyped, Call
    <3>2. c.by # f
      BY <2>1, <3>1 DEF At
    <3> QED
      BY <1>0, <3>1, <3>2 DEF Advances, At
  <2> QED
    BY <2>1, <2>2, <2>3 DEF CallsTyped
<1> QED
  BY <1>1, <1>2, <1>3

LEMMA DisksStay ==
  ASSUME RowsTyped, RowsGrow, DisksTyped, UNCHANGED <<installed, copy>>
  PROVE  DisksTyped'
<1>1. Len(artifacts) \in Nat /\ Len(artifacts') \in Nat
  BY LenProperties DEF RowsTyped, RowsGrow
<1>2. 0..Len(artifacts) \subseteq 0..Len(artifacts')
  BY <1>1 DEF RowsGrow
<1> QED
  BY <1>2 DEF DisksTyped

LEMMA DisksStep ==
  ASSUME RowsTyped, FlowTyped, DisksTyped, NEW f \in Flow, Works(f)
  PROVE  DisksTyped'
<1>1. CASE Lookup(f) \/ LastLook(f) \/ Recheck(f)
  <2>1. UNCHANGED <<artifacts, copy>>
    BY <1>1 DEF Lookup, LastLook, Recheck, store
  <2>2. \/ UNCHANGED installed
        \/ /\ installed' = [installed EXCEPT ![NodeOf[f]] = certificate.version]
           /\ certificate.version > 0
    BY <1>1 DEF Lookup, LastLook, Recheck, Reuse, RateLimited, Installs, Usable
  <2>3. certificate.version \in {Missing} \cup 0..Len(artifacts)
    BY DEF RowsTyped
  <2> QED
    BY <2>1, <2>2, <2>3 DEF DisksTyped, Missing
<1>2. CASE ~Lookup(f) /\ ~LastLook(f) /\ ~Recheck(f)
  <2>1. UNCHANGED <<installed, copy>>
    BY <1>2 DEF Works, Step, RejectUpload, Fault, FindActive, FindFailed, ResumeOrder,
      CreateOrder, Enter, Denied, Publish, Obtain, Catch, CatchFirst, FailOrder, Supply,
      FailMaterial, ReadVersion, RecordArtifact, Distribute, Enqueue, Settle, FailActivation,
      Save, SaveFirst, ClearOthers, Mark, Complete, nodes
  <2> QED
    BY <2>1, WorkMoves, DisksStay
<1> QED
  BY <1>1, <1>2

LEMMA CountsStep ==
  ASSUME CountsTyped, NEW f \in Flow, Works(f)
  PROVE  CountsTyped' /\ UNCHANGED sessionLost
<1>1. CASE Fault(f)
  BY <1>1 DEF Fault, Faulty, CountsTyped
<1>2. CASE Step(f) \/ RejectUpload(f)
  <2>1. UNCHANGED history
    BY <1>2 DEF Step, RejectUpload, FindActive, FindFailed, ResumeOrder, CreateOrder,
      Lookup, Enter, Denied, LastLook, Recheck, Publish, Obtain, Catch, CatchFirst, FailOrder,
      Supply, FailMaterial, ReadVersion, RecordArtifact, Distribute, Enqueue, Settle,
      FailActivation, Save, SaveFirst, ClearOthers, Mark, Complete
  <2> QED
    BY <1>2, <2>1 DEF history, CountsTyped
<1> QED
  BY <1>1, <1>2 DEF Works

LEMMA WorkTypes ==
  ASSUME TypeInv, NEW f \in Flow, Works(f)
  PROVE  TypeInv'
<1>1. RowsGrow /\ Advances(f)
  BY WorkMoves DEF TypeInv
<1>2. RowsTyped' /\ FlowTyped'
  BY <1>1, FlowStep DEF TypeInv, RowsGrow, Advances
<1>3. LockTyped'
  BY <1>1, WorkLock, LockStep DEF TypeInv
<1> QED
  BY <1>2, <1>3, CallsStep, DisksStep, CountsStep DEF TypeInv

-----------------------------------------------------------------------------
(* The other steps.                                                        *)

LEMMA ArrivalTypes ==
  ASSUME TypeInv, NEW f \in Flow, Arrives(f)
  PROVE  TypeInv'
<1>1. /\ RowsGrow /\ FlowTyped'
      /\ At(f, "idle") /\ \A g \in Flow \ {f} : flow'[g] = flow[g]
      /\ requests' = requests + 1
      /\ UNCHANGED <<store, lock, nodes, faults, sessionLost>>
  BY ArrivalMoves DEF TypeInv
<1>2. UNCHANGED <<orders, artifacts, certificate, calls, installed, copy>>
  BY <1>1 DEF store, nodes
<1>3. f \notin lock
  BY <1>1 DEF TypeInv, LockTyped, At, Held, Locked, Issuing
<1>4. LockTyped'
  BY <1>1, <1>3 DEF TypeInv, LockTyped
<1>5. ASSUME NEW c \in calls, c.by # Nobody
      PROVE  At(c.by, "rollout")'
  <2>1. c.by \in Flow /\ At(c.by, "rollout")
    BY <1>5 DEF TypeInv, CallsTyped, Call
  <2> QED
    BY <1>1, <2>1 DEF At
<1>6. CallsTyped'
  BY <1>2, <1>5 DEF TypeInv, CallsTyped
<1>7. RowsTyped' /\ DisksTyped' /\ CountsTyped'
  BY <1>1, <1>2, DisksStay DEF TypeInv, RowsGrow, CountsTyped
<1> QED
  BY <1>1, <1>4, <1>6, <1>7 DEF TypeInv

LEMMA ActivateTypes ==
  ASSUME TypeInv, NEW c \in calls, Activate(c)
  PROVE  /\ TypeInv'
         /\ \A f \in Flow : /\ flow'[f].at = flow[f].at /\ flow'[f].task = flow[f].task
                            /\ flow'[f].order = flow[f].order
                            /\ flow'[f].version = flow[f].version
<1>1. c \in Call(Len(artifacts))
  BY DEF TypeInv, CallsTyped
<1>2. /\ UNCHANGED <<orders, artifacts, certificate, lock, copy, requests, faults, sessionLost>>
      /\ calls' = calls \ {c}
  BY DEF Activate, store, history
<1>3. installed' \in [Node -> 0..Len(artifacts)]
  <2>1. c.version \in 0..Len(artifacts)
    BY <1>1, RowFacts DEF Call, TypeInv
  <2>2. UNCHANGED installed \/ installed' = [installed EXCEPT ![c.node] = c.version]
    BY DEF Activate
  <2> QED
    BY <2>1, <2>2 DEF TypeInv, DisksTyped
<1>4. /\ flow' \in [Flow -> Request]
      /\ \A f \in Flow : /\ flow'[f].at = flow[f].at /\ flow'[f].task = flow[f].task
                         /\ flow'[f].order = flow[f].order
                         /\ flow'[f].version = flow[f].version
  <2>1. CASE UNCHANGED flow
    BY <2>1 DEF TypeInv, FlowTyped
  <2>2. CASE c.by # Nobody /\ flow' = [flow EXCEPT ![c.by].waiting = @ \ {c.node}]
    <3>1. c.by \in Flow /\ flow \in [Flow -> Request]
      BY <1>1, <2>2 DEF Call, TypeInv, FlowTyped
    <3> QED
      BY <2>2, <3>1 DEF Request
  <2> QED
    BY <2>1, <2>2 DEF Activate
<1>5. FlowTyped' /\ LockTyped'
  BY <1>2, <1>4 DEF TypeInv, FlowTyped, LockTyped, Remembers
<1>6. CallsTyped'
  BY <1>2, <1>4 DEF TypeInv, CallsTyped, Call, At
<1>7. RowsTyped' /\ DisksTyped' /\ CountsTyped'
  BY <1>2, <1>3 DEF TypeInv, RowsTyped, DisksTyped, CountsTyped
<1> QED
  BY <1>4, <1>5, <1>6, <1>7 DEF TypeInv

LEMMA WindowTypes ==
  ASSUME TypeInv, NEW o \in DOMAIN orders, OpenWindow(o)
  PROVE  TypeInv'
<1>1. o \in 1..Len(orders)
  BY RowFacts DEF TypeInv
<1>2. /\ UNCHANGED <<artifacts, certificate, flow, lock, calls, installed, copy, requests,
                     faults, sessionLost>>
      /\ OrderBecomes(o, "failed", "open")
  BY DEF OpenWindow, nodes, history
<1>3. RowsGrow /\ Len(orders') = Len(orders)
  BY <1>1, <1>2, OrderStep DEF TypeInv
<1> QED
  BY <1>2, <1>3 DEF TypeInv, RowsGrow, FlowTyped, LockTyped, CallsTyped, DisksTyped,
                    CountsTyped, At

LEMMA SyncTypes ==
  ASSUME TypeInv, NEW n \in Node, Sync(n)
  PROVE  TypeInv'
<1>1. UNCHANGED <<orders, artifacts, flow, lock, calls, requests, faults, sessionLost>>
  BY DEF Sync, ReadCertificate, SyncCertificate, store, history
<1>2. certificate' \in [version : {Missing} \cup 0..Len(artifacts), orphaned : BOOLEAN]
  <2>1. \/ UNCHANGED certificate
        \/ certificate' = [certificate EXCEPT !.orphaned = TRUE]
    BY DEF Sync, ReadCertificate, SyncCertificate, store
  <2> QED
    BY <2>1 DEF TypeInv, RowsTyped
<1>3. /\ installed' \in [Node -> 0..Len(artifacts)]
      /\ copy' \in [Node -> {Missing} \cup 0..Len(artifacts)]
  <2>1. CASE ReadCertificate(n)
    BY <2>1 DEF ReadCertificate, TypeInv, DisksTyped, RowsTyped
  <2>2. CASE SyncCertificate(n)
    <3>1. copy[n] \in 0..Len(artifacts)
      BY <2>2 DEF SyncCertificate, TypeInv, DisksTyped
    <3>2. installed' = [installed EXCEPT ![n] = copy[n]] \/ UNCHANGED installed
      BY <2>2 DEF SyncCertificate
    <3>3. copy' = [copy EXCEPT ![n] = Missing]
      BY <2>2 DEF SyncCertificate
    <3> QED
      BY <3>1, <3>2, <3>3 DEF TypeInv, DisksTyped
  <2> QED
    BY <2>1, <2>2 DEF Sync
<1>4. RowsTyped' /\ FlowTyped' /\ LockTyped'
  BY <1>1, <1>2 DEF TypeInv, RowsTyped, FlowTyped, LockTyped
<1>5. CallsTyped' /\ DisksTyped' /\ CountsTyped'
  BY <1>1, <1>3 DEF TypeInv, CallsTyped, DisksTyped, CountsTyped, At
<1> QED
  BY <1>4, <1>5 DEF TypeInv

LEMMA AgeTypes ==
  ASSUME TypeInv, Age
  PROVE  /\ TypeInv'
         /\ Len(artifacts') = Len(artifacts)
         /\ \A v \in 1..Len(artifacts) : /\ artifacts'[v].current = artifacts[v].current
                                        /\ artifacts'[v].order = artifacts[v].order
         /\ Usable' => Usable
<1>1. /\ UNCHANGED <<orders, certificate, flow, lock, calls, installed, copy, requests,
                     faults, sessionLost>>
      /\ certificate.version > 0
      /\ artifacts' = [artifacts EXCEPT ![certificate.version].fresh = FALSE]
  BY DEF Age, nodes, history
<1>2. /\ artifacts \in [1..Len(artifacts) -> Artifact(Len(orders))]
      /\ Len(artifacts) \in Nat
  BY RowFacts DEF TypeInv
<1>3. certificate.version \in 1..Len(artifacts)
  BY <1>1, <1>2 DEF TypeInv, RowsTyped, Missing
<1>4. /\ artifacts' \in [1..Len(artifacts) -> Artifact(Len(orders))]
      /\ \A v \in 1..Len(artifacts) : /\ artifacts'[v].current = artifacts[v].current
                                     /\ artifacts'[v].order = artifacts[v].order
      /\ ~artifacts'[certificate.version].fresh
  BY <1>1, <1>2, <1>3 DEF Artifact
<1>5. RowsGrow /\ Len(artifacts') = Len(artifacts)
  BY <1>1, <1>4, ArtifactsStep DEF TypeInv
<1>6. TypeInv'
  BY <1>1, <1>5 DEF TypeInv, RowsGrow, FlowTyped, LockTyped, CallsTyped, DisksTyped,
                    CountsTyped, At
<1> QED
  BY <1>1, <1>4, <1>5, <1>6 DEF Usable

LEMMA CrashTypes ==
  ASSUME TypeInv, NEW n \in Node, Crash(n)
  PROVE  /\ TypeInv'
         /\ \A f \in Flow : NodeOf[f] = n => flow'[f] = Idle
         /\ \A f \in Flow : NodeOf[f] # n => flow'[f] = flow[f]
<1> DEFINE mine == {f \in Flow : NodeOf[f] = n}
<1>1. /\ UNCHANGED <<orders, artifacts, certificate, installed, requests, sessionLost>>
      /\ faults' = faults + 1 /\ lock' = lock \ mine
      /\ flow' = [f \in Flow |-> IF f \in mine THEN Idle ELSE flow[f]]
      /\ copy' = [copy EXCEPT ![n] = Missing]
  BY DEF Crash, Faulty, store
<1>2. PICK kept \in Unawaited(mine) : calls' = {c \in kept : c.node # n}
  BY DEF Crash
<1>3. \A f \in Flow : /\ f \in mine => flow'[f] = Idle
                      /\ f \notin mine => flow'[f] = flow[f]
  BY <1>1
<1>4. FlowTyped'
  <2>1. Len(orders) \in Nat /\ Len(artifacts) \in Nat
    BY RowFacts DEF TypeInv
  <2>2. flow' \in [Flow -> Request]
    BY <1>1, IdleIsTyped DEF TypeInv, FlowTyped
  <2> QED
    BY <1>1, <1>3, <2>1, <2>2, IdleIsTyped DEF TypeInv, FlowTyped
<1>5. LockTyped'
  BY <1>1, <1>3 DEF TypeInv, LockTyped
<1>6. ASSUME NEW c \in kept
      PROVE  /\ c \in Call(Len(artifacts))
             /\ c.by # Nobody => c \in calls /\ c.by \notin mine
  <2>1. mine \in SUBSET Flow
    OBVIOUS
  <2> HIDE DEF mine
  <2> QED
    BY <2>1, UnawaitedCalls DEF TypeInv
<1>7. CallsTyped'
  <2>1. calls' \subseteq Call(Len(artifacts'))
    BY <1>1, <1>2, <1>6
  <2>2. ASSUME NEW c \in calls', c.by # Nobody
        PROVE  At(c.by, "rollout")'
    <3>1. c \in calls /\ c.by \notin mine
      BY <1>2, <1>6, <2>2
    <3>2. c.by \in Flow /\ At(c.by, "rollout")
      BY <2>2, <3>1 DEF TypeInv, CallsTyped, Call
    <3> QED
      BY <1>3, <3>1, <3>2 DEF At
  <2> QED
    BY <2>1, <2>2 DEF CallsTyped
<1>8. RowsTyped' /\ DisksTyped' /\ CountsTyped'
  BY <1>1 DEF TypeInv, RowsTyped, DisksTyped, CountsTyped
<1> QED
  BY <1>3, <1>4, <1>5, <1>7, <1>8 DEF TypeInv

LEMMA LossTypes ==
  ASSUME TypeInv, NEW n \in Node, LoseSession(n)
  PROVE  TypeInv'
<1>1. /\ UNCHANGED <<orders, artifacts, certificate, flow, calls, installed, copy, requests>>
      /\ faults' = faults + 1 /\ sessionLost' = TRUE /\ lock' \subseteq lock
  BY DEF LoseSession, Faulty, store, nodes
<1> QED
  BY <1>1 DEF TypeInv, RowsTyped, FlowTyped, LockTyped, CallsTyped, DisksTyped, CountsTyped, At

(* The steps as the lemmas group them. *)
LEMMA Steps ==
  ASSUME [Next]_vars
  PROVE  \/ \E f \in Flow : Arrives(f) \/ Works(f)
         \/ \E c \in calls : Activate(c)
         \/ \E o \in DOMAIN orders : OpenWindow(o)
         \/ \E n \in Node : Sync(n) \/ Crash(n) \/ LoseSession(n)
         \/ Age
         \/ UNCHANGED vars
  BY DEF Next, Arrive, Arrives, Works, Makes

LEMMA TypeStep ==
  ASSUME TypeInv, [Next]_vars
  PROVE  TypeInv'
<1>1. CASE UNCHANGED vars
  BY <1>1 DEF vars, TypeInv, RowsTyped, FlowTyped, LockTyped, CallsTyped, DisksTyped,
              CountsTyped, At
<1> QED
  BY <1>1, Steps, ArrivalTypes, WorkTypes, ActivateTypes, WindowTypes, SyncTypes, CrashTypes,
     LossTypes, AgeTypes

(* TypeOK, and with it that only requests in progress are in the lock, for  *)
(* any nodes and requests and any number of faults: what a request          *)
(* remembers at each of its awaits is a row that is there.                  *)
THEOREM TypeCorrect == Spec => []TypeOK
<1>1. Spec => []TypeInv
  BY InitTypes, TypeStep, PTL DEF Spec
<1> QED
  BY <1>1, TypeInvIsEnough, PTL

-----------------------------------------------------------------------------
(* The lock.                                                               *)

(* The session of one node has the lock, and as long as none has lost it,  *)
(* every request that relies on the lock is in it.                         *)
LockInv ==
  /\ \A f, g \in lock : NodeOf[f] = NodeOf[g]
  /\ ~sessionLost =>
       \A f \in Flow : flow[f].task = "ensure" /\ flow[f].at \in Locked => f \in lock

(* Requests in progress at a time are kept apart by nothing but the lock. *)
OverlapInv ==
  ~Overlaps => \A f, g \in Flow : f # g /\ Busy(f) /\ Busy(g) => Mixable(f, g)

(* Nobody issues while there is a usable certificate. *)
ObtainInv ==
  ~Overlaps /\ ~sessionLost =>
    \A f \in Flow : flow[f].at \in {"publish", "acme"} => ~Usable

(* The row and the artifacts between the three statements of an activation. *)
CurrentInv ==
  ~Overlaps /\ ~sessionLost =>
    /\ \A f \in Flow :
         flow[f].at \in {"clear", "mark"} => certificate.version = flow[f].version
    /\ \A f \in Flow : flow[f].at = "mark" => Current \subseteq {flow[f].version}
    /\ ~interrupted /\ (\A f \in Flow : flow[f].at \notin {"clear", "mark"}) =>
         Current = {certificate.version} \ {Missing, 0}

(* Nobody else inserts the row before a request that is about to. *)
FirstInv ==
  ~Overlaps /\ ~sessionLost =>
    \A f \in Flow :
      flow[f].at \in {"catchFirst", "saveFirst"} => certificate.version = Missing

(* An order in progress is the order of a request, or of one that was cut off. *)
WorkInv ==
  ~Overlaps /\ ~sessionLost =>
    \A o \in 1..Len(orders) :
      orders[o].status = "active" => (\E f \in Flow : flow[f].order = o) \/ o \in dropped

LEMMA LockWork ==
  ASSUME TypeInv, LockInv, NEW f \in Flow, Works(f)
  PROVE  LockInv'
<1>1. /\ Advances(f)
      /\ Enters(f) \/ Leaves(f) \/ Stays(f)
      /\ UNCHANGED sessionLost
  BY WorkMoves, WorkLock, CountsStep DEF TypeInv
<1>2. \A g \in Flow \ {f} : flow'[g] = flow[g]
  BY <1>1 DEF Advances
<1>3. \A g, h \in lock' : NodeOf[g] = NodeOf[h]
  <2>1. CASE Enters(f)
    BY <2>1 DEF Enters, LockInv
  <2>2. CASE Leaves(f) \/ Stays(f)
    BY <2>2 DEF Leaves, Stays, LockInv
  <2> QED
    BY <1>1, <2>1, <2>2
<1>4. ASSUME ~sessionLost, flow'[f].task = "ensure", flow'[f].at \in Locked
      PROVE  f \in lock'
  <2>1. CASE Enters(f)
    BY <2>1 DEF Enters
  <2>2. CASE Leaves(f)
    BY <1>4, <2>2 DEF Leaves, Idle, Doing, Locked, Issuing
  <2>3. CASE Stays(f)
    <3>1. flow[f].at \in Locked
      BY <1>4, <2>3 DEF Stays
    <3>2. flow'[f] # Idle
      BY <1>4 DEF Idle, Doing, Locked, Issuing
    <3>3. flow[f].task = "ensure"
      BY <1>1, <1>4, <3>2 DEF Advances
    <3> QED
      BY <1>4, <2>3, <3>1, <3>3 DEF Stays, LockInv
  <2> QED
    BY <1>1, <2>1, <2>2, <2>3
<1>5. ASSUME ~sessionLost, NEW g \in Flow \ {f}, flow'[g].task = "ensure", flow'[g].at \in Locked
      PROVE  g \in lock'
  BY <1>1, <1>2, <1>5 DEF LockInv, Enters, Leaves, Stays
<1> QED
  BY <1>1, <1>3, <1>4, <1>5 DEF LockInv

LEMMA LockStepInv ==
  ASSUME TypeInv, LockInv, [Next]_vars
  PROVE  LockInv'
<1>1. ASSUME NEW f \in Flow, Arrives(f)
      PROVE  LockInv'
  <2>1. /\ flow'[f].at \in {"find", "resume", "distribute"}
        /\ flow'[f].at = "distribute" => flow'[f].task # "ensure"
        /\ \A g \in Flow \ {f} : flow'[g] = flow[g]
        /\ UNCHANGED <<lock, sessionLost>>
    BY <1>1, ArrivalMoves DEF TypeInv
  <2>2. flow'[f].at \in Locked => flow'[f].task # "ensure"
    BY <2>1 DEF Locked, Issuing
  <2> QED
    BY <2>1, <2>2 DEF LockInv
<1>2. ASSUME NEW c \in calls, Activate(c)
      PROVE  LockInv'
  BY <1>2, ActivateTypes DEF LockInv, Activate, history
<1>3. ASSUME NEW n \in Node, Crash(n)
      PROVE  LockInv'
  <2>1. /\ \A f \in Flow : NodeOf[f] = n => flow'[f] = Idle
        /\ \A f \in Flow : NodeOf[f] # n => flow'[f] = flow[f]
        /\ lock' = lock \ {f \in Flow : NodeOf[f] = n} /\ UNCHANGED sessionLost
    BY <1>3, CrashTypes DEF Crash
  <2>2. Idle.at \notin Locked
    BY DEF Idle, Doing, Locked, Issuing
  <2> QED
    BY <2>1, <2>2 DEF LockInv
<1>4. ASSUME NEW n \in Node, LoseSession(n)
      PROVE  LockInv'
  BY <1>4 DEF LoseSession, LockInv
<1>5. CASE \/ \E o \in DOMAIN orders : OpenWindow(o)
           \/ \E n \in Node : Sync(n)
           \/ Age
           \/ UNCHANGED vars
  <2>1. UNCHANGED <<flow, lock, sessionLost>>
    BY <1>5 DEF OpenWindow, Sync, ReadCertificate, SyncCertificate, Age, vars, history
  <2> QED
    BY <2>1 DEF LockInv
<1> QED
  BY <1>1, <1>2, <1>3, <1>4, <1>5, LockWork, Steps

LEMMA OverlapStep ==
  ASSUME TypeInv, OverlapInv, [Next]_vars
  PROVE  OverlapInv'
<1> SUFFICES ASSUME ~Overlaps PROVE OverlapInv'
  BY DEF OverlapInv
<1>1. ASSUME NEW f \in Flow, Works(f)
      PROVE  OverlapInv'
  <2>1. /\ \A g \in Flow \ {f} : flow'[g] = flow[g]
        /\ flow'[f].task = flow[f].task \/ flow'[f] = Idle
    BY <1>1, WorkMoves DEF TypeInv, Advances
  <2>2. Busy(f) /\ Idle.at = "idle"
    BY <1>1 DEF Works, Step, RejectUpload, Fault, FindActive, FindFailed, ResumeOrder,
      CreateOrder, Lookup, Enter, Denied, LastLook, Recheck, Publish, Obtain, Catch, CatchFirst,
      FailOrder, Supply, FailMaterial, ReadVersion, RecordArtifact, Distribute, Enqueue, Settle,
      FailActivation, Save, SaveFirst, ClearOthers, Mark, Complete, At, Busy, Idle, Doing
  <2> QED
    BY <2>1, <2>2 DEF OverlapInv, Mixable, Busy, At
<1>2. ASSUME NEW f \in Flow, Arrives(f)
      PROVE  OverlapInv'
  <2>1. /\ \A g \in Flow \ {f} : flow'[g] = flow[g]
        /\ \A g \in Flow \ {f} : Busy(g) => Mixable(f, g)'
    BY <1>2, ArrivalMoves DEF TypeInv
  <2>2. ASSUME NEW g \in Flow, NEW h \in Flow, g # h, Busy(g)', Busy(h)'
        PROVE  Mixable(g, h)'
    <3>1. CASE g = f
      BY <2>1, <2>2, <3>1 DEF Busy, At
    <3>2. CASE h = f
      <4>1. Mixable(h, g)'
        BY <2>1, <2>2, <3>2 DEF Busy, At
      <4> QED
        BY <4>1 DEF Mixable
    <3>3. CASE g # f /\ h # f
      BY <2>1, <2>2, <3>3 DEF OverlapInv, Mixable, Busy, At
    <3> QED
      BY <3>1, <3>2, <3>3
  <2> QED
    BY <2>2 DEF OverlapInv
<1>3. ASSUME \A f \in Flow : \/ flow'[f].at = flow[f].at /\ flow'[f].task = flow[f].task
                             \/ flow'[f] = Idle
      PROVE  OverlapInv'
  <2>1. Idle.at = "idle"
    BY DEF Idle, Doing
  <2> QED
    BY <1>3, <2>1 DEF OverlapInv, Mixable, Busy, At
<1>4. CASE \/ \E o \in DOMAIN orders : OpenWindow(o)
           \/ \E n \in Node : Sync(n) \/ LoseSession(n)
           \/ Age
           \/ UNCHANGED vars
  <2>1. UNCHANGED flow
    BY <1>4 DEF OpenWindow, Sync, ReadCertificate, SyncCertificate, LoseSession, Age, vars
  <2> QED
    BY <1>3, <2>1
<1>5. CASE \E c \in calls : Activate(c)
  BY <1>3, <1>5, ActivateTypes
<1>6. CASE \E n \in Node : Crash(n)
  BY <1>3, <1>6, CrashTypes
<1> QED
  BY <1>1, <1>2, <1>4, <1>5, <1>6, Steps

(* Two requests never rely on the lock at a time. *)
LEMMA Exclusive ==
  ASSUME LockInv, OverlapInv, ~Overlaps, ~sessionLost, NEW f \in Flow, NEW g \in Flow,
         flow[f].at \in Locked, flow[g].at \in Locked
  PROVE  f = g
<1> SUFFICES ASSUME f # g PROVE FALSE
  OBVIOUS
<1>1. Busy(f) /\ Busy(g)
  BY DEF Busy, At, Locked, Issuing
<1>2. Mixable(f, g)
  BY <1>1 DEF OverlapInv
<1>3. f \in lock /\ g \in lock
  BY <1>2 DEF LockInv, Mixable
<1> QED
  BY <1>2, <1>3 DEF LockInv, Mixable

-----------------------------------------------------------------------------
(* The certificate and its artifacts.                                      *)

(* Only two statements of an activation change which artifacts are current, *)
(* none makes an artifact fresh again or takes it to another order.         *)
LEMMA WorkArtifacts ==
  ASSUME TypeInv, NEW f \in Flow, Works(f)
  PROVE  /\ \A v \in 1..Len(artifacts) : /\ artifacts'[v].fresh = artifacts[v].fresh
                                        /\ artifacts'[v].order = artifacts[v].order
         /\ ClearOthers(f) => Current' \subseteq {flow[f].version}
         /\ Mark(f) => Current' = Current \cup {flow[f].version}
         /\ ~ClearOthers(f) /\ ~Mark(f) => Current' = Current
<1>0. /\ Remembers(flow[f], Len(orders), Len(artifacts))
      /\ Len(artifacts) \in Nat
      /\ DOMAIN artifacts = 1..Len(artifacts)
      /\ artifacts \in [1..Len(artifacts) -> Artifact(Len(orders))]
  BY Before DEF TypeInv
<1>1. CASE ClearOthers(f)
  <2>1. ~Mark(f)
    BY <1>1 DEF ClearOthers, Mark, At
  <2>2. /\ DOMAIN artifacts' = 1..Len(artifacts)
        /\ \A v \in 1..Len(artifacts) :
             /\ artifacts'[v].fresh = artifacts[v].fresh
             /\ artifacts'[v].order = artifacts[v].order
             /\ v # flow[f].version => artifacts'[v].current = FALSE
    BY <1>0, <1>1 DEF ClearOthers, Artifact
  <2> QED
    BY <1>1, <2>1, <2>2 DEF Current
<1>2. CASE Mark(f)
  <2>1. ~ClearOthers(f) /\ flow[f].version \in 1..Len(artifacts)
    BY <1>0, <1>2 DEF ClearOthers, Mark, At, Remembers, Activating
  <2>2. /\ DOMAIN artifacts' = 1..Len(artifacts)
        /\ \A v \in 1..Len(artifacts) :
             /\ artifacts'[v].fresh = artifacts[v].fresh
             /\ artifacts'[v].order = artifacts[v].order
             /\ v # flow[f].version => artifacts'[v].current = artifacts[v].current
             /\ v = flow[f].version => artifacts'[v].current = TRUE
    BY <1>0, <1>2, <2>1 DEF Mark, Artifact
  <2> QED
    BY <1>0, <1>2, <2>1, <2>2 DEF Current
<1>3. CASE RecordArtifact(f) /\ ~UNCHANGED artifacts
  <2> DEFINE a == [order |-> flow[f].order, current |-> FALSE,
                   activated |-> FALSE, fresh |-> TRUE]
  <2>1. artifacts' = Append(artifacts, a)
    BY <1>3 DEF RecordArtifact
  <2>2. /\ DOMAIN artifacts' = 1..Len(artifacts) + 1
        /\ \A v \in 1..Len(artifacts) : artifacts'[v] = artifacts[v]
        /\ artifacts'[Len(artifacts) + 1].current = FALSE
    <3>1. a.current = FALSE /\ artifacts \in Seq(Artifact(Len(orders)) \cup {a})
      BY <1>0, FunctionSeq
    <3> HIDE DEF a
    <3>2. /\ Len(artifacts') = Len(artifacts) + 1
          /\ artifacts' \in Seq(Artifact(Len(orders)) \cup {a})
          /\ \A v \in 1..Len(artifacts) : artifacts'[v] = artifacts[v]
          /\ artifacts'[Len(artifacts) + 1] = a
      BY <2>1, <3>1, AppendProperties
    <3> QED
      BY <3>1, <3>2, LenProperties
  <2>3. ~ClearOthers(f) /\ ~Mark(f)
    BY <1>3 DEF RecordArtifact, ClearOthers, Mark, At
  <2> QED
    BY <1>0, <2>2, <2>3 DEF Current
<1>4. CASE UNCHANGED artifacts /\ ~ClearOthers(f) /\ ~Mark(f)
  BY <1>4 DEF Current
<1> QED
  <2>1. CASE ~RecordArtifact(f) /\ ~ClearOthers(f) /\ ~Mark(f)
    BY <1>4, <2>1 DEF Works, Step, RejectUpload, Fault, FindActive, FindFailed, ResumeOrder,
      CreateOrder, Lookup, Enter, Denied, LastLook, Recheck, Publish, Obtain, Catch, CatchFirst,
      FailOrder, Supply, FailMaterial, ReadVersion, Distribute, Enqueue, Settle, FailActivation,
      Save, SaveFirst, Complete, store
  <2>2. CASE RecordArtifact(f)
    BY <1>3, <1>4, <2>2 DEF RecordArtifact, ClearOthers, Mark, At
  <2> QED
    BY <1>1, <1>2, <2>1, <2>2

(* The update or the insertion of the row. *)
Saving(f) == flow[f].at \in {"save", "saveFirst"} /\ Saves(f)

(* Only an activation gives the certificate another version. *)
LEMMA WorkCertificate ==
  ASSUME TypeInv, NEW f \in Flow, Works(f)
  PROVE  \/ Saving(f) /\ certificate'.version = flow[f].version
         \/ /\ CatchFirst(f) /\ certificate.version = Missing /\ certificate'.version = 0
            /\ Goto(f, "fail")
         \/ UNCHANGED certificate
<1>1. CASE Save(f) \/ SaveFirst(f)
  BY <1>1 DEF Save, SaveFirst, Saves, Saving, At
<1>2. CASE CatchFirst(f)
  BY <1>2 DEF CatchFirst
<1>3. CASE ~Save(f) /\ ~SaveFirst(f) /\ ~CatchFirst(f)
  BY <1>3 DEF Works, Step, RejectUpload, Fault, FindActive, FindFailed, ResumeOrder,
    CreateOrder, Lookup, Enter, Denied, LastLook, Recheck, Publish, Obtain, Catch, FailOrder,
    Supply, FailMaterial, ReadVersion, RecordArtifact, Distribute, Enqueue, Settle,
    FailActivation, ClearOthers, Mark, Complete, store
<1> QED
  BY <1>1, <1>2, <1>3

LEMMA WorkUsable ==
  ASSUME TypeInv, NEW f \in Flow, Works(f), Usable'
  PROVE  Usable \/ Saving(f)
<1>1. CASE UNCHANGED certificate
  <2>1. certificate.version > 0 /\ ~certificate.orphaned /\ artifacts'[certificate.version].fresh
    BY <1>1 DEF Usable
  <2>2. certificate.version \in 1..Len(artifacts)
    BY <2>1, RowFacts DEF TypeInv, RowsTyped, Missing
  <2> QED
    BY <2>1, <2>2, WorkArtifacts DEF Usable
<1>2. CASE certificate'.version = 0
  BY <1>2 DEF Usable
<1> QED
  BY <1>1, <1>2, WorkCertificate

(* From where a request comes to the statements of an activation, to the    *)
(* insertions of the row, and to an issuance.                               *)
LEMMA WorkPlaces ==
  ASSUME TypeInv, NEW f \in Flow, Works(f)
  PROVE  /\ flow'[f].at = "clear" => Saving(f)
         /\ flow'[f].at = "mark" => ClearOthers(f)
         /\ flow'[f].at \in {"catchFirst", "saveFirst"} =>
              certificate.version = Missing /\ UNCHANGED certificate
         /\ flow'[f].at \in {"publish", "acme"} => Publish(f) \/ (Recheck(f) /\ ~Usable)
<1> DEFINE Here == {"clear", "mark", "publish", "acme", "catchFirst", "saveFirst"}
           Elsewhere == flow'[f].at \notin Here
<1>0. /\ flow \in [Flow -> Request]
      /\ Idle.at = "idle"
      /\ \A t : Work(t) \in Place \ Here
      /\ RowsGrow
  <2>1. \A t : Work(t) \in Place \ Here
    BY DEF Work, Place
  <2> QED
    BY <2>1, WorkMoves DEF TypeInv, FlowTyped, Idle, Doing
<1>1. ASSUME NEW place \in Place, Goto(f, place)
      PROVE  flow'[f].at = place
  BY <1>0, <1>1, Goes
<1>2. ASSUME NEW o, NEW place, TakesOrder(f, o, place)
      PROVE  flow'[f].at = place
  BY <1>0, <1>2 DEF TakesOrder, Request
<1>3. ASSUME flow' = [flow EXCEPT ![f] = Idle]
      PROVE  Elsewhere
  BY <1>0, <1>3
<1>4. {"clear", "mark", "acme", "publish", "lock", "reused", "fail", "recheck", "lastLook",
       "version", "catch", "failMaterial", "distribute", "enqueue", "complete", "findFailed",
       "create", "resume", "catchFirst", "saveFirst"} \subseteq Place
  BY DEF Place, Issuing
<1>5. CASE Save(f) \/ Catch(f)
  <2>1. CASE Saves(f)
    <3>1. flow'[f].at = "clear" /\ Saving(f)
      BY <1>1, <1>4, <1>5, <2>1 DEF Save, Catch, Saves, Saving, At, store
    <3> QED
      BY <3>1
  <2>2. CASE /\ certificate.version = Missing /\ UNCHANGED certificate
             /\ Goto(f, "saveFirst") \/ Goto(f, "catchFirst")
    <3>1. flow'[f].at \in {"saveFirst", "catchFirst"}
      BY <1>1, <1>4, <2>2
    <3> QED
      BY <2>2, <3>1
  <2>3. CASE Goto(f, "fail")
    <3>1. flow'[f].at = "fail"
      BY <1>1, <1>4, <2>3
    <3> QED
      BY <3>1
  <2> QED
    BY <1>5, <2>1, <2>2, <2>3 DEF Save, Catch, store
<1>6. CASE ClearOthers(f)
  BY <1>1, <1>4, <1>6 DEF ClearOthers
<1>7. CASE Publish(f)
  <2>1. flow'[f].at = "acme"
    BY <1>1, <1>4, <1>7 DEF Publish
  <2> QED
    BY <1>7, <2>1
<1>8. CASE Recheck(f)
  <2>1. \/ Goto(f, "reused")
        \/ ~Usable /\ Goto(f, "publish")
    BY <1>8 DEF Recheck, Reuse
  <2>2. CASE Goto(f, "reused")
    <3>1. flow'[f].at = "reused"
      BY <1>1, <1>4, <2>2
    <3> QED
      BY <3>1
  <2>3. CASE ~Usable /\ Goto(f, "publish")
    <3>1. flow'[f].at = "publish"
      BY <1>1, <1>4, <2>3
    <3> QED
      BY <1>8, <2>3, <3>1
  <2> QED
    BY <2>1, <2>2, <2>3
<1>9. CASE Throws(f) /\ Busy(f)
  <2>1. flow'[f] = Idle \/ flow'[f].at = "catch" \/ flow'[f].at = "failMaterial"
    BY <1>0, <1>9, ThrowMoves DEF TypeInv
  <2> QED
    BY <1>0, <2>1
<1>10. CASE Fault(f)
  BY <1>9, <1>10 DEF Fault
<1>11. CASE RecordArtifact(f)
  <2>1. Busy(f)
    BY <1>11 DEF RecordArtifact, Busy, At
  <2>2. CASE Goto(f, "distribute")
    <3>1. flow'[f].at = "distribute"
      BY <1>1, <1>4, <2>2
    <3> QED
      BY <3>1
  <2> QED
    BY <1>9, <1>11, <2>1, <2>2 DEF RecordArtifact
<1>12. CASE Enqueue(f) \/ Settle(f)
  <2>1. flow'[f].at \in {"rollout", "save", "rolloutFailed"}
    BY <1>12, RolloutMoves DEF TypeInv
  <2> QED
    BY <2>1
<1>17. CASE CatchFirst(f) \/ SaveFirst(f)
  <2>1. Busy(f)
    BY <1>17 DEF CatchFirst, SaveFirst, At, Busy
  <2>2. CASE SaveFirst(f) /\ Saves(f)
    <3>1. flow'[f].at = "clear" /\ Saving(f)
      BY <1>1, <1>4, <2>2 DEF SaveFirst, Saves, Saving, At
    <3> QED
      BY <3>1
  <2>3. CASE Goto(f, "fail")
    <3>1. flow'[f].at = "fail"
      BY <1>1, <1>4, <2>3
    <3> QED
      BY <3>1
  <2>4. CASE Ends(f)
    <3>1. Elsewhere
      BY <1>3, <2>4 DEF Ends
    <3> QED
      BY <3>1
  <2> QED
    BY <1>9, <1>17, <2>1, <2>2, <2>3, <2>4 DEF CatchFirst, SaveFirst
<1>13. CASE ReadVersion(f)
  <2>1. flow'[f].at = "record"
    BY <1>0, <1>13 DEF ReadVersion, Request
  <2> QED
    BY <2>1
<1>14. CASE FailOrder(f) \/ FailMaterial(f) \/ FailActivation(f) \/ Complete(f) \/ RejectUpload(f)
  <2>1. Elsewhere
    BY <1>3, <1>14 DEF FailOrder, FailMaterial, FailActivation, Complete, RejectUpload, Ends
  <2> QED
    BY <2>1
<1>15. CASE Lookup(f) \/ Denied(f) \/ LastLook(f) \/ Enter(f) \/ Supply(f)
            \/ Obtain(f) \/ Distribute(f) \/ Mark(f)
  <2>1. PICK place \in {"lock", "reused", "fail", "recheck", "lastLook", "version", "catch",
                        "failMaterial", "enqueue", "complete"} : Goto(f, place)
    BY <1>15 DEF Lookup, Denied, LastLook, Enter, Supply, Issued, Obtain, Distribute,
      Mark, Reuse, RateLimited
  <2>2. place \in Place
    BY <1>4, <2>1
  <2>3. flow'[f].at = place
    BY <1>1, <2>1, <2>2
  <2> QED
    BY <2>1, <2>3
<1>16. CASE FindActive(f) \/ FindFailed(f) \/ ResumeOrder(f) \/ CreateOrder(f)
  <2>1. \/ \E place \in {"findFailed", "create", "distribute", Work(flow[f].task)} :
             Goto(f, place)
        \/ \E o : \E place \in {"resume", Work(flow[f].task)} : TakesOrder(f, o, place)
        \/ flow' = [flow EXCEPT ![f] = Idle]
    BY <1>16 DEF FindActive, FindFailed, ResumeOrder, CreateOrder
  <2>2. Elsewhere
    BY <1>0, <1>1, <1>2, <1>3, <1>4, <2>1
  <2> QED
    BY <2>2
<1> QED
  BY <1>5, <1>6, <1>7, <1>8, <1>10, <1>11, <1>12, <1>13, <1>14, <1>15, <1>16, <1>17
  DEF Works, Step

(* Whose version an activation writes. *)
LEMMA StatementMoves ==
  ASSUME TypeInv, NEW f \in Flow, Saving(f) \/ ClearOthers(f) \/ Mark(f)
  PROVE  /\ flow'[f].version = flow[f].version
         /\ flow[f].version \in 1..Len(artifacts)
         /\ Saving(f) => flow'[f].at = "clear"
         /\ ClearOthers(f) => flow[f].at = "clear" /\ flow'[f].at = "mark"
         /\ Mark(f) => flow[f].at = "mark" /\ flow'[f].at = "complete"
<1>1. /\ Remembers(flow[f], Len(orders), Len(artifacts))
      /\ flow \in [Flow -> Request]
  BY Before DEF TypeInv
<1>2. flow[f].version \in 1..Len(artifacts)
  BY <1>1 DEF Saving, ClearOthers, Mark, At, Remembers, Activating
<1>3. {"clear", "mark", "complete"} \subseteq Place
  BY DEF Place, Issuing
<1> QED
  BY <1>1, <1>2, <1>3, Goes DEF Saving, Saves, ClearOthers, Mark, At

\* The steps that are nobody's: an activation on a node, time, the sync, and
\* the loss of a session.
Aside ==
  \/ \E c \in calls : Activate(c)
  \/ \E o \in DOMAIN orders : OpenWindow(o)
  \/ \E n \in Node : Sync(n) \/ LoseSession(n)
  \/ Age
  \/ UNCHANGED vars

(* They leave the places and the versions of the requests, and of the        *)
(* certificate only take that it is usable.                                  *)
LEMMA AsideMoves ==
  ASSUME TypeInv, Aside
  PROVE  /\ \A f \in Flow : /\ flow'[f].at = flow[f].at
                            /\ flow'[f].version = flow[f].version
                            /\ flow'[f].order = flow[f].order
         /\ Usable' => Usable
         /\ certificate'.version = certificate.version
         /\ Current' = Current
         /\ sessionLost => sessionLost'
<1>1. CASE \E c \in calls : Activate(c)
  <2>1. UNCHANGED <<artifacts, certificate, sessionLost>>
    BY <1>1 DEF Activate, store, history
  <2> QED
    BY <1>1, <2>1, ActivateTypes DEF Usable, Current
<1>2. CASE \E o \in DOMAIN orders : OpenWindow(o)
  <2>1. UNCHANGED <<artifacts, certificate, flow, sessionLost>>
    BY <1>2 DEF OpenWindow, history
  <2> QED
    BY <2>1 DEF Usable, Current
<1>3. CASE \E n \in Node : Sync(n)
  <2>1. UNCHANGED <<artifacts, flow, sessionLost>>
    BY <1>3 DEF Sync, ReadCertificate, SyncCertificate, store, history
  <2>2. UNCHANGED certificate \/ certificate' = [certificate EXCEPT !.orphaned = TRUE]
    BY <1>3 DEF Sync, ReadCertificate, SyncCertificate, store
  <2>3. certificate \in [version : {Missing} \cup 0..Len(artifacts), orphaned : BOOLEAN]
    BY DEF TypeInv, RowsTyped
  <2>4. certificate'.version = certificate.version /\ (UNCHANGED certificate \/ certificate'.orphaned)
    BY <2>2, <2>3
  <2> QED
    BY <2>1, <2>4 DEF Usable, Current
<1>4. CASE \E n \in Node : LoseSession(n)
  <2>1. UNCHANGED <<artifacts, certificate, flow>> /\ sessionLost' = TRUE
    BY <1>4 DEF LoseSession, store
  <2> QED
    BY <2>1 DEF Usable, Current
<1>5. CASE Age
  <2>1. UNCHANGED <<certificate, flow, sessionLost>>
    BY <1>5 DEF Age, history
  <2>2. DOMAIN artifacts = 1..Len(artifacts) /\ DOMAIN artifacts' = 1..Len(artifacts)
    BY <1>5, AgeTypes, RowFacts DEF Age, TypeInv
  <2> QED
    BY <1>5, <2>1, <2>2, AgeTypes DEF Current
<1>6. CASE UNCHANGED vars
  BY <1>6 DEF vars, Usable, Current
<1> QED
  BY <1>1, <1>2, <1>3, <1>4, <1>5, <1>6 DEF Aside

(* What a step does to the history of requests that were cut off. *)
LEMMA CutSteps ==
  ASSUME [Next]_vars
  PROVE  \/ \E f \in Flow : Arrives(f) /\ GoesOn(f)
         \/ \E f \in Flow : Step(f) /\ GoesOn(f)
         \/ \E f \in Flow : (RejectUpload(f) \/ Fault(f)) /\ CutOff({f})
         \/ \E n \in Node : Crash(n) /\ CutOff({f \in Flow : NodeOf[f] = n})
         \/ Aside /\ UNCHANGED cuts
  BY DEF Next, Arrive, Arrives, Makes, Sync, Aside, vars, cuts

(* The other steps leave the places of the requests, or end them.            *)
LEMMA OtherSteps ==
  ASSUME TypeInv, [Next]_vars
  PROVE  \/ \E f \in Flow : Arrives(f) \/ Works(f)
         \/ /\ \A f \in Flow : flow'[f] = Idle \/ flow'[f].at = flow[f].at
            /\ Usable' => Usable
            /\ certificate'.version = certificate.version
            /\ sessionLost => sessionLost'
<1>1. CASE \E n \in Node : Crash(n)
  <2>1. UNCHANGED <<artifacts, certificate, sessionLost>>
    BY <1>1 DEF Crash, store
  <2>2. \A f \in Flow : flow'[f] = Idle \/ flow'[f] = flow[f]
    BY <1>1, CrashTypes
  <2> QED
    BY <2>1, <2>2 DEF Usable
<1>2. CASE Aside
  BY <1>2, AsideMoves
<1> QED
  BY <1>1, <1>2, Steps DEF Aside

(* A request that is cut off has done nothing, and is over or goes on in a   *)
(* catch with its order.                                                     *)
LEMMA CutMoves ==
  ASSUME TypeInv, NEW f \in Flow, RejectUpload(f) \/ Fault(f)
  PROVE  /\ UNCHANGED <<orders, artifacts, certificate, sessionLost>>
         /\ \A g \in Flow \ {f} : flow'[g] = flow[g]
         /\ \/ flow'[f] = Idle
            \/ /\ flow'[f].at \in {"catch", "failMaterial"}
               /\ flow'[f].order = flow[f].order
<1>1. UNCHANGED <<orders, artifacts, certificate, sessionLost>> /\ RowsGrow
  BY RowsStay DEF RejectUpload, Fault, store, history, TypeInv
<1>2. \A g \in Flow \ {f} : flow'[g] = flow[g]
  BY WorkMoves DEF Works, Advances, TypeInv
<1>3. CASE RejectUpload(f)
  BY <1>1, <1>2, <1>3 DEF RejectUpload, Ends, TypeInv, FlowTyped
<1>4. CASE Fault(f)
  <2>1. Throws(f) /\ Busy(f)
    BY <1>4 DEF Fault
  <2> QED
    BY <1>1, <1>2, <2>1, ThrowMoves DEF TypeInv
<1> QED
  BY <1>3, <1>4

LEMMA ObtainStep ==
  ASSUME TypeInv, LockInv, OverlapInv, ObtainInv, [Next]_vars
  PROVE  ObtainInv'
<1> SUFFICES ASSUME ~Overlaps, ~sessionLost',
                    NEW g \in Flow, flow'[g].at \in {"publish", "acme"}
             PROVE  ~Usable'
  BY DEF ObtainInv
<1>1. ASSUME NEW f \in Flow, Works(f)
      PROVE  ~Usable'
  <2>1. /\ UNCHANGED sessionLost
        /\ \A h \in Flow \ {f} : flow'[h] = flow[h]
    BY <1>1, CountsStep, WorkMoves DEF TypeInv, Advances
  <2>2. CASE g = f
    <3>1. Publish(f) \/ (Recheck(f) /\ ~Usable)
      BY <1>1, <2>2, WorkPlaces
    <3>2. ~Usable /\ ~Saving(f)
      BY <2>1, <3>1 DEF Publish, Recheck, Saving, At, ObtainInv
    <3> QED
      BY <1>1, <3>2, WorkUsable
  <2>3. CASE g # f
    <3>1. flow[g].at \in {"publish", "acme"} /\ ~Usable
      BY <2>1, <2>3 DEF ObtainInv
    <3>2. ~Saving(f)
      <4>1. SUFFICES ASSUME Saving(f) PROVE FALSE
        OBVIOUS
      <4>2. flow[f].at \in Locked /\ flow[g].at \in Locked
        BY <3>1, <4>1 DEF Saving, Locked, Issuing
      <4> QED
        BY <2>1, <2>3, <4>2, Exclusive
    <3> QED
      BY <1>1, <3>1, <3>2, WorkUsable
  <2> QED
    BY <2>2, <2>3
<1>2. ASSUME NEW f \in Flow, Arrives(f)
      PROVE  ~Usable'
  <2>1. /\ flow'[f].at \in {"find", "resume", "distribute"}
        /\ \A h \in Flow \ {f} : flow'[h] = flow[h]
        /\ UNCHANGED <<artifacts, certificate, sessionLost>>
    BY <1>2, ArrivalMoves DEF TypeInv, store
  <2> QED
    BY <2>1 DEF ObtainInv, Usable
<1>3. CASE ~ \E f \in Flow : Arrives(f) \/ Works(f)
  <2>1. /\ flow'[g] = Idle \/ flow'[g].at = flow[g].at
        /\ Usable' => Usable
        /\ ~sessionLost
    BY <1>3, OtherSteps
  <2>2. Idle.at = "idle"
    BY DEF Idle, Doing
  <2> QED
    BY <2>1, <2>2 DEF ObtainInv
<1> QED
  BY <1>1, <1>2, <1>3

(* A step of a request while no other is in the lock or about to settle. *)
LEMMA CurrentWork ==
  ASSUME TypeInv, LockInv, OverlapInv, CurrentInv, ~Overlaps, ~sessionLost,
         NEW f \in Flow, Step(f), GoesOn(f)
  PROVE  CurrentInv'
<1>0. Works(f) /\ interrupted' = (interrupted /\ ~At(f, "mark"))
  BY DEF Works, GoesOn
<1>1. \A h \in Flow \ {f} : flow'[h] = flow[h]
  BY <1>0, WorkMoves DEF TypeInv, Advances
<1>2. /\ \A h \in Flow :
           flow[h].at \in {"clear", "mark"} => certificate.version = flow[h].version
      /\ \A h \in Flow : flow[h].at = "mark" => Current \subseteq {flow[h].version}
      /\ ~interrupted /\ (\A h \in Flow : flow[h].at \notin {"clear", "mark"}) =>
           Current = {certificate.version} \ {Missing, 0}
  BY DEF CurrentInv
<1>3. ASSUME flow[f].at \in Locked, NEW h \in Flow \ {f}
      PROVE  flow'[h].at \notin {"clear", "mark"}
  <2>1. ~(flow[h].at \in Locked)
    BY <1>3, Exclusive
  <2> QED
    BY <1>1, <2>1 DEF Locked, Issuing
<1>4. CASE Saving(f)
  <2>1. /\ flow[f].at \in Locked /\ flow'[f].at = "clear"
        /\ flow'[f].version = flow[f].version /\ certificate'.version = flow[f].version
    BY <1>4, StatementMoves DEF Saving, Saves, Locked, Issuing
  <2> QED
    BY <1>3, <2>1 DEF CurrentInv
<1>5. CASE ClearOthers(f)
  <2>1. /\ flow[f].at \in Locked /\ flow[f].at = "clear" /\ flow'[f].at = "mark"
        /\ flow'[f].version = flow[f].version /\ UNCHANGED certificate
        /\ Current' \subseteq {flow[f].version}
    BY <1>0, <1>5, StatementMoves, WorkArtifacts DEF ClearOthers, Locked, Issuing
  <2> QED
    BY <1>2, <1>3, <2>1 DEF CurrentInv
<1>6. CASE Mark(f)
  <2>1. /\ flow[f].at \in Locked /\ flow[f].at = "mark" /\ flow'[f].at = "complete"
        /\ flow[f].version \in 1..Len(artifacts) /\ UNCHANGED certificate
        /\ Current' = Current \cup {flow[f].version}
    BY <1>0, <1>6, StatementMoves, WorkArtifacts DEF Mark, Locked, Issuing
  <2>2. certificate.version = flow[f].version /\ Current' = {flow[f].version}
    BY <1>2, <2>1
  <2>3. {flow[f].version} = {flow[f].version} \ {Missing, 0}
    BY <2>1, RowFacts DEF TypeInv, Missing
  <2> QED
    BY <1>3, <2>1, <2>2, <2>3 DEF CurrentInv
<1>7. CASE ~Saving(f) /\ ~ClearOthers(f) /\ ~Mark(f)
  <2>1. flow'[f].at \notin {"clear", "mark"} /\ Current' = Current
    BY <1>0, <1>7, WorkPlaces, WorkArtifacts
  <2>2. flow[f].at \notin {"clear", "mark"} /\ (~interrupted' => ~interrupted)
    <3>1. flow[f].at \notin {"clear", "mark"}
      BY <1>7 DEF Step, FindActive, FindFailed, ResumeOrder, CreateOrder, Lookup,
        Enter, Denied, LastLook, Recheck, Publish, Obtain, Catch, CatchFirst, FailOrder,
        Supply, FailMaterial, ReadVersion, RecordArtifact, Distribute, Enqueue, Settle,
        FailActivation, Save, SaveFirst, Complete, At
    <3> QED
      BY <1>0, <3>1 DEF At
  <2>3. CASE certificate'.version = certificate.version
    BY <1>1, <1>2, <2>1, <2>2, <2>3 DEF CurrentInv
  <2>4. CASE CatchFirst(f) /\ certificate.version = Missing /\ certificate'.version = 0
    <3>1. flow[f].at \in Locked
      BY <2>4 DEF CatchFirst, At, Locked
    <3>2. \A h \in Flow : flow'[h].at \notin {"clear", "mark"}
      BY <1>3, <2>1, <3>1
    <3>3. \A h \in Flow : flow[h].at \notin {"clear", "mark"}
      BY <1>1, <2>2, <3>2
    <3>4. ~interrupted' => Current' = {}
      BY <1>2, <2>1, <2>2, <2>4, <3>3
    <3> QED
      BY <2>4, <3>2, <3>4 DEF CurrentInv
  <2> QED
    BY <1>0, <1>7, <2>3, <2>4, WorkCertificate
<1> QED
  BY <1>4, <1>5, <1>6, <1>7

LEMMA CurrentStep ==
  ASSUME TypeInv, LockInv, OverlapInv, CurrentInv, [Next]_vars
  PROVE  CurrentInv'
<1> SUFFICES ASSUME ~Overlaps, ~sessionLost' PROVE CurrentInv'
  BY DEF CurrentInv
<1>1. ASSUME NEW f \in Flow, Step(f), GoesOn(f)
      PROVE  CurrentInv'
  <2>1. ~sessionLost
    BY <1>1, CountsStep DEF Works, TypeInv
  <2> QED
    BY <1>1, <2>1, CurrentWork
<1>2. ASSUME NEW f \in Flow, RejectUpload(f) \/ Fault(f), CutOff({f})
      PROVE  CurrentInv'
  <2>1. /\ UNCHANGED <<artifacts, certificate, sessionLost>>
        /\ \A g \in Flow \ {f} : flow'[g] = flow[g]
        /\ flow'[f].at \notin {"clear", "mark"}
    BY <1>2, CutMoves DEF Idle, Doing
  <2>2. interrupted' = (interrupted \/ flow[f].at \in {"clear", "mark"})
    BY <1>2 DEF CutOff
  <2> QED
    BY <2>1, <2>2 DEF CurrentInv, Current
<1>3. ASSUME NEW f \in Flow, Arrives(f), GoesOn(f)
      PROVE  CurrentInv'
  <2>1. /\ flow'[f].at \in {"find", "resume", "distribute"} /\ At(f, "idle")
        /\ \A h \in Flow \ {f} : flow'[h] = flow[h]
        /\ UNCHANGED <<artifacts, certificate, sessionLost>>
    BY <1>3, ArrivalMoves DEF TypeInv, store
  <2>2. ~interrupted' => ~interrupted
    BY <1>3, <2>1 DEF GoesOn, At
  <2> QED
    BY <2>1, <2>2 DEF CurrentInv, Current, At
<1>4. ASSUME NEW n \in Node, Crash(n), CutOff({f \in Flow : NodeOf[f] = n})
      PROVE  CurrentInv'
  <2>1. /\ \A f \in Flow : NodeOf[f] = n => flow'[f] = Idle
        /\ \A f \in Flow : NodeOf[f] # n => flow'[f] = flow[f]
        /\ Idle.at = "idle"
        /\ UNCHANGED <<artifacts, certificate, sessionLost>>
    BY <1>4, CrashTypes DEF Crash, Idle, Doing, store
  <2>2. interrupted' = (interrupted \/ \E f \in Flow : /\ NodeOf[f] = n
                                                      /\ flow[f].at \in {"clear", "mark"})
    BY <1>4 DEF CutOff
  <2> QED
    BY <2>1, <2>2 DEF CurrentInv, Current
<1>5. CASE Aside /\ UNCHANGED cuts
  BY <1>5, AsideMoves DEF CurrentInv, cuts
<1> QED
  BY <1>1, <1>2, <1>3, <1>4, <1>5, CutSteps

(* The row is not there before a request inserts it. *)
LEMMA FirstStep ==
  ASSUME TypeInv, LockInv, OverlapInv, FirstInv, [Next]_vars
  PROVE  FirstInv'
<1> SUFFICES ASSUME ~Overlaps, ~sessionLost',
                    NEW g \in Flow, flow'[g].at \in {"catchFirst", "saveFirst"}
             PROVE  certificate'.version = Missing
  BY DEF FirstInv
<1>1. ASSUME NEW f \in Flow, Works(f)
      PROVE  certificate'.version = Missing
  <2>1. /\ UNCHANGED sessionLost
        /\ \A h \in Flow \ {f} : flow'[h] = flow[h]
    BY <1>1, CountsStep, WorkMoves DEF TypeInv, Advances
  <2>2. CASE g = f
    BY <1>1, <2>2, WorkPlaces
  <2>3. CASE g # f
    <3>1. flow[g].at \in {"catchFirst", "saveFirst"} /\ certificate.version = Missing
      BY <2>1, <2>3 DEF FirstInv
    <3>2. ~Saving(f) /\ ~CatchFirst(f)
      <4>1. SUFFICES ASSUME Saving(f) \/ CatchFirst(f) PROVE FALSE
        OBVIOUS
      <4>2. flow[f].at \in Locked /\ flow[g].at \in Locked
        BY <3>1, <4>1 DEF Saving, CatchFirst, At, Locked, Issuing
      <4> QED
        BY <2>1, <2>3, <4>2, Exclusive
    <3> QED
      BY <1>1, <3>1, <3>2, WorkCertificate
  <2> QED
    BY <2>2, <2>3
<1>2. ASSUME NEW f \in Flow, Arrives(f)
      PROVE  certificate'.version = Missing
  <2>1. /\ flow'[f].at \in {"find", "resume", "distribute"}
        /\ \A h \in Flow \ {f} : flow'[h] = flow[h]
        /\ UNCHANGED <<certificate, sessionLost>>
    BY <1>2, ArrivalMoves DEF TypeInv, store
  <2> QED
    BY <2>1 DEF FirstInv
<1>3. CASE ~ \E f \in Flow : Arrives(f) \/ Works(f)
  <2>1. /\ flow'[g] = Idle \/ flow'[g].at = flow[g].at
        /\ certificate'.version = certificate.version
        /\ ~sessionLost
    BY <1>3, OtherSteps
  <2>2. Idle.at = "idle"
    BY DEF Idle, Doing
  <2> QED
    BY <2>1, <2>2 DEF FirstInv
<1> QED
  BY <1>1, <1>2, <1>3

-----------------------------------------------------------------------------
(* The orders.                                                             *)

\* A request keeps its order, and touches no other.
KeepsOrder(f) ==
  /\ Len(orders') = Len(orders) /\ flow'[f].order = flow[f].order
  /\ \A o \in 1..Len(orders) : o # flow[f].order => orders'[o] = orders[o]

\* A request has no order yet, and the others' stay as they are.
HasNone(f) == flow[f].order = 0 /\ UNCHANGED orders

LEMMA OrderKept ==
  ASSUME TypeInv, NEW f \in Flow, flow'[f].order = flow[f].order,
         \/ UNCHANGED orders
         \/ \E status \in {"active", "failed", "activated"}, retry \in {"none", "closed", "open"} :
              OrderBecomes(flow[f].order, status, retry) /\ flow[f].order \in 1..Len(orders)
  PROVE  KeepsOrder(f)
  BY OrderMoves DEF TypeInv, KeepsOrder

(* In a step of a request an order that gets or stays in progress is its   *)
(* own, or was in progress and is not its own, unless it comes too late    *)
(* with an insertion.                                                      *)
LEMMA WorkOrders ==
  ASSUME TypeInv, NEW f \in Flow, Step(f), NEW o \in 1..Len(orders'),
         orders'[o].status = "active",
         flow[f].at \in {"catchFirst", "saveFirst"} => certificate.version = Missing
  PROVE  \/ flow'[f].order = o
         \/ o \in 1..Len(orders) /\ orders[o].status = "active" /\ flow[f].order # o
<1>0. /\ Remembers(flow[f], Len(orders), Len(artifacts))
      /\ flow \in [Flow -> Request]
      /\ orders \in Seq(Order)
  BY Before DEF TypeInv, RowsTyped
<1>1. CASE KeepsOrder(f)
  BY <1>1 DEF KeepsOrder
<1>2. CASE HasNone(f)
  BY <1>2 DEF HasNone
<1>3. ASSUME flow[f].at \in {"find", "findFailed"}
      PROVE  flow[f].order = 0
  BY <1>0, <1>3 DEF Remembers, Unordering
<1>4. CASE FindActive(f) \/ FindFailed(f)
  <2>1. HasNone(f)
    BY <1>3, <1>4 DEF FindActive, FindFailed, At, HasNone, store
  <2> QED
    BY <1>2, <2>1
<1>5. CASE CreateOrder(f)
  <2>1. flow[f].order = 0
    BY <1>0, <1>5 DEF CreateOrder, At, Remembers, Unordering
  <2>2. CASE Len(orders) < MaxOrders
    <3> DEFINE r == [status |-> "active", retry |-> "none", source |-> flow[f].task]
    <3>1. orders' = Append(orders, r)
      BY <1>5, <2>2 DEF CreateOrder
    <3>2. r \in Order
      BY <1>0, <1>5 DEF CreateOrder, At, Remembers, Order
    <3> HIDE DEF r
    <3>3. /\ Len(orders') = Len(orders) + 1
          /\ \A p \in 1..Len(orders) : orders'[p] = orders[p]
      BY <1>0, <3>1, <3>2, AppendProperties
    <3>4. flow'[f].order = Len(orders) + 1
      BY <1>0, <1>5, <2>2 DEF CreateOrder, TakesOrder, Request
    <3> QED
      BY <1>0, <2>1, <3>3, <3>4, LenProperties
  <2>3. CASE ~(Len(orders) < MaxOrders)
    BY <1>2, <1>5, <2>1, <2>3 DEF CreateOrder, HasNone
  <2> QED
    BY <2>2, <2>3
<1>6. CASE FailOrder(f) \/ FailMaterial(f) \/ FailActivation(f) \/ Complete(f)
  <2>1. /\ Len(orders') = Len(orders)
        /\ orders'[flow[f].order].status # "active"
        /\ \A p \in 1..Len(orders) : p # flow[f].order => orders'[p] = orders[p]
    BY <1>6, SettleMoves DEF TypeInv
  <2> QED
    BY <2>1
<1>7. CASE RecordArtifact(f)
  <2>1. UNCHANGED orders /\ Busy(f) /\ flow[f].task \in Makes /\ flow[f].at \in Issuing
    BY <1>0, <1>7 DEF RecordArtifact, Busy, At, Remembers, Issuing
  <2>2. CASE Throws(f)
    <3>1. RowsGrow
      BY <1>7, RecordMoves DEF TypeInv
    <3>2. flow'[f].order = flow[f].order
      BY <2>1, <2>2, <3>1, ThrowMoves DEF TypeInv
    <3> QED
      BY <1>1, <2>1, <3>2, OrderKept
  <2>3. CASE Goto(f, "distribute")
    <3>1. flow'[f].order = flow[f].order
      BY <1>0, <2>3, Goes DEF Place, Issuing
    <3> QED
      BY <1>1, <2>1, <3>1, OrderKept
  <2> QED
    BY <1>7, <2>2, <2>3 DEF RecordArtifact
<1>8. CASE Enqueue(f) \/ Settle(f)
  <2>1. flow'[f].order = flow[f].order /\ UNCHANGED orders
    BY <1>8, RolloutMoves DEF TypeInv, Enqueue, Settle, store
  <2> QED
    BY <1>1, <2>1, OrderKept
<1>9. CASE ReadVersion(f)
  <2>1. flow'[f].order = flow[f].order /\ UNCHANGED orders
    BY <1>0, <1>9 DEF ReadVersion, Request, store
  <2> QED
    BY <1>1, <2>1, OrderKept
<1>10. CASE ResumeOrder(f) \/ Lookup(f) \/ Enter(f) \/ Denied(f) \/ LastLook(f) \/ Recheck(f)
            \/ Publish(f) \/ Obtain(f) \/ Catch(f) \/ Supply(f) \/ Distribute(f) \/ Save(f)
            \/ CatchFirst(f) \/ SaveFirst(f) \/ ClearOthers(f) \/ Mark(f)
  <2>1. flow[f].order \in 1..Len(orders)
    BY <1>0, <1>10 DEF ResumeOrder, Lookup, Enter, Denied, LastLook, Recheck, Publish, Obtain,
      Catch, CatchFirst, Supply, Distribute, Save, SaveFirst, ClearOthers, Mark, At, Remembers,
      Unordering
  <2>2. UNCHANGED orders \/ OrderBecomes(flow[f].order, "active", "none")
    BY <1>10 DEF ResumeOrder, Lookup, Enter, Denied, LastLook, Recheck, Publish, Obtain, Catch,
      CatchFirst, Supply, Issued, Distribute, Save, SaveFirst, ClearOthers, Mark, store
  <2>3. PICK place : Goto(f, place)
    BY <1>10 DEF ResumeOrder, Lookup, Enter, Denied, LastLook, Recheck, Publish, Obtain, Catch,
      CatchFirst, Supply, Issued, Distribute, Save, SaveFirst, Saves, ClearOthers, Mark, Reuse,
      RateLimited, At
  <2>4. flow'[f].order = flow[f].order
    BY <1>0, <2>3 DEF Goto, Request
  <2> QED
    BY <1>1, <2>1, <2>2, <2>4, OrderKept
<1> QED
  BY <1>4, <1>5, <1>6, <1>7, <1>8, <1>9, <1>10 DEF Step

LEMMA WorkStep ==
  ASSUME TypeInv, FirstInv, WorkInv, [Next]_vars
  PROVE  WorkInv'
<1> SUFFICES ASSUME ~Overlaps, ~sessionLost',
                    NEW o \in 1..Len(orders'), orders'[o].status = "active"
             PROVE  (\E f \in Flow : flow'[f].order = o) \/ o \in dropped'
  BY DEF WorkInv
<1>1. ASSUME NEW f \in Flow, Step(f), GoesOn(f)
      PROVE  (\E g \in Flow : flow'[g].order = o) \/ o \in dropped'
  <2>1. /\ ~sessionLost
        /\ \A h \in Flow \ {f} : flow'[h] = flow[h]
    BY <1>1, CountsStep, WorkMoves DEF Works, TypeInv, Advances
  <2>2. flow[f].at \in {"catchFirst", "saveFirst"} => certificate.version = Missing
    BY <2>1 DEF FirstInv
  <2>3. CASE o \in 1..Len(orders) /\ orders[o].status = "active" /\ flow[f].order # o
    BY <1>1, <2>1, <2>3 DEF WorkInv, GoesOn
  <2> QED
    BY <1>1, <2>2, <2>3, WorkOrders
<1>2. ASSUME NEW f \in Flow, RejectUpload(f) \/ Fault(f), CutOff({f})
      PROVE  (\E g \in Flow : flow'[g].order = o) \/ o \in dropped'
  <2>1. /\ UNCHANGED <<orders, sessionLost>>
        /\ \A g \in Flow \ {f} : flow'[g] = flow[g]
        /\ flow'[f].at = "idle" \/ flow'[f].order = flow[f].order
    BY <1>2, CutMoves DEF Idle, Doing
  <2>2. (\E g \in Flow : flow[g].order = o) \/ o \in dropped
    BY <2>1 DEF WorkInv
  <2>3. CASE flow[f].order = o /\ flow'[f].at = "idle"
    BY <1>2, <2>3 DEF CutOff
  <2>4. CASE o \in dropped
    BY <1>2, <2>4 DEF CutOff
  <2> QED
    BY <2>1, <2>2, <2>3, <2>4
<1>3. ASSUME NEW f \in Flow, Arrives(f), GoesOn(f)
      PROVE  (\E g \in Flow : flow'[g].order = o) \/ o \in dropped'
  <2>1. /\ At(f, "idle") /\ UNCHANGED <<orders, sessionLost>>
        /\ \A h \in Flow \ {f} : flow'[h] = flow[h]
    BY <1>3, ArrivalMoves DEF TypeInv, store
  <2>2. flow[f].order = 0
    BY <2>1 DEF TypeInv, FlowTyped, Remembers, Unordering, At
  <2>3. (\E g \in Flow : flow[g].order = o) \/ o \in dropped
    BY <2>1 DEF WorkInv
  <2>4. o # 0
    OBVIOUS
  <2> QED
    BY <1>3, <2>1, <2>2, <2>3, <2>4 DEF GoesOn
<1>4. ASSUME NEW n \in Node, Crash(n), CutOff({f \in Flow : NodeOf[f] = n})
      PROVE  (\E g \in Flow : flow'[g].order = o) \/ o \in dropped'
  <2>1. /\ \A f \in Flow : NodeOf[f] = n => flow'[f] = Idle
        /\ \A f \in Flow : NodeOf[f] # n => flow'[f] = flow[f]
        /\ Idle.at = "idle"
        /\ UNCHANGED <<orders, sessionLost>>
    BY <1>4, CrashTypes DEF Crash, Idle, Doing, store
  <2>2. (\E g \in Flow : flow[g].order = o) \/ o \in dropped
    BY <2>1 DEF WorkInv
  <2>3. ASSUME NEW g \in Flow, flow[g].order = o, NodeOf[g] = n
        PROVE  o \in dropped'
    BY <1>4, <2>1, <2>3 DEF CutOff
  <2> QED
    BY <1>4, <2>1, <2>2, <2>3 DEF CutOff
<1>5. CASE Aside /\ UNCHANGED cuts
  <2>1. /\ ~sessionLost /\ UNCHANGED dropped
        /\ \A f \in Flow : flow'[f].order = flow[f].order
    BY <1>5, AsideMoves DEF cuts
  <2>2. o \in 1..Len(orders) /\ orders[o].status = "active"
    <3>1. CASE UNCHANGED orders
      BY <3>1
    <3>2. CASE \E p \in DOMAIN orders : OpenWindow(p)
      <4>1. PICK p \in 1..Len(orders) : OrderBecomes(p, "failed", "open")
        BY <3>2, RowFacts DEF OpenWindow, TypeInv
      <4> QED
        BY <4>1, OrderMoves DEF TypeInv
    <3> QED
      BY <1>5, <3>1, <3>2 DEF Aside, Activate, Sync, ReadCertificate, SyncCertificate,
        LoseSession, Age, vars, store
  <2> QED
    BY <2>1, <2>2 DEF WorkInv
<1> QED
  BY <1>1, <1>2, <1>3, <1>4, <1>5, CutSteps

-----------------------------------------------------------------------------
(* The artifact of a request.                                              *)

(* What a request activates is an artifact of its order. *)
OwnInv == \A f \in Flow : HasArtifact(f) => OwnsArtifact(f)

(* A request that has an artifact has had it before, or has just recorded it *)
(* under the version it has read.                                            *)
LEMMA WorkVersions ==
  ASSUME TypeInv, NEW f \in Flow, Works(f), HasArtifact(f)'
  PROVE  /\ flow'[f].version = flow[f].version /\ flow'[f].order = flow[f].order
         /\ \/ HasArtifact(f)
            \/ /\ flow[f].version = Len(artifacts) + 1
               /\ artifacts' = Append(artifacts, [order |-> flow[f].order, current |-> FALSE,
                                                  activated |-> FALSE, fresh |-> TRUE])
<1>0. /\ Remembers(flow[f], Len(orders), Len(artifacts))
      /\ flow \in [Flow -> Request]
      /\ Len(artifacts) \in Nat
  BY Before DEF TypeInv
<1>1. ASSUME NEW place, Goto(f, place)
      PROVE  /\ flow'[f].at = place /\ flow'[f].version = flow[f].version
             /\ flow'[f].order = flow[f].order
  BY <1>0, <1>1 DEF Goto, Request
<1>2. ~(flow'[f] = Idle)
  BY DEF HasArtifact, Idle, Doing, Activating
<1>3. flow'[f].at \in Activating \cup {"resume"}
  BY DEF HasArtifact
<1>4. CASE Distribute(f) \/ Save(f) \/ ClearOthers(f) \/ Mark(f)
  BY <1>1, <1>4 DEF Distribute, Save, Saves, ClearOthers, Mark, HasArtifact, At, Activating
<1>5. CASE Enqueue(f) \/ Settle(f)
  BY <1>5, RolloutMoves DEF Enqueue, Settle, HasArtifact, At, Activating, TypeInv
<1>6. CASE ResumeOrder(f)
  <2>1. PICK place : /\ Goto(f, place)
                     /\ place = IF flow[f].version > 0 THEN "distribute"
                                ELSE Work(flow[f].task)
    BY <1>6 DEF ResumeOrder
  <2>2. flow[f].version > 0
    BY <1>1, <1>3, <2>1 DEF Work, Activating
  <2> QED
    BY <1>1, <1>6, <2>1, <2>2 DEF ResumeOrder, HasArtifact, At
<1>7. CASE Throws(f) /\ Busy(f) /\ RowsGrow
  <2>1. flow'[f] = Idle \/ flow'[f].at = "catch" \/ flow'[f].at = "failMaterial"
    BY <1>7, ThrowMoves DEF TypeInv
  <2> QED
    BY <1>2, <1>3, <2>1 DEF Activating
<1>8. CASE Fault(f)
  BY <1>7, <1>8, WorkMoves DEF Fault, TypeInv
<1>9. CASE RecordArtifact(f)
  <2>1. Busy(f) /\ RowsGrow
    BY <1>9, RecordMoves DEF RecordArtifact, Busy, At, TypeInv
  <2>2. CASE ~Throws(f)
    BY <1>1, <1>9, <2>2 DEF RecordArtifact
  <2> QED
    BY <1>7, <2>1, <2>2
<1>14. CASE CatchFirst(f) \/ SaveFirst(f)
  <2>1. Busy(f) /\ RowsGrow
    BY <1>14, FirstMoves DEF CatchFirst, SaveFirst, Busy, At, TypeInv
  <2>2. CASE CatchFirst(f)
    <3>1. ~Goto(f, "fail")
      BY <1>1, <1>3 DEF Activating
    <3> QED
      BY <1>0, <1>2, <2>2, <3>1 DEF CatchFirst, Ends
  <2>3. CASE SaveFirst(f) /\ ~Throws(f)
    BY <1>1, <2>3 DEF SaveFirst, Saves, HasArtifact, At, Activating
  <2> QED
    BY <1>7, <1>14, <2>1, <2>2, <2>3
<1>10. CASE ReadVersion(f)
  <2>1. flow'[f].at = "record"
    BY <1>0, <1>10 DEF ReadVersion, Request
  <2> QED
    BY <1>3, <2>1 DEF Activating
<1>11. CASE FailOrder(f) \/ FailMaterial(f) \/ FailActivation(f) \/ Complete(f)
            \/ RejectUpload(f)
  <2>1. flow' = [flow EXCEPT ![f] = Idle]
    BY <1>11 DEF FailOrder, FailMaterial, FailActivation, Complete, RejectUpload, Ends
  <2> QED
    BY <1>0, <1>2, <2>1
<1>12. CASE Lookup(f) \/ Denied(f) \/ LastLook(f) \/ Enter(f) \/ Recheck(f) \/ Catch(f)
            \/ Supply(f) \/ Publish(f) \/ Obtain(f)
  <2>1. PICK place \in {"lock", "reused", "fail", "recheck", "lastLook", "publish", "acme",
                        "version", "catch", "catchFirst", "failMaterial"} : Goto(f, place)
    BY <1>12 DEF Lookup, Denied, LastLook, Enter, Recheck, Catch, Supply, Issued, Publish,
      Obtain, Reuse, RateLimited
  <2>2. flow'[f].at = place
    BY <1>1, <2>1
  <2> QED
    BY <1>3, <2>1, <2>2 DEF Activating
<1>13. CASE FindActive(f) \/ FindFailed(f) \/ CreateOrder(f)
  <2>1. flow[f].version = 0
    BY <1>0, <1>13 DEF FindActive, FindFailed, CreateOrder, At, Remembers, Unordering
  <2>2. \/ \E place \in {"findFailed", "create"} : Goto(f, place)
        \/ \E o : \E place \in {"resume", Work(flow[f].task)} : TakesOrder(f, o, place)
        \/ flow' = [flow EXCEPT ![f] = Idle]
    BY <1>13 DEF FindActive, FindFailed, CreateOrder
  <2>3. ASSUME NEW o, NEW place, TakesOrder(f, o, place)
        PROVE  flow'[f].at = place /\ flow'[f].version = 0
    BY <1>0, <2>1, <2>3 DEF TakesOrder, Request
  <2>4. \A t : Work(t) \notin Activating \cup {"resume"}
    BY DEF Work, Activating
  <2>5. flow'[f].version = 0 \/ flow'[f].at \notin Activating \cup {"resume"}
    BY <1>0, <1>1, <1>2, <2>2, <2>3 DEF Activating
  <2>6. flow'[f].version # 0
    <3>1. flow'[f].at \in Activating => flow'[f].version # 0
      BY WorkMoves, <1>0 DEF TypeInv, Advances, Remembers
    <3> QED
      BY <3>1 DEF HasArtifact
  <2> QED
    BY <1>3, <2>5, <2>6
<1> QED
  BY <1>4, <1>5, <1>6, <1>8, <1>9, <1>10, <1>11, <1>12, <1>13, <1>14 DEF Works, Step

LEMMA OwnStep ==
  ASSUME TypeInv, OwnInv, [Next]_vars
  PROVE  OwnInv'
<1>0. /\ Len(artifacts) \in Nat
      /\ artifacts \in [1..Len(artifacts) -> Artifact(Len(orders))]
      /\ artifacts \in Seq(Artifact(Len(orders)))
  BY RowFacts DEF TypeInv, RowsTyped
<1>1. ASSUME NEW f \in Flow, HasArtifact(f)
      PROVE  flow[f].version \in 1..Len(artifacts)
  <2>1. Remembers(flow[f], Len(orders), Len(artifacts))
    BY Before DEF TypeInv
  <2> QED
    BY <1>1, <2>1 DEF HasArtifact, Remembers
<1>2. ASSUME NEW f \in Flow, Works(f)
      PROVE  OwnInv'
  <2>1. /\ \A g \in Flow \ {f} : flow'[g] = flow[g]
        /\ \A v \in 1..Len(artifacts) : artifacts'[v].order = artifacts[v].order
    BY <1>2, WorkMoves, WorkArtifacts DEF TypeInv, Advances
  <2>2. ASSUME NEW g \in Flow \ {f}, HasArtifact(g)'
        PROVE  OwnsArtifact(g)'
    <3>1. HasArtifact(g)
      BY <2>1, <2>2 DEF HasArtifact
    <3> QED
      BY <1>1, <2>1, <3>1 DEF OwnInv, OwnsArtifact
  <2>3. ASSUME HasArtifact(f)'
        PROVE  OwnsArtifact(f)'
    <3>1. flow'[f].version = flow[f].version /\ flow'[f].order = flow[f].order
      BY <1>2, <2>3, WorkVersions
    <3>2. CASE HasArtifact(f)
      BY <1>1, <2>1, <3>1, <3>2 DEF OwnInv, OwnsArtifact
    <3>3. CASE ~HasArtifact(f)
      <4> DEFINE a == [order |-> flow[f].order, current |-> FALSE,
                       activated |-> FALSE, fresh |-> TRUE]
      <4>1. flow[f].version = Len(artifacts) + 1 /\ artifacts' = Append(artifacts, a)
        BY <1>2, <2>3, <3>3, WorkVersions
      <4>2. a.order = flow[f].order /\ artifacts \in Seq(Artifact(Len(orders)) \cup {a})
        BY <1>0, FunctionSeq
      <4> HIDE DEF a
      <4>3. artifacts'[Len(artifacts) + 1] = a
        BY <4>1, <4>2, AppendProperties
      <4> QED
        BY <3>1, <4>1, <4>2, <4>3 DEF OwnsArtifact
    <3> QED
      BY <3>2, <3>3
  <2> QED
    BY <2>2, <2>3 DEF OwnInv
<1>3. ASSUME NEW f \in Flow, Arrives(f)
      PROVE  OwnInv'
  <2>1. /\ HasArtifact(f)' => OwnsArtifact(f)'
        /\ \A g \in Flow \ {f} : flow'[g] = flow[g]
        /\ UNCHANGED artifacts
    BY <1>3, ArrivalMoves DEF TypeInv, store
  <2> QED
    BY <2>1 DEF OwnInv, HasArtifact, OwnsArtifact
<1>4. ASSUME \A v \in 1..Len(artifacts) : artifacts'[v].order = artifacts[v].order,
             \A f \in Flow : \/ flow'[f] = Idle
                             \/ /\ flow'[f].at = flow[f].at
                                /\ flow'[f].version = flow[f].version
                                /\ flow'[f].order = flow[f].order
      PROVE  OwnInv'
  <2>1. ASSUME NEW f \in Flow, HasArtifact(f)'
        PROVE  OwnsArtifact(f)'
    <3>1. /\ HasArtifact(f)
          /\ flow'[f].version = flow[f].version /\ flow'[f].order = flow[f].order
      BY <1>4, <2>1 DEF HasArtifact, Idle, Doing, Activating
    <3> QED
      BY <1>1, <1>4, <3>1 DEF OwnInv, OwnsArtifact
  <2> QED
    BY <2>1 DEF OwnInv
<1>5. CASE \E c \in calls : Activate(c)
  <2>1. UNCHANGED artifacts
    BY <1>5 DEF Activate, store
  <2> QED
    BY <1>4, <1>5, <2>1, ActivateTypes
<1>6. CASE \E n \in Node : Crash(n)
  <2>1. UNCHANGED artifacts
    BY <1>6 DEF Crash, store
  <2> QED
    BY <1>4, <1>6, <2>1, CrashTypes
<1>7. CASE Age
  <2>1. UNCHANGED flow
    BY <1>7 DEF Age
  <2> QED
    BY <1>4, <1>7, <2>1, AgeTypes
<1>8. CASE \/ \E o \in DOMAIN orders : OpenWindow(o)
           \/ \E n \in Node : Sync(n) \/ LoseSession(n)
           \/ UNCHANGED vars
  <2>1. UNCHANGED <<artifacts, flow>>
    BY <1>8 DEF OpenWindow, Sync, ReadCertificate, SyncCertificate, LoseSession, vars, store
  <2> QED
    BY <1>4, <2>1
<1> QED
  BY <1>2, <1>3, <1>5, <1>6, <1>7, <1>8, Steps

-----------------------------------------------------------------------------
(* The theorems.                                                           *)

LEMMA InitInvs ==
  ASSUME Init
  PROVE  LockInv /\ OverlapInv /\ ObtainInv /\ CurrentInv /\ FirstInv /\ WorkInv /\ OwnInv
<1>1. /\ \A f \in Flow : flow[f].at = "idle" /\ ~Busy(f)
      /\ lock = {} /\ certificate.version = Missing
      /\ Len(orders) = 0 /\ Len(artifacts) = 0 /\ DOMAIN artifacts = {}
  BY EmptySeq DEF Init, Idle, Doing, Busy, At
<1>2. LockInv /\ OverlapInv /\ ObtainInv
  BY <1>1 DEF LockInv, OverlapInv, ObtainInv, Locked, Issuing
<1>3. CurrentInv /\ FirstInv /\ WorkInv /\ OwnInv
  BY <1>1 DEF CurrentInv, FirstInv, WorkInv, Current, OwnInv, HasArtifact, Activating
<1> QED
  BY <1>2, <1>3

(* No ACME order is placed while another is, or while a usable certificate  *)
(* is there, whatever the number of nodes and requests that ensure it at a  *)
(* time, of uploads, retries and rollbacks between them, and of faults but  *)
(* the loss of a session: the lock and the second look of ensureCertificate.*)
THEOREM NeedlessIssuanceExcluded ==
  ASSUME ~Overlaps
  PROVE  Spec => []NoNeedlessIssuance
<1>1. TypeInv /\ LockInv /\ OverlapInv /\ ObtainInv => NoNeedlessIssuance
  <2> SUFFICES ASSUME TypeInv, LockInv, OverlapInv, ObtainInv, ~sessionLost,
                      NEW f \in Flow, At(f, "acme")
               PROVE  ~Usable /\ \A g \in Flow \ {f} : ~At(g, "acme")
    BY DEF NoNeedlessIssuance
  <2>1. ~Usable
    BY DEF ObtainInv, At
  <2>2. "acme" \in Locked
    BY DEF Locked, Issuing
  <2> QED
    BY <2>1, <2>2, Exclusive DEF At
<1> QED
  BY <1>1, InitTypes, InitInvs, TypeStep, LockStepInv, OverlapStep, ObtainStep, PTL DEF Spec

(* Between activations the current artifact is the one the certificate is   *)
(* made from, unless the last activation was cut off between its three last *)
(* statements (activateArtifactAcrossCluster): no other comes between them, *)
(* and the first one to reach its end puts right what those before it left. *)
THEOREM CertificateCurrent ==
  ASSUME ~Overlaps
  PROVE  Spec => []CertificateIsCurrent
<1>1. CurrentInv => CertificateIsCurrent
  BY DEF CurrentInv, CertificateIsCurrent
<1> QED
  BY <1>1, InitTypes, InitInvs, TypeStep, LockStepInv, OverlapStep, CurrentStep, PTL DEF Spec

(* An order in progress has a request that works on it, or was left by a    *)
(* request that was cut off, by a rejected upload, a failing query or a     *)
(* death: all other ways out go through markFailure or                      *)
(* completeWithCertificate.  This holds while requests only overlap that    *)
(* the lock keeps apart, and no session is lost: others can lose the        *)
(* insertion of the row to each other.                                      *)
THEOREM OrderNotAbandoned ==
  ASSUME ~Overlaps
  PROVE  Spec => []NoOrderAbandoned
<1>1. TypeInv /\ WorkInv => NoOrderAbandoned
  BY RowFacts DEF TypeInv, WorkInv, NoOrderAbandoned, OrdersIn
<1> QED
  BY <1>1, InitTypes, InitInvs, TypeStep, LockStepInv, OverlapStep, FirstStep, WorkStep, PTL
  DEF Spec

(* What a request activates is an artifact of the order it settles, however  *)
(* many requests of all kinds read the same version at the same time: the    *)
(* unique key makes the insertion of recordArtifact fail for all but one.    *)
THEOREM OwnArtifactActivated == Spec => []ActivatesOwnArtifact
<1>1. OwnInv => ActivatesOwnArtifact
  BY DEF OwnInv, HasArtifact, OwnsArtifact, ActivatesOwnArtifact, Activating
<1> QED
  BY <1>1, InitTypes, InitInvs, TypeStep, OwnStep, PTL DEF Spec
=============================================================================
