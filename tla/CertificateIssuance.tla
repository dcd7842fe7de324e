------------------------ MODULE CertificateIssuance ------------------------
(***************************************************************************)
(* The certificate of one set of domains (CertificateService and           *)
(* CertificateOrderService).  Requests on several nodes share an order,    *)
(* issue under an advisory lock, store the result as an artifact, have it  *)
(* activated on all nodes by a cluster operation and save it in the        *)
(* certificate's row, each in a query of its own and without transactions. *)
(* Every node copies the row to its disk from time to time.                *)
(*                                                                         *)
(* A query that writes, or whose answer decides, is a step with the code   *)
(* up to the next one.  A read of the row before its update is part of the *)
(* update, for the row stays once it is there (deletions are the subject   *)
(* of CertificateCleanup); a read before its insertion is not.  The        *)
(* statuses of an order from `requested` to `distributing` only differ in  *)
(* display: all queries ask for the set of them, "active" here.  Sessions  *)
(* get the lock as in AdvisoryLock, and an operation succeeds, as          *)
(* BroadcastOutcome says, when all targets have.                           *)
(***************************************************************************)
EXTENDS Integers, FiniteSets, Sequences

CONSTANTS
  Node,          \* nodes of the cluster
  Flow,          \* requests that can be in progress at a time
  NodeOf,        \* the node of each request
  Task,          \* the kinds of request each of them can be
  Syncing,       \* bound: nodes whose periodic sync falls into the time looked at
  Overlaps,      \* bound: whether requests overlap that no lock keeps apart
  Nobody,        \* in the place of a request that awaits no answer any more
  MaxEvents,     \* bound: requests that come in and faults, together
  MaxLate,       \* bound: activations under way that nobody awaits
  MaxOrders,     \* bound: orders
  MaxArtifacts   \* bound: artifacts

\* The kinds of request.
Kind == {"ensure", "upload", "selfSigned", "retry", "rollback"}

ASSUME IssuanceAssumption ==
  /\ NodeOf \in [Flow -> Node]
  /\ Task \in [Flow -> SUBSET Kind]
  /\ Overlaps \in BOOLEAN
  /\ Nobody \notin Flow
  /\ Syncing \subseteq Node
  /\ MaxEvents \in Nat
  /\ MaxLate \in Nat
  /\ MaxOrders \in Nat
  /\ MaxArtifacts \in Nat

VARIABLES
  orders,       \* CertificateOrder rows, oldest first
  artifacts,    \* CertificateArtifactVersion rows, by version
  certificate,  \* the Certificate row: its version, 0 for an empty one
  flow,         \* where each request is and what it remembers
  lock,         \* the requests in the lock cert:issue:<hash>
  calls,        \* activations of a version that nodes have been asked for
  installed,    \* the version on each node's disk, 0 for none
  copy,         \* the version each node's sync has read, Missing for none
  requests,     \* requests so far
  faults,       \* deaths, lost sessions, failing queries and waits that have
                \* timed out so far
  sessionLost,  \* history: the lock has been lost under a request
  dropped,      \* history: orders that a request which was cut off has left
  interrupted   \* history: an activation has been cut off between its last
                \* statements, and none has come to its end since

vars == <<orders, artifacts, certificate, flow, lock, calls, installed, copy,
          requests, faults, sessionLost, dropped, interrupted>>

store == <<orders, artifacts, certificate>>
nodes == <<calls, installed, copy>>
history == <<requests, faults, sessionLost>>
cuts == <<dropped, interrupted>>

-----------------------------------------------------------------------------
Missing == -1

Faulty == requests + faults < MaxEvents /\ faults' = faults + 1

\* What a request remembers: an order and a version of 0 are none.
Doing(place, task, order, version) ==
  [at |-> place, task |-> task, order |-> order, version |-> version, waiting |-> {}]

Idle == Doing("idle", "ensure", 0, 0)

At(f, place) == flow[f].at = place
Goto(f, place) == flow' = [flow EXCEPT ![f].at = place]
TakesOrder(f, o, place) == flow' = [flow EXCEPT ![f].at = place, ![f].order = o]
Busy(f) == ~At(f, "idle")

EndsInLock(f) == flow' = [flow EXCEPT ![f] = Idle] /\ UNCHANGED lock  \* faulty

\* The request is over, and with it its hold on the lock.
Ends(f) ==
  /\ flow' = [flow EXCEPT ![f] = Idle]
  /\ lock' = lock \ {f}

OrderBecomes(o, status, retry) ==
  orders' = [orders EXCEPT ![o].status = status, ![o].retry = retry]

Latest(S) == CHOOSE x \in S : \A y \in S : y <= x

OrdersIn(status) == {o \in DOMAIN orders : orders[o].status = status}

\* What the queries for a certificate ask for: not orphaned, not expiring.
Usable ==
  /\ certificate.version > 0
  /\ ~certificate.orphaned
  /\ artifacts[certificate.version].fresh

\* writeCertToFs on the node of the request.
Installs(f, v) == installed' = [installed EXCEPT ![NodeOf[f]] = v]

Init ==
  /\ orders = <<>>
  /\ artifacts = <<>>
  /\ certificate = [version |-> Missing, orphaned |-> FALSE]
  /\ flow = [f \in Flow |-> Idle]
  /\ lock = {}
  /\ calls = {}
  /\ installed = [n \in Node |-> 0]
  /\ copy = [n \in Node |-> Missing]
  /\ requests = 0
  /\ faults = 0
  /\ sessionLost = FALSE
  /\ dropped = {}
  /\ interrupted = FALSE

\* Requests that no lock keeps apart, by their kinds or on one node.
Unordered(f, t, g) ==
  Busy(g) /\ ({t, flow[g].task} # {"ensure"} \/ NodeOf[g] = NodeOf[f])

\* A request of kind t comes in and takes up work as the record says.
Starts(f, t, record) ==
  /\ At(f, "idle")
  /\ t \in Task[f]
  /\ requests + faults < MaxEvents
  /\ requests' = requests + 1
  /\ Overlaps \/ \A g \in Flow \ {f} : ~Unordered(f, t, g)
  /\ flow' = [flow EXCEPT ![f] = record]
  /\ UNCHANGED <<store, lock, nodes, faults, sessionLost>>

(***************************************************************************)
(* getOrCreateOrder: an active order, a failed one whose retry is not put  *)
(* off, or a new one.                                                      *)
(***************************************************************************)
Begin(f, t) ==
  /\ t \in {"ensure", "upload", "selfSigned"}
  /\ Starts(f, t, Doing("find", t, 0, 0))

\* Where a request goes on once it has its order.
Work(t) == IF t = "ensure" THEN "lookup" ELSE "supply"

FindActive(f) ==
  /\ At(f, "find")
  /\ IF OrdersIn("active") = {}
     THEN Goto(f, "findFailed")
     ELSE TakesOrder(f, Latest(OrdersIn("active")), Work(flow[f].task))
  /\ UNCHANGED <<store, lock, nodes, history>>

FindFailed(f) ==
  LET o == Latest(OrdersIn("failed")) IN
  /\ At(f, "findFailed")
  /\ IF OrdersIn("failed") # {} /\ orders[o].retry # "closed"
     THEN TakesOrder(f, o, "resume")
     ELSE Goto(f, "create")
  /\ UNCHANGED <<store, lock, nodes, history>>

\* resumeOrder: whatever the order's status is by now.
ResumeOrder(f) ==
  /\ At(f, "resume")
  /\ OrderBecomes(flow[f].order, "active", "none")
  /\ Goto(f, IF flow[f].version > 0 THEN "distribute" ELSE Work(flow[f].task))
  /\ UNCHANGED <<artifacts, certificate, lock, nodes, history>>

\* The bound MaxOrders makes a request end without an order.
CreateOrder(f) ==
  /\ At(f, "create")
  /\ IF Len(orders) < MaxOrders
     THEN /\ orders' = Append(orders, [status |-> "active", retry |-> "none",
                                       source |-> flow[f].task])
          /\ TakesOrder(f, Len(orders) + 1, Work(flow[f].task))
     ELSE flow' = [flow EXCEPT ![f] = Idle] /\ UNCHANGED orders
  /\ UNCHANGED <<artifacts, certificate, lock, nodes, history>>

(***************************************************************************)
(* ensureCertificate.                                                      *)
(***************************************************************************)

\* A usable certificate is written to the disk; otherwise go on elsewhere.
Reuse(f, otherwise) ==
  IF Usable
  THEN Installs(f, certificate.version) /\ Goto(f, "reused")
  ELSE Goto(f, otherwise) /\ UNCHANGED installed

\* checkLetsEncryptRateLimit counts the certificates of all domains: it may
\* refuse at any time.
RateLimited(f) == ~Usable /\ Goto(f, "fail") /\ UNCHANGED installed

Lookup(f) ==
  /\ At(f, "lookup")
  /\ Reuse(f, "lock") \/ RateLimited(f)
  /\ UNCHANGED <<store, lock, calls, copy, history>>

\* withLock: a session gets the lock again that it holds already.
Enter(f) ==
  /\ At(f, "lock")
  /\ \A g \in lock : NodeOf[g] = NodeOf[f]
  /\ lock' = lock \cup {f}
  /\ Goto(f, "recheck")
  /\ UNCHANGED <<store, nodes, history>>

\* All attempts at the lock have failed.
Denied(f) ==
  /\ At(f, "lock")
  /\ \E g \in lock : NodeOf[g] # NodeOf[f]
  /\ Goto(f, "lastLook")
  /\ UNCHANGED <<store, lock, nodes, history>>

LastLook(f) ==
  /\ At(f, "lastLook")
  /\ Reuse(f, "fail")
  /\ UNCHANGED <<store, lock, calls, copy, history>>

RecheckSkipped(f) ==     \* faulty: trusts the look before the lock
  /\ At(f, "recheck")
  /\ Goto(f, "publish")
  /\ UNCHANGED <<store, lock, nodes, history>>

Recheck(f) ==
  /\ At(f, "recheck")
  /\ Reuse(f, "publish")
  /\ UNCHANGED <<store, lock, calls, copy, history>>

Publish(f) ==
  /\ At(f, "publish")
  /\ OrderBecomes(flow[f].order, "active", "none")
  /\ Goto(f, "acme")
  /\ UNCHANGED <<artifacts, certificate, lock, nodes, history>>

\* The ACME order and the validation of what it has brought.
Obtain(f) ==
  /\ At(f, "acme")
  /\ \/ /\ OrderBecomes(flow[f].order, "active", "none")
        /\ Goto(f, "version")
     \/ Goto(f, "catch") /\ UNCHANGED orders
  /\ UNCHANGED <<artifacts, certificate, lock, nodes, history>>

\* The catch of the issuance: the row tells of the failure, then the order.
\* Without a row an empty one is inserted, if it is not there by then: the
\* exception of the insertion leaves the order as it is.
Catch(f) ==
  /\ At(f, "catch")
  /\ Goto(f, IF certificate.version = Missing THEN "catchFirst" ELSE "fail")
  /\ UNCHANGED <<store, lock, nodes, history>>

CatchFirst(f) ==
  /\ At(f, "catchFirst")
  /\ IF certificate.version = Missing
     THEN /\ certificate' = [version |-> 0, orphaned |-> FALSE]
          /\ Goto(f, "fail")
          /\ UNCHANGED lock
     ELSE Ends(f) /\ UNCHANGED certificate
  /\ UNCHANGED <<orders, artifacts, nodes, history>>

\* markFailure with a retry after a delay.
FailOrder(f) ==
  /\ At(f, "fail")
  /\ OrderBecomes(flow[f].order, "failed", "closed")
  /\ Ends(f)
  /\ UNCHANGED <<artifacts, certificate, nodes, history>>

\* Time passes, and the order may be retried.
OpenWindow(o) ==
  /\ orders[o].retry = "closed"
  /\ OrderBecomes(o, "failed", "open")
  /\ UNCHANGED <<artifacts, certificate, flow, lock, nodes, history>>

(***************************************************************************)
(* uploadCertificate, generateSelfSignedCertificate: the material is at    *)
(* hand.  An upload that is rejected leaves its order as it is.            *)
(***************************************************************************)
Issued(f) == OrderBecomes(flow[f].order, "active", "none") /\ Goto(f, "version")

Supply(f) ==
  /\ At(f, "supply")
  /\ \/ Issued(f)
     \/ Goto(f, "failMaterial") /\ UNCHANGED orders
  /\ UNCHANGED <<artifacts, certificate, lock, nodes, history>>

RejectUpload(f) ==
  /\ At(f, "supply")
  /\ flow[f].task = "upload"
  /\ Ends(f)
  /\ UNCHANGED <<store, nodes, history>>

\* markFailure without a retry.
FailMaterial(f) ==
  /\ At(f, "failMaterial")
  /\ OrderBecomes(flow[f].order, "failed", "none")
  /\ Ends(f)
  /\ UNCHANGED <<artifacts, certificate, nodes, history>>

(***************************************************************************)
(* recordArtifact: the next version is read, then inserted.  The versions  *)
(* of a set of domains are unique.                                         *)
(***************************************************************************)
ReadVersion(f) ==
  /\ At(f, "version")
  /\ flow' = [flow EXCEPT ![f].at = "record", ![f].version = Len(artifacts) + 1]
  /\ UNCHANGED <<store, lock, nodes, history>>

\* The places after the last one outside of a try block.
Issuing == {"publish", "acme", "version", "record", "distribute", "enqueue",
            "rollout", "rolloutFailed", "save", "saveFirst", "clear", "mark", "complete"}

\* An exception, and what the enclosing catch goes on with.
Throws(f) ==
  LET task == flow[f].task IN
  CASE task = "ensure" /\ flow[f].at \in Issuing ->
         Goto(f, "catch") /\ UNCHANGED lock
    [] task \in {"upload", "selfSigned"} /\ flow[f].at \in Issuing \cup {"supply"} ->
         Goto(f, "failMaterial") /\ UNCHANGED lock
    [] OTHER -> Ends(f)

RecordOverwrites(f) ==     \* faulty: an upsert instead of the insertion
  LET a == [order |-> flow[f].order, current |-> FALSE, activated |-> FALSE, fresh |-> TRUE] IN
  /\ At(f, "record")
  /\ flow[f].version <= MaxArtifacts
  /\ artifacts' = IF flow[f].version \in DOMAIN artifacts
                  THEN [artifacts EXCEPT ![flow[f].version] = a]
                  ELSE Append(artifacts, a)
  /\ Goto(f, "distribute")
  /\ UNCHANGED <<orders, certificate, lock, nodes, history>>

\* The bound MaxArtifacts fails the request.
RecordArtifact(f) ==
  /\ At(f, "record")
  /\ IF flow[f].version = Len(artifacts) + 1 /\ Len(artifacts) < MaxArtifacts
     THEN /\ artifacts' = Append(artifacts,
                            [order |-> flow[f].order, current |-> FALSE,
                             activated |-> FALSE, fresh |-> TRUE])
          /\ Goto(f, "distribute")
          /\ UNCHANGED lock
     ELSE Throws(f) /\ UNCHANGED artifacts
  /\ UNCHANGED <<orders, certificate, nodes, history>>

(***************************************************************************)
(* retryCertificateOrder, whatever the status of the order: its latest     *)
(* artifact is activated or, without one, its material made anew.  The     *)
(* retries of renewAllCertificates, of failed ACME orders whose window has *)
(* opened, are among these.                                                *)
(***************************************************************************)
BeginRetry(f, o) ==
  LET own == {v \in DOMAIN artifacts : artifacts[v].order = o} IN
  \/ /\ own # {}
     /\ Starts(f, "retry", Doing("resume", "retry", o, Latest(own)))
  \/ /\ own = {}
     /\ orders[o].source # "upload"
     /\ Starts(f, "retry", Doing("resume", orders[o].source, o, 0))

(***************************************************************************)
(* rollbackCertificate: the version before the current one that has been   *)
(* in use is activated under the order it comes from.                      *)
(***************************************************************************)
Current == {v \in DOMAIN artifacts : artifacts[v].current}

Rollback(f) ==
  LET earlier == {v \in DOMAIN artifacts : v < Latest(Current) /\ artifacts[v].activated} IN
  /\ certificate.version # Missing
  /\ Current # {}
  /\ earlier # {}
  /\ Starts(f, "rollback", Doing("distribute", "rollback",
                                 artifacts[Latest(earlier)].order, Latest(earlier)))

(***************************************************************************)
(* activateArtifactAcrossCluster.                                          *)
(***************************************************************************)
Distribute(f) ==
  /\ At(f, "distribute")
  /\ OrderBecomes(flow[f].order, "active", "none")
  /\ Goto(f, "enqueue")
  /\ UNCHANGED <<artifacts, certificate, lock, nodes, history>>

\* The targets are this node and the others with a recent heartbeat.
Enqueue(f) ==
  /\ At(f, "enqueue")
  /\ \E targets \in SUBSET Node :
       /\ NodeOf[f] \in targets
       /\ calls' = calls \cup [by : {f}, node : targets, version : {flow[f].version}]
       /\ flow' = [flow EXCEPT ![f].at = "rollout", ![f].waiting = targets]
  /\ UNCHANGED <<store, lock, installed, copy, history>>

\* activateArtifactLocally: fails before or after the files are written, or
\* succeeds.  The answer counts as long as it is awaited.
Activate(c) ==
  /\ calls' = calls \ {c}
  /\ \/ UNCHANGED <<installed, flow>>
     \/ /\ installed' = [installed EXCEPT ![c.node] = c.version]
        /\ IF c.by = Nobody
           THEN UNCHANGED flow
           ELSE \/ flow' = [flow EXCEPT ![c.by].waiting = @ \ {c.node}]
                \/ UNCHANGED flow
  /\ UNCHANGED <<store, lock, copy, history>>

\* What can be left of the calls of the requests in F: some that still take
\* effect although nobody awaits them.
Unawaited(F) ==
  LET late == {c \in calls : c.by = Nobody}
           \cup {[c EXCEPT !.by = Nobody] : c \in {d \in calls : d.by \in F}}
  IN {{c \in calls : c.by \notin F \cup {Nobody}} \cup L :
       L \in {K \in SUBSET late : Cardinality(K) <= MaxLate}}

\* All targets have activated, or one has failed or not answered in time.
Settle(f) ==
  /\ At(f, "rollout")
  /\ \/ flow[f].waiting = {} /\ Goto(f, "save")
     \/ /\ flow[f].waiting # {}
        /\ flow' = [flow EXCEPT ![f].at = "rolloutFailed", ![f].waiting = {}]
  /\ calls' \in Unawaited({f})
  /\ UNCHANGED <<store, lock, installed, copy, history>>

FailActivationUnmarked(f) ==     \* faulty: the error without markFailure
  /\ At(f, "rolloutFailed")
  /\ Ends(f)
  /\ UNCHANGED <<store, nodes, history>>

\* markFailure, then the ArtifactActivationError that the catches let pass.
FailActivation(f) ==
  /\ At(f, "rolloutFailed")
  /\ OrderBecomes(flow[f].order, "failed", "closed")
  /\ Ends(f)
  /\ UNCHANGED <<artifacts, certificate, nodes, history>>

\* The row is updated or, if there was none, inserted.
Saves(f) ==
  /\ certificate' = [version |-> flow[f].version, orphaned |-> FALSE]
  /\ Goto(f, "clear")

Save(f) ==
  /\ At(f, "save")
  /\ IF certificate.version = Missing
     THEN Goto(f, "saveFirst") /\ UNCHANGED certificate
     ELSE Saves(f)
  /\ UNCHANGED <<orders, artifacts, lock, nodes, history>>

SaveFirst(f) ==
  /\ At(f, "saveFirst")
  /\ IF certificate.version = Missing
     THEN Saves(f) /\ UNCHANGED lock
     ELSE Throws(f) /\ UNCHANGED certificate
  /\ UNCHANGED <<orders, artifacts, nodes, history>>

ClearNone(f) ==     \* faulty
  /\ At(f, "clear")
  /\ Goto(f, "mark")
  /\ UNCHANGED <<store, lock, nodes, history>>

ClearOthers(f) ==
  /\ At(f, "clear")
  /\ artifacts' = [v \in DOMAIN artifacts |->
                     IF v = flow[f].version THEN artifacts[v]
                     ELSE [artifacts[v] EXCEPT !.current = FALSE]]
  /\ Goto(f, "mark")
  /\ UNCHANGED <<orders, certificate, lock, nodes, history>>

Mark(f) ==
  /\ At(f, "mark")
  /\ artifacts' = [artifacts EXCEPT ![flow[f].version].current = TRUE,
                                    ![flow[f].version].activated = TRUE]
  /\ Goto(f, "complete")
  /\ UNCHANGED <<orders, certificate, lock, nodes, history>>

\* completeWithCertificate, after an activation or a reuse.
Complete(f) ==
  /\ flow[f].at \in {"complete", "reused"}
  /\ OrderBecomes(flow[f].order, "activated", "none")
  /\ Ends(f)
  /\ UNCHANGED <<artifacts, certificate, nodes, history>>

(***************************************************************************)
(* syncCertificates on a node: a copy of the row, then what comes of it.   *)
(***************************************************************************)
ReadCertificate(n) ==
  /\ copy[n] = Missing
  /\ certificate.version # Missing
  /\ ~certificate.orphaned
  /\ copy' = [copy EXCEPT ![n] = certificate.version]
  /\ UNCHANGED <<store, flow, lock, calls, installed, history>>

\* Nothing is a certificate in an empty row; one that is due may have expired.
Valid(v) == IF v = 0 THEN {FALSE} ELSE {TRUE, artifacts[v].fresh}

SyncMissingFiles(n) ==     \* faulty: files that exist are left alone
  /\ copy[n] # Missing
  /\ \/ /\ TRUE \in Valid(copy[n])
        /\ installed' = [installed EXCEPT ![n] = IF @ = 0 THEN copy[n] ELSE @]
        /\ UNCHANGED certificate
     \/ /\ FALSE \in Valid(copy[n])
        /\ certificate' = [certificate EXCEPT !.orphaned = TRUE]
        /\ UNCHANGED installed
  /\ copy' = [copy EXCEPT ![n] = Missing]
  /\ UNCHANGED <<orders, artifacts, flow, lock, calls, history>>

\* An invalid copy marks the row, whatever it holds by now.
SyncCertificate(n) ==
  /\ copy[n] # Missing
  /\ \/ /\ TRUE \in Valid(copy[n])
        /\ installed' = [installed EXCEPT ![n] = copy[n]]
        /\ UNCHANGED certificate
     \/ /\ FALSE \in Valid(copy[n])
        /\ certificate' = [certificate EXCEPT !.orphaned = TRUE]
        /\ UNCHANGED installed
  /\ copy' = [copy EXCEPT ![n] = Missing]
  /\ UNCHANGED <<orders, artifacts, flow, lock, calls, history>>

(***************************************************************************)
(* Time and faults.                                                        *)
(***************************************************************************)

\* Thirty days are left of what the certificate is made from.
Age ==
  /\ certificate.version > 0
  /\ artifacts' = [artifacts EXCEPT ![certificate.version].fresh = FALSE]
  /\ UNCHANGED <<orders, certificate, flow, lock, nodes, history>>

\* A query fails, or the wait for the operation times out.
Fault(f) ==
  /\ Busy(f)
  /\ Faulty
  /\ Throws(f)
  /\ calls' \in Unawaited({f})
  /\ UNCHANGED <<store, installed, copy, requests, sessionLost>>

\* A process dies: its requests, and what it was asked to activate.
Crash(n) ==
  LET mine == {f \in Flow : NodeOf[f] = n} IN
  /\ Faulty
  /\ flow' = [f \in Flow |-> IF f \in mine THEN Idle ELSE flow[f]]
  /\ lock' = lock \ mine
  /\ \E kept \in Unawaited(mine) : calls' = {c \in kept : c.node # n}
  /\ copy' = [copy EXCEPT ![n] = Missing]
  /\ UNCHANGED <<store, installed, requests, sessionLost>>

\* The session ends, or the shutdown of its process releases the lock while
\* requests are in it (releaseAllLocks).
LoseSession(n) ==
  /\ Faulty
  /\ \E f \in lock : NodeOf[f] = n
  /\ lock' = {f \in lock : NodeOf[f] # n}
  /\ sessionLost' = TRUE
  /\ UNCHANGED <<store, flow, nodes, requests>>

-----------------------------------------------------------------------------
(* The history variables, apart: a step of request f, and one that cuts the *)
(* requests in F off, for those of them that no catch goes on with.         *)

GoesOn(f) ==
  /\ dropped' = dropped \ {flow[f].order, flow'[f].order}
  /\ interrupted' = (interrupted /\ ~At(f, "mark"))

CutOff(F) ==
  /\ dropped' = dropped \cup {flow[f].order : f \in {g \in F : flow'[g].at = "idle"}}
  /\ interrupted' = (interrupted \/ \E f \in F : flow[f].at \in {"clear", "mark"})

Step(f) ==
  \/ FindActive(f) \/ FindFailed(f) \/ ResumeOrder(f) \/ CreateOrder(f)
  \/ Lookup(f) \/ Enter(f) \/ Denied(f) \/ LastLook(f) \/ Recheck(f)
  \/ Publish(f) \/ Obtain(f) \/ Catch(f) \/ CatchFirst(f) \/ FailOrder(f)
  \/ Supply(f) \/ FailMaterial(f) \/ ReadVersion(f) \/ RecordArtifact(f)
  \/ Distribute(f) \/ Enqueue(f) \/ Settle(f) \/ FailActivation(f)
  \/ Save(f) \/ SaveFirst(f) \/ ClearOthers(f) \/ Mark(f) \/ Complete(f)

Arrive(f) ==
  \/ \E t \in {"ensure", "upload", "selfSigned"} : Begin(f, t)
  \/ \E o \in DOMAIN orders : BeginRetry(f, o)
  \/ Rollback(f)

Sync(n) == (ReadCertificate(n) \/ SyncCertificate(n)) /\ UNCHANGED cuts

Next ==
  \/ \E f \in Flow : (Arrive(f) \/ Step(f)) /\ GoesOn(f)
  \/ \E f \in Flow : (RejectUpload(f) \/ Fault(f)) /\ CutOff({f})
  \/ \E n \in Node : Crash(n) /\ CutOff({f \in Flow : NodeOf[f] = n})
  \/ \E n \in Syncing : Sync(n)
  \/ /\ \/ \E c \in calls : Activate(c)
        \/ \E o \in DOMAIN orders : OpenWindow(o)
        \/ \E n \in Node : LoseSession(n)
        \/ Age
     /\ UNCHANGED cuts

Spec == Init /\ [][Next]_vars

\* Every node syncs periodically, for as long as it lives.
FairSpec == Spec /\ \A n \in Syncing : WF_vars(Sync(n))

-----------------------------------------------------------------------------
(* Properties. *)

Place ==
  {"idle", "find", "findFailed", "resume", "create", "lookup", "lock", "lastLook",
   "recheck", "reused", "fail", "catch", "catchFirst", "supply", "failMaterial"} \cup Issuing

\* Types, and only requests in progress are in the lock.
TypeOK ==
  /\ orders \in Seq([status : {"active", "failed", "activated"},
                     retry : {"none", "closed", "open"},
                     source : {"ensure", "upload", "selfSigned"}])
  /\ artifacts \in Seq([order : DOMAIN orders, current : BOOLEAN,
                        activated : BOOLEAN, fresh : BOOLEAN])
  /\ certificate \in [version : {Missing, 0} \cup DOMAIN artifacts, orphaned : BOOLEAN]
  /\ Len(orders) <= MaxOrders /\ Len(artifacts) <= MaxArtifacts
  /\ flow \in [Flow -> [at : Place, task : Kind, order : {0} \cup DOMAIN orders,
                         version : 0 .. MaxArtifacts + 1, waiting : SUBSET Node]]
  /\ lock \subseteq {f \in Flow : Busy(f)}
  /\ calls \subseteq [by : Flow \cup {Nobody}, node : Node, version : DOMAIN artifacts]
  /\ \A c \in calls : c.by # Nobody => At(c.by, "rollout")
  /\ installed \in [Node -> {0} \cup DOMAIN artifacts]
  /\ copy \in [Node -> {Missing, 0} \cup DOMAIN artifacts]

\* The lock and the look at the database under it (ensureCertificate): nodes
\* that ensure a certificate at the same time place one ACME order at a time,
\* and none while there is a certificate that is usable.
NoNeedlessIssuance ==
  ~sessionLost =>
    \A f \in Flow :
      At(f, "acme") => ~Usable /\ \A g \in Flow \ {f} : ~At(g, "acme")

\* The three statements at the end of an activation (the row, the flags of the
\* other artifacts, that of this one): outside of them exactly the artifact
\* that the certificate is made from is current, unless the last activation
\* to come so far was cut off between them.  Whatever was left by one that
\* was, the next one that comes to its end puts right.
CertificateIsCurrent ==
  ~sessionLost /\ ~interrupted /\ (\A f \in Flow : flow[f].at \notin {"clear", "mark"}) =>
    Current = {certificate.version} \ {Missing, 0}

\* The ways out of a request settle the order it has worked on, but for those
\* that cut the request off: an upload that is rejected, a query that fails
\* outside of the catches or in them, the death of the process.  Every other
\* order in progress has a request that works on it.  (Requests that no lock
\* keeps apart, or none any more, can lose the insertion of the row to each
\* other, in the catch of the issuance or in a retry, and leave an order
\* behind: this does not cover them.)
NoOrderAbandoned ==
  ~sessionLost =>
    OrdersIn("active") \subseteq {flow[f].order : f \in Flow} \cup dropped

\* The two queries of recordArtifact and the unique key between them: what a
\* request activates is an artifact of the order it settles, whoever else
\* reads the same version at the same time.
ActivatesOwnArtifact ==
  \A f \in Flow :
    flow[f].at \in {"distribute", "enqueue", "rollout", "save", "clear", "mark"} =>
      artifacts[flow[f].version].order = flow[f].order

\* The periodic sync repairs what late activations, failed rollouts and stale
\* copies leave behind: a certificate that stays gets on every node's disk.
NodesConverge ==
  \A n \in Syncing, v \in 1 .. MaxArtifacts :
    certificate = [version |-> v, orphaned |-> FALSE]
      ~> (installed[n] = v \/ certificate # [version |-> v, orphaned |-> FALSE])
=============================================================================
