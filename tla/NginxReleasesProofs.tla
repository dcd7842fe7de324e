------------------------ MODULE NginxReleasesProofs ------------------------
(***************************************************************************)
(* Proofs about NginxReleases, for any number of releases and faults and   *)
(* any retention; where nothing else is said, for any number of reloads    *)
(* that interleave.                                                        *)
(***************************************************************************)
EXTENDS NginxReleases, TLAPS

USE ReleasesAssumption DEF ReleasesAssumption

-----------------------------------------------------------------------------
(* Type correctness.                                                       *)

(* The releases are numbers, and no link that is missing is one of them. *)
LEMMA ReleaseTypes ==
  /\ Release \subseteq Nat
  /\ Bootstrap \in Release /\ Bootstrap # Missing
  /\ Missing \notin Release
  /\ Idle \in Task
BY DEF Release, Bootstrap, Missing, Idle, Task, Place, Link

(* What can happen to the directories keeps their types. *)
LEMMA DirectoryTypes ==
  ASSUME TypeOK
  PROVE  /\ \A r \in Release : Touch(r) =>
              disk' \subseteq Release /\ older' \in [Release -> SUBSET Release]
         /\ \A rs : RemoveAll(rs) =>
              disk' \subseteq Release /\ older' \in [Release -> SUBSET Release]
BY DEF TypeOK, Touch, RemoveAll

(* Moving a reload from place to place keeps its type. *)
LEMMA GotoTypes ==
  ASSUME TypeOK, NEW t \in Reload, NEW place \in Place, Goto(t, place)
  PROVE  task' \in [Reload -> Task]
BY DEF TypeOK, Goto, Task

(* So does setting some of its fields. *)
LEMMA TaskTypes ==
  ASSUME TypeOK, NEW t \in Reload, NEW place \in Place,
         NEW release \in Link, NEW previous \in Link
  PROVE  /\ [task EXCEPT ![t].at = place, ![t].previous = previous] \in [Reload -> Task]
         /\ [task EXCEPT ![t].at = place, ![t].release = release,
                         ![t].previous = previous] \in [Reload -> Task]
<1>1. task[t] \in Task
  BY DEF TypeOK
<1>2. [task[t] EXCEPT !.at = place, !.previous = previous] \in Task
  BY <1>1 DEF Task
<1>3. [task[t] EXCEPT !.at = place, !.release = release, !.previous = previous] \in Task
  BY <1>1 DEF Task
<1> QED
  BY <1>2, <1>3 DEF TypeOK

LEMMA ThrowTypes ==
  ASSUME TypeOK, NEW t \in Reload, Throw(t)
  PROVE  task' \in [Reload -> Task] /\ health' \in {"unknown", "ok", "failed"}
BY ReleaseTypes DEF TypeOK, Throw

LEMMA EnsureLayoutTypes ==
  ASSUME TypeOK, NEW t \in Reload, EnsureLayout(t)
  PROVE  TypeOK'
<1> USE DEF links, releases, ambient
<1>1. CASE ReadCurrentLink(t)
  <2>1. task' \in [Reload -> Task]
    BY <1>1, GotoTypes DEF ReadCurrentLink, TypeOK, Place, Task
  <2> QED
    BY <1>1, <2>1 DEF ReadCurrentLink, TypeOK
<1>2. CASE createBootstrapRelease(t)
  BY <1>2, ReleaseTypes, DirectoryTypes, GotoTypes DEF createBootstrapRelease, TypeOK, Place
<1>3. CASE LinkBootstrap(t)
  <2>1. Bootstrap \in Link
    BY ReleaseTypes DEF Link
  <2>2. task' \in [Reload -> Task]
    BY <1>3, <2>1, TaskTypes DEF LinkBootstrap, Place
  <2> QED
    BY <1>3, <2>1, <2>2 DEF LinkBootstrap, TypeOK
<1>4. CASE ReadGoodLink(t)
  <2>1. task' \in [Reload -> Task]
    BY <1>4, GotoTypes DEF ReadGoodLink, Place
  <2> QED
    BY <1>4, <2>1 DEF ReadGoodLink, TypeOK
<1>5. CASE LinkGood(t)
  <2>1. task' \in [Reload -> Task]
    BY <1>5, GotoTypes DEF LinkGood, Place
  <2>2. task[t].previous \in Link
    BY DEF TypeOK, Task
  <2> QED
    BY <1>5, <2>1, <2>2 DEF LinkGood, TypeOK
<1> QED
  BY <1>1, <1>2, <1>3, <1>4, <1>5 DEF EnsureLayout

LEMMA DeployTypes ==
  ASSUME TypeOK, NEW t \in Reload, Deploy(t)
  PROVE  TypeOK'
<1> USE DEF links, releases, ambient
<1>0. task[t] \in Task /\ task[t].release \in Link /\ task[t].previous \in Link
  BY DEF TypeOK, Task
<1>1. CASE Stage(t)
  <2>1. PICK r \in Release :
          /\ task' = [task EXCEPT ![t].at = "validate", ![t].release = r,
                                  ![t].previous = current]
          /\ Touch(r)
          /\ metadata' = [metadata EXCEPT ![r] = "staged"]
    BY <1>1 DEF Stage
  <2>2. task' \in [Reload -> Task]
    <3>1. "validate" \in Place /\ r \in Link /\ current \in Link
      BY DEF Place, Link, TypeOK
    <3> QED
      BY <2>1, <3>1, TaskTypes
  <2> QED
    BY <1>1, <2>1, <2>2, DirectoryTypes DEF Stage, TypeOK
<1>2. CASE Validate(t)
  <2>1. disk' \subseteq Release /\ older' \in [Release -> SUBSET Release]
    BY <1>2, DirectoryTypes DEF Validate, OnDisk, TypeOK
  <2>2. metadata' \in [Release -> {"unknown", "bootstrap", "staged", "validated",
                                   "active", "rolled_back"}]
    BY <1>2 DEF Validate, TypeOK
  <2>3. task' \in [Reload -> Task] /\ health' \in {"unknown", "ok", "failed"}
    BY <1>2, GotoTypes, ThrowTypes DEF Validate, Place, TypeOK
  <2> QED
    BY <1>2, <2>1, <2>2, <2>3 DEF Validate, TypeOK
<1>3. CASE Activate(t)
  BY <1>0, <1>3, GotoTypes DEF Activate, TypeOK, Place
<1>4. CASE ReloadNginx(t)
  <2>1. task' \in [Reload -> Task]
    BY <1>4, GotoTypes DEF ReloadNginx, Place
  <2> QED
    BY <1>4, <2>1 DEF ReloadNginx, Signalled, TypeOK
<1>5. CASE Promote(t)
  BY <1>0, <1>5, GotoTypes DEF Promote, TypeOK, Place
<1>6. CASE RecordActive(t)
  <2>1. metadata' \in [Release -> {"unknown", "bootstrap", "staged", "validated",
                                   "active", "rolled_back"}]
    BY <1>6 DEF RecordActive, TypeOK
  <2>2. task' \in [Reload -> Task] /\ health' \in {"unknown", "ok", "failed"}
    BY <1>6, GotoTypes, ThrowTypes DEF RecordActive, Place, TypeOK
  <2> QED
    BY <1>6, <2>1, <2>2 DEF RecordActive, TypeOK
<1>7. CASE ListStale(t)
  <2>1. Stale(t) \subseteq Release
    BY DEF Stale, TypeOK
  <2>2. task' \in [Reload -> Task] /\ health' \in {"unknown", "ok", "failed"}
    BY <1>0, <1>7, <2>1, ThrowTypes DEF ListStale, TypeOK, Task, Place
  <2> QED
    BY <1>7, <2>2 DEF ListStale, TypeOK
<1>8. CASE Prune(t)
  <2>1. disk' \subseteq Release /\ older' \in [Release -> SUBSET Release]
    BY <1>8, DirectoryTypes DEF Prune
  <2>2. task' \in [Reload -> Task] /\ health' \in {"unknown", "ok", "failed"}
    <3>1. [Idle EXCEPT !.at = "stage", !.phase = 2] \in Task
      BY ReleaseTypes DEF Idle, Task, Place
    <3> QED
      BY <1>8, <3>1, ReleaseTypes DEF Prune, Deployed, TypeOK
  <2> QED
    BY <1>8, <2>1, <2>2 DEF Prune, TypeOK
<1>9. CASE RollBackLink(t)
  BY <1>0, <1>9, GotoTypes DEF RollBackLink, TypeOK, Place
<1>10. CASE ReloadBack(t)
  <2>1. task' \in [Reload -> Task] /\ health' \in {"unknown", "ok", "failed"}
    BY <1>10, GotoTypes, ThrowTypes DEF ReloadBack, Place, TypeOK
  <2> QED
    BY <1>10, <2>1 DEF ReloadBack, Signalled, TypeOK
<1>11. CASE RecordRolledBack(t)
  <2>1. metadata' \in [Release -> {"unknown", "bootstrap", "staged", "validated",
                                   "active", "rolled_back"}]
    BY <1>11 DEF RecordRolledBack, TypeOK
  <2> QED
    BY <1>11, <2>1, ThrowTypes DEF RecordRolledBack, TypeOK
<1> QED
  BY <1>1, <1>2, <1>3, <1>4, <1>5, <1>6, <1>7, <1>8, <1>9, <1>10, <1>11 DEF Deploy

LEMMA TypeStep == TypeOK /\ [Next]_vars => TypeOK'
<1> SUFFICES ASSUME TypeOK, [Next]_vars PROVE TypeOK'
  OBVIOUS
<1> USE DEF links, releases, ambient
<1>1. ASSUME NEW t \in Reload, Begin(t) PROVE TypeOK'
  <2>1. task' \in [Reload -> Task]
    BY <1>1, GotoTypes DEF Begin, Place
  <2> QED
    BY <1>1, <2>1 DEF Begin, TypeOK
<1>2. ASSUME NEW t \in Reload, IoError(t) PROVE TypeOK'
  BY <1>2, ThrowTypes DEF IoError, TypeOK
<1>3. CASE Crash
  BY <1>3, ReleaseTypes DEF Crash, TypeOK
<1>4. CASE HandleSignal \/ RestartNginx
  <2>1. Served(current) \in Link
    BY DEF Served, TypeOK, Link
  <2>2. nginx' \in [loaded : Link, signal : BOOLEAN]
    <3>1. [loaded |-> Served(current), signal |-> FALSE]
            \in [loaded : Link, signal : BOOLEAN]
      BY <2>1
    <3>2. [nginx EXCEPT !.signal = FALSE] \in [loaded : Link, signal : BOOLEAN]
      BY DEF TypeOK
    <3> QED
      BY <1>4, <3>1, <3>2 DEF HandleSignal, RestartNginx
  <2>3. unreached' \in {"none", "notAsked", "refused", "rollbackFailed"}
    BY <1>4 DEF HandleSignal, RestartNginx, TypeOK
  <2> QED
    BY <1>4, <2>2, <2>3 DEF HandleSignal, RestartNginx, TypeOK
<1>5. CASE UNCHANGED vars
  BY <1>5 DEF vars, TypeOK
<1> QED
  BY <1>1, <1>2, <1>3, <1>4, <1>5, EnsureLayoutTypes, DeployTypes DEF Next

(***************************************************************************)
(* Every variable keeps its type: in particular every link names a release *)
(* that was staged some time, or none.                                     *)
(***************************************************************************)
THEOREM TypeCorrect == Spec => []TypeOK
<1>1. Init => TypeOK
  BY ReleaseTypes DEF Init, TypeOK, Link
<1> QED
  BY <1>1, TypeStep, PTL DEF Spec

-----------------------------------------------------------------------------
(* What the links point to.                                                *)

(* A link may point to x: nginx -t has accepted it. *)
Accepted(x) == x # Missing => metadata[x] \notin {"unknown", "staged"}

(* The places from where a reload may yet put its release in a link. *)
Passed == {"activate", "reload", "promote", "record", "list", "prune",
           "rollback", "reloadBack", "describe"}

TaskLinks(t) ==
  /\ Accepted(task[t].previous)
  /\ task[t].at \in Passed => Accepted(task[t].release)

LinksInv ==
  /\ Accepted(Bootstrap)
  /\ Accepted(current)
  /\ Accepted(lastKnownGood)
  /\ \A t \in Reload : TaskLinks(t)

(* One step of one reload. *)
Step(t) == Begin(t) \/ EnsureLayout(t) \/ Deploy(t) \/ IoError(t)

(* A reload moves itself alone. *)
LEMMA MovesItself ==
  ASSUME TypeOK, NEW t \in Reload, Step(t)
  PROVE  \A u \in Reload \ {t} : task'[u] = task[u]
<1>1. ASSUME NEW place, Goto(t, place) PROVE \A u \in Reload \ {t} : task'[u] = task[u]
  BY <1>1 DEF Goto, TypeOK
<1>2. CASE Throw(t)
  BY <1>2 DEF Throw, TypeOK
<1>3. CASE EnsureLayout(t)
  BY <1>1, <1>3 DEF EnsureLayout, ReadCurrentLink, createBootstrapRelease, LinkBootstrap,
     ReadGoodLink, LinkGood, TypeOK
<1>4. CASE Stage(t) \/ Validate(t) \/ Activate(t) \/ ReloadNginx(t) \/ Promote(t)
  BY <1>1, <1>2, <1>4 DEF Stage, Validate, Activate, ReloadNginx, Promote, TypeOK
<1>5. CASE RecordActive(t) \/ ListStale(t) \/ Prune(t)
  BY <1>1, <1>2, <1>5 DEF RecordActive, ListStale, Prune, Deployed, TypeOK
<1>6. CASE RollBackLink(t) \/ ReloadBack(t) \/ RecordRolledBack(t)
  BY <1>1, <1>2, <1>6 DEF RollBackLink, ReloadBack, RecordRolledBack
<1> QED
  BY <1>1, <1>2, <1>3, <1>4, <1>5, <1>6 DEF Step, Begin, Deploy, IoError

(* Going from place to place, a reload remembers what it did. *)
LEMMA Goes ==
  ASSUME TypeOK, NEW t \in Reload, NEW place, Goto(t, place)
  PROVE  /\ task'[t].at = place
         /\ task'[t].phase = task[t].phase
         /\ task'[t].release = task[t].release
         /\ task'[t].previous = task[t].previous
         /\ task'[t].stale = task[t].stale
<1>1. task[t] \in Task
  BY DEF TypeOK
<1>2. task'[t] = [task[t] EXCEPT !.at = place]
  BY DEF Goto, TypeOK
<1> QED
  BY <1>1, <1>2 DEF Task

LEMMA Throws ==
  ASSUME TypeOK, NEW t \in Reload, Throw(t)
  PROVE  /\ task'[t] = Idle
         /\ task'[t].at = "idle"
         /\ task'[t].release = Missing
         /\ task'[t].previous = Missing
         /\ task'[t].stale = {}
BY DEF Throw, Idle, TypeOK

(* A deployment that is complete is forgotten, and the second one is the last. *)
LEMMA Finishes ==
  ASSUME TypeOK, NEW t \in Reload, Deployed(t)
  PROVE  /\ task'[t].release = Missing
         /\ task'[t].previous = Missing
         /\ task'[t].stale = {}
         /\ \/ task'[t].at = "stage" /\ UNCHANGED health
            \/ task'[t].at = "idle" /\ health' = "ok"
<1>1. CASE task[t].phase = 1
  <2> DEFINE next == [Idle EXCEPT !.at = "stage", !.phase = 2]
  <2>2. /\ next.at = "stage" /\ next.stale = {}
        /\ next.release = Missing /\ next.previous = Missing
    BY DEF Idle
  <2>3. task' = [task EXCEPT ![t] = next] /\ UNCHANGED health
    BY <1>1 DEF Deployed
  <2> HIDE DEF next
  <2>4. task'[t] = next
    BY <2>3 DEF TypeOK
  <2> QED
    BY <2>2, <2>3, <2>4
<1>2. CASE task[t].phase # 1
  BY <1>2 DEF Deployed, Idle, TypeOK
<1> QED
  BY <1>1, <1>2

(* What ensureRuntimeLayout and staging make a reload remember. *)
LEMMA LayoutMoves ==
  ASSUME TypeOK, NEW t \in Reload, EnsureLayout(t)
  PROVE  /\ task'[t].at \in {"bootstrap", "linkCurrent", "readGood", "linkGood", "stage"}
         /\ task'[t].release = task[t].release
         /\ task'[t].previous \in {task[t].previous, current, Bootstrap}
         /\ task'[t].stale = task[t].stale
<1>1. task[t] \in Task
  BY DEF TypeOK
<1>2. CASE ReadCurrentLink(t) /\ current # Missing
  <2>1. task'[t] = [task[t] EXCEPT !.at = "readGood", !.previous = current]
    BY <1>2 DEF ReadCurrentLink, TypeOK
  <2> QED
    BY <1>1, <2>1 DEF Task
<1>3. CASE LinkBootstrap(t)
  <2>1. task'[t] = [task[t] EXCEPT !.at = "readGood", !.previous = Bootstrap]
    BY <1>3 DEF LinkBootstrap, TypeOK
  <2> QED
    BY <1>1, <2>1 DEF Task
<1>4. ASSUME NEW place \in {"bootstrap", "linkCurrent", "readGood", "linkGood", "stage"},
             Goto(t, place)
      PROVE  /\ task'[t].at = place
             /\ task'[t].release = task[t].release
             /\ task'[t].previous = task[t].previous
             /\ task'[t].stale = task[t].stale
  BY <1>4, Goes
<1> QED
  BY <1>2, <1>3, <1>4 DEF EnsureLayout, ReadCurrentLink, createBootstrapRelease, ReadGoodLink,
     LinkGood

LEMMA StageMoves ==
  ASSUME TypeOK, NEW t \in Reload, Stage(t)
  PROVE  \E r \in Release :
           /\ Fresh(r) /\ metadata[r] = "unknown"
           /\ Touch(r)
           /\ metadata' = [metadata EXCEPT ![r] = "staged"]
           /\ task'[t].at = "validate"
           /\ task'[t].release = r
           /\ task'[t].previous = current
           /\ task'[t].stale = task[t].stale
<1>1. PICK r \in Release :
        /\ Fresh(r)
        /\ task' = [task EXCEPT ![t].at = "validate", ![t].release = r,
                                ![t].previous = current]
        /\ Touch(r)
        /\ metadata' = [metadata EXCEPT ![r] = "staged"]
  BY DEF Stage
<1>2. metadata[r] = "unknown"
  BY <1>1 DEF Fresh, Release
<1>3. task'[t] = [task[t] EXCEPT !.at = "validate", !.release = r, !.previous = current]
  BY <1>1 DEF TypeOK
<1>4. task[t] \in Task
  BY DEF TypeOK
<1>5. /\ task'[t].at = "validate"
      /\ task'[t].release = r
      /\ task'[t].previous = current
      /\ task'[t].stale = task[t].stale
  BY <1>3, <1>4 DEF Task
<1> QED
  BY <1>1, <1>2, <1>5

(* The rest of a deployment keeps its release, or is over. *)
LEMMA DeployMoves ==
  ASSUME TypeOK, NEW t \in Reload, Deploy(t), ~Stage(t)
  PROVE  \/ /\ task'[t].release = task[t].release
            /\ task'[t].previous = task[t].previous
            /\ task'[t].at \in Passed
         \/ /\ task'[t].release = Missing
            /\ task'[t].previous = Missing
            /\ task'[t].at \in {"idle", "stage"}
<1>1. ASSUME NEW place \in Passed, Goto(t, place)
      PROVE  /\ task'[t].release = task[t].release
             /\ task'[t].previous = task[t].previous
             /\ task'[t].at \in Passed
  BY <1>1, Goes
<1>2. CASE Throw(t)
  BY <1>2, Throws
<1>3. CASE Validate(t) \/ Activate(t) \/ ReloadNginx(t) \/ Promote(t)
  BY <1>1, <1>2, <1>3 DEF Validate, Activate, ReloadNginx, Promote, Passed
<1>4. CASE ListStale(t) /\ ~Throw(t)
  <2>1. task[t] \in Task
    BY DEF TypeOK
  <2>2. task'[t] = [task[t] EXCEPT !.at = "prune", !.stale = Stale(t)]
    BY <1>4 DEF ListStale, TypeOK
  <2> QED
    BY <2>1, <2>2 DEF Task, Passed
<1>5. CASE Prune(t)
  BY <1>5, Finishes DEF Prune
<1>6. CASE RecordActive(t) \/ RollBackLink(t) \/ ReloadBack(t) \/ RecordRolledBack(t)
  BY <1>1, <1>2, <1>6 DEF RecordActive, RollBackLink, ReloadBack, RecordRolledBack, Passed
<1> QED
  BY <1>2, <1>3, <1>4, <1>5, <1>6 DEF Deploy

(* What has been accepted once is never taken for untested again. *)
LEMMA AcceptedStays ==
  ASSUME TypeOK, [Next]_vars, NEW x \in Link, Accepted(x)
  PROVE  Accepted(x)'
<1> USE DEF links, ambient, Accepted
<1>1. ASSUME NEW t \in Reload, Stage(t) PROVE Accepted(x)'
  <2>1. PICK r \in Release : Fresh(r) /\ metadata' = [metadata EXCEPT ![r] = "staged"]
    BY <1>1 DEF Stage
  <2>2. metadata[r] = "unknown"
    BY <2>1 DEF Fresh, Release
  <2> QED
    BY <2>1, <2>2 DEF TypeOK, Link
<1>2. ASSUME NEW t \in Reload, Validate(t) \/ RecordActive(t) \/ RecordRolledBack(t)
      PROVE  Accepted(x)'
  BY <1>2 DEF Validate, RecordActive, RecordRolledBack, TypeOK, Link
<1>3. ASSUME NEW t \in Reload, Step(t),
             ~(Stage(t) \/ Validate(t) \/ RecordActive(t) \/ RecordRolledBack(t))
      PROVE  UNCHANGED metadata
  BY <1>3 DEF Step, Begin, EnsureLayout, ReadCurrentLink, createBootstrapRelease,
     LinkBootstrap, ReadGoodLink, LinkGood, Deploy, Activate, ReloadNginx, Promote,
     ListStale, Prune, RollBackLink, ReloadBack, IoError
<1>4. CASE Crash \/ HandleSignal \/ RestartNginx \/ UNCHANGED vars
  BY <1>4 DEF Crash, HandleSignal, RestartNginx, vars
<1> QED
  BY <1>1, <1>2, <1>3, <1>4 DEF Next, Step

LEMMA LinksStep == TypeOK /\ LinksInv /\ [Next]_vars => LinksInv'
<1> SUFFICES ASSUME TypeOK, LinksInv, [Next]_vars PROVE LinksInv'
  OBVIOUS
<1>0. TypeOK'
  BY TypeStep
<1>1. \A x \in Link : Accepted(x) => Accepted(x)'
  BY AcceptedStays
<1>2. Accepted(Bootstrap)'
  BY <1>1, ReleaseTypes DEF LinksInv, Link
<1>3. ASSUME NEW t \in Reload, Step(t) PROVE LinksInv'
  <2>0. /\ task[t] \in Task /\ task[t].release \in Link /\ task[t].previous \in Link
        /\ task'[t].at \in Place
    BY <1>0 DEF TypeOK, Task
  <2>1. \A u \in Reload \ {t} : TaskLinks(u)'
    BY <1>1, <1>3, MovesItself DEF LinksInv, TaskLinks, TypeOK, Task
  <2>2. SUFFICES TaskLinks(t)' /\ Accepted(current)' /\ Accepted(lastKnownGood)'
    BY <1>2, <2>1 DEF LinksInv
  <2>3. TaskLinks(t)
    BY DEF LinksInv
  <2>4. /\ UNCHANGED current => Accepted(current)'
        /\ UNCHANGED lastKnownGood => Accepted(lastKnownGood)'
    BY <1>1 DEF LinksInv, TypeOK, Accepted
  <2>5. \A x \in Link : Accepted(x) => (current' = x => Accepted(current)')
                                   /\ (lastKnownGood' = x => Accepted(lastKnownGood)')
    BY <1>1 DEF Accepted
  <2>6. \A x \in {task[t].previous, current, Bootstrap, Missing} :
          task'[t].previous = x => Accepted(task[t].previous)'
    <3>1. Accepted(Missing)'
      BY DEF Accepted
    <3> QED
      BY <1>1, <1>2, <2>0, <2>3, <3>1 DEF LinksInv, TaskLinks, TypeOK, Accepted
  <2>7. CASE Begin(t) \/ IoError(t)
    <3>1. UNCHANGED links
      BY <2>7 DEF Begin, IoError
    <3>2. task'[t].previous \in {task[t].previous, Missing} /\ task'[t].at \notin Passed
      BY <2>7, Goes, Throws DEF Begin, IoError, Passed
    <3> QED
      BY <2>4, <2>6, <3>1, <3>2 DEF links, TaskLinks
  <2>8. CASE EnsureLayout(t)
    <3>1. /\ current' \in {current, Bootstrap}
          /\ lastKnownGood' \in {lastKnownGood, task[t].previous}
      BY <2>8 DEF EnsureLayout, ReadCurrentLink, createBootstrapRelease, LinkBootstrap,
         ReadGoodLink, LinkGood, links
    <3>2. Accepted(current)' /\ Accepted(lastKnownGood)'
      BY <1>2, <2>0, <2>3, <2>4, <2>5, <3>1, ReleaseTypes DEF LinksInv, TaskLinks, Link
    <3> QED
      BY <2>6, <2>8, <3>2, LayoutMoves DEF TaskLinks, Passed
  <2>9. CASE Stage(t)
    <3>1. task'[t].previous = current /\ task'[t].at \notin Passed /\ UNCHANGED links
      BY <2>9, StageMoves DEF Stage, Passed
    <3> QED
      BY <2>4, <2>6, <3>1 DEF TaskLinks, links
  <2>10. CASE Validate(t)
    <3>1. UNCHANGED links /\ task'[t].previous \in {task[t].previous, Missing}
      BY <2>10, DeployMoves DEF Validate, Deploy, Stage, At
    <3>2. task'[t].at \in Passed => Accepted(task[t].release)'
      <4>1. task'[t].at \in Passed => ~Throw(t)
        BY Throws DEF Passed
      <4>2. ~Throw(t) => /\ task[t].release \in Release
                         /\ metadata' = [metadata EXCEPT ![task[t].release] = "validated"]
                         /\ task'[t].release = task[t].release
        BY <2>10, Goes DEF Validate, OnDisk, TypeOK
      <4> QED
        BY <4>1, <4>2 DEF Accepted, TypeOK
    <3> QED
      BY <2>4, <2>6, <3>1, <3>2 DEF TaskLinks, links
  <2>11. CASE Deploy(t) /\ ~Stage(t) /\ ~Validate(t)
    <3>1. task[t].at \in Passed
      BY <2>11 DEF Deploy, Activate, ReloadNginx, Promote, RecordActive, ListStale, Prune,
         RollBackLink, ReloadBack, RecordRolledBack, At, Passed
    <3>2. /\ current' \in {current, task[t].previous, task[t].release}
          /\ lastKnownGood' \in {lastKnownGood, task[t].release}
      BY <2>11 DEF Deploy, Activate, ReloadNginx, Promote, RecordActive, ListStale, Prune,
         RollBackLink, ReloadBack, RecordRolledBack, links
    <3>3. Accepted(task[t].release) /\ Accepted(task[t].previous)
      BY <2>3, <3>1 DEF TaskLinks
    <3>4. Accepted(current)' /\ Accepted(lastKnownGood)'
      BY <2>0, <2>3, <2>4, <2>5, <3>2, <3>3
    <3>5. /\ task'[t].release = task[t].release => Accepted(task[t].release)'
          /\ Accepted(task[t].previous)'
      BY <1>1, <2>0, <2>6, <2>11, <3>3, DeployMoves DEF Accepted
    <3> QED
      BY <2>11, <3>4, <3>5, DeployMoves DEF TaskLinks, Passed
  <2> QED
    BY <1>3, <2>7, <2>8, <2>9, <2>10, <2>11 DEF Step
<1>4. CASE Crash \/ HandleSignal \/ RestartNginx \/ UNCHANGED vars
  <2>1. UNCHANGED <<current, lastKnownGood>>
    BY <1>4 DEF Crash, HandleSignal, RestartNginx, vars, links
  <2>2. \A t \in Reload : task'[t] \in {task[t], Idle}
    BY <1>4 DEF Crash, HandleSignal, RestartNginx, vars
  <2> QED
    BY <1>1, <1>2, <2>1, <2>2 DEF LinksInv, TaskLinks, TypeOK, Task, Idle, Passed, Accepted
<1> QED
  BY <1>3, <1>4 DEF Next, Step

(***************************************************************************)
(* However many reloads interleave, and whatever fails in between, nothing *)
(* that nginx -t has not accepted is ever linked.  The invariant follows   *)
(* the release of a reload from its validation on, and the release it goes *)
(* back to: what it remembered as `previous` was linked when it looked.    *)
(***************************************************************************)
THEOREM OnlyAcceptedIsLinked == Spec => []LinksValidated
<1>1. Init => LinksInv
  BY ReleaseTypes DEF Init, LinksInv, TaskLinks, Accepted, Idle, Passed
<1>2. LinksInv => LinksValidated
  BY DEF LinksInv, LinksValidated, Accepted
<1> QED
  BY <1>1, <1>2, LinksStep, TypeCorrect, PTL DEF Spec

-----------------------------------------------------------------------------
(* What nginx serves.                                                      *)

(* A reload in between has changed, or will change, the link. *)
Underway == \E t \in Reload : task[t].at \in {"reload", "rollback", "reloadBack"}

BootstrapStays ==
  /\ Bootstrap \in disk
  /\ \A t \in Reload : Bootstrap \notin task[t].stale

Follows ==
  \/ faults # 0
  \/ current = Missing
  \/ nginx.signal
  \/ Underway
  \/ nginx.loaded = current
  \/ unreached # "none"
  \/ ~OnDisk(current)

LEMMA BootstrapStep == TypeOK /\ BootstrapStays /\ [Next]_vars => BootstrapStays'
<1> SUFFICES ASSUME TypeOK, BootstrapStays, [Next]_vars PROVE BootstrapStays'
  OBVIOUS
<1>1. ASSUME NEW t \in Reload, Step(t) PROVE BootstrapStays'
  <2>1. \A u \in Reload \ {t} : Bootstrap \notin task'[u].stale
    BY <1>1, MovesItself DEF BootstrapStays
  <2>2. Bootstrap \notin task'[t].stale
    <3>1. CASE Begin(t) \/ IoError(t)
      BY <3>1, Goes, Throws DEF Begin, IoError, BootstrapStays
    <3>2. CASE EnsureLayout(t)
      BY <3>2, LayoutMoves DEF BootstrapStays
    <3>3. CASE Stage(t)
      BY <3>3, StageMoves DEF BootstrapStays
    <3>4. CASE ListStale(t) /\ ~Throw(t)
      <4>1. task'[t] = [task[t] EXCEPT !.at = "prune", !.stale = Stale(t)] /\ task[t] \in Task
        BY <3>4 DEF ListStale, TypeOK
      <4>2. task'[t].stale = Stale(t)
        BY <4>1 DEF Task
      <4> QED
        BY <4>2 DEF Stale
    <3>5. CASE Prune(t)
      BY <3>5, Finishes DEF Prune
    <3>6. CASE Deploy(t) /\ ~Stage(t) /\ ~(ListStale(t) /\ ~Throw(t)) /\ ~Prune(t)
      <4>1. Throw(t) \/ \E place : Goto(t, place)
        BY <3>6 DEF Deploy, Validate, Activate, ReloadNginx, Promote, RecordActive,
           ListStale, RollBackLink, ReloadBack, RecordRolledBack
      <4> QED
        BY <4>1, Goes, Throws DEF BootstrapStays
    <3> QED
      BY <1>1, <3>1, <3>2, <3>3, <3>4, <3>5, <3>6 DEF Step
  <2>3. Bootstrap \in disk'
    <3>1. UNCHANGED disk \/ (\E r : Touch(r)) \/ RemoveAll(task[t].stale)
      BY <1>1 DEF Step, Begin, IoError, EnsureLayout, ReadCurrentLink, createBootstrapRelease,
         LinkBootstrap, ReadGoodLink, LinkGood, Deploy, Stage, Validate, Activate, ReloadNginx,
         Promote, RecordActive, ListStale, Prune, RollBackLink, ReloadBack, RecordRolledBack,
         releases
    <3> QED
      BY <3>1 DEF BootstrapStays, Touch, RemoveAll
  <2> QED
    BY <2>1, <2>2, <2>3 DEF BootstrapStays
<1>2. CASE Crash \/ HandleSignal \/ RestartNginx \/ UNCHANGED vars
  BY <1>2 DEF Crash, HandleSignal, RestartNginx, vars, releases, BootstrapStays, Idle
<1> QED
  BY <1>1, <1>2 DEF Next, Step

(* Faults are counted and never forgotten. *)
LEMMA FaultsCount ==
  ASSUME TypeOK, [Next]_vars, faults' = 0
  PROVE  faults = 0
<1>1. faults \in Nat
  BY DEF TypeOK
<1>2. CASE Crash
  BY <1>1, <1>2 DEF Crash
<1>3. ASSUME NEW t \in Reload, IoError(t) PROVE faults = 0
  BY <1>1, <1>3 DEF IoError
<1>4. ASSUME NEW t \in Reload, Begin(t) \/ EnsureLayout(t) \/ Deploy(t)
      PROVE  faults = 0
  BY <1>4 DEF Begin, EnsureLayout, ReadCurrentLink, createBootstrapRelease, LinkBootstrap,
     ReadGoodLink, LinkGood, Deploy, Stage, Validate, Activate, ReloadNginx, Promote,
     RecordActive, ListStale, Prune, RollBackLink, ReloadBack, RecordRolledBack, ambient
<1>5. CASE HandleSignal \/ RestartNginx \/ UNCHANGED vars
  BY <1>5 DEF HandleSignal, RestartNginx, vars
<1> QED
  BY <1>2, <1>3, <1>4, <1>5 DEF Next

LEMMA FollowsStep ==
  TypeOK /\ LinksInv /\ BootstrapStays /\ Follows /\ [Next]_vars => Follows'
<1> SUFFICES ASSUME TypeOK, LinksInv, BootstrapStays, Follows, [Next]_vars PROVE Follows'
  OBVIOUS
<1> USE DEF links, releases, ambient
<1>1. SUFFICES ASSUME faults = 0, faults' = 0 PROVE Follows'
  BY FaultsCount DEF Follows
<1>2. CASE HandleSignal \/ RestartNginx
  BY <1>2 DEF HandleSignal, RestartNginx, Follows, Served, OnDisk
<1>3. CASE Crash
  BY <1>1, <1>3 DEF Crash
<1>4. CASE UNCHANGED vars
  BY <1>4 DEF vars, Follows, Underway, OnDisk
<1>5. ASSUME NEW t \in Reload, Step(t) PROVE Follows'
  <2>0. \A u \in Reload \ {t} : task'[u] = task[u]
    BY <1>5, MovesItself
  <2>1. CASE Activate(t)
    BY <2>1, Goes DEF Activate, Follows, Underway
  <2>2. CASE RollBackLink(t)
    BY <2>2, Goes DEF RollBackLink, Follows, Underway
  <2>3. CASE ReloadNginx(t)
    BY <2>3, Goes DEF ReloadNginx, Follows, Underway, Signalled, TypeOK
  <2>4. CASE ReloadBack(t)
    BY <2>4 DEF ReloadBack, Follows, Signalled, TypeOK
  <2>5. CASE LinkBootstrap(t)
    BY <2>5 DEF LinkBootstrap, Follows
  <2>6. CASE IoError(t)
    BY <1>1, <2>6 DEF IoError
  <2>7. CASE /\ Begin(t) \/ EnsureLayout(t) \/ Deploy(t)
             /\ ~(LinkBootstrap(t) \/ Activate(t) \/ RollBackLink(t) \/ ReloadNginx(t)
                  \/ ReloadBack(t))
    <3>1. UNCHANGED <<current, nginx, unreached>>
      BY <2>7 DEF Begin, EnsureLayout, ReadCurrentLink, createBootstrapRelease, ReadGoodLink,
         LinkGood, Deploy, Stage, Validate, Promote, RecordActive, ListStale, Prune,
         RecordRolledBack
    <3>2. task[t].at \notin {"reload", "rollback", "reloadBack"}
      BY <2>7 DEF Begin, EnsureLayout, ReadCurrentLink, createBootstrapRelease, ReadGoodLink,
         LinkGood, Deploy, Stage, Validate, Promote, RecordActive, ListStale, Prune,
         RecordRolledBack, At
    <3>3. Underway => Underway'
      BY <2>0, <3>2 DEF Underway
    <3>4. current # Missing /\ ~OnDisk(current) => ~OnDisk(current)'
      <4>1. CASE Stage(t)
        <5>1. PICK r \in Release : metadata[r] = "unknown" /\ Touch(r)
          BY <4>1, StageMoves
        <5>2. current # Missing => r # current
          BY <5>1 DEF LinksInv, Accepted
        <5> QED
          BY <3>1, <5>1, <5>2 DEF Touch, OnDisk
      <4>2. CASE createBootstrapRelease(t)
        BY <3>1, <4>2 DEF createBootstrapRelease, Touch, OnDisk, BootstrapStays
      <4>3. CASE Validate(t)
        BY <3>1, <4>3 DEF Validate, Touch, OnDisk
      <4>4. CASE Prune(t)
        BY <3>1, <4>4 DEF Prune, RemoveAll, OnDisk
      <4>5. CASE ~(Stage(t) \/ createBootstrapRelease(t) \/ Validate(t) \/ Prune(t))
        BY <2>7, <3>1, <4>5 DEF Begin, EnsureLayout, ReadCurrentLink, ReadGoodLink,
           LinkGood, Deploy, Promote, RecordActive, ListStale, RecordRolledBack, OnDisk
      <4> QED
        BY <4>1, <4>2, <4>3, <4>4, <4>5
    <3> QED
      BY <1>1, <3>1, <3>3, <3>4 DEF Follows
  <2> QED
    BY <1>5, <2>1, <2>2, <2>3, <2>4, <2>5, <2>6, <2>7 DEF Step, Deploy, EnsureLayout
<1> QED
  BY <1>2, <1>3, <1>4, <1>5 DEF Next, Step

(***************************************************************************)
(* Without faults nginx ends up with what `current` points to, however     *)
(* many reloads interleave, but for the exceptions the property names.     *)
(* The invariant excuses only a reload that has switched the link and has  *)
(* not signalled nginx yet; it needs that a release a link points to is    *)
(* never staged again, and that the bootstrap release is never removed.    *)
(***************************************************************************)
THEOREM NginxServesTheLink == Spec => []NginxFollowsLink
<1>1. Init => BootstrapStays /\ Follows
  BY DEF Init, BootstrapStays, Follows, Idle
<1>2. Init => LinksInv
  BY ReleaseTypes DEF Init, LinksInv, TaskLinks, Accepted, Idle, Passed
<1>3. Follows => NginxFollowsLink
  BY DEF Follows, NginxFollowsLink, Underway, Settled, Quiet, At
<1> QED
  BY <1>1, <1>2, <1>3, LinksStep, BootstrapStep, FollowsStep, TypeCorrect, PTL DEF Spec

-----------------------------------------------------------------------------
(* One reload at a time.                                                   *)

OneReload == \A t, u \in Reload : t = u

(* nginx has the release `current`, is about to get it or refused it. *)
Reached ==
  \/ nginx.signal
  \/ nginx.loaded = current
  \/ unreached = "refused"

(* The release of a reload is on the disk from its validation on, and once *)
(* nginx has been asked to load it, nothing comes in between.              *)
DeploysReal(t) ==
  /\ task[t].at \in {"activate", "reload", "promote", "record", "list", "prune"} =>
       OnDisk(task[t].release)
  /\ task[t].at \in {"reload", "promote", "record", "list", "prune"} =>
       current = task[t].release
  /\ task[t].at \in {"promote", "record", "list", "prune"} => Reached
  /\ task[t].at \in {"record", "list", "prune"} =>
       lastKnownGood = task[t].release
  /\ task[t].at = "prune" => task[t].release \notin task[t].stale

SuccessInv ==
  /\ \A t \in Reload : DeploysReal(t)
  /\ Quiet /\ health = "ok" =>
       current = lastKnownGood /\ OnDisk(current) /\ Reached

NotRolledBack(x) == x # Missing => metadata[x] # "rolled_back"

(* A reload returns to a release other than its own. *)
ReturnsElsewhere(t) ==
  /\ NotRolledBack(task[t].previous)
  /\ task[t].at \in Passed \cup {"validate"} =>
       /\ task[t].release \in Release \ {Bootstrap}
       /\ task[t].release # task[t].previous
  /\ task[t].at = "activate" => NotRolledBack(task[t].release)
  /\ task[t].at \in {"reloadBack", "describe"} => current = task[t].previous

OutInv ==
  /\ NotRolledBack(Bootstrap)
  /\ NotRolledBack(current)
  /\ \A t \in Reload : ReturnsElsewhere(t)

(* A trial is underway from the switch of the link to its promotion or     *)
(* its rollback, and it is of a new release.                               *)
OnTrial(t) ==
  /\ IF task[t].at \in {"reload", "promote", "rollback"}
     THEN current = task[t].release
     ELSE Target(current) = Target(lastKnownGood)
  /\ task[t].at \in {"validate", "activate", "reload", "promote", "rollback"} =>
       /\ task[t].release \in Release
       /\ Target(task[t].previous) = Target(lastKnownGood)
  /\ task[t].at \in {"validate", "activate"} =>
       task[t].release > Target(lastKnownGood)
  /\ task[t].at \in {"bootstrap", "linkCurrent"} => current = Missing
  /\ task[t].at \in {"readGood", "linkGood"} => task[t].previous = current

RolloutInv == faults = 0 => \A t \in Reload : OnTrial(t)

LEMMA SuccessStep ==
  OneReload /\ TypeOK /\ SuccessInv /\ [Next]_vars => SuccessInv'
<1> SUFFICES ASSUME OneReload, TypeOK, SuccessInv, [Next]_vars PROVE SuccessInv'
  OBVIOUS
<1> USE DEF links, releases, ambient
<1>1. CASE Crash
  BY <1>1 DEF Crash, SuccessInv, DeploysReal, Idle
<1>2. CASE HandleSignal \/ RestartNginx
  <2>1. UNCHANGED <<task, disk, current, lastKnownGood, health>>
    BY <1>2 DEF HandleSignal, RestartNginx
  <2>2. OnDisk(current) => Reached'
    BY <1>2, <2>1 DEF HandleSignal, RestartNginx, Reached, Served
  <2> QED
    BY <2>1, <2>2 DEF SuccessInv, DeploysReal, OnDisk, Quiet, At
<1>3. CASE UNCHANGED vars
  BY <1>3 DEF vars, SuccessInv, DeploysReal, OnDisk, Quiet, At, Reached
<1>4. ASSUME NEW t \in Reload, Step(t) PROVE SuccessInv'
  <2>1. SUFFICES DeploysReal(t)'
              /\ (task'[t].at = "idle" /\ health' = "ok" =>
                    (current = lastKnownGood /\ OnDisk(current) /\ Reached)')
    BY DEF SuccessInv, OneReload, Quiet, At
  <2>2. CASE Throw(t)
    BY <2>2, Throws DEF Throw, DeploysReal
  <2>3. CASE task'[t].at \in {"layout", "bootstrap", "linkCurrent", "readGood", "linkGood",
                              "stage", "validate", "rollback", "reloadBack", "describe"}
    BY <2>3 DEF DeploysReal
  <2>4. DeploysReal(t)
    BY DEF SuccessInv
  <2>5. CASE Begin(t) \/ IoError(t)
    BY <2>2, <2>3, <2>5, Goes DEF Begin, IoError
  <2>6. CASE EnsureLayout(t)
    BY <2>3, <2>6, LayoutMoves
  <2>7. CASE Stage(t)
    BY <2>3, <2>7, StageMoves
  <2>8. CASE Validate(t) /\ ~Throw(t)
    <3>1. /\ task'[t].at = "activate" /\ task'[t].release = task[t].release
          /\ task[t].release \in disk'
      BY <2>8, Goes DEF Validate, Touch
    <3> QED
      BY <3>1 DEF DeploysReal, OnDisk
  <2>9. CASE Activate(t)
    <3>1. /\ task'[t].at = "reload" /\ task'[t].release = task[t].release
          /\ UNCHANGED disk /\ OnDisk(task[t].release) /\ current' = task[t].release
      BY <2>4, <2>9, Goes DEF Activate, DeploysReal, At
    <3> QED
      BY <3>1 DEF DeploysReal, OnDisk
  <2>10. CASE ReloadNginx(t) /\ ~Goto(t, "rollback")
    <3>1. /\ task'[t].at = "promote" /\ task'[t].release = task[t].release
          /\ UNCHANGED <<disk, current>> /\ OnDisk(task[t].release)
          /\ current = task[t].release
      BY <2>4, <2>10, Goes DEF ReloadNginx, DeploysReal, At
    <3>2. Reached'
      BY <2>10 DEF ReloadNginx, Signalled, Reached, TypeOK
    <3> QED
      BY <3>1, <3>2 DEF DeploysReal, OnDisk
  <2>11. CASE Promote(t)
    <3>1. /\ task'[t].at = "record" /\ task'[t].release = task[t].release
          /\ UNCHANGED <<disk, current, nginx, unreached>> /\ lastKnownGood' = task[t].release
          /\ OnDisk(task[t].release) /\ current = task[t].release /\ Reached
      BY <2>4, <2>11, Goes DEF Promote, DeploysReal, At
    <3> QED
      BY <3>1 DEF DeploysReal, OnDisk, Reached
  <2>12. CASE RecordActive(t) /\ ~Throw(t)
    <3>1. /\ task'[t].at = "list" /\ task'[t].release = task[t].release
          /\ UNCHANGED <<disk, current, lastKnownGood, nginx, unreached>>
          /\ OnDisk(task[t].release) /\ current = task[t].release /\ Reached
          /\ lastKnownGood = task[t].release
      BY <2>4, <2>12, Goes DEF RecordActive, DeploysReal, At
    <3> QED
      BY <3>1 DEF DeploysReal, OnDisk, Reached
  <2>13. CASE ListStale(t) /\ ~Throw(t)
    <3>1. task'[t] = [task[t] EXCEPT !.at = "prune", !.stale = Stale(t)] /\ task[t] \in Task
      BY <2>13 DEF ListStale, TypeOK
    <3>2. /\ task'[t].at = "prune" /\ task'[t].release = task[t].release
          /\ task'[t].stale = Stale(t)
      BY <3>1 DEF Task
    <3>3. task[t].release \notin Stale(t)
      BY DEF Stale
    <3>4. /\ UNCHANGED <<disk, current, lastKnownGood, nginx, unreached>>
          /\ OnDisk(task[t].release) /\ current = task[t].release /\ Reached
          /\ lastKnownGood = task[t].release
      BY <2>4, <2>13 DEF ListStale, DeploysReal, At
    <3> QED
      BY <3>2, <3>3, <3>4 DEF DeploysReal, OnDisk, Reached
  <2>14. CASE Prune(t)
    <3>1. /\ UNCHANGED <<current, lastKnownGood, nginx, unreached>>
          /\ OnDisk(task[t].release) /\ current = task[t].release /\ Reached
          /\ lastKnownGood = task[t].release /\ task[t].release \notin task[t].stale
          /\ disk' = disk \ task[t].stale
      BY <2>4, <2>14 DEF Prune, RemoveAll, DeploysReal, At
    <3>2. task'[t].at \in {"stage", "idle"}
      BY <2>14, Finishes DEF Prune
    <3> QED
      BY <3>1, <3>2 DEF DeploysReal, OnDisk, Reached
  <2>15. CASE ReloadNginx(t) /\ Goto(t, "rollback")
    BY <2>3, <2>15, Goes
  <2>16. CASE RollBackLink(t) \/ ReloadBack(t) \/ RecordRolledBack(t)
    BY <2>2, <2>3, <2>16, Goes DEF RollBackLink, ReloadBack, RecordRolledBack
  <2> QED
    BY <1>4, <2>2, <2>5, <2>6, <2>7, <2>8, <2>9, <2>10, <2>11, <2>12, <2>13, <2>14, <2>15,
       <2>16 DEF Step, Deploy
<1> QED
  BY <1>1, <1>2, <1>3, <1>4 DEF Next, Step

(***************************************************************************)
(* When reloads do not overlap, a reload that reports success is real:     *)
(* both links are on its release, which is on the disk, and nginx has it   *)
(* or refused it, whatever died or failed before, and whenever nginx gets  *)
(* round to its signal.  The invariant carries the release from nginx -t   *)
(* to the end: pruning spares it, and nothing else moves the links.        *)
(***************************************************************************)
THEOREM SuccessTellsTheTruth ==
  ASSUME OneReload
  PROVE  Spec => []SuccessIsReal
<1>1. Init => SuccessInv
  BY DEF Init, SuccessInv, DeploysReal, Idle
<1>2. SuccessInv => SuccessIsReal
  BY DEF SuccessInv, SuccessIsReal, Settled, Reached
<1>3. TypeOK /\ SuccessInv /\ [Next]_vars => SuccessInv'
  BY SuccessStep
<1> QED
  BY <1>1, <1>2, <1>3, TypeCorrect, PTL DEF Spec

-----------------------------------------------------------------------------
(* What is rolled back.                                                    *)

LEMMA OutStep ==
  OneReload /\ TypeOK /\ LinksInv /\ OutInv /\ [Next]_vars => OutInv'
<1> SUFFICES ASSUME OneReload, TypeOK, LinksInv, OutInv, [Next]_vars PROVE OutInv'
  OBVIOUS
<1> USE DEF links, ambient
<1>1. CASE Crash
  BY <1>1 DEF Crash, OutInv, ReturnsElsewhere, NotRolledBack, Idle, Passed
<1>2. CASE HandleSignal \/ RestartNginx \/ UNCHANGED vars
  <2>1. UNCHANGED <<task, metadata, current>>
    BY <1>2 DEF HandleSignal, RestartNginx, vars
  <2> QED
    BY <2>1 DEF OutInv, NotRolledBack, ReturnsElsewhere
<1>3. ASSUME NEW t \in Reload, Step(t) PROVE OutInv'
  <2>1. SUFFICES (NotRolledBack(Bootstrap) /\ NotRolledBack(current) /\ ReturnsElsewhere(t))'
    BY DEF OutInv, OneReload
  <2>2. NotRolledBack(Bootstrap) /\ NotRolledBack(current) /\ ReturnsElsewhere(t)
    BY DEF OutInv
  <2>3. Bootstrap \in Release /\ current \in Link /\ task[t].previous \in Link
     /\ Missing \notin Release
    BY ReleaseTypes DEF TypeOK, Task
  <2>4. CASE UNCHANGED <<metadata, current>> /\ Throw(t)
    BY <2>2, <2>4, Throws DEF NotRolledBack, ReturnsElsewhere, Passed
  <2>5. CASE Begin(t) \/ IoError(t)
    BY <2>2, <2>4, <2>5, Goes DEF Begin, IoError, ReturnsElsewhere, NotRolledBack, Passed
  <2>6. CASE EnsureLayout(t)
    <3>1. UNCHANGED metadata /\ current' \in {current, Bootstrap}
      BY <2>6 DEF EnsureLayout, ReadCurrentLink, createBootstrapRelease, LinkBootstrap,
         ReadGoodLink, LinkGood
    <3> QED
      BY <2>2, <2>6, <3>1, LayoutMoves DEF ReturnsElsewhere, NotRolledBack, Passed
  <2>7. CASE Stage(t)
    <3>1. PICK r \in Release :
            /\ metadata[r] = "unknown"
            /\ metadata' = [metadata EXCEPT ![r] = "staged"]
            /\ task'[t].at = "validate"
            /\ task'[t].release = r
            /\ task'[t].previous = current
      BY <2>7, StageMoves
    <3>2. r # Bootstrap /\ r # current /\ current' = current
      BY <2>3, <2>7, <3>1, ReleaseTypes DEF LinksInv, Accepted, Stage
    <3>3. \A x \in Link : NotRolledBack(x) => NotRolledBack(x)'
      BY <3>1 DEF NotRolledBack, TypeOK, Link
    <3> QED
      BY <2>2, <2>3, <3>1, <3>2, <3>3 DEF ReturnsElsewhere, NotRolledBack, Link, Passed
  <2>8. CASE RecordRolledBack(t)
    <3>1. task[t].release # Bootstrap /\ task[t].release # current
      BY <2>2, <2>8 DEF RecordRolledBack, At, ReturnsElsewhere, Passed
    <3>2. /\ current' = current
          /\ \/ metadata' = metadata
             \/ metadata' = [metadata EXCEPT ![task[t].release] = "rolled_back"]
      BY <2>8 DEF RecordRolledBack
    <3>3. NotRolledBack(Bootstrap)' /\ NotRolledBack(current)'
      BY <2>2, <2>3, <3>1, <3>2 DEF NotRolledBack, TypeOK, Link
    <3> QED
      BY <2>8, <3>3, Throws DEF RecordRolledBack, ReturnsElsewhere, NotRolledBack, Passed
  <2>9. CASE Validate(t) \/ RecordActive(t)
    <3>1. /\ current' = current
          /\ \/ metadata' = metadata
             \/ metadata' = [metadata EXCEPT ![task[t].release] = "validated"]
             \/ metadata' = [metadata EXCEPT ![task[t].release] = "active"]
      BY <2>9 DEF Validate, RecordActive
    <3>2. \A x \in Link : NotRolledBack(x) => NotRolledBack(x)'
      BY <3>1 DEF NotRolledBack, TypeOK, Link
    <3>3. /\ NotRolledBack(Bootstrap)' /\ NotRolledBack(current)'
          /\ task'[t].previous = task[t].previous => NotRolledBack(task[t].previous)'
      BY <2>2, <2>3, <3>1, <3>2 DEF ReturnsElsewhere, NotRolledBack, Link
    <3>4. CASE Throw(t)
      BY <3>3, <3>4, Throws DEF ReturnsElsewhere, NotRolledBack, Passed
    <3>5. CASE ~Throw(t)
      <4>1. /\ task'[t].at \in {"activate", "list"}
            /\ task'[t].release = task[t].release
            /\ task'[t].previous = task[t].previous
            /\ task[t].at \in {"validate", "record"}
        BY <2>9, <3>5, Goes DEF Validate, RecordActive, At
      <4>2. CASE Validate(t)
        <5>1. metadata'[task[t].release] = "validated"
          BY <2>9, <3>5, <4>2 DEF Validate, TypeOK, OnDisk
        <5> QED
          BY <2>2, <3>3, <4>1, <5>1 DEF ReturnsElsewhere, NotRolledBack, Passed
      <4>3. CASE RecordActive(t)
        <5>1. task'[t].at = "list"
          BY <3>5, <4>3, Goes DEF RecordActive
        <5> QED
          BY <2>2, <3>3, <4>1, <5>1 DEF ReturnsElsewhere, NotRolledBack, Passed
      <4> QED
        BY <2>9, <4>2, <4>3
    <3> QED
      BY <3>4, <3>5
  <2>10. CASE Activate(t) \/ RollBackLink(t)
    <3>1. /\ UNCHANGED metadata
          /\ task'[t].release = task[t].release
          /\ task'[t].previous = task[t].previous
          /\ \/ /\ task[t].at = "activate" /\ task'[t].at = "reload"
                /\ current' = task[t].release
             \/ /\ task[t].at = "rollback" /\ task'[t].at = "reloadBack"
                /\ current' = task[t].previous
      BY <2>10, Goes DEF Activate, RollBackLink, At
    <3> QED
      BY <2>2, <3>1 DEF ReturnsElsewhere, NotRolledBack, Passed
  <2>11. CASE ReloadNginx(t) \/ Promote(t) \/ ReloadBack(t)
    <3>1. CASE ~Throw(t)
      <4>1. /\ UNCHANGED <<metadata, current>>
            /\ task'[t].release = task[t].release
            /\ task'[t].previous = task[t].previous
            /\ \/ /\ task[t].at \in {"reload", "promote"}
                  /\ task'[t].at \in {"promote", "rollback", "record"}
               \/ task[t].at = "reloadBack" /\ task'[t].at = "describe"
        BY <2>11, <3>1, Goes DEF ReloadNginx, Promote, ReloadBack, At
      <4> QED
        BY <2>2, <4>1 DEF ReturnsElsewhere, NotRolledBack, Passed
    <3> QED
      BY <2>4, <2>11, <3>1 DEF ReloadNginx, Promote, ReloadBack
  <2>12. CASE ListStale(t)
    <3>1. CASE ~Throw(t)
      <4>1. task'[t] = [task[t] EXCEPT !.at = "prune", !.stale = Stale(t)] /\ task[t] \in Task
        BY <2>12, <3>1 DEF ListStale, TypeOK
      <4>2. /\ task'[t].at = "prune" /\ task'[t].release = task[t].release
            /\ task'[t].previous = task[t].previous
        BY <4>1 DEF Task
      <4>3. UNCHANGED <<metadata, current>> /\ task[t].at = "list"
        BY <2>12 DEF ListStale, At
      <4> QED
        BY <2>2, <4>2, <4>3 DEF ReturnsElsewhere, NotRolledBack, Passed
    <3> QED
      BY <2>4, <2>12, <3>1 DEF ListStale
  <2>13. CASE Prune(t)
    <3>1. UNCHANGED <<metadata, current>>
      BY <2>13 DEF Prune
    <3> QED
      BY <2>2, <2>13, <3>1, Finishes DEF Prune, ReturnsElsewhere, NotRolledBack, Passed
  <2> QED
    BY <1>3, <2>5, <2>6, <2>7, <2>8, <2>9, <2>10, <2>11, <2>12, <2>13 DEF Step, Deploy
<1> QED
  BY <1>1, <1>2, <1>3 DEF Next, Step

(***************************************************************************)
(* When reloads do not overlap, what has been rolled back is never put in  *)
(* service again.  A reload never returns to its own release, nor to one   *)
(* that was rolled back, as that one was not linked any more when the      *)
(* reload noted where to return.                                           *)
(***************************************************************************)
THEOREM RolledBackIsOut ==
  ASSUME OneReload
  PROVE  Spec => []RolledBackStaysOut
<1>1. Init => LinksInv /\ OutInv
  BY ReleaseTypes DEF Init, LinksInv, TaskLinks, Accepted, OutInv, ReturnsElsewhere,
     NotRolledBack, Idle, Passed
<1>2. OutInv => RolledBackStaysOut
  BY DEF OutInv, RolledBackStaysOut, NotRolledBack
<1>3. TypeOK /\ LinksInv /\ OutInv /\ [Next]_vars => OutInv'
  BY OutStep
<1> QED
  BY <1>1, <1>2, <1>3, LinksStep, TypeCorrect, PTL DEF Spec

-----------------------------------------------------------------------------
(* A reload is a rollout.                                                  *)

(* A fresh release is newer than every other that was staged. *)
LEMMA FreshIsNewer ==
  ASSUME TypeOK, LinksInv, NEW r \in Release, Fresh(r)
  PROVE  r > Target(lastKnownGood) /\ Target(r) = r
<1>1. \A x \in Link : Accepted(x) => r > Target(x)
  <2> SUFFICES ASSUME NEW x \in Link, Accepted(x) PROVE r > Target(x)
    OBVIOUS
  <2>1. Target(x) \in Release /\ metadata[Target(x)] # "unknown"
    BY ReleaseTypes DEF Target, Accepted, Link, LinksInv
  <2> QED
    BY <2>1 DEF Fresh, Release
<1> QED
  BY <1>1, ReleaseTypes DEF LinksInv, TypeOK, Target

(* What a step of the only reload does to the links, and where it leads. *)
LEMMA TrialStep ==
  ASSUME OneReload, TypeOK, LinksInv, RolloutInv, faults = 0,
         NEW t \in Reload, Begin(t) \/ EnsureLayout(t) \/ Deploy(t)
  PROVE  OnTrial(t)' /\ (Rollout!Next \/ UNCHANGED Rollout!vars)
<1> USE DEF links, ambient
<1>0. OnTrial(t)
  BY DEF RolloutInv
<1>1. CASE UNCHANGED links /\ Throw(t) /\ task[t].at \notin {"reload", "promote", "rollback"}
  BY <1>0, <1>1, Throws DEF OnTrial, Rollout!vars
<1>2. CASE Begin(t)
  BY <1>0, <1>2, Goes DEF Begin, OnTrial, Rollout!vars, At
<1>3. CASE ReadCurrentLink(t)
  <2>1. CASE current = Missing
    BY <1>0, <1>3, <2>1, Goes DEF ReadCurrentLink, OnTrial, Rollout!vars, At, Target
  <2>2. CASE current # Missing
    <3>1. task'[t] = [task[t] EXCEPT !.at = "readGood", !.previous = current]
      BY <1>3, <2>2 DEF ReadCurrentLink, TypeOK
    <3>2. task'[t].at = "readGood" /\ task'[t].previous = current
      BY <3>1 DEF TypeOK, Task
    <3> QED
      BY <1>0, <1>3, <3>2 DEF ReadCurrentLink, OnTrial, Rollout!vars, At, Target
  <2> QED
    BY <2>1, <2>2
<1>4. CASE createBootstrapRelease(t)
  BY <1>0, <1>4, Goes DEF createBootstrapRelease, OnTrial, Rollout!vars, At, Target
<1>5. CASE LinkBootstrap(t)
  <2>1. task'[t] = [task[t] EXCEPT !.at = "readGood", !.previous = Bootstrap]
    BY <1>5 DEF LinkBootstrap, TypeOK
  <2>2. task'[t].at = "readGood" /\ task'[t].previous = Bootstrap
    BY <2>1 DEF TypeOK, Task
  <2> QED
    BY <1>0, <1>5, <2>2 DEF LinkBootstrap, OnTrial, Rollout!vars, At, Target
<1>6. CASE ReadGoodLink(t)
  BY <1>0, <1>6, Goes DEF ReadGoodLink, OnTrial, Rollout!vars, At, Target
<1>7. CASE LinkGood(t)
  BY <1>0, <1>7, Goes DEF LinkGood, OnTrial, Rollout!vars, At, Target
<1>8. CASE Stage(t)
  <2>1. PICK r \in Release : /\ Fresh(r)
                             /\ task'[t].at = "validate"
                             /\ task'[t].release = r
                             /\ task'[t].previous = current
    BY <1>8, StageMoves
  <2>2. UNCHANGED links /\ task[t].at = "stage"
    BY <1>8 DEF Stage, At
  <2>3. r > Target(lastKnownGood)
    BY <2>1, FreshIsNewer
  <2> QED
    BY <1>0, <2>1, <2>2, <2>3 DEF OnTrial, Rollout!vars, Target
<1>9. CASE Validate(t) /\ ~Throw(t)
  BY <1>0, <1>9, Goes DEF Validate, OnTrial, Rollout!vars, At, Target
<1>10. CASE Activate(t)
  <2>1. /\ task[t].at = "activate" /\ task'[t].at = "reload"
        /\ task'[t].release = task[t].release /\ task'[t].previous = task[t].previous
        /\ current' = task[t].release /\ UNCHANGED lastKnownGood
    BY <1>10, Goes DEF Activate, At
  <2>2. OnTrial(t)'
    BY <1>0, <2>1 DEF OnTrial, Target
  <2>3. Target(current)' = task[t].release
    BY <1>0, <2>1, ReleaseTypes DEF OnTrial, Target
  <2>4. /\ Target(current) = Target(lastKnownGood)
        /\ Target(current)' \in Int
        /\ Target(current)' > Target(lastKnownGood)
    BY <1>0, <2>1, <2>3, ReleaseTypes DEF OnTrial, Release
  <2>5. Target(lastKnownGood)' = Target(lastKnownGood)
    BY <2>1 DEF Target
  <2> QED
    BY <2>2, <2>4, <2>5 DEF Rollout!Next, Rollout!Try
<1>11. CASE ReloadNginx(t)
  <2>1. /\ task[t].at = "reload" /\ task'[t].at \in {"promote", "rollback"}
        /\ task'[t].release = task[t].release /\ task'[t].previous = task[t].previous
        /\ UNCHANGED links
    BY <1>11, Goes DEF ReloadNginx, At
  <2> QED
    BY <1>0, <2>1 DEF OnTrial, Target, Rollout!vars
<1>12. CASE Promote(t)
  <2>1. /\ task[t].at = "promote" /\ task'[t].at = "record"
        /\ lastKnownGood' = task[t].release /\ UNCHANGED current
    BY <1>12, Goes DEF Promote, At
  <2> QED
    BY <1>0, <2>1 DEF OnTrial, Target, Rollout!Next, Rollout!Promote
<1>13. CASE RecordActive(t) /\ ~Throw(t)
  BY <1>0, <1>13, Goes DEF RecordActive, OnTrial, Rollout!vars, At, Target
<1>14. CASE ListStale(t) /\ ~Throw(t)
  <2>1. task'[t] = [task[t] EXCEPT !.at = "prune", !.stale = Stale(t)] /\ task[t] \in Task
    BY <1>14 DEF ListStale, TypeOK
  <2>2. task'[t].at = "prune" /\ task[t].at = "list" /\ UNCHANGED links
    BY <1>14, <2>1 DEF ListStale, At, Task
  <2> QED
    BY <1>0, <2>2 DEF OnTrial, Rollout!vars, Target
<1>15. CASE Prune(t)
  BY <1>0, <1>15, Finishes DEF Prune, OnTrial, Rollout!vars, At, Target
<1>16. CASE RollBackLink(t)
  <2>1. /\ task[t].at = "rollback" /\ task'[t].at = "reloadBack"
        /\ current' = task[t].previous /\ UNCHANGED lastKnownGood
    BY <1>16, Goes DEF RollBackLink, At
  <2> QED
    BY <1>0, <2>1 DEF OnTrial, Target, Rollout!Next, Rollout!RollBack
<1>17. CASE ReloadBack(t) /\ ~Throw(t)
  BY <1>0, <1>17, Goes DEF ReloadBack, OnTrial, Rollout!vars, At, Target
<1>18. Throw(t) /\ Deploy(t) /\ ~Stage(t) /\ ~Activate(t) /\ ~ReloadNginx(t) /\ ~Promote(t)
         /\ ~Prune(t) /\ ~RollBackLink(t)
       => UNCHANGED links /\ task[t].at \notin {"reload", "promote", "rollback"}
  BY DEF Deploy, Validate, RecordActive, ListStale, ReloadBack, RecordRolledBack, At
<1> QED
  BY <1>1, <1>2, <1>3, <1>4, <1>5, <1>6, <1>7, <1>8, <1>9, <1>10, <1>11, <1>12, <1>13, <1>14,
     <1>15, <1>16, <1>17, <1>18 DEF EnsureLayout, Deploy, RecordRolledBack

LEMMA RolloutStep ==
  ASSUME OneReload, TypeOK, LinksInv, RolloutInv, [Next]_vars, faults' = 0
  PROVE  RolloutInv' /\ (Rollout!Next \/ UNCHANGED Rollout!vars)
<1>0. faults = 0
  BY FaultsCount
<1>1. ASSUME NEW t \in Reload, Begin(t) \/ EnsureLayout(t) \/ Deploy(t)
      PROVE  RolloutInv' /\ (Rollout!Next \/ UNCHANGED Rollout!vars)
  BY <1>0, <1>1, TrialStep DEF RolloutInv, OneReload
<1>2. CASE Crash \/ \E t \in Reload : IoError(t)
  BY <1>0, <1>2 DEF Crash, IoError
<1>3. CASE HandleSignal \/ RestartNginx \/ UNCHANGED vars
  <2>1. UNCHANGED <<task, links>>
    BY <1>3 DEF HandleSignal, RestartNginx, vars, links
  <2> QED
    BY <1>0, <2>1 DEF RolloutInv, OnTrial, Target, links, Rollout!vars
<1> QED
  BY <1>1, <1>2, <1>3 DEF Next

(***************************************************************************)
(* When reloads do not overlap, every step up to the first fault is a step *)
(* of a rollout.  The invariant says who owns the link: `current` leaves   *)
(* the last known good release only for a newer one on trial, and the way  *)
(* back leads to the last known good release.                              *)
(***************************************************************************)
THEOREM ReloadImplementsRollout ==
  ASSUME OneReload
  PROVE  Spec => ImplementsRollout
<1>1. Init => Rollout!Init /\ RolloutInv /\ LinksInv
  BY ReleaseTypes DEF Init, Rollout!Init, RolloutInv, OnTrial, Target, Idle, LinksInv,
     TaskLinks, Accepted, Passed, Bootstrap
<1>2. TypeOK /\ LinksInv /\ RolloutInv /\ [Next]_vars => RolloutInv'
  BY RolloutStep DEF RolloutInv
<1>3. TypeOK /\ LinksInv /\ RolloutInv /\ [Next]_vars
        => [faults' = 0 => Rollout!Next]_(Rollout!vars)
  BY RolloutStep
<1> QED
  BY <1>1, <1>2, <1>3, LinksStep, TypeCorrect, PTL DEF Spec, ImplementsRollout
=============================================================================
