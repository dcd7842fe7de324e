--------------------------- MODULE NginxReleases ---------------------------
(***************************************************************************)
(* Config rollout on one node (ReloaderService).  A reload deploys two     *)
(* releases in turn: it stages a directory, validates it with `nginx -t`,  *)
(* switches the link `current` to it, asks nginx to reload and moves the   *)
(* link `last-known-good`; a reload that fails after the switch is rolled  *)
(* back.  Nothing serialises reloads: the one at startup, the timer's and  *)
(* those of the API interleave at every await, and the process can die in  *)
(* between while the directories, the links and nginx live on.             *)
(*                                                                         *)
(* `nginx -s reload` parses the configuration and signals the master       *)
(* process, which loads what `current` points to when it gets round to it. *)
(* nginx includes the release by a wildcard, so that a release that is     *)
(* gone from the disk loads as an empty configuration, without an error.   *)
(***************************************************************************)
EXTENDS Integers, FiniteSets

CONSTANTS
  Reload,       \* reloadConfig calls that can be in progress at a time
  Retention,    \* RELEASE_RETENTION_COUNT
  MaxRelease,   \* bound: releases that may be staged
  MaxFaults     \* bound: deaths of the process and failing disk operations

ASSUME ReleasesAssumption ==
  /\ Retention \in Nat
  /\ MaxRelease \in Nat
  /\ MaxFaults \in Nat

VARIABLES
  task,           \* where each reload is and what it remembers
  disk,           \* the directories under releases/
  older,          \* per release: the directories with an older mtime
  metadata,       \* status in each release's lyttle-nginx-release.json
  current,        \* target of the link `current`
  lastKnownGood,  \* target of the link `last-known-good`
  nginx,          \* what the master process has loaded, and its signal
  health,         \* the last outcome reported to HealthService
  faults,         \* faults so far
  unreached       \* history: why nginx need not serve `current`

vars == <<task, disk, older, metadata, current, lastKnownGood, nginx, health, faults,
          unreached>>

links == <<current, lastKnownGood>>
ambient == <<nginx, health, faults, unreached>>
releases == <<disk, older>>

-----------------------------------------------------------------------------
Bootstrap == 0
Missing == -1       \* a link that does not exist; nothing loaded
Release == 0 .. MaxRelease

Idle == [at |-> "idle", phase |-> 1, release |-> Missing,
         previous |-> Missing, stale |-> {}]

OnDisk(r) == r \in disk

\* r's directory is written to, and created if it was not there.
Touch(r) ==
  /\ disk' = disk \cup {r}
  /\ older' = [q \in Release |-> IF q = r THEN disk \ {r} ELSE older[q] \ {r}]

RemoveAll(rs) ==
  /\ disk' = disk \ rs
  /\ older' = [q \in Release |-> IF q \in rs THEN {} ELSE older[q] \ rs]

\* createReleaseId: the next release in time order.
Fresh(r) == \A q \in Release : metadata[q] = "unknown" <=> q >= r

At(t, place) == task[t].at = place
Goto(t, place) == task' = [task EXCEPT ![t].at = place]

\* What nginx gets when it follows the link `current`.
Served(r) == IF OnDisk(r) THEN r ELSE Missing

Init ==
  /\ task = [t \in Reload |-> Idle]
  /\ disk = {Bootstrap}
  /\ older = [r \in Release |-> {}]
  /\ metadata = [r \in Release |->
                   IF r = Bootstrap THEN "bootstrap" ELSE "unknown"]
  /\ current \in {Bootstrap, Missing}
  /\ lastKnownGood = current
  /\ nginx = [loaded |-> current, signal |-> FALSE]
  /\ health = "unknown"
  /\ faults = 0
  /\ unreached = "none"

(***************************************************************************)
(* reloadConfig: a reload begins, fails or goes on to its second phase.    *)
(***************************************************************************)
Begin(t) ==
  /\ At(t, "idle")
  /\ Goto(t, "layout")
  /\ UNCHANGED <<releases, metadata, links, ambient>>

\* The catch of reloadConfig, whatever was thrown.
Throw(t) ==
  /\ task' = [task EXCEPT ![t] = Idle]
  /\ health' = "failed"

(***************************************************************************)
(* ensureRuntimeLayout, run by every reload.                               *)
(***************************************************************************)
ReadCurrentLink(t) ==
  /\ At(t, "layout")
  /\ IF current = Missing
     THEN Goto(t, "bootstrap")
     ELSE task' = [task EXCEPT ![t].at = "readGood", ![t].previous = current]
  /\ UNCHANGED <<releases, metadata, links, ambient>>

\* The directory is removed and copied afresh.
createBootstrapRelease(t) ==
  /\ At(t, "bootstrap")
  /\ Touch(Bootstrap)
  /\ Goto(t, "linkCurrent")
  /\ UNCHANGED <<metadata, links, ambient>>

LinkBootstrap(t) ==
  /\ At(t, "linkCurrent")
  /\ current' = Bootstrap
  /\ task' = [task EXCEPT ![t].at = "readGood", ![t].previous = Bootstrap]
  /\ unreached' = "notAsked"
  /\ UNCHANGED <<releases, metadata, lastKnownGood, nginx, health, faults>>

ReadGoodLink(t) ==
  /\ At(t, "readGood")
  /\ Goto(t, IF lastKnownGood = Missing THEN "linkGood" ELSE "stage")
  /\ UNCHANGED <<releases, metadata, links, ambient>>

LinkGood(t) ==
  /\ At(t, "linkGood")
  /\ lastKnownGood' = task[t].previous
  /\ Goto(t, "stage")
  /\ UNCHANGED <<releases, metadata, current, ambient>>

(***************************************************************************)
(* deployConfigSnapshot.                                                   *)
(***************************************************************************)

\* `current` exists by now: ensureRuntimeLayout has run, nothing unlinks it.
StageInPlace(t) ==     \* faulty: forgets `nginx -t`
  /\ At(t, "stage")
  /\ \E r \in Release :
       /\ Fresh(r)
       /\ task' = [task EXCEPT ![t].at = "activate", ![t].release = r,
                               ![t].previous = current]
       /\ Touch(r)
       /\ metadata' = [metadata EXCEPT ![r] = "staged"]
  /\ UNCHANGED <<links, ambient>>

Stage(t) ==
  /\ At(t, "stage")
  /\ \E r \in Release :
       /\ Fresh(r)
       /\ task' = [task EXCEPT ![t].at = "validate", ![t].release = r,
                               ![t].previous = current]
       /\ Touch(r)
       /\ metadata' = [metadata EXCEPT ![r] = "staged"]
  /\ UNCHANGED <<links, ambient>>

\* Writing into the release renews its mtime.  `nginx -t` may reject it.
Validate(t) ==
  LET r == task[t].release IN
  /\ At(t, "validate")
  /\ IF OnDisk(r) THEN Touch(r) ELSE UNCHANGED releases
  /\ \/ /\ OnDisk(r)
        /\ metadata' = [metadata EXCEPT ![r] = "validated"]
        /\ Goto(t, "activate")
        /\ UNCHANGED health
     \/ /\ Throw(t)
        /\ UNCHANGED metadata
  /\ UNCHANGED <<links, nginx, faults, unreached>>

Activate(t) ==
  /\ At(t, "activate")
  /\ current' = task[t].release
  /\ Goto(t, "reload")
  /\ UNCHANGED <<releases, metadata, lastKnownGood, ambient>>

\* `nginx -s reload` was accepted: what goes wrong from here on is nginx's.
Signalled ==
  /\ nginx' = [nginx EXCEPT !.signal = TRUE]
  /\ unreached' = "none"

ReloadNginxSwallowed(t) ==     \* faulty: the catch does not end the deploy
  /\ At(t, "reload")
  /\ Signalled \/ UNCHANGED <<nginx, unreached>>
  /\ Goto(t, "promote")
  /\ UNCHANGED <<releases, metadata, links, health, faults>>

ReloadNginx(t) ==
  /\ At(t, "reload")
  /\ \/ Signalled /\ Goto(t, "promote")
     \/ Goto(t, "rollback") /\ UNCHANGED <<nginx, unreached>>
  /\ UNCHANGED <<releases, metadata, links, health, faults>>

PromotePrevious(t) ==     \* faulty: promotes what it replaced
  /\ At(t, "promote")
  /\ lastKnownGood' = task[t].previous
  /\ Goto(t, "record")
  /\ UNCHANGED <<releases, metadata, current, ambient>>

Promote(t) ==
  /\ At(t, "promote")
  /\ lastKnownGood' = task[t].release
  /\ Goto(t, "record")
  /\ UNCHANGED <<releases, metadata, current, ambient>>

\* Fails when another reload has pruned the release.
RecordActive(t) ==
  LET r == task[t].release IN
  /\ At(t, "record")
  /\ \/ /\ OnDisk(r)
        /\ metadata' = [metadata EXCEPT ![r] = "active"]
        /\ Goto(t, "list")
        /\ UNCHANGED health
     \/ ~OnDisk(r) /\ Throw(t) /\ UNCHANGED metadata
  /\ UNCHANGED <<releases, links, nginx, faults, unreached>>

(***************************************************************************)
(* pruneOldReleases: list first, remove later.  A directory another reload *)
(* removes while this one looks at it makes stat throw.                    *)
(***************************************************************************)
Stale(t) ==
  LET protected == {Bootstrap, task[t].release, task[t].previous, lastKnownGood}
      others == disk \ protected
  IN  {r \in others : Cardinality({q \in others : r \in older[q]}) >= Retention}

ListStale(t) ==
  /\ At(t, "list")
  /\ \/ /\ task' = [task EXCEPT ![t].at = "prune", ![t].stale = Stale(t)]
        /\ UNCHANGED health
     \/ /\ \E other \in Reload \ {t} : At(other, "prune") /\ task[other].stale # {}
        /\ Throw(t)
  /\ UNCHANGED <<releases, metadata, links, nginx, faults, unreached>>

PruneWithoutEnd(t) ==     \* faulty: always another phase
  /\ At(t, "prune")
  /\ RemoveAll(task[t].stale)
  /\ task' = [task EXCEPT ![t] =
                [Idle EXCEPT !.at = "stage", !.phase = task[t].phase + 1]]
  /\ UNCHANGED <<metadata, links, nginx, health, faults, unreached>>

\* A deployment is complete.  The second one follows the first, whatever has
\* become of the certificates in between, and the reload succeeds with it.
Deployed(t) ==
  IF task[t].phase = 1
  THEN /\ task' = [task EXCEPT ![t] = [Idle EXCEPT !.at = "stage", !.phase = 2]]
       /\ UNCHANGED health
  ELSE /\ task' = [task EXCEPT ![t] = Idle]
       /\ health' = "ok"

\* Removes the stale releases.
Prune(t) ==
  /\ At(t, "prune")
  /\ RemoveAll(task[t].stale)
  /\ Deployed(t)
  /\ UNCHANGED <<metadata, links, nginx, faults, unreached>>

(***************************************************************************)
(* rollbackActivation: always ends in an exception.                        *)
(***************************************************************************)
RollBackQuietly(t) ==     \* faulty: nginx is not told
  /\ At(t, "rollback")
  /\ current' = task[t].previous
  /\ Goto(t, "describe")
  /\ UNCHANGED <<releases, metadata, lastKnownGood, ambient>>

RollBackNothing(t) ==     \* faulty: the link stays
  /\ At(t, "rollback")
  /\ Goto(t, "reloadBack")
  /\ UNCHANGED <<releases, metadata, links, ambient>>

RollBackLink(t) ==
  /\ At(t, "rollback")
  /\ current' = task[t].previous
  /\ Goto(t, "reloadBack")
  /\ UNCHANGED <<releases, metadata, lastKnownGood, ambient>>

ReloadBack(t) ==
  /\ At(t, "reloadBack")
  /\ \/ Signalled /\ Goto(t, "describe") /\ UNCHANGED health
     \/ Throw(t) /\ unreached' = "rollbackFailed" /\ UNCHANGED nginx
  /\ UNCHANGED <<releases, metadata, links, faults>>

RecordRolledBack(t) ==
  LET r == task[t].release IN
  /\ At(t, "describe")
  /\ metadata' = IF OnDisk(r) THEN [metadata EXCEPT ![r] = "rolled_back"]
                              ELSE metadata
  /\ Throw(t)
  /\ UNCHANGED <<releases, links, nginx, faults, unreached>>

(***************************************************************************)
(* Faults, and nginx.                                                      *)
(***************************************************************************)

\* A file operation or the query for the proxy entries fails.  (When it is
\* nginx -s reload that fails, the reload is rolled back instead.)
IoError(t) ==
  /\ task[t].at \notin {"idle", "reload", "reloadBack"}
  /\ faults < MaxFaults
  /\ faults' = faults + 1
  /\ Throw(t)
  /\ UNCHANGED <<releases, metadata, links, nginx, unreached>>

\* The process dies and is restarted by the container's entrypoint.
Crash ==
  /\ faults < MaxFaults
  /\ faults' = faults + 1
  /\ task' = [t \in Reload |-> Idle]
  /\ health' = "unknown"
  /\ UNCHANGED <<releases, metadata, links, nginx, unreached>>

\* The master handles its signal: it loads the release or keeps the old one.
HandleSignal ==
  /\ nginx.signal
  /\ \/ /\ nginx' = [loaded |-> Served(current), signal |-> FALSE]
        /\ UNCHANGED unreached
     \/ /\ nginx' = [nginx EXCEPT !.signal = FALSE]
        /\ unreached' = "refused"
  /\ UNCHANGED <<task, releases, metadata, links, health, faults>>

\* nginx exits and the entrypoint starts it again (recover_nginx_process).
RestartNginx ==
  /\ nginx' = [loaded |-> Served(current), signal |-> FALSE]
  /\ unreached' = "none"
  /\ UNCHANGED <<task, releases, metadata, links, health, faults>>

Deploy(t) ==
  \/ Stage(t) \/ Validate(t) \/ Activate(t) \/ ReloadNginx(t)
  \/ Promote(t) \/ RecordActive(t) \/ ListStale(t) \/ Prune(t)
  \/ RollBackLink(t) \/ ReloadBack(t) \/ RecordRolledBack(t)

EnsureLayout(t) ==
  \/ ReadCurrentLink(t) \/ createBootstrapRelease(t) \/ LinkBootstrap(t)
  \/ ReadGoodLink(t) \/ LinkGood(t)

Next ==
  \/ \E t \in Reload : Begin(t) \/ EnsureLayout(t) \/ Deploy(t) \/ IoError(t)
  \/ Crash \/ HandleSignal \/ RestartNginx

Spec == Init /\ [][Next]_vars

-----------------------------------------------------------------------------
(* Properties.                                                             *)

Place == {"idle", "layout", "bootstrap", "linkCurrent", "readGood", "linkGood",
          "stage", "validate", "activate", "reload", "promote", "record",
          "list", "prune", "rollback", "reloadBack", "describe"}

Link == Release \cup {Missing}

Task == [at : Place, phase : {1, 2}, release : Link, previous : Link,
         stale : SUBSET Release]

TypeOK ==
  /\ task \in [Reload -> Task]
  /\ disk \subseteq Release
  /\ older \in [Release -> SUBSET Release]
  /\ metadata \in [Release -> {"unknown", "bootstrap", "staged", "validated",
                               "active", "rolled_back"}]
  /\ current \in Link
  /\ lastKnownGood \in Link
  /\ nginx \in [loaded : Link, signal : BOOLEAN]
  /\ health \in {"unknown", "ok", "failed"}
  /\ faults \in 0 .. MaxFaults
  /\ unreached \in {"none", "notAsked", "refused", "rollbackFailed"}

Quiet == \A t \in Reload : At(t, "idle")
Settled == Quiet /\ ~nginx.signal

(***************************************************************************)
(* One reload at a time, with faults.  Once a reload has reported success, *)
(* both links point to the same release and nginx has it, unless the       *)
(* master refused to load it: whatever an interrupted reload left behind   *)
(* is repaired by the next one that succeeds.                              *)
(***************************************************************************)
SuccessIsReal ==
  Settled /\ health = "ok" =>
    /\ current = lastKnownGood
    /\ nginx.loaded = current \/ unreached = "refused"

(***************************************************************************)
(* A release that was rolled back is not put in service again, as the      *)
(* target of a later rollback or a left-over link.                         *)
(***************************************************************************)
RolledBackStaysOut ==
  current # Missing => metadata[current] # "rolled_back"

(***************************************************************************)
(* Without faults, and however many reloads interleave, nginx ends up with *)
(* what `current` points to, unless the master refused to load it, the     *)
(* last word was a rollback whose own reload failed, the link has been     *)
(* created without a reload, or another reload has pruned the release.     *)
(***************************************************************************)
NginxFollowsLink ==
  Settled /\ faults = 0 /\ current # Missing =>
    \/ nginx.loaded = current
    \/ unreached # "none"
    \/ ~OnDisk(current)

(***************************************************************************)
(* `current` and `last-known-good` never point to a release that nginx -t  *)
(* has not accepted, however many reloads interleave.                      *)
(***************************************************************************)
LinksValidated ==
  \A link \in {current, lastKnownGood} :
    link # Missing => metadata[link] \notin {"unknown", "staged"}

(***************************************************************************)
(* One reload at a time: until the first fault, every step of a reload is  *)
(* a step of a rollout, and `current` leaves the last known good release   *)
(* only for a trial that ends in a promotion or in the way back.           *)
(***************************************************************************)
Target(link) == IF link = Missing THEN Bootstrap ELSE link

Rollout == INSTANCE ConfigRollout WITH
  inService <- Target(current), known <- Target(lastKnownGood)

ImplementsRollout ==
  Rollout!Init /\ [][faults' = 0 => Rollout!Next]_(Rollout!vars)

(***************************************************************************)
(* The links agree once a reload has finished, in success and after a      *)
(* rollback (assertions of test/unit/transactional-nginx-rollout.test.js). *)
(***************************************************************************)
LinksAgree == Quiet /\ faults = 0 => current = lastKnownGood
=============================================================================
