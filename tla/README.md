# LyttleNGINX: specifications, model checking and proofs

LyttleNGINX runs nginx on several nodes.  On every node a NestJS process (the
*control plane*) generates nginx's configuration from rows of one PostgreSQL
database that all nodes share, obtains and activates TLS certificates, elects a
leader for the periodic work and tells the other nodes over HTTP what to do.  A
shell script supervises the process and nginx inside the container.

This directory holds TLA+ modules of the parts of that system whose correctness
depends on the order in which things happen, TLC configurations that check
them on small instances, and TLAPS proofs, for every instance, of all their
safety properties (section 5).  Paths such as `distributed-lock.service.ts:322`
are relative to the repository's `src/` directories; `PROJECT.json` maps every
definition to its lines.

## 1. Inventory

| Component | State | Operations | Hard behaviour | What makes it correct |
|---|---|---|---|---|
| Leader lease, `DistributedLockService` | `ClusterLease` row; `heldLeases` map, renewal timer | `acquireLease`, `renewLease`, `releaseLease`, `isLeader`, `releaseAllLocks` | answers that come late, expiry while a call is under way, skewed clocks, death of the owner, restart under a new identity | one leader at a time; a local belief is backed by the row; a generation has one owner; a dead owner is replaced |
| Advisory locks, `DistributedLockService` | PostgreSQL session locks; `heldLocks` map | `withLock`, `tryAcquireLock`, `releaseLock`, `releaseAllLocks` | locks belong to a pooled session and not to a caller; sessions end; a shutdown unlocks under functions that run | mutual exclusion between processes whose session and process stay up |
| Cluster operations, `ClusterOperationsService` | `ClusterOperation`, `ClusterOperationAck` rows | create, execute locally, call the peers, record, refresh, wait | time-outs while the peer goes on, lost updates, one exception among parallel calls, death of the initiator | what the journal and the caller are told is true; every operation that is executed comes to an outcome |
| Nginx releases, `ReloaderService` | release directories, metadata, links `current` and `last-known-good`; nginx | `reloadConfig`: stage, validate, activate, reload, promote, prune, roll back | concurrent reloads, death between two steps, asynchronous reload of nginx | a reported success is real; nginx runs what the links say; only validated releases get linked |
| Certificates, `CertificateService`, `CertificateOrderService` | `CertificateOrder`, `CertificateArtifactVersion`, `Certificate` rows; files per node | ensure, renew, upload, retry, roll back, distribute, sync | resumed orders, retry windows, activation in several statements that may be cut off, stale copies | the certificate's artifact is the current one; no needless order; no order left behind but by what cuts a request off; nodes converge |
| Clean-up, `CertificateCleanupService` | `Certificate` rows, orphan marks | daily clean-up on every node; deletion by an administrator | marks made from stale readings, marks on certificates a sync could not check, clean-ups cut short | a valid certificate that is used is not cleaned up |
| Membership, `ClusterHeartbeatService` | `ClusterNode` rows | register, heartbeat, mark stale, delete, reconcile leader flags, administrators' elections | lease read before flags are written, parallel reconciliation | once leadership stays, the rows tell the truth |
| Renewal leadership, `CertificateService` | `isCurrentlyLeader`, renewal interval | `leaderElectionCheck`, shutdown | overlapping checks, awaits between flag and interval | a node renews exactly if it takes itself for the leader |
| ACME challenges, `AcmeService` | `AcmeChallenge` rows | present, serve, expire, clean up, finalise | expiry racing finalisation, repeated tokens, callbacks that outlive their order, attempts that share an order, queries that fail | a presented challenge is served while its order waits; none stays behind but where its own removal failed |
| Supervision, `docker-entrypoint.sh` | PIDs, restart budgets, exit code | start, adopt, recover, shut down | signals and deaths in the middle of a recovery or a shutdown | exit status 0 only on request; known processes end before the script |
| Proxy entries, `ProxyService` | `ProxyEntry` rows | create, update, delete | wildcards and spellings; conflict check and write are two queries | no host is served by two entries, unless requests overlap |
| Key encryption, `PrivateKeyEncryptionService` | key ring; encrypted keys in rows | encrypt, decrypt, migrate | a pass writes back rows it read earlier, while keys are renewed and configurations change | a stored key belongs to its certificate; a complete pass leaves nothing under an old key |
| Backups, `CertificateBackupService` | archive files | create, verify, import, restore, delete | partial imports, deletions and renewals meanwhile, placeholders without a certificate, colliding entries | what was written can be restored; an import that reports neither errors nor skipped records stored every certificate |
| Others: nginx text, TLS settings, auth, security inventory, audit, alerts, health, metrics, logs, database client, utilities | none that several actors share | | | pure functions and observers |

How they interact: the lease decides which node runs `renewAllCertificates` and
which flags `ClusterHeartbeatService` shows; an issuance runs under an advisory
lock named after the domains; the activation of an artifact is a cluster
operation whose local and remote actions install files and call `reloadConfig`;
a cluster reload is a cluster operation that calls `reloadConfig`.  A change of
the proxy entries changes which certificates are used, and so what the clean-up
takes; renewals write the rows that clean-ups, re-encryption passes and imports
have read.  All of it goes through the Prisma pool, which has one connection per
process unless `DATABASE_URL` says otherwise.

`PROJECT.json` lists the hazards, each at its line, with the properties that
would catch it.

## 2. Plan

| # | Module | Status | Composes | Properties in view |
|---|---|---|---|---|
| 1 | `LeaderLease`, abstract `LeaderEpochs` | modelled, checked, proved | | see below |
| 2 | `NginxReleases`, abstract `ConfigRollout` | modelled, checked, proved | | see below |
| 3 | `ClusterOperations`, abstract `BroadcastOutcome` | modelled, checked, proved | | see below |
| 4 | `AdvisoryLock` | modelled, checked, proved | | see below |
| 5 | `CertificateIssuance` | modelled in part, checked, proved | relies on what (3) and (4) promise | see below; left: back-off delays, the expiry monitor |
| 6 | `ClusterLeadership` | modelled, checked, proved | the lease (1) as it is with one connection, membership, `leaderElectionCheck` | see below |
| 7 | `AcmeChallenges` | modelled, checked, proved | used by 5 | see below |
| 8 | `ContainerSupervision` | modelled, checked, proved | | see below |
| 9 | `StoredKeys`, `ProxyEntries` | modelled, checked, proved | | see below |
| 10 | `CertificateCleanup`, `CertificateBackups` | modelled, checked, proved | | see below |

`Services` puts 4 and 7 to 10 side by side and states their properties once, for
the proofs and for the run; `MCServices` is the small instance TLC checks.

A proof module `<Module>Proofs` stands beside each of 1 to 6 (4 in
`ServicesProofs`), and beside 7 and of 9 `StoredKeys`; `ServicesProofs` has the
rest.

## 3. The modules

### LeaderLease

`row` is the `ClusterLease` row, `held` the local record of each process,
`waiting` the statements that were issued and wait for a connection,
`connection` the answers that have not been taken yet.  A method of
`DistributedLockService` is three steps: the call (`CallAcquire`, `CallRenew`,
`CallRelease`: it reads the local record), the statement (`Execute`, one of
`acquireLease`, `renewLease`, `releaseLease` or `NothingUpdated`) and the
continuation (`Resume`, which tracks or untracks).  Other calls, processes and
the clock come in between.  An `Instance` is one start of a process: identities
are drawn afresh at each start, so a restart is another instance.  Time is
relative: every copy of `expiresAt` is the number of ticks left, `Skew` is what
a local clock is ahead of the database's.

`LeaderEpochs` is the abstract specification: leadership goes through epochs,
each granted to one instance; a leader leads in the latest epoch only.

### NginxReleases

`task` is where each running `reloadConfig` is and what it remembers, `disk` the
release directories, `older` the directories that each was found to be younger
than, `metadata` the status file of each, `current` and
`lastKnownGood` the links, `nginx` what the master process has loaded and the
signal it has not handled, `health` what was reported last.  Every `await` of
`ensureRuntimeLayout`, `deployConfigSnapshot`, `rollbackActivation` and
`pruneOldReleases` that other steps can tell apart is an action.  A death of the
process forgets `task` and `health` and leaves the rest.  `unreached` is a
history variable: the known reasons why nginx does not serve `current`.  A
release is its number in the order of creation; its content is abstracted.

`ConfigRollout` is the abstract specification: the release in service is the
last known good one except while a newer one is on trial.

### ClusterOperations

`operation` and `ack` are the rows, `runner` is the coroutine
`executeOperation`, `call` the coroutine of each target, `seen` what
`refreshOperation` has read, `node` what each target has really done, `caller`
is `waitForOperationToSettle`.  Every query may fail with or without effect,
every call may be aborted while the peer goes on, the initiator may die.  When an
update of an endpoint fails the operation is never executed: the runner is
`abandoned`, and the row stays pending.

`BroadcastOutcome` is the abstract specification of what the journal promises.

### AdvisoryLock

`session` counts how often each database session holds the lock, `heldLocks` is
the entry shared by all callers of a process, `caller` is where each `withLock`
is.  A query runs on any connection nobody else has to take an answer from.
`releaseAllLocks` is the shutdown: it unlocks what is in `heldLocks` whoever is
inside.  `exposed` is a history variable: the processes that lost a session with
the lock or gave it up in a shutdown since they started.

### CertificateIssuance

The certificate of one set of domains.  `orders`, `artifacts` and `certificate`
are the rows, `flow` is where each request is and what it remembers, `lock` who
is in `cert:issue:<hash>`, `calls` the activations nodes have been asked for,
`installed` the version on each node's disk, `copy` the row that a node's
`syncCertificates` has read.  Each query that writes, or whose answer decides
something, is an action, because nothing in `certificate.service.ts` runs in a
transaction; where the row is missing, the look at it and its insertion are two
(`Save` and `SaveFirst`, `Catch` and `CatchFirst`), and the insertion fails when
another request comes first.  `Throws` says which `catch` an exception ends up in: the one of
the issuance, which marks the certificate and the order as failed, the one of
`uploadCertificate` and `generateSelfSignedCertificate`, or none.  An operation
is reduced to what `ClusterOperations` shows of it: it succeeds only if all its
targets have activated, and an activation may still be carried out after the
operation was given up (`Nobody` waits for it).  A shutdown's `releaseAllLocks`
is a `LoseSession`.  `dropped` and `interrupted` are history variables: the
orders left by requests that were cut off (a rejected upload, a query that fails
where no catch settles the order, a death), and whether an activation was cut off
between its last statements and none has come to its end since.

### ClusterLeadership

The lease is what `LeaderLease` shows of it with a pool of one connection and
clocks in step: `owner` is the row until it expires, `held` the local records,
and a call of `DistributedLockService` is one step.  `node` has the
`ClusterNode` rows with the age of the last heartbeat.  `job` is the coroutine
of `ClusterHeartbeatService` in each process: a heartbeat, the clean-up of stale
nodes, `ensureLeaderExists` or an administrator's request.  It pauses between a
reading of the lease and what is written on its account; `todo` are the
statements of a reconciliation, which run in parallel.  `check` are the
coroutines of `leaderElectionCheck`, `isCurrentlyLeader` and `interval` what
they leave.  Deaths, shutdowns, lost renewals, heartbeats that a live node
misses and failing queries are `lapses`.

### CertificateCleanup

`used` are the hashes of the proxy entries, `certificate` the rows with their
orphan marks, `sweep` the coroutines of `cleanupCertificates`, one per node at
the same minute of the day.  `doubted` are the rows that a `syncCertificates`
takes for invalid and has not marked yet: any row, for `validateCertificate`
also answers so when `openssl` or a temporary file fails.  `hot` is a history
variable: the certificates that came into use under a clean-up in progress, or
were marked by a sync after a clean-up had read what it acts on.  Nothing
protects those: the code reads and deletes in separate queries.

### ProxyEntries

`entry` has the domains of each row, `request` the coroutines of `ProxyService`
between the check for conflicts and the write.  A domain is a sequence of
labels; `normalizeDomains`, `ensureLabelRules` and `domainsConflict` are
operators on these, compared with what nginx's `server_name` matches (`Serves`).
An entry keeps the set of its domains: conflicts do not depend on their order.

### StoredKeys

`certificate` and `artifact` are the rows of one set of domains: which renewal
the certificate and the key belong to, and what the key is wrapped under.  `pass`
is the coroutine of `migrateStoredPrivateKeys` and the rows it has in hand, run
by `onModuleInit` and by the administrators' rotation.  `process` has the
configuration (master key and version) each process was started with.  A process
whose first pass throws does not come up.

### AcmeChallenges

`row` has the `AcmeChallenge` rows, `attempt` the calls of `obtainCertificate`,
`authz` the callbacks of `client.auto` by token, `asking` the requests of the
authority that found an expired challenge and have not marked it yet.  A
callback may outlive its attempt, because acme-client reports the first failure
at once; it ignores a removal that fails (`FailCleanup`).  Two attempts may work
on one order, because `getOrCreateOrder` returns the order in progress and the
callers' lock does not keep callers of one node apart.  The queries of removal and
finalisation may fail, one at a time.  The history variables: `disturbed` are
tokens that somebody else had in hand when they were given out or presented,
`joint` attempts that shared their order, `left` challenges whose own removal
failed or was cut off by a death.  acme-client and the authority are external: what they do is taken from
how `acme.service.ts` uses them.

### CertificateBackups

`certificate` has the rows by their sets of domains, `file` the backup files
with their records, the key they are encrypted under and whether they were
written to the end, `request` the coroutines of creation and import.  A row may be
the placeholder that a failed issuance leaves, without a certificate (its `pem`
is 0): an import skips a record that meets it, a backup contains it.  `touched`
are the rows that others saved or deleted since the request began.
Verification and decryption are modelled by what they refuse.

### ContainerSupervision

`at` is where `docker-entrypoint.sh` stands, `running` the processes,
`nodePid` and `nginxPid` what it knows of them, `attempts`, `final` and
`stopping` its variables.  A trap interrupts the script between two commands, a
trap of the other signal included.  `hurried` is a history variable: a signal
arrived in the middle of a shutdown and cut it short, be it the second one, or
the first one of a shutdown after a failure.

### Services and MCServices

`Services` has an instance of each component that keeps its state to itself.
The variable `part` says which of them a behaviour is one of; the others stand
still, so the state graph is the disjoint union of seven.  The properties are
those of the components under the condition `part = ...`, except for the two
action properties, which need none.  Its parameters are those of the components,
and `ServicesAssumption` is the conjunction of their assumptions.  `MCServices`
gives the parameters the values of the table in section 4.

## 4. Runs

| Run | Question | Bounds, and why they are enough |
|---|---|---|
| `LeaderLease` | Is leadership exclusive, grounded, fenced and handed over? | two processes, one with a clock behind by a tick, TTL of two ticks, two generations, one statement waiting per process.  A take-over with both a lost answer and a late renewal fits in two generations; longer histories and more processes are covered by the proofs, except for `DeadOwnerReplaced`. |
| `LeaderLeasePool` (violation) | Does that need a pool of one connection? | the same with two connections and clocks in step |
| `NginxReleases` | What does one reload at a time guarantee across faults? | six releases (three reloads of two phases and the bootstrap), two faults, retention of one instead of five, so that pruning happens early |
| `NginxReleasesConcurrent` | What remains when reloads interleave? | two reloads, four releases, no faults |
| `NginxReleasesRace` (violation) | Do the links agree when all reloads are over? | two reloads |
| `ClusterOperations` | Is what is recorded true, and does what is executed end? | the initiator and up to two peers: with two, one can succeed while the other fails, throws or hangs |
| `AdvisoryLockReentrant` (violation) | Do callers of one node exclude each other? | two callers on one node, one connection |
| `CertificateIssuance` | Is a certificate ordered only when needed, is the current artifact the one in use again after each activation that comes to its end, does every way out but those that cut a request off settle its order, does every request activate its own artifact, and do the nodes converge? | two nodes, one request at a time on each; two orders and two artifacts, so that a renewal replaces a certificate and a rollback can return to it; three requests and faults together: issue, renew, roll back, or one fault in the middle of two requests; the sync of one node; one late activation, which is what it takes to overwrite a newer certificate.  Two `ensure` requests overlap freely, the other kinds come alone (`Overlaps`): nothing in the code keeps them apart, and `NoNeedlessIssuance`, `CertificateIsCurrent` and `NoOrderAbandoned` are about what the lock gives; that a request activates its own artifact is proved for any overlap (section 5).  Two requests that read the same version need a lost session here, which the bounds allow |
| `ClusterLeadership` | Does a node renew exactly while it takes itself for the leader, and do the rows come to tell the truth? | two instances, one check at a time in each, one fault: enough for a leader to die or lose its lease while each of the other's jobs has a stale reading of it |
| `ClusterLeadershipOverlap` (violation) | Does the first hold when checks of one process overlap? | two checks per process |
| `Services` | One question per component, see the properties below | two processes, requests, clean-ups or attempts of each kind (`Actor`), exchangeable |
| `CertificateBackupsVerify` (violation) | Can a backup that was written be verified? | three lists of domains, one file, two changes |

The parts of `Services`:

| Part | Properties | Bounds, and why they are enough |
|---|---|---|
| `ProxyEntries` | `ConflictsOnlyByOverlap` | three writes (two entries and an update or deletion between) from five lists: the name `x.a`; the wildcard `*.x.a` below it; the wildcard `*.a` that covers it; two names, `a.x.a` and `x.a`, so that lists overlap in part; one that is not valid.  Hosts of up to four labels (`MaxLabels`), one more than the longest wildcard has |
| `CertificateCleanup` | `UsedCertificatesStay` | one certificate, two clean-ups, four changes, which include saves, deletions and changes of the entries, and as many doubts of a sync as there are rows |
| `StoredKeys` | `KeysMatch`, `CompletedPassIsComplete` | two processes, three configurations (a new version of the old master key, a new master key), two renewals, keys from before encryption or none |
| `AcmeChallenges` | `WaitingIsServed`, `NothingLeftPresented` | two attempts on two orders, which they may share, that may be given the same tokens, one request of the authority, one mishap (`MaxMishaps`: a query that fails, a death, an expiry) |
| `CertificateBackups` | `CleanImportIsComplete` | two requests, two changes, three lists, two of them of one set, placeholders, one import with an unsound record |
| `ContainerSupervision` | `ZeroMeansAsked`, `NothingCutOff` | the code's default of three attempts, two signals |
| `AdvisoryLock` | `ExcludesOthers` | a caller on one node, two on another, two connections each, `maxRetries` 2 (so that a refused caller tries once more), a session that holds the lock up to three times, and one loss (`MaxLosses`: a session, a process or a shutdown), which exempts that process from the property and goes on |

Deadlock is checked for `LeaderLease` and `NginxReleases`, where something can
always happen.  It is off where the modelled work ends: an operation is carried
out once, callers of a lock may all be done, no request may come in any more,
every instance may be dead, the script may have exited.

Bounds that do not exist in the code are the constants whose names begin with
`Max` (except `MaxRetries`, the code's own `maxRetries`), and `Overlaps` and
`Syncing`.

### Fairness

`LeaderLease!FairSpec`: time passes; every live process keeps trying to lead
(`leaderElectionCheck` and the heartbeat service call it from timers); its event
loop resumes answered calls; the pool serves waiting statements; and the
database does not fail *every* acquisition.  Fairness of the calls is strong
because the bound `MaxWaiting`, which the code does not have, disables them now
and then.  Without the last assumption nothing could be promised.

`ClusterOperations!FairSpec`: the event loop of the initiator runs, queries
return (with a result or an error), an aborted call fires its timer, the
initiator's own action ends.  Nothing is assumed of peers and network: a call to
a peer that never answers is ended by `AbortSignal`.

`ClusterLeadership!FairSpec`: a registration, a job and a shutdown that have
begun go on (the event loop runs and queries return, possibly with an error),
heartbeats of the dead age, and the timers of heartbeat and clean-up fire
(`cluster-heartbeat.service.ts:74` and `:83`).  For the timers fairness is strong, because
the bound of one job per process at a time, which the code does not have,
disables them now and then.  Nothing is assumed of elections, administrators and
checks.  `RegistrySettles` is conditional on leadership staying where it is.
That it comes to rest is not claimed: jobs that act on stale readings of the lease
can take it away from its owner again and again.

`CertificateIssuance!FairSpec`: every node carries on with its periodic sync
(`setInterval`, `certificate.service.ts:113`).  Nothing is assumed of requests.

### What the violations show

Each states what a comment, a document or a test says, and TLC finds a
behaviour of the code that breaks it; `PROJECT.json` quotes both.

- `LeaderLeasePool`: with a pool above one, `renewLease` tracks a row it was
  answered before a release that has been resumed first.
- `NginxReleasesRace`: two overlapping reloads can finish with `current` and
  `last-known-good` on different releases.
- `AdvisoryLockReentrant`: a session-level lock does not exclude callers that
  share the session.
- `ClusterLeadershipOverlap`: `leaderElectionCheck` awaits an alert between
  becoming the leader and starting the renewal interval
  (`certificate.service.ts:424`).  A second check that finds the lease lost
  during the alert stops nothing, and the first then starts the interval on a
  node that no longer leads.
- `CertificateBackupsVerify`: entries of a backup are filed under the storage
  name of a certificate's first domain (`certificate-backup.service.ts:575`);
  with two certificates that begin with the same domain the file is written
  without an error and can never be verified or restored.

## 5. Proofs

Every theorem holds for all values of the constants that satisfy the named
`ASSUME` of its module, which TLC evaluates on each run.  The assumptions fix the
kinds of the constants (sets, naturals, functions between them) and that a value
such as `None` is not an instance; what more a theorem needs is in its statement.
A property is proved from an inductive invariant: the initial states satisfy it,
every action preserves it, and it implies the property.  Each proof module has
one lemma per conjunct and in it one step per action.  What the invariants say
beyond the properties is why the properties hold:

### LeaderLeaseProofs

For every set of instances, pool, TTL, skew and lag (`LeaseAssumption`):

- `TypeCorrect`: the type invariant.
- `TokensAreUnique`: no two instances ever hold the same generation.  It holds
  for *every* pool size: the fencing token stays sound where leadership itself
  overlaps (`LeaderLeasePool`).
- `BeliefsAreGrounded`, `LeaderIsSingle`, `LeaseImplementsEpochs`, under the
  assumption `PoolOfOne` that the pool has one connection, the code's default.

Why the inductive invariant is needed: `SingleLeader` talks about local records
only, and is not inductive; what excludes two leaders is that every record,
every statement on its way and every answer not yet taken is tied to the row.
The invariant says so for each of these places: a generation in any of them was
granted to that instance and is no later than the row's (this alone gives
`TokensAreUnique`); and with one connection, the latest answer supersedes what
the process holds, so a record with time left is no longer-lived than the row.
The refinement then follows: `granted` grows by one when leadership changes
hands, and the leader of the model is the owner of the latest generation.

### ClusterOperationsProofs

For every finite set of peers (`OperationsAssumption`): `TypeCorrect`,
`AcksTellTheTruth`, `OutcomeIsThatOfAcks`, `CallersCanRely`, and
`JournalImplementsBroadcast`, the refinement of `BroadcastOutcome` step by step.

`JournalInv` ties each acknowledgement and the journal to the place of the
coroutine that writes it.  `CallsInv`: a call that is about to record a success
comes from a target that has carried the operation out, whether or not an
earlier update took effect.  `RunnerInv`: what `refreshOperation` has read is
still what the rows say when it writes the outcome, because every call is over
by then (`Finished`, and `FinishedStays`).  `RecordInv`: an outcome in the row is the
one these acknowledgements give; only "failed" can be written over it.
`CallerInv` carries the caller's reading of it.

### NginxReleasesProofs

For any number of releases, faults and directories retained
(`ReleasesAssumption`), and for any number of reloads, however they interleave:

- `TypeCorrect`.
- `OnlyAcceptedIsLinked`: `LinksInv` says that what a reload remembers as
  `previous` (where it would go back to), and its own release from validation
  on, was accepted by `nginx -t`.  A link therefore only ever moves to such a one.
- `NginxServesTheLink`: `Follows` excuses a reload only between the switch of the
  link and the signal; it needs that a linked release is not staged again, and
  that the bootstrap release is not pruned (`BootstrapStays`).

And under the hypothesis `OneReload` (there is one coroutine `reloadConfig` at
most), as in the run `NginxReleases`:

- `SuccessTellsTheTruth`: from `nginx -t` to the end, pruning spares the release
  and nothing else moves the links (`SuccessInv`).
- `RolledBackIsOut`: a reload returns neither to its own release nor to one that
  was rolled back before (`OutInv`).
- `ReloadImplementsRollout`: up to the first fault, `current` leaves the last
  known good release only for a newer one on trial, and the way back leads to the
  last known good release (`RolloutInv`); so each step is one of `ConfigRollout`,
  or leaves the links of the rollout alone.

The hypothesis cannot be dropped: with two reloads the links can disagree for
good (`NginxReleasesRace`).  It is a statement about the callers: nothing in
`reloader.service.ts` keeps reloads apart.

### ServicesProofs, AcmeChallengesProofs, StoredKeysProofs

Every property of the run `Services`, for any sets of actors, domains, labels,
certificates, tokens, configurations, processes, connections, and any bounds
(`ServicesAssumption`).  `Steps` says that a step of `Services` is a step or a
stutter of each component; the lemmas of each component do the rest.

- Proxy entries (`EntriesConflictOnlyByOverlap`).  `ProxyInv`: a request that
  has not written yet conflicts with nothing that was written before its check,
  whatever was updated or deleted since.  `CommonHost` is the fact about the
  operators: two domains that `server_name` would match on a common host are
  conflicting for `domainsConflict`, wildcards of any depth included.
- Clean-up (`UsedCertificatesAreKept`).  `CleanupInv`: a mark on a valid
  certificate in use, whoever left it, is on the list of the marks that a
  clean-up is about to take back (`MarksListed`), so that none is left when it
  looks for the orphans (`NoneMarked`), except on what is `hot`.
- Keys (`StoredKeysStayMatched`, `PassesAreComplete`).  `KeysInv`: what a row is
  wrapped under and the version it is named after belong to one configuration
  (`SoundRows`); an artifact never changes its key (`ArtifactKeys`); a copy of
  the certificate's row that a pass is going to write back has the key of the
  stored certificate unless `raced` (`CertificateKey`).  `CompleteInv`: as long as
  no process with another configuration has been alive, each row that a pass has
  read is current or still due.
- Challenges (`WaitingChallengesAreServed`, `ChallengesAreWithdrawn`).
  `WaitInv`: while an attempt that shares its order with nobody waits, the row of
  its token is its own order's (`Undisturbed`); a finalisation touches rows of its
  order only, and attempts with one order are `joint` (`SharersAreJoint`); a
  request marks a challenge only when it has expired.  For the second, a published
  challenge has a callback that has yet to remove it (`CallbackStays`), or it is
  one whose own removal failed or was cut off (`LeftStays`).
- Backups (`CleanImportsAreComplete`).  `NothingDropped`: as long as an import has
  counted no error, each record of its file is still to be looked at, or there is
  a row with its domains, with its own certificate if none was skipped, or others
  have saved or deleted the row since (`Settled`).
- Supervision (`ZeroExitWasAsked`, `NothingIsCutOff`).  `ContainerInv`: no
  budget is exceeded except in a shutdown, a shutdown without a failure follows a
  signal, and the script holds no PID before it has started the process
  (`PidsKnown`); when it stops nginx the process of node has ended.
- Locks (`LockExcludesOthers`).  `OneSession`: one session in the database has
  the lock.  `Counted`: unless its process is `exposed`, it holds the lock at
  least once for every caller of its process that relies on it; an unlock on
  another connection finds nothing to release, and the unlocks of a shutdown come
  from processes that are `exposed`.

`TypeCorrect` is the type invariant of all of them.

### ClusterLeadershipProofs

For any set of instances and any number of lapses (`LeadershipAssumption`):

- `TypeCorrect`, which includes that a local record of the lease is backed by
  the row, for any number of checks that overlap.
- `RenewalIsTheLeaders`, under the hypothesis `OneCheck` that the checks of one
  process do not overlap (they do in `ClusterLeadershipOverlap`, which violates
  it).  `RenewalInv` says how the flag and the interval stand while a check is
  under way: they agree, except between setting the flag and the end of the
  alert, and between resetting it and the answer to the release.

### CertificateIssuanceProofs

For any nodes, requests on them, kinds of request and bounds
(`IssuanceAssumption`), and any faults unless the property says otherwise:

- `TypeCorrect`.  `Remembers` says what a request can have in mind at each place:
  an order that is there from the moment it has found one, and an artifact that
  is there while it activates one.
- `OwnArtifactActivated`: from the moment a request has an artifact it is one of
  its order (`OwnInv`); the version a request has read is its own only if the
  insertion succeeds, and no later write takes an artifact to another order.

These two hold however requests overlap, which the run does not show: with
`Overlaps = TRUE`, uploads, retries and rollbacks mix with `ensure` requests and
with each other.  Under the hypothesis `~Overlaps` (no requests overlap that no
lock keeps apart), as in the run:

- `NeedlessIssuanceExcluded`: `LockInv` says that the requests in the lock are
  of one node, and that as long as no session was lost every request past the
  lock is in it; `OverlapInv` that two requests in progress only ensure the
  certificate, on different nodes.  So at most one is past the lock
  (`Exclusive`), and nobody else can save a certificate between the second look
  and the ACME order (`ObtainInv`).
- `CertificateCurrent`: `CurrentInv` says how the row and the artifacts stand
  between the three statements: the row is already of the new version, and before
  the last one no other artifact is current, whatever an activation that was cut
  off had left.  So the first activation that comes to its end puts right what
  the others left (`interrupted` is over).
- `OrderNotAbandoned`: `WorkInv` says of each order in progress that a request
  has it, or that it was dropped by one that was cut off.  A request that ends
  otherwise settles its order, also when its catch clause has the exception of a
  lost race for a version (`ThrowMoves`, `WorkOrders`); that nobody inserts the row
  before a request that is about to is `FirstInv`.  Both need the lock, and so
  that no session was lost.

The hypothesis restricts the requests, not the code's steps.  It cannot be
dropped: see section 6.

### Only model-checked

- Liveness: `DeadOwnerReplaced`, `ReachesOutcome`, `RegistrySettles` and
  `NodesConverge`.  Liveness under fairness is outside what the prover handles.
- What the expected violations show: each is one behaviour, found by TLC.

## 6. Limits

What the properties leave out because the code does not keep it:

- Overlapping requests can make a host ambiguous (`ProxyEntries`), a certificate
  saved while a pass has its old key in hand can be left with that key
  (`StoredKeys`), and a certificate that comes into use under a running clean-up,
  or is marked then by a sync that could not check it, can be deleted
  (`CertificateCleanup`).  Each is a check and a write in two
  queries; the properties say that nothing else does the same damage.
- Requests on one certificate that the advisory lock does not keep apart
  (`Overlaps` in `CertificateIssuance`): two activations whose three statements
  mix can leave another artifact current than the one the certificate is made
  from; two requests of one node share the session, and so the lock, and can
  both place an ACME order; of two that find no row, one fails to insert it
  (`certificate.service.ts:1093` and `:1530`), which leaves the order of a retry
  distributing, or that of a failed issuance unmarked.
- Requests that are cut off leave their order in progress until another one comes
  along: an upload that is rejected (`certificate.service.ts:1783`), a retry or
  rollback whose wait times out (`:1053`), a query that fails in a catch.
- Two attempts that share an order finalise each other's challenges
  (`AcmeChallenges`, `joint`), and a challenge whose removal fails stays published
  until its order is finalised again (`left`).
- A shutdown gives up the advisory locks of functions that still run
  (`distributed-lock.service.ts:519`, called from `:70` and from
  `certificate.service.ts:343`): another node may then be inside as well.
- An operation whose endpoints could not all be written
  (`cluster-operations.service.ts:178`) stays pending for good: it is never
  executed, and nothing ends it.
- An import takes a record for stored when a row has its domains, whatever
  certificate that row holds: another one, or none, in the placeholder of a failed
  issuance.  It reports it as skipped.
- A signal that arrives while `docker-entrypoint.sh` shuts down after a failure
  ends the script at once (`docker-entrypoint.sh:240` and `:253`), although it is
  the first one: processes that were asked to stop are cut off.

Observations that are not properties:

- The restart budgets of `docker-entrypoint.sh` are never used up: a recovery
  that works clears them and one that fails ends the container.
- `wait -n` (`docker-entrypoint.sh:519`) does not report the end of an adopted
  nginx master, which is not a child; the script notices it at the next event.
- A process started with a new master key cannot read what the old one wrapped:
  its first pass throws, and it does not come up.
- Backup files are those of the node that wrote them.

Not modelled:

- The text of configurations, certificates and messages; logging, metrics,
  alerts (the one that is awaited in `leaderElectionCheck` is a pause there).
- `validateLeaseFenceToken`, which nothing in the repository calls:
  `TokensAreUnique` says what it could rely on.
- `stringToLockId`: two lock names can share a 32-bit id and then exclude each
  other needlessly; `AdvisoryLock` has one name.
- The ACME account key file, written by each node on first use; back-off delays
  and the expiry monitor; the checks of a proxy entry's upstream and custom code.
- Authentication, authorization and audit: one request at a time, from its
  headers, without state that several steps share.
- Corruption of the disk, and partitions in which two databases answer.
- The components marked `not_modelled` in `PROJECT.json`, with the reason there.
