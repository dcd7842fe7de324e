------------------------------ MODULE Services ------------------------------
(***************************************************************************)
(* The components that keep their state to themselves, side by side: a     *)
(* behaviour is one of one of them, and the others stand still.  None      *)
(* reads or writes what belongs to another one.                            *)
(***************************************************************************)
EXTENDS Integers

CONSTANTS
  Actor,        \* processes, requests, clean-ups, attempts
  Label, List, MaxLabels, MaxWrites,              \* of ProxyEntries
  Hash, MaxStoredChanges,                         \* of CertificateCleanup
  Config, Plain, MaxRenewals,                     \* of StoredKeys
  Order, Token, Asking, MaxMishaps,               \* of AcmeChallenges
  Domains, Sent, Name, MaxChanges,                \* of CertificateBackups
  RestartMax, MaxSignals,                         \* of ContainerSupervision
  Process, Caller, ProcessOf, Connection,         \* of AdvisoryLock
  MaxRetries, MaxLosses, MaxHolds

VARIABLES
  part,
  entry, proxyRequest, writes,
  used, stored, sweep, doubted, hot, storedChanges,
  process, current, artifact, pass, raced,
  row, attempt, authz, asking, disturbed, joint, left, mishaps,
  certificate, file, key, backupRequest, changes,
  at, running, nodePid, nginxPid, attempts, code, final, stopping, status, signals, hurried,
  session, heldLocks, caller, on, retries, losses, exposed

-----------------------------------------------------------------------------
(* The components.                                                         *)

Proxies == INSTANCE ProxyEntries WITH
  Request <- Actor, request <- proxyRequest

Cleanup == INSTANCE CertificateCleanup WITH
  Sweep <- Actor, MaxChanges <- MaxStoredChanges,
  certificate <- stored, changes <- storedChanges

Keys == INSTANCE StoredKeys WITH
  Process <- Actor, certificate <- current

Acme == INSTANCE AcmeChallenges WITH Attempt <- Actor

Backups == INSTANCE CertificateBackups WITH
  List <- Domains, Request <- Actor, request <- backupRequest

Container == INSTANCE ContainerSupervision

Locks == INSTANCE AdvisoryLock

ASSUME ServicesAssumption ==
  /\ Proxies!ProxyAssumption
  /\ Cleanup!CleanupAssumption
  /\ Keys!KeysAssumption
  /\ Acme!AcmeAssumption
  /\ Backups!BackupsAssumption
  /\ Container!ContainerAssumption
  /\ Locks!LockAssumption

\* Where the keys stand still, one of their initial states is enough.
Init ==
  /\ part \in {"proxies", "cleanup", "keys", "acme", "backups", "container", "locks"}
  /\ Proxies!Init /\ Cleanup!Init /\ Keys!Init /\ Acme!Init /\ Backups!Init
  /\ Container!Init /\ Locks!Init
  /\ part # "keys" => current = Keys!NoRow

proxyVars == <<entry, proxyRequest, writes>>
cleanupVars == <<used, stored, sweep, doubted, hot, storedChanges>>
keyVars == <<process, current, artifact, pass, raced>>
acmeVars == <<row, attempt, authz, asking, disturbed, joint, left, mishaps>>
backupVars == <<certificate, file, key, backupRequest, changes>>
containerVars ==
  <<at, running, nodePid, nginxPid, attempts, code, final, stopping, status,
    signals, hurried>>
lockVars == <<session, heldLocks, caller, on, retries, losses, exposed>>

OthersStay ==
  /\ UNCHANGED part
  /\ part # "proxies" => UNCHANGED proxyVars
  /\ part # "cleanup" => UNCHANGED cleanupVars
  /\ part # "keys" => UNCHANGED keyVars
  /\ part # "acme" => UNCHANGED acmeVars
  /\ part # "backups" => UNCHANGED backupVars
  /\ part # "container" => UNCHANGED containerVars
  /\ part # "locks" => UNCHANGED lockVars

Next ==
  /\ \/ part = "proxies" /\ Proxies!Next
     \/ part = "cleanup" /\ Cleanup!Next
     \/ part = "keys" /\ Keys!Next
     \/ part = "acme" /\ Acme!Next
     \/ part = "backups" /\ Backups!Next
     \/ part = "container" /\ Container!Next
     \/ part = "locks" /\ Locks!Next
  /\ OthersStay

vars ==
  <<part, proxyVars, cleanupVars, keyVars, acmeVars, backupVars, containerVars, lockVars>>

Spec == Init /\ [][Next]_vars

-----------------------------------------------------------------------------
(* The properties of the components, with the comments they have there.    *)

\* Every variable of every part keeps its type and its bounds.
TypeOK ==
  /\ part = "proxies" => Proxies!TypeOK
  /\ part = "cleanup" => Cleanup!TypeOK
  /\ part = "keys" => Keys!TypeOK
  /\ part = "acme" => Acme!TypeOK
  /\ part = "backups" => Backups!TypeOK
  /\ part = "container" => Container!TypeOK
  /\ part = "locks" => Locks!TypeOK

\* Requests to ProxyService that do not overlap never make a host ambiguous.
ConflictsOnlyByOverlap == part = "proxies" => Proxies!ConflictsOnlyByOverlap

\* cleanupCertificates deletes no valid certificate that an entry uses.
UsedCertificatesStay == Cleanup!UsedCertificatesStay

\* migrateStoredPrivateKeys leaves no certificate with another one's key.
KeysMatch == part = "keys" => Keys!KeysMatch

\* migrateStoredPrivateKeys leaves nothing under an old key or version.
CompletedPassIsComplete == part = "keys" => Keys!CompletedPassIsComplete

\* A challenge that obtainCertificate waits for is served until it expires.
WaitingIsServed == part = "acme" => Acme!WaitingIsServed

\* AcmeService leaves no challenge presented that nobody waits for.
NothingLeftPresented == part = "acme" => Acme!NothingLeftPresented

\* An import that importCertificates reports no error of left nothing out.
CleanImportIsComplete == part = "backups" => Backups!CleanImportIsComplete

\* docker-entrypoint.sh exits with 0 only if it was asked to and nothing failed.
ZeroMeansAsked == Container!ZeroMeansAsked

\* docker-entrypoint.sh exits once the processes it knows have ended.
NothingCutOff == part = "container" => Container!NothingCutOff

\* withLock: two callers of different processes are never inside at once.
ExcludesOthers == part = "locks" => Locks!ExcludesOthers
=============================================================================
