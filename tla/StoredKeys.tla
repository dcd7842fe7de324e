----------------------------- MODULE StoredKeys -----------------------------
(***************************************************************************)
(* The private keys in the database: PrivateKeyEncryptionService, the      *)
(* passes that bring what is stored under the current key version, at      *)
(* every start and on an administrator's request, and the renewals that    *)
(* store new keys meanwhile.                                               *)
(*                                                                         *)
(* One set of domains: its certificate row, whose certificate and key are  *)
(* replaced together, and its artifact versions, which are only added.  A  *)
(* key is the number of the renewal it belongs to.                         *)
(***************************************************************************)
EXTENDS Integers

CONSTANTS
  Process,      \* processes: an id is not used again after a failed start
  Config,       \* [master |-> key material, version |-> key version]
  Plain,        \* a key stored as plain text: not a version
  MaxRenewals   \* bound: certificates obtained

\* A new master key comes with a new version (credential-rotation.md).
KeysAssumption ==
  /\ \A c, d \in Config : c.version = d.version => c = d
  /\ \A c \in Config : Plain \notin {c.version, c.master}
  /\ Config # {}
  /\ MaxRenewals \in Nat \ {0}

VARIABLES
  process,      \* [state, config]: "off", "starting", "up" or "failed"
  certificate,  \* the Certificate row
  artifact,     \* the CertificateArtifactVersion rows by their version
  pass,         \* the coroutine of migrateStoredPrivateKeys, per process
  raced         \* a certificate was saved while a pass that was to rewrite
                \* its key had the old one in hand

vars == <<process, certificate, artifact, pass, raced>>

Version == 1..MaxRenewals
Config0 == CHOOSE c \in Config : TRUE

\* A row: which renewal its certificate and its key belong to, and what the
\* key is wrapped under.
NoRow == [cert |-> 0, key |-> 0, under |-> Plain, version |-> Plain]
Legacy == [NoRow EXCEPT !.cert = 1, !.key = 1]  \* from before keys were encrypted
Stored == {v \in Version : artifact[v] # NoRow}

\* copies: the rows read and not yet dealt with, numbered like the artifacts,
\* the certificate row as 0.  alone: so far no process has had another
\* configuration since the pass began.
NoPass == [at |-> "none", copies |-> {}, alone |-> FALSE]

Alive == {p \in Process : process[p].state \in {"starting", "up"}}
Up(p) == process[p].state = "up"
AllLike(p) == \A q \in Alive : process[q].config = process[p].config

Off(state) == [state |-> state, config |-> Config0]

\* A key, wrapped under the master key and named after its version.
Encrypted(p, cert, key) ==
  [cert |-> cert, key |-> key,
   under |-> process[p].config.master, version |-> process[p].config.version]

Init ==
  /\ process = [p \in Process |-> Off("off")]
  /\ certificate \in {NoRow, Legacy}
  /\ artifact = [v \in Version |-> IF v = certificate.cert THEN Legacy ELSE NoRow]
  /\ pass = [p \in Process |-> NoPass]
  /\ raced = FALSE

-----------------------------------------------------------------------------
(* A pass.                                                                 *)

BeginPass(p) ==
  [pass EXCEPT ![p] = [NoPass EXCEPT !.at = "read", !.alone = AllLike(p)]]

\* A process starts with a configuration; its first act is a pass.
onModuleInit(p, config) ==
  /\ process[p].state = "off"
  /\ process' = [process EXCEPT ![p] = [state |-> "starting", config |-> config]]
  /\ pass' = [q \in Process |->
                IF q = p
                THEN [NoPass EXCEPT !.at = "read",
                                    !.alone = \A r \in Alive : process[r].config = config]
                ELSE [pass[q] EXCEPT !.alone = @ /\ process[q].config = config]]
  /\ UNCHANGED <<certificate, artifact, raced>>

\* rotatePrivateKeyEncryption, confirmed with the active key version.
rotatePrivateKeyEncryption(p) ==
  /\ Up(p)
  /\ pass[p].at \in {"none", "done"}
  /\ pass' = BeginPass(p)
  /\ UNCHANGED <<process, certificate, artifact, raced>>

\* findMany of the certificates, and of the artifacts once those are done.
ReadCertificates(p) ==
  /\ pass[p].at = "read"
  /\ pass' = [pass EXCEPT ![p].at = "certificates", ![p].copies = {<<0, certificate>>}]
  /\ UNCHANGED <<process, certificate, artifact, raced>>

ReadArtifacts(p) ==
  /\ pass[p].at = "certificates" /\ pass[p].copies = {}
  /\ pass' = [pass EXCEPT ![p].at = "artifacts",
                          ![p].copies = {<<v, artifact[v]>> : v \in Stored}]
  /\ UNCHANGED <<process, certificate, artifact, raced>>

IsPlaintext(row) == row.under = Plain

CanDecrypt(p, row) == IsPlaintext(row) \/ row.under = process[p].config.master

NeedsAlways(p, row) == TRUE  \* faulty: rewrites what is current as well

NeedsPlaintext(p, row) == row # NoRow /\ IsPlaintext(row)  \* faulty: overlooks old versions

\* ensureEncryptedPrivateKey: what changes.
Needs(p, row) ==
  row # NoRow /\ (IsPlaintext(row) \/ row.version # process[p].config.version)

\* The copy's key in the row: the update names the row by its id.
Written(p, copy, row) == Encrypted(p, row.cert, copy.key)

\* One row is dealt with: left alone, or encrypted anew from the copy.
MigrateRow(p, entry) ==
  LET v == entry[1]
      copy == entry[2]
  IN  /\ Needs(p, copy) => CanDecrypt(p, copy)
      /\ pass' = [pass EXCEPT ![p].copies = @ \ {entry}]
      /\ IF ~Needs(p, copy) THEN UNCHANGED <<certificate, artifact>>
         ELSE IF v = 0
         THEN certificate' = Written(p, copy, certificate) /\ UNCHANGED artifact
         ELSE artifact' = [artifact EXCEPT ![v] = Written(p, copy, @)] /\ UNCHANGED certificate

Migrate(p) ==
  /\ \E entry \in pass[p].copies : MigrateRow(p, entry)
  /\ UNCHANGED <<process, raced>>

\* A key that cannot be decrypted ends the pass, and the start with it.
Throw(p) ==
  /\ \E entry \in pass[p].copies : Needs(p, entry[2]) /\ ~CanDecrypt(p, entry[2])
  /\ process' = [process EXCEPT ![p] = IF Up(p) THEN @ ELSE Off("failed")]
  /\ pass' = [pass EXCEPT ![p] = NoPass]
  /\ UNCHANGED <<certificate, artifact, raced>>

EndPass(p) ==
  /\ pass[p].at = "artifacts" /\ pass[p].copies = {}
  /\ process' = [process EXCEPT ![p].state = "up"]
  /\ pass' = [pass EXCEPT ![p].at = "done"]
  /\ UNCHANGED <<certificate, artifact, raced>>

-----------------------------------------------------------------------------
(* Renewals.                                                               *)

\* recordArtifact: a certificate is obtained, and its key stored.
recordArtifact(p) ==
  /\ Up(p)
  /\ \E v \in Version :
       /\ artifact[v] = NoRow /\ \A w \in 1..v - 1 : artifact[w] # NoRow
       /\ artifact' = [artifact EXCEPT ![v] = Encrypted(p, v, v)]
  /\ UNCHANGED <<process, certificate, pass, raced>>

\* activateArtifactAcrossCluster, of a new artifact or, in a rollback or a
\* second try, of one from before: its key is decrypted, and stored with its
\* certificate in one statement.
SaveCertificate(p) ==
  /\ Up(p)
  /\ \E v \in Stored :
       /\ CanDecrypt(p, artifact[v])
       /\ certificate' = Encrypted(p, v, artifact[v].key)
  /\ raced' = \E q \in Alive : \E entry \in pass[q].copies :
                 /\ entry[1] = 0 /\ entry[2] # NoRow
                 /\ entry[2].version # process[q].config.version
  /\ UNCHANGED <<process, artifact, pass>>

Stop(p) ==
  /\ p \in Alive
  /\ process' = [process EXCEPT ![p] = Off("off")]
  /\ pass' = [pass EXCEPT ![p] = NoPass]
  /\ UNCHANGED <<certificate, artifact, raced>>

Next ==
  \E p \in Process :
    \/ \E config \in Config : onModuleInit(p, config)
    \/ rotatePrivateKeyEncryption(p)
    \/ ReadCertificates(p) \/ ReadArtifacts(p) \/ Migrate(p) \/ Throw(p) \/ EndPass(p)
    \/ recordArtifact(p) \/ SaveCertificate(p)
    \/ Stop(p)

Spec == Init /\ [][Next]_vars

-----------------------------------------------------------------------------
(* Properties.                                                             *)

Row == [cert : 0..MaxRenewals, key : 0..MaxRenewals,
        under : {c.master : c \in Config} \cup {Plain},
        version : {c.version : c \in Config} \cup {Plain}]

Place == {"none", "read", "certificates", "artifacts", "done"}
Pass == [at : Place, copies : SUBSET ((0..MaxRenewals) \X Row), alone : BOOLEAN]
Start == [state : {"off", "starting", "up", "failed"}, config : Config]

TypeOK ==
  /\ process \in [Process -> Start]
  /\ certificate \in Row
  /\ artifact \in [Version -> Row]
  /\ pass \in [Process -> Pass]
  /\ raced \in BOOLEAN

(***************************************************************************)
(* The stored key is the stored certificate's, however many passes and     *)
(* renewals overlap, with one exception: a certificate that was saved      *)
(* while a pass had the key before it in hand, to be rewritten, may be     *)
(* left with that key.  In particular passes never harm what is under the  *)
(* current version.                                                        *)
(***************************************************************************)
KeysMatch ==
  /\ \A v \in Stored : artifact[v].key = artifact[v].cert
  /\ ~raced => certificate.key = certificate.cert

(***************************************************************************)
(* A pass that is complete has left nothing behind, and nothing comes back *)
(* after it: unless a process with another configuration was alive during  *)
(* the pass or since, everything stored is under the current master key    *)
(* and version, whatever was stored before and was renewed during the pass.*)
(***************************************************************************)
CompletedPassIsComplete ==
  \A p \in Process : pass[p].at = "done" /\ pass[p].alone =>
    \A row \in ({certificate} \cup {artifact[v] : v \in Version}) \ {NoRow} :
      row.under = process[p].config.master /\ row.version = process[p].config.version
=============================================================================
