------------------------- MODULE CertificateBackups -------------------------
(***************************************************************************)
(* The backups of CertificateBackupService: encrypted files of all the     *)
(* certificates, their verification, and the import of certificates from a *)
(* file or from a request, while certificates are issued and deleted.      *)
(*                                                                         *)
(* A certificate is stored under the hash of the set of its domains, but   *)
(* an import looks for it by the list.  Encryption and signature are       *)
(* modelled by what they refuse: another key, and a file that is not whole.*)
(***************************************************************************)
EXTENDS Integers, FiniteSets, SequencesExt

CONSTANTS
  List,         \* lists of domains, normalised
  Name,         \* file names: the time of creation
  Sent,         \* what import requests send: sequences of records
  Request,      \* requests in progress
  MaxChanges    \* bound: rows saved or deleted, keys changed

VARIABLES
  certificate,  \* the Certificate rows by their sets of domains
  file,         \* the files of BACKUP_DIR
  key,          \* BACKUP_ENCRYPTION_KEY
  request,      \* the coroutines of CertificateBackupService
  changes       \* changes so far, which also number certificates and keys

vars == <<certificate, file, key, request, changes>>

\* 0: none, of the placeholder that a failed issuance leaves.
Pem == 0..MaxChanges + 1
DomainSet == {Range(list) : list \in List}

\* sound: the key is the certificate's, which covers the domains and has the
\* validity the record says.
Record == [domains : List, pem : Pem, sound : BOOLEAN]
Row == [domains : List \cup {<<>>}, pem : Pem]
NoRow == [domains |-> <<>>, pem |-> 0]
NoFile == [key |-> 0, certs |-> <<>>, whole |-> FALSE]

\* data: the records read or to be imported; todo: those not looked at yet;
\* skipped, errors: how many, up to one; touched: the rows that others saved or
\* deleted since the request began.
NoRequest ==
  [at |-> "idle", data |-> <<>>, todo |-> <<>>, skipped |-> 0, errors |-> 0, touched |-> {}]

BackupsAssumption ==
  /\ MaxChanges \in Nat
  /\ <<>> \notin List
  /\ Sent \subseteq Seq(Record)

Init ==
  /\ certificate = [s \in DomainSet |-> NoRow]
  /\ file = [n \in Name |-> NoFile]
  /\ key = 1
  /\ request = [r \in Request |-> NoRequest]
  /\ changes = 0

Stored == {s \in DomainSet : certificate[s] # NoRow}
RequestAt(r, place) == request[r].at = place
Change == changes < MaxChanges /\ changes' = changes + 1

-----------------------------------------------------------------------------
(* The others.                                                             *)

Touch(s) ==
  request' = [r \in Request |->
    IF RequestAt(r, "idle") THEN NoRequest ELSE [request[r] EXCEPT !.touched = @ \cup {s}]]

\* A certificate is issued, uploaded or renewed and activated; or an issuance
\* fails and, where there is no row, leaves a placeholder.
Save(list, pem) ==
  /\ Change
  /\ \/ pem = changes + 1
     \/ pem = 0 /\ Range(list) \notin Stored
  /\ certificate' = [certificate EXCEPT ![Range(list)] = [domains |-> list, pem |-> pem]]
  /\ Touch(Range(list))
  /\ UNCHANGED <<file, key>>

Delete(s) ==
  /\ Change
  /\ s \in Stored
  /\ certificate' = [certificate EXCEPT ![s] = NoRow]
  /\ Touch(s)
  /\ UNCHANGED <<file, key>>

\* The process is started again with another key.
ChangeKey ==
  /\ Change
  /\ key' = key + 1
  /\ request' = [r \in Request |-> NoRequest]
  /\ UNCHANGED <<certificate, file>>

-----------------------------------------------------------------------------
(* Backups.                                                                *)

\* createBackup reads the certificates, in no particular order,
ReadCertificates(r) ==
  /\ RequestAt(r, "idle")
  /\ \E order \in SetToSeqs(Stored) :
       request' = [request EXCEPT ![r] =
         [NoRequest EXCEPT !.at = "write",
                           !.data = [i \in DOMAIN order |->
                              [domains |-> certificate[order[i]].domains,
                               pem |-> certificate[order[i]].pem,
                               sound |-> certificate[order[i]].pem # 0]]]]
  /\ UNCHANGED <<certificate, file, key, changes>>

\* and writes the file: all of it, unless the process dies.
WriteBackup(r, n) ==
  /\ RequestAt(r, "write")
  /\ \E whole \in BOOLEAN :
       /\ file' = [file EXCEPT ![n] =
            [key |-> key, certs |-> request[r].data, whole |-> whole]]
       /\ request' = IF whole THEN [request EXCEPT ![r] = NoRequest]
                     ELSE [q \in Request |-> NoRequest]
  /\ UNCHANGED <<certificate, key, changes>>

deleteBackup(n) ==
  /\ file[n] # NoFile
  /\ file' = [file EXCEPT ![n] = NoFile]
  /\ UNCHANGED <<certificate, key, request, changes>>

\* The entries of a certificate are filed under its first domain.
\* (getCertificateStorageName)
EntryPath(cert) == Head(cert.domains)

\* The entry that readAndVerifyBackup finds for the path: the first one.
FoundFor(certs, i) ==
  certs[SelectInSeq(certs, LAMBDA cert : EntryPath(cert) = EntryPath(certs[i]))]

\* readAndVerifyBackup: each entry of the manifest finds its content.
Verifies(f) ==
  /\ f.whole
  /\ f.key = key
  /\ \A i \in DOMAIN f.certs : FoundFor(f.certs, i).pem = f.certs[i].pem

-----------------------------------------------------------------------------
(* Imports.                                                                *)

\* importCertificates of what the request sends.
importCertificates(r, data) ==
  /\ RequestAt(r, "idle")
  /\ request' = [request EXCEPT ![r] =
       [NoRequest EXCEPT !.at = "look", !.data = data, !.todo = data]]
  /\ UNCHANGED <<certificate, file, key, changes>>

\* A file that does not verify is refused.
restoreBackup(r, n) ==
  /\ file[n] # NoFile /\ Verifies(file[n])
  /\ importCertificates(r, file[n].certs)

\* The request as it is once it has done with the first record.
Done(q, result) ==
  [q EXCEPT !.at = "look",
            !.todo = Tail(@),
            !.skipped = IF result = "skipped" THEN 1 ELSE @,
            !.errors = IF result = "error" THEN 1 ELSE @]

HasPrimary(cert) ==  \* faulty: goes by the first domain alone
  \E s \in Stored : EntryPath(certificate[s]) = EntryPath(cert)

Exists(cert) == \E s \in Stored : certificate[s].domains = cert.domains

\* The next record: counted as an error, skipped, or to be created.
LookFor(r) ==
  /\ RequestAt(r, "look") /\ request[r].todo # <<>>
  /\ LET cert == Head(request[r].todo)
     IN  request' = [request EXCEPT ![r] =
           IF ~cert.sound THEN Done(@, "error")
           ELSE IF Exists(cert) THEN Done(@, "skipped")
           ELSE [@ EXCEPT !.at = "create"]]
  /\ UNCHANGED <<certificate, file, key, changes>>

\* domainsHash is unique: the database refuses a second row.
Create(r) ==
  /\ RequestAt(r, "create")
  /\ LET cert == Head(request[r].todo)
         s == Range(cert.domains)
     IN  /\ certificate' = IF s \in Stored THEN certificate
                           ELSE [certificate EXCEPT ![s] =
                                   [domains |-> cert.domains, pem |-> cert.pem]]
         /\ request' = [request EXCEPT ![r] =
              Done(@, IF s \in Stored THEN "error" ELSE "imported")]
  /\ UNCHANGED <<file, key, changes>>

\* The answer, with the numbers of imported, skipped and failed records.
Answer(r) ==
  /\ RequestAt(r, "look") /\ request[r].todo = <<>>
  /\ request' = [request EXCEPT ![r] = NoRequest]
  /\ UNCHANGED <<certificate, file, key, changes>>

Next ==
  \/ \E list \in List, pem \in Pem : Save(list, pem)
  \/ \E s \in DomainSet : Delete(s)
  \/ ChangeKey
  \/ \E n \in Name : deleteBackup(n)
  \/ \E r \in Request :
       \/ ReadCertificates(r) \/ LookFor(r) \/ Create(r) \/ Answer(r)
       \/ \E n \in Name : WriteBackup(r, n) \/ restoreBackup(r, n)
       \/ \E data \in Sent : importCertificates(r, data)

Spec == Init /\ [][Next]_vars

-----------------------------------------------------------------------------
(* Properties.                                                             *)

File == [key : 0..MaxChanges + 1, certs : Seq(Record), whole : BOOLEAN]
Coroutine == [at : {"idle", "write", "look", "create"}, data : Seq(Record),
              todo : Seq(Record), skipped : 0..1, errors : 0..1,
              touched : SUBSET DomainSet]

TypeOK ==
  /\ certificate \in [DomainSet -> Row]
  /\ \A s \in Stored : /\ certificate[s].domains \in List
                       /\ Range(certificate[s].domains) = s
  /\ file \in [Name -> File]
  /\ request \in [Request -> Coroutine]
  /\ \A r \in Request : RequestAt(r, "create") => request[r].todo # <<>>
  /\ changes \in 0..MaxChanges
  /\ key \in 1..changes + 1

(***************************************************************************)
(* An import that reports no error has left no record out: for each there  *)
(* is a row with its domains when the answer is given, and if the import   *)
(* reports none skipped either, that row holds the very certificate of the *)
(* record, whatever other requests did meanwhile, unless the row was saved *)
(* or deleted since the import began.  (A record that counts as skipped    *)
(* has met some row with its domains: perhaps another certificate, or the  *)
(* placeholder of a failed issuance, which holds none.)                    *)
(***************************************************************************)
CleanImportIsComplete ==
  \A r \in Request :
    RequestAt(r, "look") /\ request[r].todo = <<>> /\ request[r].errors = 0 =>
      \A cert \in Range(request[r].data) :
        LET s == Range(cert.domains)
        IN  \/ s \in request[r].touched
            \/ s \in Stored /\ (request[r].skipped = 0 => certificate[s].pem = cert.pem)

(***************************************************************************)
(* A backup that was written to the end can be verified, and so restored,  *)
(* as long as the key is the one it was made with.                         *)
(***************************************************************************)
BackupsVerify ==
  \A n \in Name : file[n].whole /\ file[n].key = key => Verifies(file[n])
=============================================================================
