-------------------------- MODULE StoredKeysProofs --------------------------
(***************************************************************************)
(* Proofs for StoredKeys: no key is left with another renewal's            *)
(* certificate, and a pass that is complete has left nothing behind.       *)
(***************************************************************************)
EXTENDS StoredKeys, TLAPS

-----------------------------------------------------------------------------
(* The inductive invariants.                                               *)

\* What a row is wrapped under and the version it is named after belong to
\* one configuration, so that the version tells whether it is current.
Sound(r) ==
  \/ r.under = Plain /\ r.version = Plain
  \/ \E c \in Config : r.under = c.master /\ r.version = c.version

SoundRows ==
  /\ Sound(certificate)
  /\ \A v \in Version : Sound(artifact[v])
  /\ \A p \in Process : \A e \in pass[p].copies : Sound(e[2])

\* Only a process that is alive has a pass, and its copies are of the table
\* that it is at.
Passes ==
  \A p \in Process :
    /\ p \notin Alive => pass[p] = NoPass
    /\ \A e \in pass[p].copies :
         \/ pass[p].at = "certificates" /\ e[1] = 0
         \/ pass[p].at = "artifacts" /\ e[1] # 0

\* An artifact keeps its renewal, and so does every copy of it.
ArtifactKeys ==
  /\ \A v \in Version :
       artifact[v] = NoRow \/ (artifact[v].cert = v /\ artifact[v].key = v)
  /\ \A p \in Process : \A e \in pass[p].copies :
       e[1] # 0 => artifact[e[1]] # NoRow /\ e[2].key = e[1]

\* A copy of the certificate's row that is to be written has its key.
CertificateKey ==
  ~raced =>
    /\ certificate.key = certificate.cert
    /\ \A p \in Process : \A e \in pass[p].copies :
         e[1] = 0 /\ Needs(p, e[2]) => e[2].key = certificate.cert

KeysInv == Passes /\ SoundRows /\ ArtifactKeys /\ CertificateKey

\* p would leave the row as it is.
Current(p, r) ==
  \/ r = NoRow
  \/ r.under = process[p].config.master /\ r.version = process[p].config.version

\* p has still to rewrite row v.
Due(p, v) == \E e \in pass[p].copies : e[1] = v /\ Needs(p, e[2])

\* A process that has been alone with its configuration still is.
AloneInv == \A p \in Process : pass[p].alone => p \in Alive /\ AllLike(p)

\* What its pass has read and not to rewrite any more is current.
CompleteOf(p) ==
  pass[p].alone =>
    /\ pass[p].at \in {"certificates", "artifacts", "done"} =>
         Current(p, certificate) \/ Due(p, 0)
    /\ pass[p].at \in {"artifacts", "done"} =>
         \A v \in Version : Current(p, artifact[v]) \/ Due(p, v)

CompleteInv == \A p \in Process : CompleteOf(p)

-----------------------------------------------------------------------------
(* Types.                                                                  *)

\* The constants of StoredKeys have the types the code gives them.
LEMMA RowTypes ==
  ASSUME KeysAssumption
  PROVE  /\ NoRow \in Row /\ Legacy \in Row
         /\ Config0 \in Config
         /\ Version \subseteq 0..MaxRenewals /\ 1 \in Version
         /\ NoPass \in Pass
         /\ NoPass.at = "none" /\ NoPass.copies = {} /\ NoPass.alone = FALSE
<1>1. Config0 \in Config
  BY DEF KeysAssumption, Config0
<1>2. Version \subseteq 0..MaxRenewals /\ 1 \in Version /\ 0 \in 0..MaxRenewals
  BY DEF KeysAssumption, Version
<1>3. NoRow \in Row
  BY <1>2 DEF NoRow, Row
<1>4. Legacy \in Row
  BY <1>2, <1>3 DEF Legacy, NoRow, Row, Version
<1>5. NoPass \in Pass /\ NoPass.at = "none" /\ NoPass.copies = {} /\ NoPass.alone = FALSE
  BY DEF NoPass, Pass, Place
<1> QED
  BY <1>1, <1>2, <1>3, <1>4, <1>5

\* What encryptPrivateKey stores is a row, and not under Plain.
LEMMA EncryptedRow ==
  ASSUME KeysAssumption, TypeOK, NEW p \in Process,
         NEW cert \in 0..MaxRenewals, NEW key \in 0..MaxRenewals
  PROVE  /\ Encrypted(p, cert, key) \in Row
         /\ Encrypted(p, cert, key) # NoRow
         /\ Sound(Encrypted(p, cert, key))
<1>1. process[p].config \in Config
  BY DEF TypeOK, Start
<1>2. Encrypted(p, cert, key) \in Row
  BY <1>1 DEF Encrypted, Row
<1>3. /\ Encrypted(p, cert, key).under = process[p].config.master
      /\ Encrypted(p, cert, key).version = process[p].config.version
  BY DEF Encrypted
<1>4. NoRow.under = Plain
  BY DEF NoRow
<1>5. process[p].config.master # Plain
  BY <1>1 DEF KeysAssumption
<1> QED
  BY <1>1, <1>2, <1>3, <1>4, <1>5 DEF Sound

LEMMA PassTypes ==
  ASSUME NEW x \in Pass
  PROVE  /\ \A place \in Place : [x EXCEPT !.at = place] \in Pass
         /\ \A copies \in SUBSET ((0..MaxRenewals) \X Row) :
              /\ [x EXCEPT !.copies = copies] \in Pass
              /\ \A place \in Place : [x EXCEPT !.at = place, !.copies = copies] \in Pass
         /\ \A b \in BOOLEAN : [x EXCEPT !.alone = b] \in Pass
         /\ \A b \in BOOLEAN, place \in Place : [x EXCEPT !.at = place, !.alone = b] \in Pass
<1> DEFINE Copies == SUBSET ((0..MaxRenewals) \X Row)
<1>1. x \in [at : Place, copies : Copies, alone : BOOLEAN]
  BY DEF Pass
<1> HIDE DEF Copies
<1> USE <1>1
<1>2. \A place \in Place : [x EXCEPT !.at = place] \in [at : Place, copies : Copies, alone : BOOLEAN]
  OBVIOUS
<1>3. \A copies \in Copies : [x EXCEPT !.copies = copies] \in [at : Place, copies : Copies, alone : BOOLEAN]
  OBVIOUS
<1>4. \A copies \in Copies : \A place \in Place :
        [x EXCEPT !.at = place, !.copies = copies] \in [at : Place, copies : Copies, alone : BOOLEAN]
  OBVIOUS
<1>5. \A b \in BOOLEAN : [x EXCEPT !.alone = b] \in [at : Place, copies : Copies, alone : BOOLEAN]
  OBVIOUS
<1>6. \A b \in BOOLEAN, place \in Place :
        [x EXCEPT !.at = place, !.alone = b] \in [at : Place, copies : Copies, alone : BOOLEAN]
  OBVIOUS
<1> QED
  BY <1>2, <1>3, <1>4, <1>5, <1>6 DEF Pass, Copies

LEMMA TypeStep ==
  ASSUME KeysAssumption, TypeOK, [Next]_vars
  PROVE  TypeOK'
<1> USE RowTypes
<1>0. \A p \in Process : pass[p] \in Pass /\ process[p] \in Start
  BY DEF TypeOK
<1>1. ASSUME NEW p \in Process, NEW config \in Config, onModuleInit(p, config)
      PROVE  TypeOK'
  <2>1. process' \in [Process -> Start]
    BY <1>1 DEF onModuleInit, TypeOK, Start
  <2> DEFINE first == [NoPass EXCEPT !.at = "read",
                                     !.alone = \A r \in Alive : process[r].config = config]
             other(q) == [pass[q] EXCEPT !.alone = @ /\ process[q].config = config]
  <2>2. first \in Pass
    BY PassTypes DEF Place
  <2>3. ASSUME NEW q \in Process PROVE other(q) \in Pass
    <3>1. pass[q].alone \in BOOLEAN
      BY <1>0 DEF Pass
    <3> QED
      BY <3>1, <1>0, PassTypes
  <2>4. pass' = [q \in Process |-> IF q = p THEN first ELSE other(q)]
    BY <1>1 DEF onModuleInit
  <2> HIDE DEF first, other
  <2>5. pass' \in [Process -> Pass]
    BY <2>2, <2>3, <2>4
  <2> QED
    BY <1>1, <2>1, <2>5 DEF onModuleInit, TypeOK
<1>2. ASSUME NEW p \in Process, rotatePrivateKeyEncryption(p)
      PROVE  TypeOK'
  <2>1. [NoPass EXCEPT !.at = "read", !.alone = AllLike(p)] \in Pass
    BY PassTypes DEF Place, AllLike
  <2> QED
    BY <1>2, <2>1 DEF rotatePrivateKeyEncryption, BeginPass, TypeOK
<1>3. ASSUME NEW p \in Process, ReadCertificates(p)
      PROVE  TypeOK'
  <2>1. {<<0, certificate>>} \in SUBSET ((0..MaxRenewals) \X Row) /\ "certificates" \in Place
    BY DEF TypeOK, Place, KeysAssumption
  <2>2. [pass[p] EXCEPT !.at = "certificates", !.copies = {<<0, certificate>>}] \in Pass
    BY <2>1, <1>0, PassTypes
  <2> QED
    BY <1>3, <2>2 DEF ReadCertificates, TypeOK
<1>4. ASSUME NEW p \in Process, ReadArtifacts(p)
      PROVE  TypeOK'
  <2> DEFINE read == {<<v, artifact[v]>> : v \in Stored}
  <2>1. read \in SUBSET ((0..MaxRenewals) \X Row) /\ "artifacts" \in Place
    BY DEF TypeOK, Place, Stored
  <2>2. pass' = [pass EXCEPT ![p] = [pass[p] EXCEPT !.at = "artifacts", !.copies = read]]
    BY <1>0, <1>4 DEF ReadArtifacts, TypeOK
  <2> HIDE DEF read
  <2>3. [pass[p] EXCEPT !.at = "artifacts", !.copies = read] \in Pass
    BY <2>1, <1>0, PassTypes
  <2> QED
    BY <1>4, <2>2, <2>3 DEF ReadArtifacts, TypeOK
<1>5. ASSUME NEW p \in Process, Migrate(p)
      PROVE  TypeOK'
  <2>1. PICK entry \in pass[p].copies : MigrateRow(p, entry)
    BY <1>5 DEF Migrate
  <2> DEFINE rest == pass[p].copies \ {entry}
  <2>2. rest \in SUBSET ((0..MaxRenewals) \X Row)
    BY <1>0 DEF Pass
  <2> HIDE DEF rest
  <2>3. [pass[p] EXCEPT !.copies = rest] \in Pass
    BY <2>2, <1>0, PassTypes
  <2>4. pass' \in [Process -> Pass]
    BY <2>1, <2>3 DEF MigrateRow, TypeOK, rest
  <2>5. entry[1] \in 0..MaxRenewals /\ entry[2] \in Row
    BY <1>0 DEF Pass
  <2>6. ASSUME NEW r \in Row
        PROVE  Written(p, entry[2], r) \in Row
    <3>1. r.cert \in 0..MaxRenewals /\ entry[2].key \in 0..MaxRenewals
      BY <2>5 DEF Row
    <3> QED
      BY <3>1, EncryptedRow DEF Written
  <2>7. certificate' \in Row
    BY <2>1, <2>6 DEF MigrateRow, TypeOK
  <2>8. artifact' \in [Version -> Row]
    <3>1. entry[1] # 0 => entry[1] \in Version
      BY <2>5 DEF Version, KeysAssumption
    <3> QED
      BY <2>1, <2>6, <3>1 DEF MigrateRow, TypeOK
  <2> QED
    BY <1>5, <2>4, <2>7, <2>8 DEF Migrate, TypeOK
<1>6. ASSUME NEW p \in Process, Throw(p)
      PROVE  TypeOK'
  BY <1>6 DEF Throw, TypeOK, Off, Start
<1>7. ASSUME NEW p \in Process, EndPass(p)
      PROVE  TypeOK'
  <2>1. [pass[p] EXCEPT !.at = "done"] \in Pass
    BY <1>0, PassTypes DEF Place
  <2>2. [process[p] EXCEPT !.state = "up"] \in Start
    BY <1>0 DEF Start
  <2> QED
    BY <1>7, <2>1, <2>2 DEF EndPass, TypeOK
<1>8. ASSUME NEW p \in Process, recordArtifact(p)
      PROVE  TypeOK'
  <2>1. \A v \in Version : Encrypted(p, v, v) \in Row
    BY EncryptedRow
  <2> QED
    BY <1>8, <2>1 DEF recordArtifact, TypeOK
<1>9. ASSUME NEW p \in Process, SaveCertificate(p)
      PROVE  TypeOK'
  <2>1. ASSUME NEW v \in Version
        PROVE  Encrypted(p, v, artifact[v].key) \in Row
    <3>1. artifact[v].key \in 0..MaxRenewals
      BY DEF TypeOK, Row
    <3> QED
      BY <3>1, EncryptedRow
  <2> QED
    BY <1>9, <2>1 DEF SaveCertificate, Stored, TypeOK
<1>10. ASSUME NEW p \in Process, Stop(p)
      PROVE  TypeOK'
  BY <1>10 DEF Stop, TypeOK, Off, Start
<1>11. CASE UNCHANGED vars
  BY <1>11 DEF vars, TypeOK
<1> QED
  BY <1>1, <1>2, <1>3, <1>4, <1>5, <1>6, <1>7, <1>8, <1>9, <1>10, <1>11 DEF Next

\* The other processes and their passes go on.
OthersRun(p) ==
  \A q \in Process \ {p} : process'[q] = process[q] /\ pass'[q] = pass[q]

SameCopies(p) ==
  \A q \in Process \ {p} : pass'[q].at = pass[q].at /\ pass'[q].copies = pass[q].copies

\* What a step of p does to the processes and the passes, field by field.
LEMMA StartMoves ==
  ASSUME TypeOK, NEW p \in Process, NEW config \in Config, onModuleInit(p, config)
  PROVE  /\ p \notin Alive /\ process'[p].state = "starting" /\ process'[p].config = config
         /\ \A q \in Process \ {p} : process'[q] = process[q]
         /\ pass'[p].at = "read" /\ pass'[p].copies = {}
         /\ pass'[p].alone => \A r \in Alive : process[r].config = config
         /\ SameCopies(p)
         /\ \A q \in Process \ {p} :
              /\ pass[q] = NoPass => pass'[q] = NoPass
              /\ pass'[q].alone => pass[q].alone /\ process[q].config = config
<1> USE DEF onModuleInit
<1>0. \A q \in Process : /\ pass[q] \in Pass
                         /\ pass[q].alone \in BOOLEAN
                         /\ process[q] \in Start
  BY DEF TypeOK, Pass
<1>1. /\ p \notin Alive /\ process'[p].state = "starting" /\ process'[p].config = config
      /\ \A q \in Process \ {p} : process'[q] = process[q]
  BY DEF TypeOK, Alive
<1> DEFINE quiet == \A r \in Alive : process[r].config = config
           like(q) == pass[q].alone /\ process[q].config = config
<1>2. pass'[p] = [NoPass EXCEPT !.at = "read", !.alone = quiet]
  OBVIOUS
<1>3. \A q \in Process \ {p} : pass'[q] = [pass[q] EXCEPT !.alone = like(q)]
  BY <1>0 DEF Pass
<1> HIDE DEF quiet, like, onModuleInit
<1>4. pass'[p].at = "read" /\ pass'[p].copies = {} /\ pass'[p].alone = quiet
  BY <1>2 DEF NoPass
<1>5. ASSUME NEW q \in Process \ {p}
      PROVE  /\ pass'[q].at = pass[q].at /\ pass'[q].copies = pass[q].copies
             /\ pass'[q].alone = like(q)
             /\ pass[q] = NoPass => pass'[q] = NoPass
  <2>1. /\ pass'[q].at = pass[q].at /\ pass'[q].copies = pass[q].copies
        /\ pass'[q].alone = like(q)
    BY <1>0, <1>3 DEF Pass
  <2>2. pass'[q] \in [at : Place, copies : SUBSET ((0..MaxRenewals) \X Row), alone : BOOLEAN]
    <3>1. like(q) \in BOOLEAN
      BY DEF like
    <3>2. pass[q] \in Pass
      BY <1>0
    <3>3. [pass[q] EXCEPT !.alone = like(q)] \in Pass
      BY <3>1, <3>2, PassTypes
    <3> QED
      BY <1>3, <3>3 DEF Pass
  <2>3. ASSUME pass[q] = NoPass PROVE pass'[q] = NoPass
    <3>1. pass[q].at = "none" /\ pass[q].copies = {} /\ pass[q].alone = FALSE
      BY <2>3 DEF NoPass
    <3>2. like(q) = FALSE
      <4>1. ~like(q)
        BY <3>1 DEF like
      <4>2. like(q) \in BOOLEAN
        BY DEF like
      <4> QED
        BY <4>1, <4>2
    <3>3. pass'[q].at = "none" /\ pass'[q].copies = {} /\ pass'[q].alone = FALSE
      BY <2>1, <3>1, <3>2
    <3> QED
      BY <2>2, <3>3 DEF NoPass
  <2> QED
    BY <2>1, <2>3
<1> QED
  BY <1>1, <1>4, <1>5 DEF quiet, like, SameCopies

LEMMA OtherMoves ==
  ASSUME TypeOK, NEW p \in Process
  PROVE  /\ rotatePrivateKeyEncryption(p) =>
              /\ OthersRun(p) /\ process'[p] = process[p] /\ p \in Alive
              /\ pass'[p].at = "read" /\ pass'[p].copies = {}
              /\ pass'[p].alone => AllLike(p)
         /\ ReadCertificates(p) =>
              /\ OthersRun(p) /\ process'[p] = process[p]
              /\ pass[p].at = "read" /\ pass'[p].at = "certificates"
              /\ pass'[p].copies = {<<0, certificate>>}
              /\ pass'[p].alone = pass[p].alone
         /\ ReadArtifacts(p) =>
              /\ OthersRun(p) /\ process'[p] = process[p]
              /\ pass[p].at = "certificates" /\ pass[p].copies = {}
              /\ pass'[p].at = "artifacts"
              /\ pass'[p].copies = {<<v, artifact[v]>> : v \in Stored}
              /\ pass'[p].alone = pass[p].alone
         /\ \A entry : MigrateRow(p, entry) /\ process' = process =>
              /\ OthersRun(p) /\ process'[p] = process[p]
              /\ pass'[p].at = pass[p].at /\ pass'[p].copies = pass[p].copies \ {entry}
              /\ pass'[p].alone = pass[p].alone
         /\ Throw(p) =>
              /\ OthersRun(p)
              /\ pass'[p] = NoPass
              /\ process'[p] = process[p] \/ process'[p].state = "failed"
         /\ EndPass(p) =>
              /\ OthersRun(p)
              /\ process'[p].state = "up" /\ process'[p].config = process[p].config
              /\ pass[p].at = "artifacts" /\ pass[p].copies = {}
              /\ pass'[p].at = "done" /\ pass'[p].copies = {}
              /\ pass'[p].alone = pass[p].alone
         /\ Stop(p) =>
              /\ OthersRun(p)
              /\ pass'[p] = NoPass /\ process'[p].state = "off"
<1>0. /\ \A q \in Process : /\ pass[q] \in Pass
                            /\ process[q] \in Start
      /\ pass \in [Process -> Pass] /\ process \in [Process -> Start]
  BY DEF TypeOK
<1>1. ASSUME rotatePrivateKeyEncryption(p)
      PROVE  /\ OthersRun(p) /\ process'[p] = process[p] /\ p \in Alive
             /\ pass'[p].at = "read" /\ pass'[p].copies = {}
             /\ pass'[p].alone => AllLike(p)
  BY <1>0, <1>1 DEF rotatePrivateKeyEncryption, BeginPass, OthersRun, NoPass, Up, Alive
<1>2. ASSUME ReadCertificates(p)
      PROVE  /\ OthersRun(p) /\ process'[p] = process[p]
             /\ pass[p].at = "read" /\ pass'[p].at = "certificates"
             /\ pass'[p].copies = {<<0, certificate>>}
             /\ pass'[p].alone = pass[p].alone
  BY <1>0, <1>2 DEF ReadCertificates, OthersRun, Pass
<1>3. ASSUME ReadArtifacts(p)
      PROVE  /\ OthersRun(p) /\ process'[p] = process[p]
             /\ pass[p].at = "certificates" /\ pass[p].copies = {}
             /\ pass'[p].at = "artifacts"
             /\ pass'[p].copies = {<<v, artifact[v]>> : v \in Stored}
             /\ pass'[p].alone = pass[p].alone
  <2> DEFINE read == {<<v, artifact[v]>> : v \in Stored}
  <2>1. /\ pass[p].at = "certificates" /\ pass[p].copies = {} /\ process' = process
        /\ pass' = [pass EXCEPT ![p].at = "artifacts", ![p].copies = read]
    BY <1>3 DEF ReadArtifacts
  <2> HIDE DEF read
  <2>2. /\ OthersRun(p) /\ pass'[p].at = "artifacts"
        /\ pass'[p].copies = read
        /\ pass'[p].alone = pass[p].alone
    BY <1>0, <2>1 DEF OthersRun, Pass
  <2> QED
    BY <2>1, <2>2 DEF read
<1>4. ASSUME NEW entry, MigrateRow(p, entry), process' = process
      PROVE  /\ OthersRun(p) /\ process'[p] = process[p]
             /\ pass'[p].at = pass[p].at /\ pass'[p].copies = pass[p].copies \ {entry}
             /\ pass'[p].alone = pass[p].alone
  <2>1. pass' = [pass EXCEPT ![p].copies = @ \ {entry}]
    BY <1>4 DEF MigrateRow
  <2> QED
    BY <1>0, <1>4, <2>1 DEF OthersRun, Pass
<1>5. ASSUME Throw(p)
      PROVE  /\ OthersRun(p)
             /\ pass'[p] = NoPass
             /\ process'[p] = process[p] \/ process'[p].state = "failed"
  BY <1>0, <1>5 DEF Throw, OthersRun, Off
<1>6. ASSUME EndPass(p)
      PROVE  /\ OthersRun(p)
             /\ process'[p].state = "up" /\ process'[p].config = process[p].config
             /\ pass[p].at = "artifacts" /\ pass[p].copies = {}
             /\ pass'[p].at = "done" /\ pass'[p].copies = {}
             /\ pass'[p].alone = pass[p].alone
  BY <1>0, <1>6 DEF EndPass, OthersRun, Pass, Start
<1>7. ASSUME Stop(p)
      PROVE  /\ OthersRun(p)
             /\ pass'[p] = NoPass /\ process'[p].state = "off"
  BY <1>0, <1>7 DEF Stop, OthersRun, Off
<1> QED
  BY <1>1, <1>2, <1>3, <1>4, <1>5, <1>6, <1>7

-----------------------------------------------------------------------------
(* The keys of the certificates.                                           *)

LEMMA PassesStep ==
  ASSUME TypeOK, Passes, [Next]_vars
  PROVE  Passes'
<1>0. NoPass.at = "none" /\ NoPass.copies = {}
  BY DEF NoPass
<1>1. ASSUME NEW p \in Process, NEW config \in Config, onModuleInit(p, config)
      PROVE  Passes'
  BY <1>1, StartMoves DEF Passes, Alive, SameCopies
<1>2. ASSUME NEW p \in Process, rotatePrivateKeyEncryption(p)
      PROVE  Passes'
  BY <1>2, OtherMoves DEF Passes, Alive, OthersRun
<1>3. ASSUME NEW p \in Process, ReadCertificates(p)
      PROVE  Passes'
  BY <1>0, <1>3, OtherMoves DEF Passes, Alive, OthersRun
<1>4. ASSUME NEW p \in Process, ReadArtifacts(p)
      PROVE  Passes'
  <2>1. \A v \in Stored : v # 0
    BY DEF Stored, Version
  <2>2. \A e \in pass'[p].copies : e[1] # 0
    BY <1>4, <2>1, OtherMoves
  <2> QED
    BY <1>0, <1>4, <2>2, OtherMoves DEF Passes, Alive, OthersRun
<1>5. ASSUME NEW p \in Process, Migrate(p)
      PROVE  Passes'
  <2>1. PICK entry \in pass[p].copies : MigrateRow(p, entry) /\ process' = process
    BY <1>5 DEF Migrate
  <2>2. /\ OthersRun(p) /\ process'[p] = process[p]
        /\ pass'[p].at = pass[p].at /\ pass'[p].copies = pass[p].copies \ {entry}
    BY <2>1, OtherMoves
  <2>3. p \in Alive
    BY <1>0, <2>1 DEF Passes
  <2> QED
    BY <2>2, <2>3 DEF Passes, Alive, OthersRun
<1>6. ASSUME NEW p \in Process, Throw(p)
      PROVE  Passes'
  BY <1>0, <1>6, OtherMoves DEF Passes, Alive, OthersRun
<1>7. ASSUME NEW p \in Process, EndPass(p)
      PROVE  Passes'
  <2>1. p \in Alive
    BY <1>0, <1>7, OtherMoves DEF Passes
  <2> QED
    BY <1>0, <1>7, <2>1, OtherMoves DEF Passes, Alive, OthersRun
<1>8. ASSUME NEW p \in Process, Stop(p)
      PROVE  Passes'
  BY <1>0, <1>8, OtherMoves DEF Passes, Alive, OthersRun
<1>9. CASE UNCHANGED <<process, pass>>
  BY <1>9 DEF Passes, Alive
<1> QED
  BY <1>1, <1>2, <1>3, <1>4, <1>5, <1>6, <1>7, <1>8, <1>9
  DEF Next, vars, recordArtifact, SaveCertificate

\* What is written is the copy's key, under the configuration of the process.
LEMMA MigrateMoves ==
  ASSUME KeysAssumption, TypeOK, NEW p \in Process, Migrate(p)
  PROVE  \E e \in pass[p].copies :
           /\ OthersRun(p) /\ process'[p] = process[p] /\ raced' = raced
           /\ pass'[p].at = pass[p].at /\ pass'[p].copies = pass[p].copies \ {e}
           /\ pass'[p].alone = pass[p].alone
           /\ e[1] \in 0..MaxRenewals /\ e[2] \in Row
           /\ \/ /\ ~Needs(p, e[2])
                 /\ UNCHANGED <<certificate, artifact>>
              \/ /\ Needs(p, e[2]) /\ e[1] = 0
                 /\ UNCHANGED artifact
                 /\ certificate' = Encrypted(p, certificate.cert, e[2].key)
              \/ /\ Needs(p, e[2]) /\ e[1] \in Version
                 /\ UNCHANGED certificate
                 /\ artifact'[e[1]] = Encrypted(p, artifact[e[1]].cert, e[2].key)
                 /\ \A v \in Version \ {e[1]} : artifact'[v] = artifact[v]
<1>1. PICK e \in pass[p].copies : MigrateRow(p, e) /\ process' = process /\ raced' = raced
  BY DEF Migrate
<1>2. e[1] \in 0..MaxRenewals /\ e[2] \in Row
  BY DEF TypeOK, Pass
<1>3. e[1] # 0 => e[1] \in Version
  BY <1>2 DEF Version, KeysAssumption
<1>4. artifact \in [Version -> Row]
  BY DEF TypeOK
<1>5. \/ /\ ~Needs(p, e[2])
         /\ UNCHANGED <<certificate, artifact>>
      \/ /\ Needs(p, e[2]) /\ e[1] = 0
         /\ UNCHANGED artifact
         /\ certificate' = Encrypted(p, certificate.cert, e[2].key)
      \/ /\ Needs(p, e[2]) /\ e[1] \in Version
         /\ UNCHANGED certificate
         /\ artifact'[e[1]] = Encrypted(p, artifact[e[1]].cert, e[2].key)
         /\ \A v \in Version \ {e[1]} : artifact'[v] = artifact[v]
  BY <1>1, <1>3, <1>4 DEF MigrateRow, Written
<1> QED
  BY <1>1, <1>2, <1>5, OtherMoves

LEMMA EncryptedFields ==
  ASSUME NEW p, NEW cert, NEW key
  PROVE  /\ Encrypted(p, cert, key).cert = cert
         /\ Encrypted(p, cert, key).key = key
         /\ Encrypted(p, cert, key).under = process[p].config.master
         /\ Encrypted(p, cert, key).version = process[p].config.version
  BY DEF Encrypted

\* Steps that write no row.
LEMMA RowsStay ==
  ASSUME TypeOK, Next
  PROVE  \/ /\ UNCHANGED <<certificate, artifact, raced>>
            /\ \A q \in Process : \A e \in pass'[q].copies :
                 \/ e \in pass[q].copies /\ process'[q].config = process[q].config
                 \/ e = <<0, certificate>>
                 \/ \E v \in Stored : e = <<v, artifact[v]>>
         \/ \E p \in Process : Migrate(p) \/ recordArtifact(p) \/ SaveCertificate(p)
<1> DEFINE G == /\ UNCHANGED <<certificate, artifact, raced>>
                /\ \A q \in Process : \A e \in pass'[q].copies :
                     \/ e \in pass[q].copies /\ process'[q].config = process[q].config
                     \/ e = <<0, certificate>>
                     \/ \E v \in Stored : e = <<v, artifact[v]>>
<1>0. NoPass.copies = {}
  BY DEF NoPass
<1>1. ASSUME NEW p \in Process, NEW config \in Config, onModuleInit(p, config)
      PROVE  G
  <2>1. UNCHANGED <<certificate, artifact, raced>>
    BY <1>1 DEF onModuleInit
  <2>2. \A q \in Process \ {p} : \A e \in pass'[q].copies :
          e \in pass[q].copies /\ process'[q].config = process[q].config
    BY <1>1, StartMoves DEF SameCopies
  <2>3. \A e \in pass'[p].copies : e = <<0, certificate>> \/ \E v \in Stored : e = <<v, artifact[v]>>
    BY <1>1, StartMoves
  <2> QED
    BY <2>1, <2>2, <2>3
<1>2. ASSUME NEW p \in Process, rotatePrivateKeyEncryption(p)
      PROVE  G
  <2>1. UNCHANGED <<certificate, artifact, raced>>
    BY <1>2 DEF rotatePrivateKeyEncryption
  <2>2. \A q \in Process \ {p} : \A e \in pass'[q].copies :
          e \in pass[q].copies /\ process'[q].config = process[q].config
    BY <1>2, OtherMoves DEF OthersRun
  <2>3. \A e \in pass'[p].copies : e = <<0, certificate>> \/ \E v \in Stored : e = <<v, artifact[v]>>
    BY <1>2, OtherMoves
  <2> QED
    BY <2>1, <2>2, <2>3
<1>3. ASSUME NEW p \in Process, ReadCertificates(p)
      PROVE  G
  <2>1. UNCHANGED <<certificate, artifact, raced>>
    BY <1>3 DEF ReadCertificates
  <2>2. \A q \in Process \ {p} : \A e \in pass'[q].copies :
          e \in pass[q].copies /\ process'[q].config = process[q].config
    BY <1>3, OtherMoves DEF OthersRun
  <2>3. \A e \in pass'[p].copies : e = <<0, certificate>> \/ \E v \in Stored : e = <<v, artifact[v]>>
    BY <1>3, OtherMoves
  <2> QED
    BY <2>1, <2>2, <2>3
<1>4. ASSUME NEW p \in Process, ReadArtifacts(p)
      PROVE  G
  <2>1. UNCHANGED <<certificate, artifact, raced>>
    BY <1>4 DEF ReadArtifacts
  <2>2. \A q \in Process \ {p} : \A e \in pass'[q].copies :
          e \in pass[q].copies /\ process'[q].config = process[q].config
    BY <1>4, OtherMoves DEF OthersRun
  <2>3. \A e \in pass'[p].copies : e = <<0, certificate>> \/ \E v \in Stored : e = <<v, artifact[v]>>
    BY <1>4, OtherMoves
  <2> QED
    BY <2>1, <2>2, <2>3
<1>6. ASSUME NEW p \in Process, Throw(p)
      PROVE  G
  <2>1. UNCHANGED <<certificate, artifact, raced>>
    BY <1>6 DEF Throw
  <2>2. \A q \in Process \ {p} : \A e \in pass'[q].copies :
          e \in pass[q].copies /\ process'[q].config = process[q].config
    BY <1>6, OtherMoves DEF OthersRun
  <2>3. \A e \in pass'[p].copies : e = <<0, certificate>> \/ \E v \in Stored : e = <<v, artifact[v]>>
    BY <1>0, <1>6, OtherMoves
  <2> QED
    BY <2>1, <2>2, <2>3
<1>7. ASSUME NEW p \in Process, EndPass(p)
      PROVE  G
  <2>1. UNCHANGED <<certificate, artifact, raced>>
    BY <1>7 DEF EndPass
  <2>2. \A q \in Process \ {p} : \A e \in pass'[q].copies :
          e \in pass[q].copies /\ process'[q].config = process[q].config
    BY <1>7, OtherMoves DEF OthersRun
  <2>3. \A e \in pass'[p].copies : e = <<0, certificate>> \/ \E v \in Stored : e = <<v, artifact[v]>>
    BY <1>0, <1>7, OtherMoves
  <2> QED
    BY <2>1, <2>2, <2>3
<1>8. ASSUME NEW p \in Process, Stop(p)
      PROVE  G
  <2>1. UNCHANGED <<certificate, artifact, raced>>
    BY <1>8 DEF Stop
  <2>2. \A q \in Process \ {p} : \A e \in pass'[q].copies :
          e \in pass[q].copies /\ process'[q].config = process[q].config
    BY <1>8, OtherMoves DEF OthersRun
  <2>3. \A e \in pass'[p].copies : e = <<0, certificate>> \/ \E v \in Stored : e = <<v, artifact[v]>>
    BY <1>0, <1>8, OtherMoves
  <2> QED
    BY <2>1, <2>2, <2>3
<1> QED
  BY <1>1, <1>2, <1>3, <1>4, <1>6, <1>7, <1>8 DEF Next

LEMMA SoundStep ==
  ASSUME KeysAssumption, TypeOK, SoundRows, [Next]_vars
  PROVE  SoundRows'
<1> USE DEF Sound
<1>1. CASE UNCHANGED vars
  BY <1>1 DEF vars, SoundRows
<1>2. ASSUME UNCHANGED <<certificate, artifact>>,
             \A q \in Process : \A e \in pass'[q].copies :
               \/ e \in pass[q].copies
               \/ e = <<0, certificate>>
               \/ \E v \in Stored : e = <<v, artifact[v]>>
      PROVE  SoundRows'
  BY <1>2 DEF SoundRows, Stored
<1>3. ASSUME NEW p \in Process, Migrate(p)
      PROVE  SoundRows'
  <2> HIDE DEF Sound
  <2>1. PICK e \in pass[p].copies :
           /\ OthersRun(p)
           /\ pass'[p].copies = pass[p].copies \ {e}
           /\ e[1] \in 0..MaxRenewals /\ e[2] \in Row
           /\ \/ UNCHANGED <<certificate, artifact>>
              \/ /\ UNCHANGED artifact
                 /\ certificate' = Encrypted(p, certificate.cert, e[2].key)
              \/ /\ e[1] \in Version
                 /\ UNCHANGED certificate
                 /\ artifact'[e[1]] = Encrypted(p, artifact[e[1]].cert, e[2].key)
                 /\ \A v \in Version \ {e[1]} : artifact'[v] = artifact[v]
    BY <1>3, MigrateMoves
  <2>2. \A q \in Process : pass'[q].copies \subseteq pass[q].copies
    BY <2>1 DEF OthersRun
  <2>3. e[2].key \in 0..MaxRenewals /\ certificate.cert \in 0..MaxRenewals
        /\ \A v \in Version : artifact[v].cert \in 0..MaxRenewals
    BY <2>1 DEF Row, TypeOK
  <2>4. /\ Sound(Encrypted(p, certificate.cert, e[2].key))
        /\ \A v \in Version : Sound(Encrypted(p, artifact[v].cert, e[2].key))
    BY <2>3, EncryptedRow
  <2>5. Sound(certificate') /\ \A v \in Version : Sound(artifact'[v])
    BY <2>1, <2>4 DEF SoundRows
  <2> QED
    BY <2>2, <2>5 DEF SoundRows, Sound
<1>4. ASSUME NEW p \in Process, recordArtifact(p)
      PROVE  SoundRows'
  <2> HIDE DEF Sound
  <2>1. \A v \in Version : Sound(Encrypted(p, v, v))
    BY EncryptedRow, RowTypes
  <2>2. \A v \in Version : Sound(artifact'[v])
    BY <1>4, <2>1 DEF recordArtifact, SoundRows, TypeOK
  <2> QED
    BY <1>4, <2>2 DEF recordArtifact, SoundRows, Sound
<1>5. ASSUME NEW p \in Process, SaveCertificate(p)
      PROVE  SoundRows'
  <2> HIDE DEF Sound
  <2>1. \A v \in Version : Sound(Encrypted(p, v, artifact[v].key))
    BY EncryptedRow, RowTypes DEF TypeOK, Row
  <2>2. Sound(certificate')
    BY <1>5, <2>1 DEF SaveCertificate, Stored
  <2> QED
    BY <1>5, <2>2 DEF SaveCertificate, SoundRows, Sound
<1> QED
  BY <1>1, <1>2, <1>3, <1>4, <1>5, RowsStay

LEMMA ArtifactStep ==
  ASSUME KeysAssumption, TypeOK, Passes, ArtifactKeys, [Next]_vars
  PROVE  ArtifactKeys'
<1>1. CASE UNCHANGED vars
  BY <1>1 DEF vars, ArtifactKeys
<1>2. ASSUME UNCHANGED <<certificate, artifact>>,
             \A q \in Process : \A e \in pass'[q].copies :
               \/ e \in pass[q].copies
               \/ e = <<0, certificate>>
               \/ \E v \in Stored : e = <<v, artifact[v]>>
      PROVE  ArtifactKeys'
  BY <1>2 DEF ArtifactKeys, Stored
<1>3. ASSUME NEW p \in Process, Migrate(p)
      PROVE  ArtifactKeys'
  <2>1. PICK e \in pass[p].copies :
           /\ OthersRun(p)
           /\ pass'[p].copies = pass[p].copies \ {e}
           /\ e[1] \in 0..MaxRenewals /\ e[2] \in Row
           /\ \/ UNCHANGED artifact
              \/ /\ e[1] \in Version
                 /\ artifact'[e[1]] = Encrypted(p, artifact[e[1]].cert, e[2].key)
                 /\ \A v \in Version \ {e[1]} : artifact'[v] = artifact[v]
    BY <1>3, MigrateMoves
  <2>2. \A q \in Process : pass'[q].copies \subseteq pass[q].copies
    BY <2>1 DEF OthersRun
  <2>3. CASE UNCHANGED artifact
    BY <2>2, <2>3 DEF ArtifactKeys
  <2>4. CASE /\ e[1] \in Version
             /\ artifact'[e[1]] = Encrypted(p, artifact[e[1]].cert, e[2].key)
             /\ \A v \in Version \ {e[1]} : artifact'[v] = artifact[v]
    <3>1. e[1] # 0
      BY <2>4 DEF Version
    <3>2. artifact[e[1]].cert = e[1] /\ e[2].key = e[1]
      BY <2>1, <2>4, <3>1 DEF ArtifactKeys
    <3>3. artifact'[e[1]].cert = e[1] /\ artifact'[e[1]].key = e[1]
      BY <2>4, <3>2, EncryptedFields
    <3>4. artifact'[e[1]] # NoRow
      BY <2>4, <3>3 DEF NoRow, Version
    <3>5. \A v \in Version : \/ artifact'[v] = artifact[v]
                             \/ /\ artifact'[v] # NoRow /\ artifact'[v].cert = v
                                /\ artifact'[v].key = v
      BY <2>4, <3>3, <3>4
    <3>6. \A q \in Process : \A f \in pass[q].copies : f[1] # 0 => f[1] \in Version
      BY DEF TypeOK, Pass, Version, KeysAssumption
    <3> QED
      BY <2>2, <3>5, <3>6 DEF ArtifactKeys
  <2> QED
    BY <2>1, <2>3, <2>4
<1>4. ASSUME NEW p \in Process, recordArtifact(p)
      PROVE  ArtifactKeys'
  <2>1. PICK v \in Version : artifact[v] = NoRow /\ artifact' = [artifact EXCEPT ![v] = Encrypted(p, v, v)]
    BY <1>4 DEF recordArtifact
  <2>2. artifact'[v].cert = v /\ artifact'[v].key = v /\ artifact'[v] # NoRow
    BY <2>1, EncryptedFields, EncryptedRow, RowTypes DEF TypeOK
  <2>3. \A w \in Version \ {v} : artifact'[w] = artifact[w]
    BY <2>1 DEF TypeOK
  <2>4. \A q \in Process : \A f \in pass[q].copies : f[1] # 0 => f[1] \in Version
    BY DEF TypeOK, Pass, Version, KeysAssumption
  <2>5. UNCHANGED pass
    BY <1>4 DEF recordArtifact
  <2> QED
    BY <2>2, <2>3, <2>4, <2>5 DEF ArtifactKeys
<1>5. ASSUME NEW p \in Process, SaveCertificate(p)
      PROVE  ArtifactKeys'
  BY <1>5 DEF SaveCertificate, ArtifactKeys
<1> QED
  BY <1>1, <1>2, <1>3, <1>4, <1>5, RowsStay

\* A certificate is saved while a pass holds what it is to rewrite, or the
\* pass has nothing to rewrite there.
LEMMA CertificateStep ==
  ASSUME KeysAssumption, TypeOK, Passes, SoundRows, ArtifactKeys, CertificateKey, [Next]_vars
  PROVE  CertificateKey'
<1>1. CASE UNCHANGED vars
  BY <1>1 DEF vars, CertificateKey, Needs, IsPlaintext
<1>2. ASSUME UNCHANGED <<certificate, artifact, raced>>,
             \A q \in Process : \A e \in pass'[q].copies :
               \/ e \in pass[q].copies /\ process'[q].config = process[q].config
               \/ e = <<0, certificate>>
               \/ \E v \in Stored : e = <<v, artifact[v]>>
      PROVE  CertificateKey'
  <2>1. \A v \in Stored : v # 0
    BY DEF Stored, Version
  <2> QED
    BY <1>2, <2>1 DEF CertificateKey, Needs, IsPlaintext
<1>3. ASSUME NEW p \in Process, Migrate(p)
      PROVE  CertificateKey'
  <2>1. PICK e \in pass[p].copies :
           /\ OthersRun(p) /\ process'[p] = process[p] /\ raced' = raced
           /\ pass'[p].copies = pass[p].copies \ {e}
           /\ \/ UNCHANGED certificate
              \/ /\ Needs(p, e[2]) /\ e[1] = 0
                 /\ certificate' = Encrypted(p, certificate.cert, e[2].key)
    BY <1>3, MigrateMoves
  <2>2. \A q \in Process : /\ pass'[q].copies \subseteq pass[q].copies
                           /\ process'[q] = process[q]
    BY <2>1 DEF OthersRun
  <2>3. ASSUME ~raced
        PROVE  certificate'.cert = certificate.cert /\ certificate'.key = certificate'.cert
    BY <2>1, <2>3, EncryptedFields DEF CertificateKey
  <2> QED
    BY <2>1, <2>2, <2>3 DEF CertificateKey, Needs, IsPlaintext
<1>4. ASSUME NEW p \in Process, recordArtifact(p)
      PROVE  CertificateKey'
  BY <1>4 DEF recordArtifact, CertificateKey, Needs, IsPlaintext
<1>5. ASSUME NEW p \in Process, SaveCertificate(p), ~raced'
      PROVE  CertificateKey'
  <2>1. PICK v \in Stored : certificate' = Encrypted(p, v, artifact[v].key)
    BY <1>5 DEF SaveCertificate
  <2>2. artifact[v].key = v
    BY DEF ArtifactKeys, Stored
  <2>3. certificate'.key = certificate'.cert
    BY <2>1, <2>2, EncryptedFields
  <2>4. ASSUME NEW q \in Process, NEW e \in pass[q].copies, e[1] = 0, Needs(q, e[2])
        PROVE  FALSE
    <3>1. q \in Alive
      BY <2>4 DEF Passes, NoPass
    <3>2. e[2] # NoRow /\ e[2].version = process[q].config.version
      BY <1>5, <2>4, <3>1 DEF SaveCertificate, Needs
    <3>3. e[2].under = Plain
      BY <2>4, <3>2 DEF Needs, IsPlaintext
    <3>4. Sound(e[2])
      BY DEF SoundRows
    <3>5. e[2].version = Plain
      BY <3>3, <3>4 DEF Sound, KeysAssumption
    <3>6. process[q].config \in Config
      BY DEF TypeOK, Start
    <3> QED
      BY <3>2, <3>5, <3>6 DEF KeysAssumption
  <2>5. process' = process /\ pass' = pass
    BY <1>5 DEF SaveCertificate
  <2> QED
    BY <2>3, <2>4, <2>5 DEF CertificateKey, Needs, IsPlaintext
<1> QED
  BY <1>1, <1>2, <1>3, <1>4, <1>5, RowsStay DEF CertificateKey

LEMMA InitKeys ==
  ASSUME KeysAssumption, Init
  PROVE  TypeOK /\ KeysInv
<1>1. certificate \in Row /\ certificate \in {NoRow, Legacy}
  BY RowTypes DEF Init
<1>2. /\ NoRow.cert = 0 /\ NoRow.key = 0 /\ NoRow.under = Plain /\ NoRow.version = Plain
      /\ Legacy.cert = 1 /\ Legacy.key = 1 /\ Legacy.under = Plain /\ Legacy.version = Plain
  BY DEF NoRow, Legacy
<1>3. TypeOK
  BY <1>1, RowTypes DEF Init, TypeOK, Off, Start
<1>4. Passes
  BY RowTypes DEF Init, Passes
<1>5. SoundRows
  BY <1>1, <1>2, RowTypes DEF Init, SoundRows, Sound
<1>6. ArtifactKeys
  <2>1. \A v \in Version : artifact[v] = NoRow \/ (v = 1 /\ artifact[v] = Legacy)
    BY <1>1, <1>2 DEF Init, Version
  <2>2. \A p \in Process : pass[p].copies = {}
    BY RowTypes DEF Init
  <2> QED
    BY <1>2, <2>1, <2>2 DEF ArtifactKeys
<1>7. CertificateKey
  BY <1>1, <1>2, RowTypes DEF Init, CertificateKey
<1> QED
  BY <1>3, <1>4, <1>5, <1>6, <1>7 DEF KeysInv

\* Every variable keeps its type: rows and passes of PrivateKeyEncryptionService.
THEOREM TypeCorrect ==
  ASSUME KeysAssumption
  PROVE  Spec => []TypeOK
<1>1. Init => TypeOK
  BY InitKeys
<1>2. TypeOK /\ [Next]_vars => TypeOK'
  BY TypeStep
<1> QED
  BY <1>1, <1>2, PTL DEF Spec

LEMMA KeysInvCorrect ==
  ASSUME KeysAssumption
  PROVE  Spec => []KeysInv
<1>1. Init => TypeOK /\ KeysInv
  BY InitKeys
<1>2. TypeOK /\ KeysInv /\ [Next]_vars => TypeOK' /\ KeysInv'
  BY TypeStep, PassesStep, SoundStep, ArtifactStep, CertificateStep DEF KeysInv
<1> QED
  BY <1>1, <1>2, PTL DEF Spec

\* migrateStoredPrivateKeys leaves no certificate with another one's key,
\* for any processes, configurations and number of renewals.
THEOREM StoredKeysMatch ==
  ASSUME KeysAssumption
  PROVE  Spec => []KeysMatch
<1>1. KeysInv => KeysMatch
  BY DEF KeysInv, KeysMatch, ArtifactKeys, CertificateKey, Stored
<1> QED
  BY <1>1, KeysInvCorrect, PTL

-----------------------------------------------------------------------------
(* What a complete pass has left.                                          *)

LEMMA AloneStep ==
  ASSUME TypeOK, Passes, AloneInv, [Next]_vars
  PROVE  AloneInv'
<1>0. NoPass.alone = FALSE /\ NoPass.at = "none"
  BY DEF NoPass
<1>1. ASSUME NEW p \in Process, NEW config \in Config, onModuleInit(p, config)
      PROVE  AloneInv'
  <2>1. Alive' = Alive \cup {p} /\ p \notin Alive /\ Alive \subseteq Process
    BY <1>1, StartMoves DEF Alive
  <2>2. ASSUME NEW q \in Process, pass'[q].alone
        PROVE  q \in Alive' /\ \A r \in Alive' : process'[r].config = process'[q].config
    <3>1. CASE q = p
      BY <1>1, <2>1, <2>2, <3>1, StartMoves
    <3>2. CASE q # p
      BY <1>1, <2>1, <2>2, <3>2, StartMoves DEF AloneInv, AllLike
    <3> QED
      BY <3>1, <3>2
  <2> QED
    BY <2>2 DEF AloneInv, AllLike
<1>2. ASSUME NEW p \in Process, rotatePrivateKeyEncryption(p)
      PROVE  AloneInv'
  BY <1>2, OtherMoves DEF AloneInv, AllLike, Alive, OthersRun
<1>3. ASSUME NEW p \in Process, ReadCertificates(p) \/ ReadArtifacts(p)
      PROVE  AloneInv'
  BY <1>3, OtherMoves DEF AloneInv, AllLike, Alive, OthersRun
<1>5. ASSUME NEW p \in Process, Migrate(p)
      PROVE  AloneInv'
  <2>1. PICK entry \in pass[p].copies : MigrateRow(p, entry) /\ process' = process
    BY <1>5 DEF Migrate
  <2>2. /\ OthersRun(p) /\ process'[p] = process[p]
        /\ pass'[p].alone = pass[p].alone
    BY <2>1, OtherMoves
  <2> QED
    BY <2>2 DEF AloneInv, AllLike, Alive, OthersRun
<1>6. ASSUME NEW p \in Process, Throw(p) \/ Stop(p)
      PROVE  AloneInv'
  <2>1. /\ OthersRun(p) /\ pass'[p] = NoPass
        /\ process'[p] = process[p] \/ process'[p].state \in {"failed", "off"}
    BY <1>6, OtherMoves
  <2>2. Alive' \subseteq Alive /\ Alive \ {p} \subseteq Alive'
    BY <2>1 DEF Alive, OthersRun
  <2> QED
    BY <1>0, <2>1, <2>2 DEF AloneInv, AllLike, Alive, OthersRun
<1>7. ASSUME NEW p \in Process, EndPass(p)
      PROVE  AloneInv'
  <2>1. p \in Alive
    BY <1>0, <1>7, OtherMoves DEF Passes
  <2> QED
    BY <1>7, <2>1, OtherMoves DEF AloneInv, AllLike, Alive, OthersRun
<1>9. CASE UNCHANGED <<process, pass>>
  BY <1>9 DEF AloneInv, AllLike, Alive
<1> QED
  BY <1>1, <1>2, <1>3, <1>5, <1>6, <1>7, <1>9
  DEF Next, vars, recordArtifact, SaveCertificate

\* What a process need not rewrite is as it would write it.
LEMMA NotNeeded ==
  ASSUME KeysAssumption, TypeOK, NEW p \in Process, NEW r, Sound(r), ~Needs(p, r)
  PROVE  Current(p, r)
<1> SUFFICES ASSUME r # NoRow
             PROVE  r.under = process[p].config.master /\ r.version = process[p].config.version
  BY DEF Current
<1>1. r.under # Plain /\ r.version = process[p].config.version
  BY DEF Needs, IsPlaintext
<1>2. process[p].config \in Config
  BY DEF TypeOK, Start
<1> QED
  BY <1>1, <1>2 DEF Sound, KeysAssumption

\* What any process writes is as one that is alone with its configuration
\* would write it.
LEMMA WrittenIsCurrent ==
  ASSUME AloneInv, NEW p \in Process, NEW q \in Alive, NEW cert, NEW key, pass[p].alone
  PROVE  Current(p, Encrypted(q, cert, key))
  BY EncryptedFields DEF AloneInv, AllLike, Current

LEMMA CompleteKept ==
  ASSUME NEW q \in Process, CompleteOf(q), UNCHANGED <<certificate, artifact>>,
         process'[q].config = process[q].config,
         pass'[q].at = pass[q].at, pass'[q].copies = pass[q].copies,
         pass'[q].alone => pass[q].alone
  PROVE  CompleteOf(q)'
  BY DEF CompleteOf, Current, Due, Needs, IsPlaintext

LEMMA CompleteStep ==
  ASSUME KeysAssumption, TypeOK, Passes, SoundRows, AloneInv, CompleteInv, [Next]_vars
  PROVE  CompleteInv'
<1>0. NoPass.alone = FALSE /\ NoPass.at = "none" /\ NoPass.copies = {}
  BY DEF NoPass
<1>1. ASSUME NEW p \in Process, NEW config \in Config, onModuleInit(p, config)
      PROVE  CompleteInv'
  <2>1. UNCHANGED <<certificate, artifact>>
    BY <1>1 DEF onModuleInit
  <2>2. \A q \in Process \ {p} : CompleteOf(q)'
    BY <1>1, <2>1, StartMoves, CompleteKept DEF CompleteInv, SameCopies
  <2>3. CompleteOf(p)'
    BY <1>1, StartMoves DEF CompleteOf
  <2> QED
    BY <2>2, <2>3 DEF CompleteInv
<1>2. ASSUME NEW p \in Process, OthersRun(p), UNCHANGED <<certificate, artifact>>, CompleteOf(p)'
      PROVE  CompleteInv'
  <2>1. \A q \in Process \ {p} : CompleteOf(q)'
    BY <1>2, CompleteKept DEF CompleteInv, OthersRun
  <2> QED
    BY <1>2, <2>1 DEF CompleteInv
<1>3. ASSUME NEW p \in Process, rotatePrivateKeyEncryption(p)
      PROVE  CompleteInv'
  <2>1. UNCHANGED <<certificate, artifact>>
    BY <1>3 DEF rotatePrivateKeyEncryption
  <2>2. OthersRun(p) /\ CompleteOf(p)'
    BY <1>3, OtherMoves DEF CompleteOf
  <2> QED
    BY <1>2, <2>1, <2>2
<1>4. ASSUME NEW p \in Process, ReadCertificates(p)
      PROVE  CompleteInv'
  <2>1. UNCHANGED <<certificate, artifact>>
    BY <1>4 DEF ReadCertificates
  <2>2. /\ OthersRun(p) /\ process'[p] = process[p]
        /\ pass'[p].at = "certificates" /\ pass'[p].copies = {<<0, certificate>>}
    BY <1>4, OtherMoves
  <2>3. Current(p, certificate) \/ Needs(p, certificate)
    BY NotNeeded DEF SoundRows
  <2>4. CompleteOf(p)'
    BY <2>1, <2>2, <2>3 DEF CompleteOf, Current, Due, Needs, IsPlaintext
  <2> QED
    BY <1>2, <2>1, <2>2, <2>4
<1>5. ASSUME NEW p \in Process, ReadArtifacts(p)
      PROVE  CompleteInv'
  <2>1. UNCHANGED <<certificate, artifact>>
    BY <1>5 DEF ReadArtifacts
  <2>2. /\ OthersRun(p) /\ process'[p] = process[p]
        /\ pass[p].at = "certificates" /\ pass[p].copies = {}
        /\ pass'[p].at = "artifacts"
        /\ pass'[p].copies = {<<v, artifact[v]>> : v \in Stored}
        /\ pass'[p].alone = pass[p].alone
    BY <1>5, OtherMoves
  <2>3. pass[p].alone => Current(p, certificate)
    BY <2>2 DEF CompleteInv, CompleteOf, Due
  <2>4. ASSUME NEW v \in Version
        PROVE  \/ Current(p, artifact[v])
               \/ <<v, artifact[v]>> \in pass'[p].copies /\ Needs(p, artifact[v])
    <3>1. artifact[v] # NoRow => v \in Stored
      BY DEF Stored
    <3>2. Current(p, artifact[v]) \/ Needs(p, artifact[v])
      BY NotNeeded DEF SoundRows
    <3> QED
      BY <2>2, <3>1, <3>2 DEF Current
  <2>5. CompleteOf(p)'
    BY <2>1, <2>2, <2>3, <2>4 DEF CompleteOf, Current, Due, Needs, IsPlaintext
  <2> QED
    BY <1>2, <2>1, <2>2, <2>5
<1>6. ASSUME NEW p \in Process, Migrate(p)
      PROVE  CompleteInv'
  <2>1. PICK e \in pass[p].copies :
           /\ OthersRun(p) /\ process'[p] = process[p]
           /\ pass'[p].at = pass[p].at /\ pass'[p].copies = pass[p].copies \ {e}
           /\ pass'[p].alone = pass[p].alone
           /\ e[1] \in 0..MaxRenewals /\ e[2] \in Row
           /\ \/ /\ ~Needs(p, e[2])
                 /\ UNCHANGED <<certificate, artifact>>
              \/ /\ Needs(p, e[2]) /\ e[1] = 0
                 /\ UNCHANGED artifact
                 /\ certificate' = Encrypted(p, certificate.cert, e[2].key)
              \/ /\ Needs(p, e[2]) /\ e[1] \in Version
                 /\ UNCHANGED certificate
                 /\ artifact'[e[1]] = Encrypted(p, artifact[e[1]].cert, e[2].key)
                 /\ \A v \in Version \ {e[1]} : artifact'[v] = artifact[v]
    BY <1>6, MigrateMoves
  <2>2. p \in Alive
    BY <1>0, <2>1 DEF Passes
  <2>3. ASSUME NEW q \in Process
        PROVE  CompleteOf(q)'
    <3>1. /\ process'[q] = process[q] /\ pass'[q].at = pass[q].at /\ pass'[q].alone = pass[q].alone
          /\ \A f \in pass[q].copies : f \in pass'[q].copies \/ (q = p /\ f = e)
      BY <2>1 DEF OthersRun
    <3>2. SUFFICES ASSUME pass[q].alone
                   PROVE  /\ Current(q, certificate) \/ Due(q, 0) =>
                               Current(q, certificate') \/ Due(q, 0)'
                          /\ \A v \in Version : Current(q, artifact[v]) \/ Due(q, v) =>
                               Current(q, artifact'[v]) \/ Due(q, v)'
      BY <3>1 DEF CompleteInv, CompleteOf, Current
    <3>3. /\ Current(q, Encrypted(p, certificate.cert, e[2].key))
          /\ \A v \in Version : Current(q, Encrypted(p, artifact[v].cert, e[2].key))
      BY <2>2, <3>2, WrittenIsCurrent
    <3>4. \A v : Due(q, v) => Due(q, v)' \/ (q = p /\ e[1] = v /\ Needs(p, e[2]))
      BY <3>1 DEF Due, Needs, IsPlaintext
    <3>5. 0 \notin Version
      BY DEF Version
    <3>6. certificate' = certificate \/ Current(q, certificate')
      BY <2>1, <3>3
    <3>7. Due(q, 0) => Current(q, certificate') \/ Due(q, 0)'
      BY <2>1, <3>3, <3>4, <3>5
    <3>8. ASSUME NEW v \in Version
          PROVE  artifact'[v] = artifact[v] \/ Current(q, artifact'[v])
      BY <2>1, <3>3
    <3>9. ASSUME NEW v \in Version, Due(q, v)
          PROVE  Current(q, artifact'[v]) \/ Due(q, v)'
      BY <2>1, <3>3, <3>4, <3>5, <3>9
    <3> QED
      BY <3>6, <3>7, <3>8, <3>9
  <2> QED
    BY <2>3 DEF CompleteInv
<1>7. ASSUME NEW p \in Process, Throw(p) \/ Stop(p)
      PROVE  CompleteInv'
  <2>1. UNCHANGED <<certificate, artifact>>
    BY <1>7 DEF Throw, Stop
  <2>2. OthersRun(p) /\ pass'[p] = NoPass
    BY <1>7, OtherMoves
  <2> QED
    BY <1>0, <1>2, <2>1, <2>2 DEF CompleteOf
<1>8. ASSUME NEW p \in Process, EndPass(p)
      PROVE  CompleteInv'
  <2>1. UNCHANGED <<certificate, artifact>>
    BY <1>8 DEF EndPass
  <2>2. /\ OthersRun(p) /\ process'[p].config = process[p].config
        /\ pass[p].at = "artifacts" /\ pass[p].copies = {}
        /\ pass'[p].alone = pass[p].alone
    BY <1>8, OtherMoves
  <2>3. pass[p].alone => Current(p, certificate) /\ \A v \in Version : Current(p, artifact[v])
    BY <2>2 DEF CompleteInv, CompleteOf, Due
  <2>4. CompleteOf(p)'
    BY <2>1, <2>2, <2>3 DEF CompleteOf, Current
  <2> QED
    BY <1>2, <2>1, <2>2, <2>4
<1>9. ASSUME NEW p \in Process, recordArtifact(p)
      PROVE  CompleteInv'
  <2>1. p \in Alive
    BY <1>9 DEF recordArtifact, Up, Alive
  <2>2. PICK v \in Version : artifact' = [artifact EXCEPT ![v] = Encrypted(p, v, v)]
    BY <1>9 DEF recordArtifact
  <2>3. \A w \in Version : artifact'[w] = artifact[w] \/ artifact'[w] = Encrypted(p, v, v)
    BY <2>2 DEF TypeOK
  <2>4. UNCHANGED <<process, pass, certificate>>
    BY <1>9 DEF recordArtifact
  <2>5. ASSUME NEW q \in Process, pass[q].alone
        PROVE  Current(q, Encrypted(p, v, v))
    BY <2>1, <2>5, WrittenIsCurrent
  <2> QED
    BY <2>3, <2>4, <2>5 DEF CompleteInv, CompleteOf, Current, Due, Needs, IsPlaintext
<1>10. ASSUME NEW p \in Process, SaveCertificate(p)
      PROVE  CompleteInv'
  <2>1. p \in Alive
    BY <1>10 DEF SaveCertificate, Up, Alive
  <2>2. PICK v \in Stored : certificate' = Encrypted(p, v, artifact[v].key)
    BY <1>10 DEF SaveCertificate
  <2>3. UNCHANGED <<process, pass, artifact>>
    BY <1>10 DEF SaveCertificate
  <2>4. ASSUME NEW q \in Process, pass[q].alone
        PROVE  Current(q, certificate')
    BY <2>1, <2>2, <2>4, WrittenIsCurrent
  <2> QED
    BY <2>3, <2>4 DEF CompleteInv, CompleteOf, Current, Due, Needs, IsPlaintext
<1>11. CASE UNCHANGED vars
  BY <1>11 DEF vars, CompleteInv, CompleteOf, Current, Due, Needs, IsPlaintext
<1> QED
  BY <1>1, <1>3, <1>4, <1>5, <1>6, <1>7, <1>8, <1>9, <1>10, <1>11 DEF Next

\* A pass of migrateStoredPrivateKeys that is complete has left nothing under
\* an old key or version, and nothing such comes back, as long as no process
\* has another configuration.
THEOREM CompletePassIsComplete ==
  ASSUME KeysAssumption
  PROVE  Spec => []CompletedPassIsComplete
<1>1. Init => TypeOK /\ KeysInv /\ AloneInv /\ CompleteInv
  BY InitKeys, RowTypes DEF Init, AloneInv, CompleteInv, CompleteOf
<1>2. TypeOK /\ KeysInv /\ AloneInv /\ CompleteInv /\ [Next]_vars
        => TypeOK' /\ KeysInv' /\ AloneInv' /\ CompleteInv'
  BY TypeStep, PassesStep, SoundStep, ArtifactStep, CertificateStep, AloneStep, CompleteStep
  DEF KeysInv
<1>3. Passes /\ CompleteInv => CompletedPassIsComplete
  <2> SUFFICES ASSUME Passes, CompleteInv, NEW p \in Process,
                      pass[p].at = "done", pass[p].alone,
                      NEW row \in ({certificate} \cup {artifact[v] : v \in Version}) \ {NoRow}
               PROVE  /\ row.under = process[p].config.master
                      /\ row.version = process[p].config.version
    BY DEF CompletedPassIsComplete
  <2>1. pass[p].copies = {}
    BY DEF Passes
  <2>2. Current(p, row)
    BY <2>1 DEF CompleteInv, CompleteOf, Due
  <2> QED
    BY <2>2 DEF Current
<1> QED
  BY <1>1, <1>2, <1>3, PTL DEF Spec, KeysInv
=============================================================================
