------------------------- MODULE CertificateCleanup -------------------------
(***************************************************************************)
(* What becomes of the stored certificates: the daily clean-up of          *)
(* CertificateCleanupService, which every node runs at the same time, with *)
(* the sync of CertificateService, renewals and administrators, who write  *)
(* to the same rows.                                                       *)
(*                                                                         *)
(* A certificate is stored under the hash of its domains, and an entry     *)
(* uses the certificate with the hash of its own.                          *)
(***************************************************************************)
EXTENDS Integers, FiniteSets

CONSTANTS
  Hash,         \* domainsHash
  Sweep,        \* clean-ups that can be in progress
  MaxChanges    \* bound: changes of the entries, renewals and deletions

CleanupAssumption == MaxChanges \in Nat

VARIABLES
  used,         \* the hashes of the proxy entries
  certificate,  \* the Certificate rows by hash
  sweep,        \* the coroutines of cleanupCertificates
  doubted,      \* rows, with their ids, that a sync takes for invalid and has not
                \* yet marked
  hot,          \* history: hashes that came into use, or were marked by a sync, when a
                \* clean-up in progress had read what it acts on
  changes       \* changes so far, which also number the rows

vars == <<used, certificate, sweep, doubted, hot, changes>>

NoCertificate == [id |-> 0, orphaned |-> FALSE, state |-> "none"]

\* ids: the rows to be marked, by their ids; used: the hashes in use as read.
NoSweep == [at |-> "idle", used |-> {}, marks |-> {}]

SweepAt(s, place) == sweep[s].at = place
Goto(s, place) == sweep' = [sweep EXCEPT ![s].at = place]

Change == changes < MaxChanges /\ changes' = changes + 1

\* hot, unless no clean-up acts on what it has read any longer.
Cool == hot' = IF sweep' = [s \in Sweep |-> NoSweep] THEN {} ELSE hot

\* A clean-up in progress knows which rows to mark, and marks or deletes.
Decided == \E s \in Sweep : SweepAt(s, "mark") \/ SweepAt(s, "orphans")

Init ==
  /\ used = {}
  /\ certificate = [h \in Hash |-> NoCertificate]
  /\ sweep = [s \in Sweep |-> NoSweep]
  /\ doubted = {}
  /\ hot = {}
  /\ changes = 0

-----------------------------------------------------------------------------
(* The others.                                                             *)

\* A proxy entry is created, changed or deleted.
ChangeEntry(h) ==
  /\ Change
  /\ used' = IF h \in used THEN used \ {h} ELSE used \cup {h}
  /\ hot' = IF h \notin used /\ \E s \in Sweep : ~SweepAt(s, "idle") THEN hot \cup {h} ELSE hot
  /\ UNCHANGED <<certificate, sweep, doubted>>

\* activateArtifactAcrossCluster saves a certificate: in the row there is, or
\* in a new one.
Save(h) ==
  /\ Change
  /\ certificate' = [certificate EXCEPT ![h] =
       [id |-> IF @ = NoCertificate THEN changes + 1 ELSE @.id,
        orphaned |-> FALSE,
        state |-> "valid"]]
  /\ UNCHANGED <<used, sweep, doubted, hot>>

\* Time passes, or the key in the row turns out not to be the certificate's.
Spoil(h) ==
  /\ certificate[h].state = "valid"
  /\ \E state \in {"expired", "invalid"} :
       certificate' = [certificate EXCEPT ![h].state = state]
  /\ UNCHANGED <<used, sweep, doubted, hot, changes>>

\* syncCertificates validates what it has read, and takes a row for invalid
\* that is, or that it could not check: openssl or a temporary file failed.
Doubt(h) ==
  /\ certificate[h] # NoCertificate /\ ~certificate[h].orphaned
  /\ doubted' = doubted \cup {<<h, certificate[h].id>>}
  /\ UNCHANGED <<used, certificate, sweep, hot, changes>>

\* Then it marks the row, unless that is gone.
MarkDoubted(row) ==
  LET h == row[1] IN
  /\ row \in doubted
  /\ doubted' = doubted \ {row}
  /\ IF certificate[h].id = row[2]
     THEN /\ certificate' = [certificate EXCEPT ![h].orphaned = TRUE]
          /\ hot' = IF Decided THEN hot \cup {h} ELSE hot
     ELSE UNCHANGED <<certificate, hot>>
  /\ UNCHANGED <<used, sweep, changes>>

deleteCertificate(h) ==
  /\ Change
  /\ certificate[h] # NoCertificate
  /\ certificate' = [certificate EXCEPT ![h] = NoCertificate]
  /\ UNCHANGED <<used, sweep, doubted, hot>>

-----------------------------------------------------------------------------
(* cleanupCertificates.                                                    *)

ReadEntries(s) ==
  /\ SweepAt(s, "idle")
  /\ sweep' = [sweep EXCEPT ![s] = [NoSweep EXCEPT !.at = "certificates", !.used = used]]
  /\ UNCHANGED <<used, certificate, doubted, hot, changes>>

WrongOrphansOnly(s) ==  \* faulty: never takes a mark back
  {h \in Hash : certificate[h] # NoCertificate /\ ~certificate[h].orphaned /\ h \notin sweep[s].used}

\* The rows whose mark differs from what it should be.
Wrong(s) == {h \in Hash : /\ certificate[h] # NoCertificate
                          /\ certificate[h].orphaned = (h \in sweep[s].used)}

ReadCertificates(s) ==
  /\ SweepAt(s, "certificates")
  /\ sweep' = [sweep EXCEPT ![s].at = "mark",
                            ![s].marks = {<<h, certificate[h].id>> : h \in Wrong(s)}]
  /\ UNCHANGED <<used, certificate, doubted, hot, changes>>

\* One update after the other; that of a row that is gone throws and ends
\* the clean-up.
Mark(s) ==
  /\ SweepAt(s, "mark")
  /\ \E row \in sweep[s].marks :
       LET h == row[1] IN
       IF certificate[h].id = row[2]
       THEN /\ certificate' = [certificate EXCEPT ![h].orphaned = h \notin sweep[s].used]
            /\ sweep' = [sweep EXCEPT ![s].marks = @ \ {row}]
       ELSE /\ sweep' = [sweep EXCEPT ![s] = NoSweep]
            /\ UNCHANGED certificate
  /\ UNCHANGED <<used, doubted, changes>>
  /\ Cool

Without(hashes) ==
  certificate' = [h \in Hash |-> IF h \in hashes THEN NoCertificate ELSE certificate[h]]

DeleteExpired(s) ==
  /\ SweepAt(s, "mark") /\ sweep[s].marks = {}
  /\ Without({h \in Hash : certificate[h].state = "expired"})
  /\ Goto(s, "orphans")
  /\ UNCHANGED <<used, doubted, hot, changes>>

DeleteOrphans(s) ==
  /\ SweepAt(s, "orphans")
  /\ Without({h \in Hash : certificate[h].orphaned})
  /\ sweep' = [sweep EXCEPT ![s] = NoSweep]
  /\ UNCHANGED <<used, doubted, changes>>
  /\ Cool

\* A query fails or the process dies.
Abort(s) ==
  /\ Change
  /\ sweep[s] # NoSweep
  /\ sweep' = [sweep EXCEPT ![s] = NoSweep]
  /\ UNCHANGED <<used, certificate, doubted>>
  /\ Cool

Next ==
  \/ \E h \in Hash : \/ ChangeEntry(h) \/ Save(h) \/ Spoil(h) \/ deleteCertificate(h)
                     \/ Doubt(h)
  \/ \E row \in doubted : MarkDoubted(row)
  \/ \E s \in Sweep : \/ ReadEntries(s) \/ ReadCertificates(s) \/ Mark(s)
                      \/ DeleteExpired(s) \/ DeleteOrphans(s) \/ Abort(s)

Spec == Init /\ [][Next]_vars

-----------------------------------------------------------------------------
(* Properties.                                                             *)

Certificate == [id : 0..changes, orphaned : BOOLEAN,
                state : {"none", "valid", "invalid", "expired"}]
Coroutine == [at : {"idle", "certificates", "mark", "orphans"},
              used : SUBSET Hash,
              marks : SUBSET (Hash \X (1..changes))]

TypeOK ==
  /\ used \subseteq Hash /\ hot \subseteq Hash
  /\ doubted \subseteq Hash \X (1..changes)
  /\ certificate \in [Hash -> Certificate]
  /\ sweep \in [Sweep -> Coroutine]
  /\ changes \in 0..MaxChanges

(***************************************************************************)
(* A certificate that is valid and that an entry uses is deleted by an     *)
(* administrator only: no clean-up takes it, whatever marks clean-ups that *)
(* were cut short and syncs that could not check it have left on it, since *)
(* each clean-up takes wrong marks back first.  Not covered is one that    *)
(* came into use after a clean-up in progress had read the entries, or was *)
(* marked by a sync after it had read the certificates: that one may be    *)
(* lost.                                                                   *)
(***************************************************************************)
UsedCertificatesStay ==
  [][\A h \in used \ hot :
       certificate[h].state = "valid" =>
         certificate'[h] # NoCertificate \/ deleteCertificate(h)]_vars
=============================================================================
