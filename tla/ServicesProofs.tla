--------------------------- MODULE ServicesProofs ---------------------------
(***************************************************************************)
(* Proofs about the components of Services, and with them about every      *)
(* behaviour of Services.  The proxy entries, the clean-up of the          *)
(* certificates, the backups, the script of the container and the advisory *)
(* locks are dealt with here, each in a section of its own; the proofs     *)
(* about the stored keys and the challenges are taken from the modules     *)
(* StoredKeysProofs and AcmeChallengesProofs.                              *)
(***************************************************************************)
EXTENDS Services, FiniteSetTheorems, SequenceTheorems, TLAPS

KeyProofs == INSTANCE StoredKeysProofs WITH
  Process <- Actor, certificate <- current

AcmeProofs == INSTANCE AcmeChallengesProofs WITH Attempt <- Actor

-----------------------------------------------------------------------------
(* The proxy entries: a host with two domains.                             *)

Domain(d) == d \in Seq(Label \cup {"*"}) /\ Proxies!IsDomain(d)

LEMMA DomainLabels ==
  ASSUME NEW d, Domain(d)
  PROVE  /\ d # <<>> /\ Len(d) \in Nat /\ Len(d) >= 2
         /\ Proxies!IsWildcard(d) =>
              /\ Tail(d) \in Seq(Label) /\ Len(Tail(d)) = Len(d) - 1
              /\ \A i \in 1..Len(d) - 1 : Tail(d)[i] = d[i + 1]
<1>1. d \in Seq(Label \cup {"*"}) /\ d # <<>> /\ Len(d) \in Nat
  BY DEF Domain, Proxies!IsDomain
<1>2. Len(Tail(d)) = Len(d) - 1 /\ \A i \in 1..Len(Tail(d)) : Tail(d)[i] = d[i + 1]
  BY <1>1, HeadTailProperties
<1>3. CASE Proxies!IsWildcard(d)
  <2>1. Tail(d) \in Seq(Label) /\ Len(Tail(d)) >= 2
    BY <1>3 DEF Domain, Proxies!IsDomain
  <2> QED
    BY <1>1, <1>2, <2>1
<1>4. CASE ~Proxies!IsWildcard(d)
  BY <1>1, <1>4 DEF Domain, Proxies!IsDomain
<1> QED
  BY <1>3, <1>4

\* Where the labels of the host are in the domain.
LEMMA ServedBelow ==
  ASSUME NEW d, Domain(d), Proxies!IsWildcard(d), NEW host \in Seq(Label),
         Proxies!Serves(d, host)
  PROVE  \E n \in 1..Len(host) - 1 :
           /\ Len(host) - n = Len(d) - 1
           /\ \A i \in 1..Len(d) - 1 : host[n + i] = d[i + 1]
<1>1. PICK n \in 1..Len(host) - 1 : SubSeq(host, n + 1, Len(host)) = Tail(d)
  BY DEF Proxies!Serves
<1>2. Len(host) \in Nat /\ \A i \in n + 1..Len(host) : host[i] \in Label
  BY <1>1, LenProperties
<1>3. /\ Len(SubSeq(host, n + 1, Len(host))) = Len(host) - n
      /\ \A i \in 1..Len(host) - n : SubSeq(host, n + 1, Len(host))[i] = host[n + i]
  <2>1. n + 1 \in Int /\ Len(host) \in Int /\ n + 1 <= Len(host)
    BY <1>1, <1>2
  <2>2. /\ Len(SubSeq(host, n + 1, Len(host))) = Len(host) - (n + 1) + 1
        /\ \A i \in 1..Len(host) - (n + 1) + 1 :
             SubSeq(host, n + 1, Len(host))[i] = host[n + 1 + i - 1]
    BY <1>2, <2>1, SubSeqProperties
  <2> QED
    BY <1>1, <1>2, <2>2
<1>4. /\ Len(Tail(d)) = Len(d) - 1
      /\ \A i \in 1..Len(d) - 1 : Tail(d)[i] = d[i + 1]
  BY DomainLabels
<1>5. Len(host) - n = Len(d) - 1
  BY <1>1, <1>3, <1>4
<1>6. \A i \in 1..Len(d) - 1 : host[n + i] = d[i + 1]
  BY <1>1, <1>3, <1>4, <1>5
<1> QED
  BY <1>5, <1>6

LEMMA Ending ==
  ASSUME NEW d \in Seq(Label \cup {"*"}), NEW e, Domain(e), Proxies!IsWildcard(e),
         Len(e) - 1 < Len(d),
         \A i \in 1..Len(e) - 1 : d[Len(d) - Len(e) + 1 + i] = e[i + 1]
  PROVE  Proxies!domainMatchesWildcard(d, e)
<1> DEFINE m == Len(d) - Len(e) + 2
<1>1. /\ Len(d) \in Nat /\ Len(e) \in Nat /\ Len(e) >= 2
      /\ Tail(e) \in Seq(Label) /\ Len(Tail(e)) = Len(e) - 1
      /\ \A i \in 1..Len(e) - 1 : Tail(e)[i] = e[i + 1]
  BY DomainLabels
<1>2. m \in Int /\ m >= 1 /\ m <= Len(d) /\ Len(d) - m + 1 = Len(e) - 1
  BY <1>1
<1>3. \A i \in m..Len(d) : d[i] \in Label \cup {"*"}
  BY <1>1, <1>2
<1> HIDE DEF m
<1>4. /\ SubSeq(d, m, Len(d)) \in Seq(Label \cup {"*"})
      /\ Len(SubSeq(d, m, Len(d))) = Len(d) - m + 1
      /\ \A i \in 1..Len(d) - m + 1 : SubSeq(d, m, Len(d))[i] = d[m + i - 1]
  BY <1>1, <1>2, <1>3, SubSeqProperties
<1>5. \A i \in 1..Len(e) - 1 : d[m + i - 1] = e[i + 1]
  <2> SUFFICES ASSUME NEW i \in 1..Len(e) - 1
               PROVE  d[m + i - 1] = e[i + 1]
    OBVIOUS
  <2>1. m + i - 1 = Len(d) - Len(e) + 1 + i
    BY <1>1 DEF m
  <2> QED
    BY <2>1
<1>6. Tail(e) \in Seq(Label \cup {"*"})
  BY <1>1, SeqMonotonic
<1>7. SubSeq(d, m, Len(d)) = Tail(e)
  BY <1>1, <1>2, <1>4, <1>5, <1>6, SeqEqual
<1> QED
  BY <1>1, <1>7 DEF Proxies!domainMatchesWildcard, m

LEMMA WildcardsConflict ==
  ASSUME NEW d, NEW e, Domain(d), Domain(e), Proxies!IsWildcard(e), NEW host \in Seq(Label),
         NEW n \in 0..Len(host) - 1, NEW m \in n..Len(host) - 1,
         Len(host) - n = Len(d) - 1, Len(host) - m = Len(e) - 1,
         \A i \in 1..Len(d) - 1 : host[n + i] = d[i + 1],
         \A i \in 1..Len(e) - 1 : host[m + i] = e[i + 1]
  PROVE  Proxies!domainMatchesWildcard(d, e)
<1>1. Len(d) \in Nat /\ Len(e) \in Nat /\ Len(host) \in Nat /\ d \in Seq(Label \cup {"*"})
  BY DomainLabels DEF Domain
<1>2. Len(e) - 1 < Len(d)
  BY <1>1
<1>3. ASSUME NEW i \in 1..Len(e) - 1
      PROVE  d[Len(d) - Len(e) + 1 + i] = e[i + 1]
  <2> DEFINE j == Len(d) - Len(e) + i
  <2>1. j \in 1..Len(d) - 1 /\ n + j = m + i /\ j + 1 = Len(d) - Len(e) + 1 + i
    BY <1>1
  <2>2. host[n + j] = d[j + 1] /\ host[m + i] = e[i + 1]
    BY <2>1
  <2> HIDE DEF j
  <2> QED
    BY <2>1, <2>2
<1> QED
  BY <1>1, <1>2, <1>3, Ending

\* Domains that serve a common host conflict.
LEMMA CommonHost ==
  ASSUME NEW d, NEW e, Domain(d), Domain(e), NEW host \in Seq(Label),
         Proxies!Serves(d, host), Proxies!Serves(e, host)
  PROVE  Proxies!domainsConflict(d, e)
<1>0. Len(host) \in Nat /\ d \in Seq(Label \cup {"*"}) /\ e \in Seq(Label \cup {"*"})
  BY DEF Domain
<1>1. CASE ~Proxies!IsWildcard(d) /\ ~Proxies!IsWildcard(e)
  BY <1>1 DEF Proxies!Serves, Proxies!domainsConflict
<1>2. ASSUME NEW a, NEW b, Domain(a), Domain(b), Proxies!Serves(a, host),
             Proxies!Serves(b, host),
             Proxies!IsWildcard(a), ~Proxies!IsWildcard(b)
      PROVE  Proxies!domainMatchesWildcard(b, a)
  <2>1. host = b
    BY <1>2 DEF Proxies!Serves
  <2>2. PICK n \in 1..Len(host) - 1 :
          /\ Len(host) - n = Len(a) - 1
          /\ \A i \in 1..Len(a) - 1 : host[n + i] = a[i + 1]
    BY <1>2, ServedBelow
  <2>3. Len(a) \in Nat /\ b \in Seq(Label \cup {"*"})
    BY <1>2, DomainLabels DEF Domain
  <2>4. Len(a) - 1 < Len(b)
    BY <1>0, <2>1, <2>2, <2>3
  <2>5. n = Len(b) - Len(a) + 1
    BY <1>0, <2>1, <2>2, <2>3
  <2>6. ASSUME NEW i \in 1..Len(a) - 1
        PROVE  b[Len(b) - Len(a) + 1 + i] = a[i + 1]
    BY <2>1, <2>2, <2>5
  <2> QED
    BY <1>2, <2>3, <2>4, <2>6, Ending
<1>3. CASE Proxies!IsWildcard(d) /\ Proxies!IsWildcard(e)
  <2>1. PICK n \in 1..Len(host) - 1 :
          /\ Len(host) - n = Len(d) - 1
          /\ \A i \in 1..Len(d) - 1 : host[n + i] = d[i + 1]
    BY <1>3, ServedBelow
  <2>2. PICK m \in 1..Len(host) - 1 :
          /\ Len(host) - m = Len(e) - 1
          /\ \A i \in 1..Len(e) - 1 : host[m + i] = e[i + 1]
    BY <1>3, ServedBelow
  <2>3. CASE n <= m
    <3>1. n \in 0..Len(host) - 1 /\ m \in n..Len(host) - 1
      BY <1>0, <2>3
    <3> QED
      BY <1>3, <2>1, <2>2, <3>1, WildcardsConflict DEF Proxies!domainsConflict
  <2>4. CASE m <= n
    <3>1. m \in 0..Len(host) - 1 /\ n \in m..Len(host) - 1
      BY <1>0, <2>4
    <3> QED
      BY <1>3, <2>1, <2>2, <3>1, WildcardsConflict DEF Proxies!domainsConflict
  <2> QED
    BY <1>0, <2>3, <2>4
<1> QED
  BY <1>1, <1>2, <1>3 DEF Proxies!domainsConflict

-----------------------------------------------------------------------------
(* The proxy entries: the inductive invariant.                             *)

Clash(some, others) == \E d \in some, e \in others : Proxies!domainsConflict(d, e)

DomainsValid ==
  /\ \A id \in Proxies!Stored : \A d \in entry[id].domains : Domain(d)
  /\ \A r \in Actor :
       /\ \A d \in proxyRequest[r].domains : Domain(d)
       /\ proxyRequest[r].at # "idle" => proxyRequest[r].domains # {}

CheckedBefore == \A id \in Proxies!Stored : entry[id].checked < entry[id].written

\* A request has been checked against what was written until then.
RequestsChecked ==
  \A r \in Actor, id \in Proxies!Stored :
    /\ Proxies!RequestAt(r, "write") /\ id # proxyRequest[r].id
    /\ entry[id].written <= proxyRequest[r].checked
    => ~Clash(proxyRequest[r].domains, entry[id].domains)

ClashByOverlap ==
  \A i, j \in Proxies!Stored :
    i # j /\ Clash(entry[i].domains, entry[j].domains)
      => entry[i].checked < entry[j].written

ProxyInv ==
  Proxies!TypeOK /\ DomainsValid /\ CheckedBefore /\ RequestsChecked /\ ClashByOverlap

LEMMA OverlapOnly ==
  ASSUME Proxies!ProxyAssumption, ProxyInv
  PROVE  Proxies!ConflictsOnlyByOverlap
<1> SUFFICES ASSUME NEW i \in Proxies!Stored, NEW j \in Proxies!Stored, i # j,
                    Proxies!Ambiguous(i, j)
             PROVE  entry[i].checked < entry[j].written
                      /\ entry[j].checked < entry[i].written
  BY DEF Proxies!ConflictsOnlyByOverlap
<1>1. PICK host \in Proxies!Host, d \in entry[i].domains, e \in entry[j].domains :
        Proxies!Serves(d, host) /\ Proxies!Serves(e, host)
  BY DEF Proxies!Ambiguous
<1>2. host \in Seq(Label)
  <2>1. PICK n \in 2..MaxLabels : host \in [1..n -> Label]
    BY DEF Proxies!Host
  <2> QED
    BY <2>1, SeqDef
<1>3. Domain(d) /\ Domain(e)
  BY DEF ProxyInv, DomainsValid
<1>4. Proxies!domainsConflict(d, e) /\ Proxies!domainsConflict(e, d)
  BY <1>1, <1>2, <1>3, CommonHost
<1> QED
  BY <1>4 DEF ProxyInv, ClashByOverlap, Clash

\* A coroutine goes on.
LEMMA RequestSet ==
  ASSUME Proxies!TypeOK, NEW r \in Actor, NEW q,
         proxyRequest' = [proxyRequest EXCEPT ![r] = q]
  PROVE  /\ proxyRequest'[r] = q
         /\ \A p \in Actor : p # r => proxyRequest'[p] = proxyRequest[p]
         /\ q \in Proxies!Coroutine => proxyRequest' \in [Actor -> Proxies!Coroutine]
BY DEF Proxies!TypeOK

LEMMA NoRequestTyped ==
  ASSUME Proxies!ProxyAssumption
  PROVE  /\ Proxies!NoRequest \in Proxies!Coroutine /\ Proxies!NoRequest.at = "idle"
         /\ Proxies!NoRequest.domains = {} /\ Proxies!NoRequest.checked = 0
BY DEF Proxies!NoRequest, Proxies!Coroutine, Proxies!ProxyAssumption

\* The entries stay, and a request begins, goes on or ends.
LEMMA RequestStep ==
  ASSUME Proxies!ProxyAssumption, ProxyInv, NEW r \in Actor, NEW q \in Proxies!Coroutine,
         UNCHANGED <<entry, writes>>, proxyRequest' = [proxyRequest EXCEPT ![r] = q],
         q.checked <= writes,
         \A d \in q.domains : Domain(d), q.at # "idle" => q.domains # {},
         q.at = "write" =>
           \A id \in Proxies!Stored : id # q.id => ~Clash(q.domains, entry[id].domains)
  PROVE  ProxyInv'
<1>1. /\ proxyRequest'[r] = q
      /\ \A p \in Actor : p # r => proxyRequest'[p] = proxyRequest[p]
      /\ proxyRequest' \in [Actor -> Proxies!Coroutine]
  BY RequestSet DEF ProxyInv
<1>2. Proxies!Stored' = Proxies!Stored
  BY DEF Proxies!Stored, Proxies!Id
<1>3. Proxies!TypeOK'
  <2>1. Proxies!Entry' = Proxies!Entry /\ Proxies!Coroutine' = Proxies!Coroutine
          /\ Proxies!Id' = Proxies!Id
    BY DEF Proxies!Entry, Proxies!Coroutine, Proxies!Id
  <2>2. \A p \in Actor : proxyRequest'[p].checked <= writes'
    BY <1>1 DEF ProxyInv, Proxies!TypeOK
  <2> QED
    BY <1>1, <1>2, <2>1, <2>2 DEF ProxyInv, Proxies!TypeOK
<1>4. DomainsValid'
  BY <1>1, <1>2 DEF ProxyInv, DomainsValid
<1>5. CheckedBefore' /\ ClashByOverlap'
  BY <1>2 DEF ProxyInv, CheckedBefore, ClashByOverlap
<1>6. RequestsChecked'
  BY <1>1, <1>2 DEF ProxyInv, RequestsChecked, Proxies!RequestAt
<1> QED
  BY <1>3, <1>4, <1>5, <1>6 DEF ProxyInv

LEMMA WriteStep ==
  ASSUME Proxies!ProxyAssumption, ProxyInv, NEW r \in Actor, Proxies!Write(r)
  PROVE  ProxyInv'
<1> DEFINE id == IF proxyRequest[r].id = 0 THEN writes + 1 ELSE proxyRequest[r].id
           value == [domains |-> proxyRequest[r].domains,
                   checked |-> proxyRequest[r].checked,
                   written |-> writes + 1]
<1>0. /\ proxyRequest \in [Actor -> Proxies!Coroutine]
      /\ proxyRequest[r] \in Proxies!Coroutine
      /\ proxyRequest[r].at = "write" /\ writes < MaxWrites
      /\ writes \in Nat /\ MaxWrites \in Nat /\ proxyRequest[r].checked \in Nat
      /\ proxyRequest[r].checked <= writes /\ proxyRequest[r].id \in Nat
      /\ proxyRequest[r].domains # {} /\ \A d \in proxyRequest[r].domains : Domain(d)
  <2>1. proxyRequest \in [Actor -> Proxies!Coroutine]
          /\ proxyRequest[r] \in Proxies!Coroutine
    BY DEF ProxyInv, Proxies!TypeOK
  <2>2. proxyRequest[r].at = "write" /\ writes < MaxWrites
    BY DEF Proxies!Write, Proxies!RequestAt
  <2>3. writes \in Nat /\ MaxWrites \in Nat /\ proxyRequest[r].checked <= writes
    BY DEF ProxyInv, Proxies!TypeOK, Proxies!ProxyAssumption
  <2>4. proxyRequest[r].checked \in Nat /\ proxyRequest[r].id \in Nat
    BY <2>1, <2>3 DEF Proxies!Coroutine
  <2>5. proxyRequest[r].domains # {} /\ \A d \in proxyRequest[r].domains : Domain(d)
    BY <2>2 DEF ProxyInv, DomainsValid
  <2> QED
    BY <2>1, <2>2, <2>3, <2>4, <2>5
<1>1. /\ proxyRequest'[r] = Proxies!NoRequest /\ Proxies!NoRequest.at = "idle"
      /\ Proxies!NoRequest.domains = {}
      /\ Proxies!NoRequest.checked = 0
      /\ \A p \in Actor : p # r => proxyRequest'[p] = proxyRequest[p]
      /\ proxyRequest' \in [Actor -> Proxies!Coroutine]
  BY RequestSet, NoRequestTyped DEF ProxyInv, Proxies!Write, Proxies!Finish
<1>2. CASE UNCHANGED <<entry, writes>>
  <2> HIDE DEF value, id
  <2>1. proxyRequest' = [proxyRequest EXCEPT ![r] = Proxies!NoRequest]
    BY DEF Proxies!Write, Proxies!Finish
  <2>2. /\ Proxies!NoRequest \in Proxies!Coroutine /\ Proxies!NoRequest.checked <= writes
        /\ Proxies!NoRequest.at = "idle"
        /\ Proxies!NoRequest.domains = {}
    BY <1>0, NoRequestTyped
  <2> QED
    BY <1>2, <2>1, <2>2, RequestStep
<1>3. CASE /\ proxyRequest[r].id = 0 \/ id \in Proxies!Stored
           /\ entry' = [entry EXCEPT ![id] = value] /\ writes' = writes + 1
  <2>1. id \in Proxies!Id
    BY <1>0, <1>3 DEF Proxies!Id, Proxies!Stored
  <2>2. /\ value.domains = proxyRequest[r].domains
        /\ value.checked = proxyRequest[r].checked
        /\ value.written = writes + 1
    OBVIOUS
  <2>3. value \in Proxies!Entry
    <3>1. /\ proxyRequest[r].domains \in SUBSET Seq(Label \cup {"*"})
          /\ proxyRequest[r].checked \in 0..MaxWrites /\ writes + 1 \in 0..MaxWrites
      BY <1>0 DEF Proxies!Coroutine
    <3> QED
      BY <3>1 DEF Proxies!Entry
  <2>4. value # Proxies!NoEntry
    BY <1>0, <2>2 DEF Proxies!NoEntry
  <2>5. entry \in [Proxies!Id -> Proxies!Entry]
    BY DEF ProxyInv, Proxies!TypeOK
  <2> HIDE DEF value
  <2> HIDE DEF id
  <2>6. /\ entry'[id] = value /\ entry' \in [Proxies!Id -> Proxies!Entry]
        /\ \A i \in Proxies!Id : i # id => entry'[i] = entry[i]
    BY <1>3, <2>1, <2>3, <2>5
  <2>7. Proxies!Stored' = Proxies!Stored \cup {id}
    BY <2>1, <2>4, <2>6 DEF Proxies!Stored, Proxies!Id
  <2>8. \A i \in Proxies!Stored : i \in Proxies!Id /\ entry[i].written <= writes
          /\ entry[i].checked < entry[i].written
                          /\ entry[i].written \in Nat /\ entry[i].checked \in Nat
    BY <1>0, <2>5 DEF ProxyInv, Proxies!TypeOK, CheckedBefore, Proxies!Stored, Proxies!Entry
  <2>9. Proxies!TypeOK'
    <3>1. writes' \in 0..MaxWrites /\ Proxies!Entry' = Proxies!Entry
            /\ Proxies!Coroutine' = Proxies!Coroutine /\ Proxies!Id' = Proxies!Id
      BY <1>0, <1>3 DEF Proxies!Entry, Proxies!Coroutine, Proxies!Id
    <3>2. \A i \in Proxies!Stored' : entry'[i].domains # {} /\ entry'[i].written <= writes'
      BY <1>0, <1>3, <2>2, <2>6, <2>7, <2>8 DEF ProxyInv, Proxies!TypeOK
    <3>3. \A p \in Actor : proxyRequest'[p].checked <= writes'
      <4>1. \A p \in Actor : proxyRequest[p].checked \in Nat
              /\ proxyRequest[p].checked <= writes
        BY DEF ProxyInv, Proxies!TypeOK, Proxies!Coroutine
      <4> QED
        BY <1>0, <1>1, <1>3, <4>1
    <3> QED
      BY <1>1, <2>6, <3>1, <3>2, <3>3 DEF Proxies!TypeOK
  <2>10. DomainsValid'
    BY <1>0, <1>1, <2>2, <2>6, <2>7, <2>8 DEF ProxyInv, DomainsValid
  <2>11. CheckedBefore'
    BY <1>0, <2>2, <2>6, <2>7, <2>8 DEF CheckedBefore
  <2>12. RequestsChecked'
    <3> SUFFICES ASSUME NEW p \in Actor, NEW i \in Proxies!Stored',
                        Proxies!RequestAt(p, "write")',
                        i # proxyRequest'[p].id, entry'[i].written <= proxyRequest'[p].checked
                 PROVE  ~Clash(proxyRequest'[p].domains, entry'[i].domains)
      BY DEF RequestsChecked, Clash
    <3>1. p # r /\ proxyRequest'[p] = proxyRequest[p]
      BY <1>1 DEF Proxies!RequestAt
    <3>2. proxyRequest[p].checked <= writes /\ proxyRequest[p].checked \in Nat
      BY DEF ProxyInv, Proxies!TypeOK, Proxies!Coroutine
    <3>3. i # id
      BY <1>0, <2>2, <2>6, <3>1, <3>2
    <3> QED
      BY <2>6, <2>7, <2>8, <3>1, <3>3 DEF ProxyInv, RequestsChecked, Proxies!RequestAt
  <2>13. ClashByOverlap'
    <3> SUFFICES ASSUME NEW i \in Proxies!Stored', NEW j \in Proxies!Stored', i # j,
                        Clash(entry'[i].domains, entry'[j].domains)
                 PROVE  entry'[i].checked < entry'[j].written
      BY DEF ClashByOverlap, Clash
    <3>1. CASE i # id /\ j # id
      BY <2>6, <2>7, <2>8, <3>1 DEF ProxyInv, ClashByOverlap
    <3>2. CASE i = id
      <4>1. entry'[j] = entry[j] /\ j \in Proxies!Stored
        BY <2>6, <2>7, <2>8, <3>2
      <4>2. j # proxyRequest[r].id
        BY <2>8, <3>2, <4>1 DEF id, Proxies!Id
      <4>3. ~(entry[j].written <= proxyRequest[r].checked)
        BY <1>0, <2>2, <2>6, <3>2, <4>1, <4>2
        DEF ProxyInv, RequestsChecked, Proxies!RequestAt
      <4> QED
        BY <1>0, <2>2, <2>6, <2>8, <3>2, <4>1, <4>3
    <3>3. CASE j = id
      BY <1>0, <2>2, <2>6, <2>7, <2>8, <3>3
    <3> QED
      BY <3>1, <3>2, <3>3
  <2> QED
    BY <2>9, <2>10, <2>11, <2>12, <2>13 DEF ProxyInv
<1> QED
  BY <1>2, <1>3 DEF Proxies!Write

LEMMA DeleteStep ==
  ASSUME Proxies!ProxyAssumption, ProxyInv, NEW id \in Proxies!Id, Proxies!deleteProxy(id)
  PROVE  ProxyInv'
<1>0. /\ entry \in [Proxies!Id -> Proxies!Entry] /\ writes \in Nat /\ MaxWrites \in Nat
      /\ writes < MaxWrites
      /\ writes' = writes + 1 /\ UNCHANGED proxyRequest
  BY DEF ProxyInv, Proxies!TypeOK, Proxies!deleteProxy, Proxies!ProxyAssumption
<1>1. Proxies!NoEntry \in Proxies!Entry
  BY DEF Proxies!NoEntry, Proxies!Entry, Proxies!ProxyAssumption
<1>2. entry' \in [Proxies!Id -> Proxies!Entry] /\ entry'[id] = Proxies!NoEntry
        /\ \A i \in Proxies!Id : i # id => entry'[i] = entry[i]
  BY <1>0, <1>1 DEF Proxies!deleteProxy
<1>3. Proxies!Stored' = Proxies!Stored \ {id}
  BY <1>2 DEF Proxies!Stored, Proxies!Id
<1>4. \A i \in Proxies!Stored' : entry'[i] = entry[i]
  BY <1>2, <1>3 DEF Proxies!Stored
<1>5. Proxies!TypeOK'
  <2>1. writes' \in 0..MaxWrites /\ Proxies!Entry' = Proxies!Entry
          /\ Proxies!Coroutine' = Proxies!Coroutine /\ Proxies!Id' = Proxies!Id
    BY <1>0 DEF Proxies!Entry, Proxies!Coroutine, Proxies!Id
  <2>2. \A i \in Proxies!Stored' : entry'[i].domains # {} /\ entry'[i].written <= writes'
    <3>1. \A i \in Proxies!Stored : entry[i].written \in Nat /\ entry[i].written <= writes
            /\ entry[i].domains # {}
      BY <1>0 DEF ProxyInv, Proxies!TypeOK, Proxies!Entry, Proxies!Stored
    <3> QED
      BY <1>0, <1>3, <1>4, <3>1
  <2>3. \A p \in Actor : proxyRequest'[p].checked <= writes'
    <3>1. \A p \in Actor : proxyRequest[p].checked \in Nat
            /\ proxyRequest[p].checked <= writes
      BY DEF ProxyInv, Proxies!TypeOK, Proxies!Coroutine
    <3> QED
      BY <1>0, <3>1
  <2>4. proxyRequest' \in [Actor -> Proxies!Coroutine']
    BY <1>0, <2>1 DEF ProxyInv, Proxies!TypeOK
  <2> QED
    BY <1>2, <2>1, <2>2, <2>3, <2>4 DEF Proxies!TypeOK
<1>6. DomainsValid' /\ CheckedBefore' /\ RequestsChecked' /\ ClashByOverlap'
  BY <1>0, <1>3, <1>4
  DEF ProxyInv, DomainsValid, CheckedBefore, RequestsChecked, ClashByOverlap,
      Proxies!RequestAt
<1> QED
  BY <1>5, <1>6 DEF ProxyInv

LEMMA ProxyInit ==
  ASSUME Proxies!ProxyAssumption, Proxies!Init
  PROVE  ProxyInv
<1>1. Proxies!NoEntry \in Proxies!Entry /\ Proxies!NoRequest \in Proxies!Coroutine
        /\ MaxWrites \in Nat
  BY NoRequestTyped DEF Proxies!NoEntry, Proxies!Entry, Proxies!ProxyAssumption
<1>2. /\ Proxies!Stored = {} /\ writes = 0
      /\ entry \in [Proxies!Id -> Proxies!Entry]
      /\ proxyRequest \in [Actor -> Proxies!Coroutine]
      /\ \A r \in Actor : proxyRequest[r] = Proxies!NoRequest
  BY <1>1 DEF Proxies!Init, Proxies!Stored
<1>3. \A r \in Actor :
        /\ proxyRequest[r].at = "idle" /\ proxyRequest[r].domains = {}
        /\ proxyRequest[r].checked = 0
  BY <1>2, NoRequestTyped
<1>4. Proxies!TypeOK
  BY <1>1, <1>2, <1>3 DEF Proxies!TypeOK
<1> QED
  BY <1>2, <1>3, <1>4
  DEF ProxyInv, DomainsValid, CheckedBefore, RequestsChecked, ClashByOverlap,
      Proxies!RequestAt

\* What a request asks for when its list is accepted.
LEMMA AcceptedDomains ==
  ASSUME Proxies!ProxyAssumption, NEW list \in List, Proxies!Accepted(list)
  PROVE  /\ Proxies!normalizeDomains(list) # {}
         /\ Proxies!normalizeDomains(list) \in SUBSET Seq(Label \cup {"*"})
         /\ \A d \in Proxies!normalizeDomains(list) : Domain(d)
<1>1. \A d \in list : d.labels \in Seq(Label \cup {"*"}) /\ Proxies!IsDomain(d.labels)
  BY DEF Proxies!ProxyAssumption, Proxies!Accepted
<1> QED
  BY <1>1 DEF Proxies!normalizeDomains, Proxies!Accepted, Domain

LEMMA RequestsStep ==
  ASSUME Proxies!ProxyAssumption, ProxyInv, NEW r \in Actor,
         \/ \E list \in List : Proxies!createProxy(r, list)
         \/ \E id \in Proxies!Id, list \in List \cup {{}} : Proxies!updateProxy(r, id, list)
         \/ Proxies!ensureNoDomainConflicts(r)
         \/ Proxies!Write(r)
  PROVE  ProxyInv'
<1>0. /\ Proxies!NoRequest \in Proxies!Coroutine /\ MaxWrites \in Nat
      /\ writes \in 0..MaxWrites
      /\ proxyRequest \in [Actor -> Proxies!Coroutine]
      /\ proxyRequest[r] \in Proxies!Coroutine
      /\ proxyRequest[r].checked <= writes
  BY NoRequestTyped DEF ProxyInv, Proxies!TypeOK, Proxies!ProxyAssumption
<1>1. ASSUME NEW list \in List, Proxies!createProxy(r, list)
      PROVE  ProxyInv'
  <2> DEFINE q == [Proxies!NoRequest EXCEPT !.at = "check",
                                            !.domains = Proxies!normalizeDomains(list)]
  <2>1. /\ Proxies!normalizeDomains(list) # {}
        /\ Proxies!normalizeDomains(list) \in SUBSET Seq(Label \cup {"*"})
        /\ \A d \in Proxies!normalizeDomains(list) : Domain(d)
    BY <1>1, AcceptedDomains DEF Proxies!createProxy
  <2>2. /\ q \in Proxies!Coroutine /\ q.at = "check"
        /\ q.domains = Proxies!normalizeDomains(list)
        /\ q.checked = 0
    BY <1>0, <2>1 DEF Proxies!NoRequest, Proxies!Coroutine
  <2>3. UNCHANGED <<entry, writes>> /\ proxyRequest' = [proxyRequest EXCEPT ![r] = q]
    BY <1>1 DEF Proxies!createProxy
  <2> HIDE DEF q
  <2>4. q.checked <= writes
    BY <1>0, <2>2
  <2> QED
    BY <2>1, <2>2, <2>3, <2>4, RequestStep
<1>2. ASSUME NEW id \in Proxies!Id, NEW list \in List \cup {{}},
             Proxies!updateProxy(r, id, list)
      PROVE  ProxyInv'
  <2> DEFINE asked == IF list = {} THEN entry[id].domains ELSE Proxies!normalizeDomains(list)
             q == [Proxies!NoRequest EXCEPT !.at = "check", !.id = id, !.domains = asked]
  <2>1. asked # {} /\ asked \in SUBSET Seq(Label \cup {"*"}) /\ \A d \in asked : Domain(d)
    <3>1. CASE list = {}
      <4>1. id \in Proxies!Stored /\ entry[id] \in Proxies!Entry
        BY <1>2 DEF Proxies!updateProxy, ProxyInv, Proxies!TypeOK
      <4> QED
        BY <3>1, <4>1 DEF ProxyInv, Proxies!TypeOK, DomainsValid, Proxies!Entry
    <3>2. CASE list # {}
      BY <1>2, <3>2, AcceptedDomains DEF Proxies!updateProxy
    <3> QED
      BY <3>1, <3>2
  <2>2. UNCHANGED <<entry, writes>> /\ proxyRequest' = [proxyRequest EXCEPT ![r] = q]
    BY <1>2 DEF Proxies!updateProxy
  <2>3. id \in 0..MaxWrites
    BY <1>0 DEF Proxies!Id
  <2> HIDE DEF asked
  <2>4. q \in Proxies!Coroutine /\ q.at = "check" /\ q.domains = asked /\ q.checked = 0
    BY <1>0, <2>1, <2>3 DEF Proxies!NoRequest, Proxies!Coroutine
  <2> HIDE DEF q
  <2>5. q.checked <= writes
    BY <1>0, <2>4
  <2> QED
    BY <2>1, <2>2, <2>4, <2>5, RequestStep
<1>3. ASSUME Proxies!ensureNoDomainConflicts(r)
      PROVE  ProxyInv'
  <2>1. CASE Proxies!Conflicts(r)
    <3>1. UNCHANGED <<entry, writes>>
            /\ proxyRequest' = [proxyRequest EXCEPT ![r] = Proxies!NoRequest]
      BY <1>3, <2>1 DEF Proxies!ensureNoDomainConflicts, Proxies!Finish
    <3>2. /\ Proxies!NoRequest.at = "idle" /\ Proxies!NoRequest.domains = {}
          /\ Proxies!NoRequest.checked <= writes
      BY <1>0, NoRequestTyped
    <3> QED
      BY <1>0, <3>1, <3>2, RequestStep
  <2>2. CASE ~Proxies!Conflicts(r)
    <3> DEFINE q == [proxyRequest[r] EXCEPT !.at = "write", !.checked = writes]
    <3>1. UNCHANGED <<entry, writes>> /\ proxyRequest' = [proxyRequest EXCEPT ![r] = q]
      BY <1>0, <1>3, <2>2 DEF Proxies!ensureNoDomainConflicts
    <3>2. /\ q \in Proxies!Coroutine /\ q.checked = writes /\ q.id = proxyRequest[r].id
          /\ q.domains = proxyRequest[r].domains /\ q.at = "write"
      BY <1>0 DEF Proxies!Coroutine
    <3>3. proxyRequest[r].domains # {} /\ \A d \in proxyRequest[r].domains : Domain(d)
      <4>1. proxyRequest[r].at # "idle"
        BY <1>3 DEF Proxies!ensureNoDomainConflicts, Proxies!RequestAt
      <4> QED
        BY <4>1 DEF ProxyInv, DomainsValid
    <3>4. \A id \in Proxies!Stored : id # q.id => ~Clash(q.domains, entry[id].domains)
      BY <2>2, <3>2 DEF Proxies!Conflicts, Clash
    <3> HIDE DEF q
    <3>5. q.checked <= writes
      BY <1>0, <3>2
    <3> QED
      BY <3>1, <3>2, <3>3, <3>4, <3>5, RequestStep
  <2> QED
    BY <2>1, <2>2
<1> QED
  BY <1>1, <1>2, <1>3, WriteStep

LEMMA ProxyStep ==
  ASSUME Proxies!ProxyAssumption, ProxyInv, [Proxies!Next]_(Proxies!vars)
  PROVE  ProxyInv'
<1>1. CASE UNCHANGED Proxies!vars
  <2>1. UNCHANGED <<entry, proxyRequest, writes>>
    BY <1>1 DEF Proxies!vars
  <2>2. Proxies!Stored' = Proxies!Stored
    BY <2>1 DEF Proxies!Stored, Proxies!Id
  <2>3. Proxies!TypeOK'
    BY <2>1, <2>2 DEF ProxyInv, Proxies!TypeOK, Proxies!Entry, Proxies!Coroutine, Proxies!Id
  <2> QED
    BY <2>1, <2>2, <2>3
    DEF ProxyInv, DomainsValid, CheckedBefore, RequestsChecked, ClashByOverlap,
        Proxies!RequestAt
<1> QED
  BY <1>1, RequestsStep, DeleteStep DEF Proxies!Next

-----------------------------------------------------------------------------
(* The clean-up of the certificates.                                       *)

\* What a clean-up must leave alone.
InUse(h) == h \in used \ hot /\ stored[h].state = "valid"

\* A row that is there has an id.
RowsNumbered == \A h \in Hash : stored[h] = Cleanup!NoCertificate \/ stored[h].id > 0

\* An entry that came later is hot.
ReadInUse == \A s \in Actor : ~Cleanup!SweepAt(s, "idle")
  => used \ hot \subseteq sweep[s].used

\* A mark on what is in use will be taken back before the deletion.
MarksListed ==
  \A s \in Actor, h \in Hash :
    Cleanup!SweepAt(s, "mark") /\ InUse(h) /\ stored[h].orphaned
      => <<h, stored[h].id>> \in sweep[s].marks

NoneMarked ==
  \A s \in Actor, h \in Hash :
    Cleanup!SweepAt(s, "orphans") /\ InUse(h) => ~stored[h].orphaned

CleanupInv ==
  /\ Cleanup!TypeOK /\ RowsNumbered
  /\ ReadInUse /\ MarksListed /\ NoneMarked

\* What TypeOK and RowsNumbered say of the rows and of the coroutines.
RowsTyped ==
  /\ stored \in [Hash -> Cleanup!Certificate]
  /\ \A h \in Hash : stored[h] = Cleanup!NoCertificate \/ stored[h].id > 0

LEMMA Grows ==
  ASSUME Cleanup!TypeOK, storedChanges' \in {storedChanges, storedChanges + 1}
  PROVE  /\ Cleanup!Certificate \subseteq Cleanup!Certificate'
         /\ Cleanup!Coroutine \subseteq Cleanup!Coroutine'
<1>1. 0..storedChanges \subseteq 0..storedChanges'
        /\ 1..storedChanges \subseteq 1..storedChanges'
  BY DEF Cleanup!TypeOK
<1>2. SUBSET (Hash \X (1..storedChanges)) \subseteq SUBSET (Hash \X (1..storedChanges'))
  BY <1>1
<1> QED
  BY <1>1, <1>2 DEF Cleanup!Certificate, Cleanup!Coroutine

LEMMA RowSet ==
  ASSUME Cleanup!TypeOK, RowsTyped, storedChanges' \in {storedChanges, storedChanges + 1},
         NEW h \in Hash, NEW value \in Cleanup!Certificate',
         value = Cleanup!NoCertificate \/ value.id > 0,
         stored' = [stored EXCEPT ![h] = value]
  PROVE  RowsTyped'
<1>1. stored' \in [Hash -> Cleanup!Certificate']
  BY Grows DEF RowsTyped
<1> QED
  BY <1>1 DEF RowsTyped, Cleanup!NoCertificate

LEMMA RowsStay ==
  ASSUME Cleanup!TypeOK, RowsTyped, storedChanges' \in {storedChanges, storedChanges + 1},
         UNCHANGED stored
  PROVE  RowsTyped'
BY Grows DEF RowsTyped, Cleanup!NoCertificate

LEMMA RowsGo ==
  ASSUME Cleanup!TypeOK, RowsTyped, UNCHANGED storedChanges, NEW hashes \in SUBSET Hash,
         Cleanup!Without(hashes)
  PROVE  RowsTyped'
<1>1. Cleanup!NoCertificate \in Cleanup!Certificate
  BY DEF Cleanup!NoCertificate, Cleanup!Certificate, Cleanup!TypeOK
<1>2. Cleanup!Certificate' = Cleanup!Certificate
  BY DEF Cleanup!Certificate
<1> QED
  BY <1>1, <1>2 DEF RowsTyped, Cleanup!Without, Cleanup!NoCertificate

\* The changes of one field of a row.
LEMMA MarkedRow ==
  ASSUME Cleanup!TypeOK, NEW h \in Hash, NEW mark \in BOOLEAN
  PROVE  LET value == [stored[h] EXCEPT !.orphaned = mark]
         IN  /\ [stored EXCEPT ![h].orphaned = mark] = [stored EXCEPT ![h] = value]
             /\ value \in Cleanup!Certificate
             /\ value.id = stored[h].id /\ value.state = stored[h].state
             /\ value.orphaned = mark
<1>1. stored[h] \in Cleanup!Certificate /\ stored \in [Hash -> Cleanup!Certificate]
  BY DEF Cleanup!TypeOK
<1> QED
  BY <1>1 DEF Cleanup!Certificate

LEMMA SpoiledRow ==
  ASSUME Cleanup!TypeOK, NEW h \in Hash, NEW state \in {"expired", "invalid"}
  PROVE  LET value == [stored[h] EXCEPT !.state = state]
         IN  /\ [stored EXCEPT ![h].state = state] = [stored EXCEPT ![h] = value]
             /\ value \in Cleanup!Certificate
             /\ value.id = stored[h].id /\ value.state = state
<1>1. stored[h] \in Cleanup!Certificate /\ stored \in [Hash -> Cleanup!Certificate]
  BY DEF Cleanup!TypeOK
<1> QED
  BY <1>1 DEF Cleanup!Certificate

\* A coroutine goes on.
LEMMA SweepSet ==
  ASSUME Cleanup!TypeOK, storedChanges' \in {storedChanges, storedChanges + 1},
         NEW s \in Actor, NEW c \in Cleanup!Coroutine', sweep' = [sweep EXCEPT ![s] = c]
  PROVE  sweep' \in [Actor -> Cleanup!Coroutine']
BY Grows DEF Cleanup!TypeOK

LEMMA SweepFields ==
  ASSUME Cleanup!TypeOK, NEW s \in Actor,
         NEW place \in {"idle", "certificates", "mark", "orphans"},
         NEW marks \in SUBSET (Hash \X (1..storedChanges))
  PROVE  LET c == [sweep[s] EXCEPT !.at = place]
             d == [sweep[s] EXCEPT !.marks = marks]
             e == [sweep[s] EXCEPT !.at = place, !.marks = marks]
         IN  /\ [sweep EXCEPT ![s].at = place] = [sweep EXCEPT ![s] = c]
             /\ [sweep EXCEPT ![s].marks = marks] = [sweep EXCEPT ![s] = d]
             /\ [sweep EXCEPT ![s].at = place, ![s].marks = marks] = [sweep EXCEPT ![s] = e]
             /\ c \in Cleanup!Coroutine /\ c.at = place /\ c.used = sweep[s].used
             /\ c.marks = sweep[s].marks
             /\ d \in Cleanup!Coroutine /\ d.at = sweep[s].at /\ d.used = sweep[s].used
             /\ d.marks = marks
             /\ e \in Cleanup!Coroutine /\ e.at = place /\ e.used = sweep[s].used
             /\ e.marks = marks
<1>1. sweep[s] \in Cleanup!Coroutine /\ sweep \in [Actor -> Cleanup!Coroutine]
  BY DEF Cleanup!TypeOK
<1> QED
  BY <1>1 DEF Cleanup!Coroutine

LEMMA NoSweepTyped ==
  /\ Cleanup!NoSweep \in Cleanup!Coroutine
  /\ Cleanup!NoSweep.at = "idle"
  /\ \A h \in SUBSET Hash :
       LET c == [Cleanup!NoSweep EXCEPT !.at = "certificates", !.used = h]
       IN  c \in Cleanup!Coroutine /\ c.at = "certificates" /\ c.used = h
BY DEF Cleanup!NoSweep, Cleanup!Coroutine

LEMMA SetsStep ==
  ASSUME Cleanup!CleanupAssumption, Cleanup!TypeOK, [Cleanup!Next]_(Cleanup!vars)
  PROVE  /\ storedChanges' \in {storedChanges, storedChanges + 1}
         /\ storedChanges' \in 0..MaxStoredChanges
         /\ used' \subseteq Hash /\ hot' \subseteq Hash
<1> USE DEF Cleanup!TypeOK, Cleanup!CleanupAssumption
<1>1. CASE \E h \in Hash : \/ Cleanup!ChangeEntry(h) \/ Cleanup!Save(h) \/ Cleanup!Spoil(h)
                            \/ Cleanup!deleteCertificate(h) \/ Cleanup!Doubt(h)
  BY <1>1
  DEF Cleanup!ChangeEntry, Cleanup!Save, Cleanup!Spoil, Cleanup!deleteCertificate,
      Cleanup!Doubt, Cleanup!Change
<1>4. CASE \E pair \in doubted : Cleanup!MarkDoubted(pair)
  <2>1. PICK pair \in doubted : Cleanup!MarkDoubted(pair)
    BY <1>4
  <2>2. pair[1] \in Hash
    BY <2>1
  <2> QED
    BY <2>1, <2>2 DEF Cleanup!MarkDoubted
<1>2. CASE \E s \in Actor : \/ Cleanup!ReadEntries(s) \/ Cleanup!ReadCertificates(s)
                            \/ Cleanup!Mark(s)
                            \/ Cleanup!DeleteExpired(s) \/ Cleanup!DeleteOrphans(s)
                            \/ Cleanup!Abort(s)
  BY <1>2
  DEF Cleanup!ReadEntries, Cleanup!ReadCertificates, Cleanup!Mark, Cleanup!DeleteExpired,
      Cleanup!DeleteOrphans, Cleanup!Abort, Cleanup!Change, Cleanup!Cool
<1>3. CASE UNCHANGED Cleanup!vars
  BY <1>3 DEF Cleanup!vars
<1> QED
  BY <1>1, <1>2, <1>3, <1>4 DEF Cleanup!Next

\* A doubt is about a row that was there.
LEMMA DoubtsStep ==
  ASSUME Cleanup!CleanupAssumption, Cleanup!TypeOK, RowsTyped, [Cleanup!Next]_(Cleanup!vars)
  PROVE  doubted' \subseteq Hash \X (1..storedChanges')
<1>1. 1..storedChanges \subseteq 1..storedChanges'
  BY SetsStep DEF Cleanup!TypeOK
<1>2. Hash \X (1..storedChanges) \subseteq Hash \X (1..storedChanges')
  BY <1>1
<1>3. ASSUME NEW h \in Hash, Cleanup!Doubt(h)
      PROVE  doubted' \subseteq Hash \X (1..storedChanges)
  <2>1. stored[h].id \in 1..storedChanges
    BY <1>3 DEF Cleanup!Doubt, RowsTyped, Cleanup!Certificate, Cleanup!TypeOK
  <2> QED
    BY <1>3, <2>1 DEF Cleanup!Doubt, Cleanup!TypeOK
<1>4. ASSUME doubted' \subseteq doubted
      PROVE  doubted' \subseteq Hash \X (1..storedChanges)
  BY <1>4 DEF Cleanup!TypeOK
<1>5. doubted' \subseteq Hash \X (1..storedChanges)
  BY <1>3, <1>4
  DEF Cleanup!Next, Cleanup!vars, Cleanup!ChangeEntry, Cleanup!Save, Cleanup!Spoil,
      Cleanup!deleteCertificate, Cleanup!MarkDoubted, Cleanup!ReadEntries,
      Cleanup!ReadCertificates, Cleanup!Mark, Cleanup!DeleteExpired, Cleanup!DeleteOrphans,
      Cleanup!Abort
<1> QED
  BY <1>2, <1>5

LEMMA RowsStep ==
  ASSUME Cleanup!CleanupAssumption, Cleanup!TypeOK, RowsTyped, [Cleanup!Next]_(Cleanup!vars)
  PROVE  RowsTyped'
<1>0. storedChanges' \in {storedChanges, storedChanges + 1}
  BY SetsStep
<1>1. ASSUME NEW h \in Hash, Cleanup!Save(h)
      PROVE  RowsTyped'
  <2> DEFINE value == [id |-> IF stored[h] = Cleanup!NoCertificate THEN storedChanges + 1
                            ELSE stored[h].id,
                     orphaned |-> FALSE, state |-> "valid"]
  <2>1. storedChanges' = storedChanges + 1 /\ stored' = [stored EXCEPT ![h] = value]
    BY <1>1 DEF Cleanup!Save, Cleanup!Change, Cleanup!TypeOK
  <2>2. value.id \in 1..storedChanges' /\ value.id > 0
    BY <2>1 DEF RowsTyped, Cleanup!TypeOK, Cleanup!Certificate
  <2>3. value \in Cleanup!Certificate'
    BY <2>2 DEF Cleanup!Certificate, Cleanup!TypeOK
  <2> HIDE DEF value
  <2> QED
    BY <1>0, <2>1, <2>2, <2>3, RowSet
<1>2. ASSUME NEW h \in Hash, Cleanup!Spoil(h)
      PROVE  RowsTyped'
  <2>1. PICK state \in {"expired", "invalid"} : stored' = [stored EXCEPT ![h].state = state]
    BY <1>2 DEF Cleanup!Spoil
  <2>2. stored[h].id > 0 /\ UNCHANGED storedChanges
    BY <1>2 DEF Cleanup!Spoil, RowsTyped, Cleanup!NoCertificate
  <2> DEFINE value == [stored[h] EXCEPT !.state = state]
  <2>3. stored' = [stored EXCEPT ![h] = value] /\ value \in Cleanup!Certificate'
          /\ value.id > 0
    BY <1>0, <2>1, <2>2, SpoiledRow, Grows
  <2> HIDE DEF value
  <2> QED
    BY <1>0, <2>3, RowSet
<1>3. ASSUME NEW h \in Hash, NEW mark \in BOOLEAN, UNCHANGED storedChanges,
             stored[h] # Cleanup!NoCertificate,
             stored' = [stored EXCEPT ![h].orphaned = mark]
      PROVE  RowsTyped'
  <2> DEFINE value == [stored[h] EXCEPT !.orphaned = mark]
  <2>1. stored' = [stored EXCEPT ![h] = value] /\ value \in Cleanup!Certificate'
          /\ value.id > 0
    BY <1>0, <1>3, MarkedRow, Grows DEF RowsTyped
  <2> HIDE DEF value
  <2> QED
    BY <1>0, <2>1, RowSet
<1>4. ASSUME NEW pair \in doubted, Cleanup!MarkDoubted(pair)
      PROVE  RowsTyped'
  <2>1. pair[1] \in Hash /\ pair[2] > 0
    BY DEF Cleanup!TypeOK
  <2>2. CASE stored[pair[1]].id = pair[2]
    <3>1. stored[pair[1]] # Cleanup!NoCertificate
      BY <2>1, <2>2 DEF Cleanup!NoCertificate
    <3> QED
      BY <1>3, <1>4, <2>1, <2>2, <3>1 DEF Cleanup!MarkDoubted
  <2>3. CASE stored[pair[1]].id # pair[2]
    BY <1>0, <1>4, <2>3, RowsStay DEF Cleanup!MarkDoubted
  <2> QED
    BY <2>2, <2>3
<1>5. ASSUME NEW s \in Actor, Cleanup!Mark(s)
      PROVE  RowsTyped'
  <2>1. PICK pair \in sweep[s].marks :
          LET h == pair[1]
          IN  IF stored[h].id = pair[2]
              THEN stored' = [stored EXCEPT ![h].orphaned = h \notin sweep[s].used]
              ELSE UNCHANGED stored
    BY <1>5 DEF Cleanup!Mark
  <2>2. pair \in Hash \X (1..storedChanges)
    BY DEF Cleanup!TypeOK, Cleanup!Coroutine
  <2>3. CASE stored[pair[1]].id = pair[2]
    <3>1. stored[pair[1]] # Cleanup!NoCertificate
      BY <2>2, <2>3 DEF Cleanup!NoCertificate, Cleanup!TypeOK
    <3> QED
      BY <1>3, <1>5, <2>1, <2>2, <2>3, <3>1 DEF Cleanup!Mark
  <2> QED
    BY <1>0, <2>1, <2>3, RowsStay
<1>6. ASSUME NEW h \in Hash, Cleanup!deleteCertificate(h)
      PROVE  RowsTyped'
  <2>1. Cleanup!NoCertificate \in Cleanup!Certificate'
    BY <1>0 DEF Cleanup!NoCertificate, Cleanup!Certificate, Cleanup!TypeOK
  <2> QED
    BY <1>0, <1>6, <2>1, RowSet DEF Cleanup!deleteCertificate
<1>7. ASSUME NEW s \in Actor, Cleanup!DeleteExpired(s) \/ Cleanup!DeleteOrphans(s)
      PROVE  RowsTyped'
  BY <1>7, RowsGo DEF Cleanup!DeleteExpired, Cleanup!DeleteOrphans
<1>8. ASSUME UNCHANGED stored
      PROVE  RowsTyped'
  BY <1>0, <1>8, RowsStay
<1> QED
  BY <1>1, <1>2, <1>4, <1>5, <1>6, <1>7, <1>8
  DEF Cleanup!Next, Cleanup!vars, Cleanup!ChangeEntry, Cleanup!Doubt, Cleanup!ReadEntries,
      Cleanup!ReadCertificates, Cleanup!Abort

LEMMA SweepStep ==
  ASSUME Cleanup!CleanupAssumption, Cleanup!TypeOK, RowsTyped, [Cleanup!Next]_(Cleanup!vars)
  PROVE  sweep' \in [Actor -> Cleanup!Coroutine']
<1>0. storedChanges' \in {storedChanges, storedChanges + 1}
  BY SetsStep
<1>1. ASSUME NEW s \in Actor, NEW c \in Cleanup!Coroutine, sweep' = [sweep EXCEPT ![s] = c]
      PROVE  sweep' \in [Actor -> Cleanup!Coroutine']
  BY <1>0, <1>1, SweepSet, Grows
<1>2. ASSUME NEW s \in Actor, Cleanup!ReadEntries(s)
      PROVE  sweep' \in [Actor -> Cleanup!Coroutine']
  BY <1>1, <1>2, NoSweepTyped DEF Cleanup!ReadEntries, Cleanup!TypeOK
<1>3. ASSUME NEW s \in Actor, Cleanup!ReadCertificates(s)
      PROVE  sweep' \in [Actor -> Cleanup!Coroutine']
  <2>1. \A h \in Cleanup!Wrong(s) : <<h, stored[h].id>> \in Hash \X (1..storedChanges)
    BY DEF Cleanup!Wrong, RowsTyped, Cleanup!Certificate, Cleanup!TypeOK
  <2> DEFINE marks == {<<h, stored[h].id>> : h \in Cleanup!Wrong(s)}
  <2>2. marks \in SUBSET (Hash \X (1..storedChanges))
    BY <2>1
  <2>3. sweep' = [sweep EXCEPT ![s].at = "mark", ![s].marks = marks]
    BY <1>3 DEF Cleanup!ReadCertificates
  <2> HIDE DEF marks
  <2>4. sweep' = [sweep EXCEPT ![s] = [sweep[s] EXCEPT !.at = "mark", !.marks = marks]]
    BY <2>3 DEF Cleanup!TypeOK
  <2>5. [sweep[s] EXCEPT !.at = "mark", !.marks = marks] \in Cleanup!Coroutine
    BY <2>2, SweepFields
  <2> QED
    BY <1>1, <2>4, <2>5
<1>4. ASSUME NEW s \in Actor, Cleanup!Mark(s)
      PROVE  sweep' \in [Actor -> Cleanup!Coroutine']
  <2>1. \A pair : sweep[s].marks \ {pair} \in SUBSET (Hash \X (1..storedChanges))
    BY DEF Cleanup!TypeOK, Cleanup!Coroutine
  <2>2. \/ \E pair : sweep' = [sweep EXCEPT ![s].marks = @ \ {pair}]
        \/ sweep' = [sweep EXCEPT ![s] = Cleanup!NoSweep]
    BY <1>4 DEF Cleanup!Mark
  <2>3. ASSUME NEW pair, sweep' = [sweep EXCEPT ![s].marks = @ \ {pair}]
        PROVE  sweep' \in [Actor -> Cleanup!Coroutine']
    <3> DEFINE marks == sweep[s].marks \ {pair}
    <3>1. sweep' = [sweep EXCEPT ![s] = [sweep[s] EXCEPT !.marks = marks]]
      BY <2>3 DEF Cleanup!TypeOK
    <3>2. marks \in SUBSET (Hash \X (1..storedChanges))
      BY <2>1
    <3> HIDE DEF marks
    <3>3. [sweep[s] EXCEPT !.marks = marks] \in Cleanup!Coroutine
      BY <3>2, SweepFields
    <3> QED
      BY <1>1, <3>1, <3>3
  <2> QED
    BY <1>1, <2>2, <2>3, NoSweepTyped
<1>5. ASSUME NEW s \in Actor, Cleanup!DeleteExpired(s)
      PROVE  sweep' \in [Actor -> Cleanup!Coroutine']
  <2>1. sweep' = [sweep EXCEPT ![s].at = "orphans"]
          /\ {} \in SUBSET (Hash \X (1..storedChanges))
    BY <1>5 DEF Cleanup!DeleteExpired, Cleanup!Goto
  <2> QED
    BY <1>1, <2>1, SweepFields
<1>6. ASSUME NEW s \in Actor, Cleanup!DeleteOrphans(s) \/ Cleanup!Abort(s)
      PROVE  sweep' \in [Actor -> Cleanup!Coroutine']
  BY <1>1, <1>6, NoSweepTyped DEF Cleanup!DeleteOrphans, Cleanup!Abort
<1>7. ASSUME UNCHANGED sweep
      PROVE  sweep' \in [Actor -> Cleanup!Coroutine']
  BY <1>0, <1>7, Grows DEF Cleanup!TypeOK
<1> QED
  BY <1>2, <1>3, <1>4, <1>5, <1>6, <1>7
  DEF Cleanup!Next, Cleanup!vars, Cleanup!ChangeEntry, Cleanup!Save, Cleanup!Spoil,
      Cleanup!deleteCertificate, Cleanup!Doubt, Cleanup!MarkDoubted

\* Nothing that was read before is acted on.
Idle == \A s \in Actor : Cleanup!SweepAt(s, "idle")

LEMMA EntriesStep ==
  ASSUME Cleanup!TypeOK, [Cleanup!Next]_(Cleanup!vars)
  PROVE  Idle' \/ used' \ hot' \subseteq used \ hot
<1>1. ASSUME NEW h \in Hash, Cleanup!ChangeEntry(h)
      PROVE  Idle' \/ used' \ hot' \subseteq used \ hot
  BY <1>1 DEF Cleanup!ChangeEntry, Idle, Cleanup!SweepAt
<1>2. ASSUME NEW h \in Hash, Cleanup!Save(h)
      PROVE  used' \ hot' \subseteq used \ hot
  BY <1>2 DEF Cleanup!Save
<1>3. ASSUME Cleanup!Cool, UNCHANGED used
      PROVE  Idle' \/ used' \ hot' \subseteq used \ hot
  BY <1>3 DEF Cleanup!Cool, Idle, Cleanup!SweepAt, Cleanup!NoSweep
<1>4. ASSUME UNCHANGED used, hot \subseteq hot'
      PROVE  used' \ hot' \subseteq used \ hot
  BY <1>4
<1> QED
  BY <1>1, <1>2, <1>3, <1>4
  DEF Cleanup!Next, Cleanup!vars, Cleanup!Spoil, Cleanup!deleteCertificate, Cleanup!Doubt,
      Cleanup!MarkDoubted, Cleanup!ReadEntries, Cleanup!ReadCertificates,
      Cleanup!Mark, Cleanup!DeleteExpired, Cleanup!DeleteOrphans, Cleanup!Abort

\* A clean-up goes on, or ends.
SweepMoves(s) ==
  \/ sweep'[s].at = "idle"
  \/ sweep'[s] = sweep[s]
  \/ /\ sweep'[s].at = "certificates" /\ sweep'[s].used = used
     /\ UNCHANGED <<used, hot>>
  \/ /\ Cleanup!SweepAt(s, "certificates") /\ sweep'[s].at = "mark"
     /\ sweep'[s].used = sweep[s].used
     /\ sweep'[s].marks = {<<h, stored[h].id>> : h \in Cleanup!Wrong(s)}
     /\ UNCHANGED stored
  \/ /\ Cleanup!SweepAt(s, "mark") /\ sweep'[s].at = "mark" /\ sweep'[s].used = sweep[s].used
     /\ \E pair \in sweep[s].marks :
          /\ sweep'[s].marks = sweep[s].marks \ {pair}
          /\ ~stored'[pair[1]].orphaned \/ pair[1] \notin sweep[s].used
  \/ /\ Cleanup!SweepAt(s, "mark") /\ sweep[s].marks = {}
     /\ sweep'[s].at = "orphans" /\ sweep'[s].used = sweep[s].used

LEMMA SweepsMove ==
  ASSUME Cleanup!TypeOK, [Cleanup!Next]_(Cleanup!vars)
  PROVE  \A s \in Actor : SweepMoves(s)
<1> SUFFICES ASSUME NEW s \in Actor
             PROVE  SweepMoves(s)
  OBVIOUS
<1>0. sweep \in [Actor -> Cleanup!Coroutine] /\ sweep[s] \in Cleanup!Coroutine
  BY DEF Cleanup!TypeOK
<1>1. ASSUME NEW t \in Actor, NEW c, t # s \/ c = Cleanup!NoSweep,
             sweep' = [sweep EXCEPT ![t] = c]
      PROVE  SweepMoves(s)
  BY <1>0, <1>1, NoSweepTyped DEF SweepMoves
<1>2. ASSUME UNCHANGED sweep
      PROVE  SweepMoves(s)
  BY <1>2 DEF SweepMoves
<1>3. ASSUME NEW t \in Actor, Cleanup!ReadEntries(t)
      PROVE  SweepMoves(s)
  <2> DEFINE c == [Cleanup!NoSweep EXCEPT !.at = "certificates", !.used = used]
  <2>1. sweep' = [sweep EXCEPT ![t] = c] /\ UNCHANGED <<used, hot>>
    BY <1>3 DEF Cleanup!ReadEntries
  <2>2. c.at = "certificates" /\ c.used = used
    BY NoSweepTyped DEF Cleanup!TypeOK
  <2> HIDE DEF c
  <2>3. t = s => sweep'[s] = c
    BY <1>0, <2>1
  <2> QED
    BY <1>1, <2>1, <2>2, <2>3 DEF SweepMoves
<1>4. ASSUME NEW t \in Actor, Cleanup!ReadCertificates(t)
      PROVE  SweepMoves(s)
  <2> DEFINE marks == {<<h, stored[h].id>> : h \in Cleanup!Wrong(t)}
             c == [sweep[t] EXCEPT !.at = "mark", !.marks = marks]
  <2>1. sweep' = [sweep EXCEPT ![t] = c]
    BY <1>0, <1>4 DEF Cleanup!ReadCertificates
  <2>2. sweep[t] \in Cleanup!Coroutine
          => c.at = "mark" /\ c.marks = marks /\ c.used = sweep[t].used
    BY DEF Cleanup!Coroutine
  <2> HIDE DEF c
  <2>3. t = s => sweep'[s] = c
    BY <1>0, <2>1
  <2> QED
    BY <1>0, <1>1, <1>4, <2>1, <2>2, <2>3 DEF SweepMoves, Cleanup!ReadCertificates
<1>5. ASSUME NEW t \in Actor, Cleanup!Mark(t)
      PROVE  SweepMoves(s)
  <2>1. CASE sweep' = [sweep EXCEPT ![t] = Cleanup!NoSweep]
    BY <1>1, <2>1
  <2>2. ASSUME NEW pair \in sweep[t].marks,
               stored' = [stored EXCEPT ![pair[1]].orphaned = pair[1] \notin sweep[t].used],
               sweep' = [sweep EXCEPT ![t].marks = @ \ {pair}]
        PROVE  SweepMoves(s)
    <3> DEFINE c == [sweep[t] EXCEPT !.marks = sweep[t].marks \ {pair}]
    <3>1. sweep' = [sweep EXCEPT ![t] = c]
      BY <1>0, <2>2
    <3>2. c.at = sweep[t].at /\ c.marks = sweep[t].marks \ {pair} /\ c.used = sweep[t].used
      BY DEF Cleanup!Coroutine, Cleanup!TypeOK
    <3> HIDE DEF c
    <3>3. t = s => sweep'[s] = c
      BY <1>0, <3>1
    <3>4. ~stored'[pair[1]].orphaned \/ pair[1] \notin sweep[t].used
      <4>1. pair[1] \in Hash
        BY DEF Cleanup!TypeOK, Cleanup!Coroutine
      <4> QED
        BY <2>2, <4>1, MarkedRow DEF Cleanup!TypeOK
    <3> QED
      BY <1>1, <1>5, <2>2, <3>1, <3>2, <3>3, <3>4
      DEF SweepMoves, Cleanup!Mark, Cleanup!SweepAt
  <2> QED
    BY <1>5, <2>1, <2>2 DEF Cleanup!Mark
<1>6. ASSUME NEW t \in Actor, Cleanup!DeleteExpired(t)
      PROVE  SweepMoves(s)
  <2> DEFINE c == [sweep[t] EXCEPT !.at = "orphans"]
  <2>1. sweep' = [sweep EXCEPT ![t] = c]
    BY <1>0, <1>6 DEF Cleanup!DeleteExpired, Cleanup!Goto
  <2>2. c.at = "orphans" /\ c.marks = sweep[t].marks /\ c.used = sweep[t].used
    BY DEF Cleanup!Coroutine, Cleanup!TypeOK
  <2> HIDE DEF c
  <2>3. t = s => sweep'[s] = c
    BY <1>0, <2>1
  <2> QED
    BY <1>1, <1>6, <2>1, <2>2, <2>3 DEF SweepMoves, Cleanup!DeleteExpired
<1>7. ASSUME NEW t \in Actor, Cleanup!DeleteOrphans(t) \/ Cleanup!Abort(t)
      PROVE  SweepMoves(s)
  BY <1>1, <1>7 DEF Cleanup!DeleteOrphans, Cleanup!Abort
<1> QED
  BY <1>2, <1>3, <1>4, <1>5, <1>6, <1>7
  DEF Cleanup!Next, Cleanup!vars, Cleanup!ChangeEntry, Cleanup!Save, Cleanup!Spoil,
      Cleanup!deleteCertificate, Cleanup!Doubt, Cleanup!MarkDoubted

\* What is in use and marked after a step was so before, or no clean-up has
\* decided yet what to mark and to delete.
LEMMA RowMoves ==
  ASSUME CleanupInv, [Cleanup!Next]_(Cleanup!vars), ~Idle', NEW h \in Hash, InUse(h)',
         stored'[h].orphaned, Cleanup!Decided \/ UNCHANGED stored
  PROVE  InUse(h) /\ stored'[h].id = stored[h].id /\ stored[h].orphaned
<1>0. /\ h \in used \ hot /\ stored \in [Hash -> Cleanup!Certificate]
      /\ stored'[h].state = "valid"
  BY EntriesStep DEF CleanupInv, Cleanup!TypeOK, InUse
<1> USE DEF InUse
<1>1. ASSUME NEW g \in Hash, Cleanup!Save(g)
      PROVE  g # h /\ stored'[h] = stored[h]
  BY <1>0, <1>1 DEF Cleanup!Save
<1>2. ASSUME NEW g \in Hash, Cleanup!Spoil(g)
      PROVE  stored'[h] = stored[h]
  <2>1. PICK state \in {"expired", "invalid"} : stored' = [stored EXCEPT ![g].state = state]
    BY <1>2 DEF Cleanup!Spoil
  <2>2. [stored[g] EXCEPT !.state = state].state = state
    BY <1>0 DEF Cleanup!Certificate
  <2> QED
    BY <1>0, <2>1, <2>2
<1>3. ASSUME NEW g \in Hash, NEW mark \in BOOLEAN, g = h => ~mark,
             stored' = [stored EXCEPT ![g].orphaned = mark]
      PROVE  stored'[h] = stored[h]
  <2>1. [stored[g] EXCEPT !.orphaned = mark].orphaned = mark
    BY <1>0 DEF Cleanup!Certificate
  <2> QED
    BY <1>0, <1>3, <2>1
<1>4. ASSUME NEW pair \in doubted, Cleanup!MarkDoubted(pair)
      PROVE  stored'[h] = stored[h]
  <2>1. CASE stored' = stored
    BY <2>1
  <2>2. CASE /\ stored' = [stored EXCEPT ![pair[1]].orphaned = TRUE]
             /\ hot' = hot \cup {pair[1]}
    BY <1>0, <2>2
  <2> QED
    BY <1>4, <2>1, <2>2 DEF Cleanup!MarkDoubted
<1>5. ASSUME NEW s \in Actor, Cleanup!Mark(s)
      PROVE  stored'[h] = stored[h]
  <2>1. CASE stored' = stored
    BY <2>1
  <2>2. ASSUME NEW pair \in sweep[s].marks,
               stored' = [stored EXCEPT ![pair[1]].orphaned = pair[1] \notin sweep[s].used]
        PROVE  stored'[h] = stored[h]
    <3>1. pair[1] \in Hash /\ h \in sweep[s].used
      BY <1>0, <1>5
      DEF CleanupInv, Cleanup!TypeOK, Cleanup!Coroutine, ReadInUse, Cleanup!Mark,
          Cleanup!SweepAt
    <3> QED
      BY <1>3, <2>2, <3>1
  <2> QED
    BY <1>5, <2>1, <2>2 DEF Cleanup!Mark
<1>6. ASSUME NEW g \in Hash, Cleanup!deleteCertificate(g)
      PROVE  stored'[h] = stored[h]
  BY <1>0, <1>6 DEF Cleanup!deleteCertificate, Cleanup!NoCertificate
<1>7. ASSUME NEW s \in Actor, Cleanup!DeleteExpired(s) \/ Cleanup!DeleteOrphans(s)
      PROVE  stored'[h] = stored[h]
  BY <1>0, <1>7
  DEF Cleanup!DeleteExpired, Cleanup!DeleteOrphans, Cleanup!Without, Cleanup!NoCertificate
<1>8. ASSUME UNCHANGED stored
      PROVE  stored'[h] = stored[h]
  BY <1>8
<1>9. stored'[h] = stored[h]
  BY <1>1, <1>2, <1>4, <1>5, <1>6, <1>7, <1>8
  DEF Cleanup!Next, Cleanup!vars, Cleanup!ChangeEntry, Cleanup!Doubt, Cleanup!ReadEntries,
      Cleanup!ReadCertificates, Cleanup!Abort
<1> QED
  BY <1>0, <1>9

LEMMA CleanupStep ==
  ASSUME Cleanup!CleanupAssumption, CleanupInv, [Cleanup!Next]_(Cleanup!vars)
  PROVE  CleanupInv'
<1>0. Cleanup!TypeOK /\ RowsTyped /\ ReadInUse /\ MarksListed /\ NoneMarked
  BY DEF CleanupInv, RowsTyped, RowsNumbered, Cleanup!TypeOK
<1>1. Cleanup!TypeOK' /\ RowsNumbered'
  BY <1>0, SetsStep, DoubtsStep, RowsStep, SweepStep
  DEF Cleanup!TypeOK, RowsTyped, RowsNumbered
<1>2. CASE Idle'
  BY <1>1, <1>2
  DEF CleanupInv, Idle, Cleanup!SweepAt, ReadInUse, MarksListed, NoneMarked
<1>3. CASE ~Idle'
  <2>0. used' \ hot' \subseteq used \ hot
    BY <1>0, <1>3, EntriesStep
  <2>1. ReadInUse'
    BY <1>0, <2>0, SweepsMove DEF ReadInUse, SweepMoves, Cleanup!SweepAt
  <2>3. MarksListed'
    <3> SUFFICES ASSUME NEW s \in Actor, NEW h \in Hash, Cleanup!SweepAt(s, "mark")',
                        InUse(h)',
                        stored'[h].orphaned
                 PROVE  <<h, stored'[h].id>> \in sweep'[s].marks
      BY DEF MarksListed
    <3>0. Cleanup!Decided \/ UNCHANGED stored
      BY <1>0, SweepsMove DEF SweepMoves, Cleanup!Decided, Cleanup!SweepAt
    <3>1. InUse(h) /\ stored'[h].id = stored[h].id /\ stored[h].orphaned
      BY <1>3, <3>0, RowMoves
    <3>2. ~Cleanup!SweepAt(s, "idle") => h \in sweep[s].used
      BY <1>0, <3>1 DEF ReadInUse, InUse
    <3>3. stored[h] # Cleanup!NoCertificate
      BY <3>1 DEF InUse, Cleanup!NoCertificate
    <3>4. stored[h].orphaned = TRUE
      BY <1>0, <3>1 DEF Cleanup!TypeOK, Cleanup!Certificate
    <3>5. Cleanup!SweepAt(s, "certificates") => h \in Cleanup!Wrong(s)
      BY <3>2, <3>3, <3>4 DEF Cleanup!Wrong, Cleanup!SweepAt
    <3>6. Cleanup!SweepAt(s, "mark") => <<h, stored[h].id>> \in sweep[s].marks
      BY <1>0, <3>1 DEF MarksListed
    <3> QED
      BY <1>0, <3>1, <3>2, <3>5, <3>6, SweepsMove DEF SweepMoves, Cleanup!SweepAt
  <2>4. NoneMarked'
    <3> SUFFICES ASSUME NEW s \in Actor, NEW h \in Hash, Cleanup!SweepAt(s, "orphans")',
                        InUse(h)',
                        stored'[h].orphaned
                 PROVE  FALSE
      BY DEF NoneMarked
    <3>0. Cleanup!Decided
      BY <1>0, SweepsMove DEF SweepMoves, Cleanup!Decided, Cleanup!SweepAt
    <3>1. InUse(h) /\ stored[h].orphaned
      BY <1>3, <3>0, RowMoves
    <3> QED
      BY <1>0, <3>1, SweepsMove DEF SweepMoves, Cleanup!SweepAt, MarksListed, NoneMarked
  <2> QED
    BY <1>1, <2>1, <2>3, <2>4 DEF CleanupInv
<1> QED
  BY <1>2, <1>3

LEMMA CleanupInit ==
  ASSUME Cleanup!CleanupAssumption, Cleanup!Init
  PROVE  CleanupInv
<1>1. storedChanges = 0 /\ 0 \in 0..storedChanges
  BY DEF Cleanup!Init
<1>2. Cleanup!NoCertificate \in Cleanup!Certificate
  BY <1>1 DEF Cleanup!NoCertificate, Cleanup!Certificate
<1>3. stored \in [Hash -> Cleanup!Certificate] /\ sweep \in [Actor -> Cleanup!Coroutine]
  BY <1>2, NoSweepTyped DEF Cleanup!Init
<1>4. Cleanup!TypeOK
  BY <1>1, <1>3 DEF Cleanup!Init, Cleanup!TypeOK, Cleanup!CleanupAssumption
<1> QED
  BY <1>4, NoSweepTyped
  DEF Cleanup!Init, CleanupInv, RowsNumbered, ReadInUse, MarksListed, NoneMarked,
      Cleanup!SweepAt, InUse

\* A valid certificate that is in use stays.
LEMMA UsedStay ==
  ASSUME Cleanup!CleanupAssumption, CleanupInv, [Cleanup!Next]_(Cleanup!vars)
  PROVE  [\A h \in used \ hot :
            stored[h].state = "valid" =>
              stored'[h] # Cleanup!NoCertificate
                \/ Cleanup!deleteCertificate(h)]_(Cleanup!vars)
<1> SUFFICES ASSUME Cleanup!Next, NEW h \in used \ hot, stored[h].state = "valid"
             PROVE  stored'[h] # Cleanup!NoCertificate \/ Cleanup!deleteCertificate(h)
  OBVIOUS
<1>0. /\ h \in Hash /\ stored \in [Hash -> Cleanup!Certificate]
      /\ stored[h] # Cleanup!NoCertificate /\ stored[h].id > 0
  BY DEF CleanupInv, Cleanup!TypeOK, RowsNumbered, Cleanup!NoCertificate
<1>1. ASSUME NEW g \in Hash, Cleanup!Save(g)
      PROVE  stored'[h] # Cleanup!NoCertificate
  <2>1. g = h => stored'[h].state = "valid"
    BY <1>0, <1>1 DEF Cleanup!Save
  <2> QED
    BY <1>0, <1>1, <2>1 DEF Cleanup!Save, Cleanup!NoCertificate
<1>2. ASSUME NEW g \in Hash, NEW mark \in BOOLEAN,
             stored' = [stored EXCEPT ![g].orphaned = mark]
      PROVE  stored'[h] # Cleanup!NoCertificate
  <2>1. stored'[h].state = stored[h].state
    BY <1>0, <1>2 DEF Cleanup!Certificate
  <2> QED
    BY <2>1 DEF Cleanup!NoCertificate
<1>3. ASSUME NEW g \in Hash, Cleanup!Spoil(g)
      PROVE  stored'[h] # Cleanup!NoCertificate
  <2>1. stored'[h].id = stored[h].id
    BY <1>0, <1>3 DEF Cleanup!Spoil, Cleanup!Certificate
  <2> QED
    BY <1>0, <2>1 DEF Cleanup!NoCertificate
<1>4. ASSUME NEW pair \in doubted, Cleanup!MarkDoubted(pair)
      PROVE  stored'[h] # Cleanup!NoCertificate
  <2>1. pair[1] \in Hash
    BY DEF CleanupInv, Cleanup!TypeOK
  <2> QED
    BY <1>0, <1>2, <1>4, <2>1 DEF Cleanup!MarkDoubted
<1>5. ASSUME NEW s \in Actor, Cleanup!Mark(s)
      PROVE  stored'[h] # Cleanup!NoCertificate
  <2>1. \A pair \in sweep[s].marks : pair[1] \in Hash
    BY DEF CleanupInv, Cleanup!TypeOK, Cleanup!Coroutine
  <2> QED
    BY <1>0, <1>2, <1>5, <2>1 DEF Cleanup!Mark
<1>6. ASSUME NEW s \in Actor, Cleanup!DeleteOrphans(s)
      PROVE  stored'[h] # Cleanup!NoCertificate
  <2>1. ~stored[h].orphaned
    BY <1>0, <1>6 DEF CleanupInv, NoneMarked, Cleanup!DeleteOrphans, InUse
  <2> QED
    BY <1>0, <1>6, <2>1 DEF Cleanup!DeleteOrphans, Cleanup!Without
<1>7. ASSUME NEW s \in Actor, Cleanup!DeleteExpired(s)
      PROVE  stored'[h] # Cleanup!NoCertificate
  BY <1>0, <1>7 DEF Cleanup!DeleteExpired, Cleanup!Without
<1>8. ASSUME NEW g \in Hash, Cleanup!deleteCertificate(g)
      PROVE  stored'[h] # Cleanup!NoCertificate \/ Cleanup!deleteCertificate(h)
  BY <1>0, <1>8 DEF Cleanup!deleteCertificate
<1>9. ASSUME UNCHANGED stored
      PROVE  stored'[h] # Cleanup!NoCertificate
  BY <1>0, <1>9
<1> QED
  BY <1>1, <1>3, <1>4, <1>5, <1>6, <1>7, <1>8, <1>9
  DEF Cleanup!Next, Cleanup!ChangeEntry, Cleanup!Doubt, Cleanup!ReadEntries,
      Cleanup!ReadCertificates, Cleanup!Abort

-----------------------------------------------------------------------------
(* The backups: an import without an error leaves nothing out.             *)

\* A record that others have to do with, or whose row is as it should be.
Met(q, cert, rows) ==
  LET s == Backups!Range(cert.domains)
  IN  \/ s \in q.touched
      \/ /\ s \in Backups!DomainSet /\ rows[s] # Backups!NoRow
         /\ q.skipped = 0 => rows[s].pem = cert.pem

\* A record that an import still has to look at, or need not worry about.
Settled(q, cert, rows) ==
  \/ \E j \in 1..Len(q.todo) : q.todo[j] = cert
  \/ Met(q, cert, rows)

\* An import that has found no error so far.
Importing(q) == q.at \in {"look", "create"} /\ q.errors = 0

NothingDropped ==
  \A r \in Actor : Importing(backupRequest[r]) =>
    \A i \in 1..Len(backupRequest[r].data) :
      Settled(backupRequest[r], backupRequest[r].data[i], certificate)

BackupsInv == Backups!TypeOK /\ IsFiniteSet(Backups!Stored) /\ NothingDropped

LEMMA BackupsComplete ==
  ASSUME BackupsInv
  PROVE  Backups!CleanImportIsComplete
<1> SUFFICES ASSUME NEW r \in Actor, Backups!RequestAt(r, "look"),
                    backupRequest[r].todo = <<>>,
                    backupRequest[r].errors = 0,
                    NEW cert \in Backups!Range(backupRequest[r].data)
             PROVE  LET s == Backups!Range(cert.domains)
                    IN  \/ s \in backupRequest[r].touched
                        \/ /\ s \in Backups!Stored
                           /\ backupRequest[r].skipped = 0 => certificate[s].pem = cert.pem
  BY DEF Backups!CleanImportIsComplete
<1>1. backupRequest[r] \in Backups!Coroutine
  BY DEF BackupsInv, Backups!TypeOK
<1>2. backupRequest[r].data \in Seq(Backups!Record)
  BY <1>1 DEF Backups!Coroutine
<1>3. PICK i \in 1..Len(backupRequest[r].data) : cert = backupRequest[r].data[i]
  BY <1>2 DEF Backups!Range
<1>4. Settled(backupRequest[r], cert, certificate)
  BY <1>3 DEF BackupsInv, NothingDropped, Importing, Backups!RequestAt
<1>5. Met(backupRequest[r], cert, certificate)
  BY <1>4 DEF Settled
<1> QED
  BY <1>5 DEF Met, Backups!Stored

LEMMA RecordSet ==
  ASSUME NEW list \in Domains
  PROVE  Backups!Range(list) \in Backups!DomainSet
BY DEF Backups!DomainSet

LEMMA RowsTypes ==
  ASSUME Backups!BackupsAssumption
  PROVE  /\ Backups!NoRow \in Backups!Row /\ Backups!NoFile \in Backups!File
         /\ Backups!NoRequest \in Backups!Coroutine
         /\ Backups!NoRequest.at = "idle" /\ Backups!NoRequest.data = <<>>
         /\ MaxChanges \in Nat
         /\ \A list \in Domains, p \in Backups!Pem :
              /\ [domains |-> list, pem |-> p] \in Backups!Row
              /\ [domains |-> list, pem |-> p] # Backups!NoRow
<1>1. MaxChanges \in Nat /\ 0 \in Backups!Pem
  BY DEF Backups!BackupsAssumption, Backups!Pem
<1>2. <<>> \in Seq(Backups!Record)
  OBVIOUS
<1>3. Backups!NoRow \in Backups!Row
  BY <1>1 DEF Backups!NoRow, Backups!Row
<1>4. Backups!NoFile \in Backups!File
  BY <1>1, <1>2 DEF Backups!NoFile, Backups!File
<1>5. Backups!NoRequest \in Backups!Coroutine /\ Backups!NoRequest.at = "idle"
        /\ Backups!NoRequest.data = <<>>
  BY <1>2 DEF Backups!NoRequest, Backups!Coroutine
<1>6. ASSUME NEW list \in Domains, NEW p \in Backups!Pem
      PROVE  /\ [domains |-> list, pem |-> p] \in Backups!Row
             /\ [domains |-> list, pem |-> p] # Backups!NoRow
  <2>1. list # <<>>
    BY DEF Backups!BackupsAssumption
  <2> QED
    BY <2>1 DEF Backups!Row, Backups!NoRow
<1> QED
  BY <1>1, <1>3, <1>4, <1>5, <1>6

LEMMA BackupsInit ==
  ASSUME Backups!BackupsAssumption, Backups!Init
  PROVE  BackupsInv
<1>1. Backups!Stored = {} /\ \A r \in Actor : backupRequest[r] = Backups!NoRequest
  BY DEF Backups!Init, Backups!Stored
<1>2. Backups!TypeOK
  BY <1>1, RowsTypes DEF Backups!Init, Backups!TypeOK, Backups!RequestAt
<1>3. IsFiniteSet(Backups!Stored)
  BY <1>1, FS_EmptySet
<1>4. NothingDropped
  BY <1>1, RowsTypes DEF NothingDropped, Importing
<1> QED
  BY <1>2, <1>3, <1>4 DEF BackupsInv

\* A certificate is stored: by an import, or by the others.
LEMMA StoreStep ==
  ASSUME Backups!BackupsAssumption, BackupsInv, NEW list \in Domains, NEW p \in Backups!Pem,
         certificate' = [certificate EXCEPT ![Backups!Range(list)] =
                           [domains |-> list, pem |-> p]]
  PROVE  /\ certificate' \in [Backups!DomainSet -> Backups!Row]
         /\ Backups!Range(list) \in Backups!DomainSet
         /\ certificate'[Backups!Range(list)] = [domains |-> list, pem |-> p]
         /\ certificate'[Backups!Range(list)] # Backups!NoRow
         /\ \A s \in Backups!DomainSet : s # Backups!Range(list)
              => certificate'[s] = certificate[s]
         /\ Backups!Stored' = Backups!Stored \cup {Backups!Range(list)}
         /\ IsFiniteSet(Backups!Stored')
         /\ \A s \in Backups!Stored' :
              /\ certificate'[s].domains \in Domains
              /\ Backups!Range(certificate'[s].domains) = s
<1> DEFINE new == [domains |-> list, pem |-> p]
<1>1. Backups!Range(list) \in Backups!DomainSet
  BY RecordSet
<1>2. new \in Backups!Row /\ new # Backups!NoRow /\ new.domains = list
  BY RowsTypes
<1> HIDE DEF new
<1>3. /\ certificate'[Backups!Range(list)] = new
      /\ \A s \in Backups!DomainSet : s # Backups!Range(list)
           => certificate'[s] = certificate[s]
      /\ certificate' \in [Backups!DomainSet -> Backups!Row]
  BY <1>1, <1>2 DEF BackupsInv, Backups!TypeOK, new
<1>4. Backups!Stored' = Backups!Stored \cup {Backups!Range(list)}
  BY <1>1, <1>2, <1>3 DEF Backups!Stored, Backups!DomainSet
<1>5. IsFiniteSet(Backups!Stored')
  BY <1>4, FS_AddElement DEF BackupsInv
<1>6. \A s \in Backups!Stored' :
        /\ certificate'[s].domains \in Domains
        /\ Backups!Range(certificate'[s].domains) = s
  <2> SUFFICES ASSUME NEW s \in Backups!Stored'
               PROVE  /\ certificate'[s].domains \in Domains
                      /\ Backups!Range(certificate'[s].domains) = s
    OBVIOUS
  <2>1. CASE s = Backups!Range(list)
    BY <1>2, <1>3, <2>1
  <2>2. CASE s # Backups!Range(list)
    <3>1. s \in Backups!Stored /\ certificate'[s] = certificate[s]
      BY <1>3, <1>4, <2>2 DEF Backups!Stored
    <3> QED
      BY <3>1 DEF BackupsInv, Backups!TypeOK
  <2> QED
    BY <2>1, <2>2
<1> QED
  BY <1>1, <1>2, <1>3, <1>4, <1>5, <1>6 DEF new

\* Others save or delete a row: every import under way has to do with it.
LEMMA TouchStep ==
  ASSUME Backups!BackupsAssumption, BackupsInv, NEW s \in Backups!DomainSet,
         Backups!Touch(s),
         \A t \in Backups!DomainSet : t # s => certificate'[t] = certificate[t]
  PROVE  /\ backupRequest' \in [Actor -> Backups!Coroutine]
         /\ \A r \in Actor : Backups!RequestAt(r, "create")' => backupRequest'[r].todo # <<>>
         /\ NothingDropped'
<1>0. backupRequest \in [Actor -> Backups!Coroutine]
  BY DEF BackupsInv, Backups!TypeOK
<1>1. ASSUME NEW r \in Actor
      PROVE  \/ backupRequest'[r] = Backups!NoRequest
             \/ /\ backupRequest[r].at # "idle"
                /\ backupRequest'[r] \in Backups!Coroutine
                /\ backupRequest'[r].todo = backupRequest[r].todo
                /\ backupRequest'[r].at = backupRequest[r].at
                /\ backupRequest'[r].data = backupRequest[r].data
                /\ backupRequest'[r].skipped = backupRequest[r].skipped
                /\ backupRequest'[r].errors = backupRequest[r].errors
                /\ backupRequest'[r].touched = backupRequest[r].touched \cup {s}
  <2>1. CASE Backups!RequestAt(r, "idle")
    BY <2>1 DEF Backups!Touch
  <2>2. CASE ~Backups!RequestAt(r, "idle")
    <3>1. backupRequest'[r] = [backupRequest[r] EXCEPT !.touched = @ \cup {s}]
      BY <2>2 DEF Backups!Touch
    <3>2. backupRequest[r] \in Backups!Coroutine
      BY <1>0
    <3> DEFINE q == backupRequest[r]
               after == [q EXCEPT !.touched = @ \cup {s}]
    <3>3. /\ after.todo = q.todo /\ after.at = q.at /\ after.data = q.data
          /\ after.skipped = q.skipped /\ after.errors = q.errors
          /\ after.touched = q.touched \cup {s}
      BY <3>2 DEF Backups!Coroutine
    <3>4. after \in Backups!Coroutine
      BY <3>2 DEF Backups!Coroutine
    <3> QED
      BY <2>2, <3>1, <3>3, <3>4 DEF Backups!RequestAt
  <2> QED
    BY <2>1, <2>2
<1>2. backupRequest' \in [Actor -> Backups!Coroutine]
  <2>1. \A r \in Actor : backupRequest'[r] \in Backups!Coroutine
    BY <1>1, RowsTypes
  <2>2. backupRequest' = [r \in Actor |-> backupRequest'[r]]
    BY DEF Backups!Touch
  <2> QED
    BY <2>1, <2>2
<1>3. \A r \in Actor : Backups!RequestAt(r, "create")' => backupRequest'[r].todo # <<>>
  BY <1>1, RowsTypes DEF BackupsInv, Backups!TypeOK, Backups!RequestAt
<1>4. NothingDropped'
  <2> SUFFICES ASSUME NEW r \in Actor, Importing(backupRequest'[r]),
                      NEW i \in 1..Len(backupRequest'[r].data)
               PROVE  Settled(backupRequest'[r], backupRequest'[r].data[i], certificate')
    BY DEF NothingDropped, Importing
  <2> DEFINE q == backupRequest[r]
             cert == q.data[i]
  <2>1. /\ backupRequest'[r].at = q.at /\ backupRequest'[r].todo = q.todo
        /\ backupRequest'[r].data = q.data /\ backupRequest'[r].skipped = q.skipped
        /\ backupRequest'[r].errors = q.errors
        /\ backupRequest'[r].touched = q.touched \cup {s}
    BY <1>1, RowsTypes DEF Importing
  <2>2. Settled(q, cert, certificate)
    BY <2>1 DEF BackupsInv, NothingDropped, Importing
  <2>3. CASE Met(q, cert, certificate)
    <3>1. Met(backupRequest'[r], cert, certificate')
      BY <2>1, <2>3 DEF Met
    <3> QED
      BY <2>1, <3>1 DEF Settled
  <2>4. CASE \E j \in 1..Len(q.todo) : q.todo[j] = cert
    BY <2>1, <2>4 DEF Settled
  <2> QED
    BY <2>2, <2>3, <2>4 DEF Settled
<1> QED
  BY <1>2, <1>3, <1>4

LEMMA SaveStep ==
  ASSUME Backups!BackupsAssumption, BackupsInv, NEW list \in Domains,
         NEW pem \in Backups!Pem, Backups!Save(list, pem)
  PROVE  BackupsInv'
<1>0. /\ MaxChanges \in Nat /\ changes \in 0..MaxChanges /\ key \in 1..changes + 1
      /\ changes < MaxChanges /\ changes' = changes + 1
      /\ UNCHANGED <<file, key>>
  BY RowsTypes DEF BackupsInv, Backups!TypeOK, Backups!Save, Backups!Change
<1>1. /\ certificate' \in [Backups!DomainSet -> Backups!Row]
      /\ Backups!Range(list) \in Backups!DomainSet
      /\ \A s \in Backups!DomainSet : s # Backups!Range(list)
           => certificate'[s] = certificate[s]
      /\ IsFiniteSet(Backups!Stored')
      /\ \A s \in Backups!Stored' :
           /\ certificate'[s].domains \in Domains
           /\ Backups!Range(certificate'[s].domains) = s
  BY StoreStep DEF Backups!Save
<1>2. /\ backupRequest' \in [Actor -> Backups!Coroutine]
      /\ \A r \in Actor : Backups!RequestAt(r, "create")' => backupRequest'[r].todo # <<>>
      /\ NothingDropped'
  BY <1>1, TouchStep DEF Backups!Save
<1>3. Backups!TypeOK'
  <2>1. changes' \in 0..MaxChanges /\ key' \in 1..changes' + 1
    BY <1>0
  <2>2. file' \in [Name -> Backups!File]
    BY <1>0 DEF BackupsInv, Backups!TypeOK
  <2> QED
    BY <1>1, <1>2, <2>1, <2>2
    DEF Backups!TypeOK, Backups!Row, Backups!Pem, Backups!DomainSet, Backups!File,
        Backups!Record, Backups!Coroutine
<1> QED
  BY <1>1, <1>2, <1>3 DEF BackupsInv

LEMMA DeleteStoredStep ==
  ASSUME Backups!BackupsAssumption, BackupsInv, NEW s \in Backups!DomainSet,
         Backups!Delete(s)
  PROVE  BackupsInv'
<1>0. /\ MaxChanges \in Nat /\ changes \in 0..MaxChanges /\ key \in 1..changes + 1
      /\ changes < MaxChanges /\ changes' = changes + 1 /\ UNCHANGED <<file, key>>
      /\ Backups!NoRow \in Backups!Row
      /\ certificate \in [Backups!DomainSet -> Backups!Row]
  BY RowsTypes DEF BackupsInv, Backups!TypeOK, Backups!Delete, Backups!Change
<1>1. /\ certificate' \in [Backups!DomainSet -> Backups!Row]
      /\ certificate'[s] = Backups!NoRow
      /\ \A t \in Backups!DomainSet : t # s => certificate'[t] = certificate[t]
  BY <1>0 DEF Backups!Delete
<1>2. Backups!Stored' = Backups!Stored \ {s}
  BY <1>1 DEF Backups!Stored, Backups!DomainSet
<1>3. IsFiniteSet(Backups!Stored')
  BY <1>2, FS_RemoveElement DEF BackupsInv
<1>4. \A t \in Backups!Stored' : certificate'[t] = certificate[t]
  BY <1>1, <1>2 DEF Backups!Stored
<1>5. /\ backupRequest' \in [Actor -> Backups!Coroutine]
      /\ \A r \in Actor : Backups!RequestAt(r, "create")' => backupRequest'[r].todo # <<>>
      /\ NothingDropped'
  BY <1>1, TouchStep DEF Backups!Delete
<1>6. Backups!TypeOK'
  <2>1. changes' \in 0..MaxChanges /\ key' \in 1..changes' + 1
    BY <1>0
  <2>2. \A t \in Backups!Stored' :
          /\ certificate'[t].domains \in Domains
          /\ Backups!Range(certificate'[t].domains) = t
    BY <1>2, <1>4 DEF BackupsInv, Backups!TypeOK
  <2>3. file' \in [Name -> Backups!File]
    BY <1>0 DEF BackupsInv, Backups!TypeOK
  <2> QED
    BY <1>1, <1>5, <2>1, <2>2, <2>3
    DEF Backups!TypeOK, Backups!Row, Backups!Pem, Backups!DomainSet, Backups!File,
        Backups!Record, Backups!Coroutine
<1> QED
  BY <1>3, <1>5, <1>6 DEF BackupsInv

\* A request begins, goes on or ends; certificates may be stored.
LEMMA RequestGoesOn ==
  ASSUME Backups!BackupsAssumption, BackupsInv, NEW r \in Actor,
         NEW q \in Backups!Coroutine,
         backupRequest' = [backupRequest EXCEPT ![r] = q], UNCHANGED <<file, key, changes>>,
         q.at = "create" => q.todo # <<>>,
         certificate' \in [Backups!DomainSet -> Backups!Row],
         \A s \in Backups!Stored : certificate'[s] = certificate[s],
         IsFiniteSet(Backups!Stored'),
         \A s \in Backups!Stored' :
           /\ certificate'[s].domains \in Domains
           /\ Backups!Range(certificate'[s].domains) = s,
         Importing(q) => \A i \in 1..Len(q.data) : Settled(q, q.data[i], certificate')
  PROVE  BackupsInv'
<1>1. /\ backupRequest'[r] = q /\ backupRequest' \in [Actor -> Backups!Coroutine]
      /\ \A p \in Actor : p # r => backupRequest'[p] = backupRequest[p]
  BY DEF BackupsInv, Backups!TypeOK
<1>2. Backups!TypeOK'
  <2>1. changes' \in 0..MaxChanges /\ key' \in 1..changes' + 1
          /\ file' \in [Name -> Backups!File]
    BY DEF BackupsInv, Backups!TypeOK
  <2>2. \A p \in Actor : Backups!RequestAt(p, "create")' => backupRequest'[p].todo # <<>>
    BY <1>1 DEF BackupsInv, Backups!TypeOK, Backups!RequestAt
  <2> QED
    BY <1>1, <2>1, <2>2
    DEF Backups!TypeOK, Backups!Row, Backups!Pem, Backups!DomainSet, Backups!File,
        Backups!Record, Backups!Coroutine
<1>3. NothingDropped'
  <2> SUFFICES ASSUME NEW p \in Actor, Importing(backupRequest'[p]),
                      NEW i \in 1..Len(backupRequest'[p].data)
               PROVE  Settled(backupRequest'[p], backupRequest'[p].data[i], certificate')
    BY DEF NothingDropped, Importing
  <2>1. CASE p = r
    BY <1>1, <2>1
  <2>2. CASE p # r
    <3>1. Settled(backupRequest[p], backupRequest[p].data[i], certificate)
      BY <1>1, <2>2 DEF BackupsInv, NothingDropped, Importing
    <3>2. Met(backupRequest[p], backupRequest[p].data[i], certificate)
            => Met(backupRequest[p], backupRequest[p].data[i], certificate')
      BY DEF Met, Backups!Stored
    <3> QED
      BY <1>1, <2>2, <3>1, <3>2 DEF Settled
  <2> QED
    BY <2>1, <2>2
<1> QED
  BY <1>2, <1>3 DEF BackupsInv

\* The certificates stay as they are.
LEMMA RequestOnly ==
  ASSUME Backups!BackupsAssumption, BackupsInv, NEW r \in Actor,
         NEW q \in Backups!Coroutine,
         backupRequest' = [backupRequest EXCEPT ![r] = q],
         UNCHANGED <<certificate, file, key, changes>>,
         q.at = "create" => q.todo # <<>>,
         Importing(q) => \A i \in 1..Len(q.data) : Settled(q, q.data[i], certificate)
  PROVE  BackupsInv'
<1>1. Backups!Stored' = Backups!Stored
  BY DEF Backups!Stored, Backups!DomainSet
<1> QED
  BY <1>1, RequestGoesOn
  DEF BackupsInv, Backups!TypeOK, Backups!DomainSet, Backups!Row, Backups!Pem

\* The first record has been dealt with.
LEMMA DoneWith ==
  ASSUME Backups!BackupsAssumption, NEW q \in Backups!Coroutine, q.todo # <<>>,
         NEW result \in {"imported", "skipped", "error"},
         NEW rows, NEW after,
         Importing(q) => \A i \in 1..Len(q.data) : Settled(q, q.data[i], rows),
         q.at \in {"look", "create"},
         \A s \in Backups!DomainSet : rows[s] # Backups!NoRow => after[s] = rows[s],
         result # "error" =>
           /\ Backups!Range(Head(q.todo).domains) \in Backups!DomainSet
           /\ after[Backups!Range(Head(q.todo).domains)] # Backups!NoRow,
         result = "imported" =>
           after[Backups!Range(Head(q.todo).domains)].pem = Head(q.todo).pem
  PROVE  /\ Backups!Done(q, result) \in Backups!Coroutine
         /\ Backups!Done(q, result).at = "look"
         /\ Importing(Backups!Done(q, result)) =>
              \A i \in 1..Len(Backups!Done(q, result).data) :
                Settled(Backups!Done(q, result), Backups!Done(q, result).data[i], after)
<1> DEFINE d == Backups!Done(q, result)
<1>0. /\ q.todo \in Seq(Backups!Record) /\ q.data \in Seq(Backups!Record)
      /\ q.errors \in 0..1 /\ q.skipped \in 0..1
  BY DEF Backups!Coroutine
<1>1. /\ Tail(q.todo) \in Seq(Backups!Record) /\ Len(Tail(q.todo)) = Len(q.todo) - 1
      /\ \A i \in 1..Len(Tail(q.todo)) : Tail(q.todo)[i] = q.todo[i + 1]
      /\ Len(q.todo) \in Nat
  BY <1>0, HeadTailProperties
<1>2. /\ d.at = "look" /\ d.data = q.data /\ d.todo = Tail(q.todo)
      /\ d.touched = q.touched
      /\ d.skipped = IF result = "skipped" THEN 1 ELSE q.skipped
      /\ d.errors = IF result = "error" THEN 1 ELSE q.errors
  BY DEF Backups!Done, Backups!Coroutine
<1>3. d \in Backups!Coroutine
  <2> DEFINE errors == IF result = "error" THEN 1 ELSE q.errors
             skipped == IF result = "skipped" THEN 1 ELSE q.skipped
             rest == Tail(q.todo)
  <2>1. errors \in 0..1 /\ skipped \in 0..1 /\ rest \in Seq(Backups!Record)
    BY <1>0, <1>1
  <2>2. d = [q EXCEPT !.at = "look", !.todo = rest, !.skipped = skipped, !.errors = errors]
    BY DEF Backups!Done, Backups!Coroutine
  <2> HIDE DEF errors, skipped, rest, d
  <2> QED
    BY <2>1, <2>2 DEF Backups!Coroutine
<1> HIDE DEF d
<1>4. ASSUME Importing(d), NEW i \in 1..Len(d.data)
      PROVE  Settled(d, d.data[i], after)
  <2>1. result # "error" /\ Importing(q) /\ (d.skipped = 0 => q.skipped = 0)
    BY <1>0, <1>2, <1>4 DEF Importing
  <2>2. Settled(q, q.data[i], rows)
    BY <1>2, <1>4, <2>1
  <2>3. CASE Met(q, q.data[i], rows)
    <3>1. Met(d, q.data[i], after)
      BY <1>2, <2>1, <2>3 DEF Met
    <3> QED
      BY <1>2, <3>1 DEF Settled
  <2>4. ASSUME NEW j \in 1..Len(q.todo), q.todo[j] = q.data[i]
        PROVE  Settled(d, d.data[i], after)
    <3>1. CASE j = 1
      <4>1. q.data[i] = Head(q.todo) /\ (result = "imported" \/ d.skipped = 1)
        BY <1>2, <2>1, <2>4, <3>1
      <4>2. Met(d, q.data[i], after)
        BY <2>1, <4>1 DEF Met
      <4> QED
        BY <1>2, <4>2 DEF Settled
    <3>2. CASE j # 1
      <4>1. j - 1 \in 1..Len(Tail(q.todo)) /\ Tail(q.todo)[j - 1] = q.todo[j]
        BY <1>1, <3>2
      <4> QED
        BY <1>2, <2>4, <4>1 DEF Settled
    <3> QED
      BY <3>1, <3>2
  <2> QED
    BY <2>2, <2>3, <2>4 DEF Settled
<1> QED
  BY <1>2, <1>3, <1>4 DEF d

LEMMA OthersSteps ==
  ASSUME Backups!BackupsAssumption, BackupsInv,
         Backups!ChangeKey \/ \E n \in Name : Backups!deleteBackup(n)
  PROVE  BackupsInv'
<1>0. /\ MaxChanges \in Nat /\ changes \in 0..MaxChanges /\ key \in 1..changes + 1
      /\ file \in [Name -> Backups!File] /\ backupRequest \in [Actor -> Backups!Coroutine]
      /\ UNCHANGED certificate
  BY RowsTypes DEF BackupsInv, Backups!TypeOK, Backups!ChangeKey, Backups!deleteBackup
<1>1. Backups!Stored' = Backups!Stored
  BY <1>0 DEF Backups!Stored, Backups!DomainSet
<1>2. /\ certificate' \in [Backups!DomainSet -> Backups!Row] /\ IsFiniteSet(Backups!Stored')
      /\ \A s \in Backups!Stored' :
           /\ certificate'[s].domains \in Domains
           /\ Backups!Range(certificate'[s].domains) = s
  BY <1>0, <1>1 DEF BackupsInv, Backups!TypeOK
<1>3. CASE Backups!ChangeKey
  <2>1. /\ changes' = changes + 1 /\ changes < MaxChanges /\ key' = key + 1
        /\ backupRequest' = [r \in Actor |-> Backups!NoRequest] /\ UNCHANGED file
    BY <1>3 DEF Backups!ChangeKey, Backups!Change
  <2>2. changes' \in 0..MaxChanges /\ key' \in 1..changes' + 1
    BY <1>0, <2>1
  <2>3. \A r \in Actor : backupRequest'[r].at = "idle"
          /\ backupRequest'[r] \in Backups!Coroutine
    BY <2>1, RowsTypes
  <2>4. backupRequest' \in [Actor -> Backups!Coroutine]
    BY <2>1, RowsTypes
  <2>5. Backups!TypeOK'
    BY <1>0, <1>2, <2>1, <2>2, <2>3, <2>4
    DEF Backups!TypeOK, Backups!RequestAt, Backups!Row, Backups!Pem, Backups!DomainSet,
        Backups!File, Backups!Record, Backups!Coroutine
  <2>6. NothingDropped'
    BY <2>3 DEF NothingDropped, Importing
  <2> QED
    BY <1>2, <2>5, <2>6 DEF BackupsInv
<1>4. ASSUME NEW n \in Name, Backups!deleteBackup(n)
      PROVE  BackupsInv'
  <2>1. UNCHANGED <<key, backupRequest, changes>>
          /\ file' = [file EXCEPT ![n] = Backups!NoFile]
    BY <1>4 DEF Backups!deleteBackup
  <2>2. file' \in [Name -> Backups!File]
    BY <1>0, <2>1, RowsTypes
  <2>3. \A r \in Actor : Backups!RequestAt(r, "create")' => backupRequest'[r].todo # <<>>
    BY <2>1 DEF BackupsInv, Backups!TypeOK, Backups!RequestAt
  <2>4. Backups!TypeOK'
    BY <1>0, <1>2, <2>1, <2>2, <2>3
    DEF Backups!TypeOK, Backups!Row, Backups!Pem, Backups!DomainSet, Backups!File,
        Backups!Record, Backups!Coroutine
  <2>5. NothingDropped'
    BY <1>0, <2>1 DEF BackupsInv, NothingDropped, Importing, Settled, Met
  <2> QED
    BY <1>2, <2>4, <2>5 DEF BackupsInv
<1> QED
  BY <1>3, <1>4

\* The count that createBackup's order goes by is the count of rows.
LEMMA SameCount ==
  \A S : Backups!Cardinality(S) = Cardinality(S)
BY DEF Cardinality, Backups!Cardinality

LEMMA BackupStep ==
  ASSUME Backups!BackupsAssumption, BackupsInv, NEW r \in Actor,
         Backups!ReadCertificates(r) \/ \E n \in Name : Backups!WriteBackup(r, n)
  PROVE  BackupsInv'
<1>0. /\ certificate \in [Backups!DomainSet -> Backups!Row]
      /\ file \in [Name -> Backups!File]
      /\ backupRequest \in [Actor -> Backups!Coroutine] /\ changes \in 0..MaxChanges
      /\ key \in 1..changes + 1 /\ MaxChanges \in Nat
  BY RowsTypes DEF BackupsInv, Backups!TypeOK
<1>1. CASE Backups!ReadCertificates(r)
  <2>1. PICK order \in Backups!SetToSeqs(Backups!Stored) :
          backupRequest' = [backupRequest EXCEPT ![r] =
            [Backups!NoRequest EXCEPT !.at = "write",
                              !.data = [i \in DOMAIN order |->
                                 [domains |-> certificate[order[i]].domains,
                                  pem |-> certificate[order[i]].pem,
                                  sound |-> certificate[order[i]].pem # 0]]]]
    BY <1>1 DEF Backups!ReadCertificates
  <2> DEFINE data == [i \in DOMAIN order |->
                       [domains |-> certificate[order[i]].domains,
                        pem |-> certificate[order[i]].pem,
                        sound |-> certificate[order[i]].pem # 0]]
             q == [Backups!NoRequest EXCEPT !.at = "write", !.data = data]
  <2>2. Cardinality(Backups!Stored) \in Nat
    BY FS_CardinalityType DEF BackupsInv
  <2>3. order \in [1..Cardinality(Backups!Stored) -> Backups!Stored]
    BY SameCount DEF Backups!SetToSeqs
  <2>4. \A s \in Backups!Stored : certificate[s].domains \in Domains
          /\ certificate[s].pem \in Backups!Pem
    BY <1>0 DEF BackupsInv, Backups!TypeOK, Backups!Row, Backups!Stored
  <2>5. data \in [1..Cardinality(Backups!Stored) -> Backups!Record]
    BY <2>3, <2>4 DEF Backups!Record
  <2>6. data \in Seq(Backups!Record)
    BY <2>2, <2>5, SeqDef
  <2> HIDE DEF data
  <2>7. q \in Backups!Coroutine /\ q.at = "write"
    BY <2>6, RowsTypes DEF Backups!NoRequest, Backups!Coroutine
  <2>8. backupRequest' = [backupRequest EXCEPT ![r] = q]
          /\ UNCHANGED <<certificate, file, key, changes>>
    BY <1>1, <2>1 DEF Backups!ReadCertificates, data
  <2> HIDE DEF q
  <2> QED
    BY <2>7, <2>8, RequestOnly DEF Importing
<1>2. ASSUME NEW n \in Name, Backups!WriteBackup(r, n)
      PROVE  BackupsInv'
  <2>1. PICK whole \in BOOLEAN :
          /\ file' = [file EXCEPT ![n] =
               [key |-> key, certs |-> backupRequest[r].data, whole |-> whole]]
          /\ backupRequest' = IF whole THEN [backupRequest EXCEPT ![r] = Backups!NoRequest]
                        ELSE [q \in Actor |-> Backups!NoRequest]
    BY <1>2 DEF Backups!WriteBackup
  <2>2. UNCHANGED <<certificate, key, changes>>
    BY <1>2 DEF Backups!WriteBackup
  <2>3. backupRequest[r].data \in Seq(Backups!Record) /\ key \in 0..MaxChanges + 1
    BY <1>0 DEF Backups!Coroutine
  <2>4. [key |-> key, certs |-> backupRequest[r].data, whole |-> whole] \in Backups!File
    BY <2>3 DEF Backups!File
  <2>5. file' \in [Name -> Backups!File]
    BY <1>0, <2>1, <2>4
  <2>6. \A p \in Actor : backupRequest'[p] = backupRequest[p]
          \/ backupRequest'[p] = Backups!NoRequest
    BY <1>0, <2>1
  <2>7. backupRequest' \in [Actor -> Backups!Coroutine]
    BY <1>0, <2>1, RowsTypes
  <2>8. Backups!Stored' = Backups!Stored
    BY <2>2 DEF Backups!Stored, Backups!DomainSet
  <2>9. \A p \in Actor : Backups!RequestAt(p, "create")' => backupRequest'[p].todo # <<>>
    BY <2>6, RowsTypes DEF BackupsInv, Backups!TypeOK, Backups!RequestAt
  <2>10. \A s \in Backups!Stored' :
           /\ certificate'[s].domains \in Domains
           /\ Backups!Range(certificate'[s].domains) = s
    BY <2>2, <2>8 DEF BackupsInv, Backups!TypeOK
  <2>11. Backups!TypeOK'
    BY <1>0, <2>2, <2>5, <2>7, <2>9, <2>10
    DEF Backups!TypeOK, Backups!Row, Backups!Pem, Backups!DomainSet, Backups!File,
        Backups!Record, Backups!Coroutine
  <2>12. NothingDropped'
    <3> SUFFICES ASSUME NEW p \in Actor, Importing(backupRequest'[p]),
                        NEW i \in 1..Len(backupRequest'[p].data)
                 PROVE  Settled(backupRequest'[p], backupRequest'[p].data[i], certificate')
      BY DEF NothingDropped, Importing
    <3>1. backupRequest'[p] = backupRequest[p]
      BY <2>6, RowsTypes DEF Importing
    <3> QED
      BY <2>2, <3>1 DEF BackupsInv, NothingDropped, Importing
  <2> QED
    BY <2>8, <2>11, <2>12 DEF BackupsInv
<1> QED
  BY <1>1, <1>2

LEMMA ImportStep ==
  ASSUME Backups!BackupsAssumption, BackupsInv, NEW r \in Actor,
         \/ Backups!LookFor(r) \/ Backups!Create(r) \/ Backups!Answer(r)
         \/ \E n \in Name : Backups!restoreBackup(r, n)
         \/ \E data \in Sent : Backups!importCertificates(r, data)
  PROVE  BackupsInv'
<1> DEFINE q == backupRequest[r]
           cert == Head(q.todo)
<1>0. /\ certificate \in [Backups!DomainSet -> Backups!Row]
      /\ file \in [Name -> Backups!File]
      /\ backupRequest \in [Actor -> Backups!Coroutine] /\ changes \in 0..MaxChanges
      /\ key \in 1..changes + 1 /\ MaxChanges \in Nat
      /\ q \in Backups!Coroutine /\ q.todo \in Seq(Backups!Record)
      /\ q.at = "create" => q.todo # <<>>
  BY RowsTypes DEF BackupsInv, Backups!TypeOK, Backups!RequestAt, Backups!Coroutine
<1>00. Importing(q) => \A i \in 1..Len(q.data) : Settled(q, q.data[i], certificate)
  BY DEF BackupsInv, NothingDropped
<1>1. ASSUME NEW data \in Seq(Backups!Record), Backups!importCertificates(r, data)
      PROVE  BackupsInv'
  <2> DEFINE new == [Backups!NoRequest EXCEPT !.at = "look", !.data = data, !.todo = data]
  <2>1. new \in Backups!Coroutine /\ new.at = "look" /\ new.data = data /\ new.todo = data
    BY RowsTypes DEF Backups!NoRequest, Backups!Coroutine
  <2>2. backupRequest' = [backupRequest EXCEPT ![r] = new]
          /\ UNCHANGED <<certificate, file, key, changes>>
    BY <1>1 DEF Backups!importCertificates
  <2> HIDE DEF new
  <2>3. \A i \in 1..Len(new.data) : Settled(new, new.data[i], certificate)
    BY <2>1 DEF Settled
  <2> QED
    BY <2>1, <2>2, <2>3, RequestOnly
<1>2. ASSUME NEW n \in Name, Backups!restoreBackup(r, n)
      PROVE  BackupsInv'
  <2>1. file[n].certs \in Seq(Backups!Record)
    BY <1>0 DEF Backups!File
  <2> QED
    BY <1>1, <1>2, <2>1 DEF Backups!restoreBackup
<1>3. CASE Backups!LookFor(r)
  <2>1. /\ q.at = "look" /\ q.todo # <<>> /\ UNCHANGED <<certificate, file, key, changes>>
        /\ backupRequest' = [backupRequest EXCEPT ![r] =
             IF ~cert.sound THEN Backups!Done(q, "error")
             ELSE IF Backups!Exists(cert) THEN Backups!Done(q, "skipped")
             ELSE [q EXCEPT !.at = "create"]]
    BY <1>0, <1>3 DEF Backups!LookFor, Backups!RequestAt
  <2> HIDE DEF q, cert
  <2>2. CASE ~cert.sound
    <3>1. /\ Backups!Done(q, "error") \in Backups!Coroutine
          /\ Backups!Done(q, "error").at = "look"
          /\ Importing(Backups!Done(q, "error")) =>
               \A i \in 1..Len(Backups!Done(q, "error").data) :
                 Settled(Backups!Done(q, "error"), Backups!Done(q, "error").data[i],
                         certificate)
      BY <1>0, <1>00, <2>1, DoneWith
    <3> QED
      BY <2>1, <2>2, <3>1, RequestOnly
  <2>3. CASE cert.sound /\ Backups!Exists(cert)
    <3>1. Backups!Range(cert.domains) \in Backups!DomainSet
            /\ certificate[Backups!Range(cert.domains)] # Backups!NoRow
      BY <2>3 DEF Backups!Exists, Backups!Stored, BackupsInv, Backups!TypeOK
    <3>2. /\ Backups!Done(q, "skipped") \in Backups!Coroutine
          /\ Backups!Done(q, "skipped").at = "look"
          /\ Importing(Backups!Done(q, "skipped")) =>
               \A i \in 1..Len(Backups!Done(q, "skipped").data) :
                 Settled(Backups!Done(q, "skipped"), Backups!Done(q, "skipped").data[i],
                         certificate)
      BY <1>0, <1>00, <2>1, <3>1, DoneWith DEF cert
    <3> QED
      BY <2>1, <2>3, <3>2, RequestOnly
  <2>4. CASE cert.sound /\ ~Backups!Exists(cert)
    <3> DEFINE new == [q EXCEPT !.at = "create"]
    <3>1. /\ new \in Backups!Coroutine /\ new.at = "create" /\ new.todo = q.todo
          /\ new.data = q.data
          /\ new.skipped = q.skipped /\ new.errors = q.errors /\ new.touched = q.touched
      BY <1>0 DEF Backups!Coroutine
    <3>2. backupRequest' = [backupRequest EXCEPT ![r] = new]
      BY <2>1, <2>4
    <3> HIDE DEF new
    <3>3. Importing(new)
            => \A i \in 1..Len(new.data) : Settled(new, new.data[i], certificate)
      BY <1>00, <2>1, <3>1 DEF Importing, Settled, Met
    <3> QED
      BY <2>1, <3>1, <3>2, <3>3, RequestOnly
  <2> QED
    BY <2>2, <2>3, <2>4
<1>4. CASE Backups!Create(r)
  <2> DEFINE s == Backups!Range(cert.domains)
             result == IF s \in Backups!Stored THEN "error" ELSE "imported"
  <2>1. /\ q.at = "create" /\ q.todo # <<>> /\ UNCHANGED <<file, key, changes>>
        /\ certificate' = IF s \in Backups!Stored THEN certificate
                          ELSE [certificate EXCEPT ![s] =
                                  [domains |-> cert.domains, pem |-> cert.pem]]
        /\ backupRequest' = [backupRequest EXCEPT ![r] = Backups!Done(q, result)]
    BY <1>0, <1>4 DEF Backups!Create, Backups!RequestAt
  <2>2. cert \in Backups!Record /\ cert.domains \in Domains /\ cert.pem \in Backups!Pem
    <3>1. cert \in Backups!Record
      BY <1>0, <2>1, HeadTailProperties
    <3> QED
      BY <3>1 DEF Backups!Record
  <2> HIDE DEF q, cert
  <2>3. CASE s \in Backups!Stored
    <3>1. /\ Backups!Done(q, "error") \in Backups!Coroutine
          /\ Backups!Done(q, "error").at = "look"
          /\ Importing(Backups!Done(q, "error")) =>
               \A i \in 1..Len(Backups!Done(q, "error").data) :
                 Settled(Backups!Done(q, "error"), Backups!Done(q, "error").data[i],
                         certificate)
      BY <1>0, <1>00, <2>1, DoneWith
    <3>2. backupRequest' = [backupRequest EXCEPT ![r] = Backups!Done(q, "error")]
            /\ UNCHANGED certificate
      <4>1. Backups!Done(q, result) = Backups!Done(q, "error")
        BY <2>3 DEF Backups!Done
      <4> QED
        BY <2>1, <2>3, <4>1
    <3> QED
      BY <2>1, <3>1, <3>2, RequestOnly
  <2>4. CASE s \notin Backups!Stored
    <3>1. certificate' = [certificate EXCEPT ![Backups!Range(cert.domains)] =
                            [domains |-> cert.domains, pem |-> cert.pem]]
      BY <2>1, <2>4
    <3>2. /\ certificate' \in [Backups!DomainSet -> Backups!Row]
          /\ s \in Backups!DomainSet /\ certificate'[s].pem = cert.pem
          /\ certificate'[s] # Backups!NoRow
          /\ \A t \in Backups!Stored : certificate'[t] = certificate[t]
          /\ IsFiniteSet(Backups!Stored')
          /\ \A t \in Backups!Stored' :
               /\ certificate'[t].domains \in Domains
               /\ Backups!Range(certificate'[t].domains) = t
      BY <2>2, <2>4, <3>1, StoreStep DEF Backups!Stored
    <3>3. /\ Backups!Done(q, "imported") \in Backups!Coroutine
          /\ Backups!Done(q, "imported").at = "look"
          /\ Importing(Backups!Done(q, "imported")) =>
               \A i \in 1..Len(Backups!Done(q, "imported").data) :
                 Settled(Backups!Done(q, "imported"), Backups!Done(q, "imported").data[i],
                         certificate')
      <4>1. s = Backups!Range(Head(q.todo).domains) /\ cert.pem = Head(q.todo).pem
              /\ \A t \in Backups!DomainSet :
                   certificate[t] # Backups!NoRow => certificate'[t] = certificate[t]
        BY <3>2 DEF cert, Backups!Stored
      <4> QED
        BY <1>0, <1>00, <2>1, <3>2, <4>1, DoneWith
    <3>4. backupRequest' = [backupRequest EXCEPT ![r] = Backups!Done(q, "imported")]
      <4>1. Backups!Done(q, result) = Backups!Done(q, "imported")
        BY <2>4 DEF Backups!Done
      <4> QED
        BY <2>1, <4>1
    <3> QED
      BY <2>1, <3>2, <3>3, <3>4, RequestGoesOn
  <2> QED
    BY <2>3, <2>4
<1>5. CASE Backups!Answer(r)
  <2>1. /\ backupRequest' = [backupRequest EXCEPT ![r] = Backups!NoRequest]
        /\ UNCHANGED <<certificate, file, key, changes>>
    BY <1>5 DEF Backups!Answer
  <2> QED
    BY <2>1, RowsTypes, RequestOnly DEF Importing
<1> QED
  BY <1>1, <1>2, <1>3, <1>4, <1>5 DEF Backups!BackupsAssumption

LEMMA BackupsStep ==
  ASSUME Backups!BackupsAssumption, BackupsInv, [Backups!Next]_(Backups!vars)
  PROVE  BackupsInv'
<1>1. CASE UNCHANGED Backups!vars
  <2>1. UNCHANGED <<certificate, file, key, backupRequest, changes>>
    BY <1>1 DEF Backups!vars
  <2>2. Backups!Stored' = Backups!Stored
    BY <2>1 DEF Backups!Stored, Backups!DomainSet
  <2>3. Backups!TypeOK'
    BY <2>1, <2>2
    DEF BackupsInv, Backups!TypeOK, Backups!RequestAt, Backups!Row, Backups!Pem,
        Backups!DomainSet, Backups!File, Backups!Record, Backups!Coroutine
  <2>4. NothingDropped'
    BY <2>1 DEF BackupsInv, NothingDropped, Importing, Settled, Met
  <2> QED
    BY <2>2, <2>3, <2>4 DEF BackupsInv
<1> QED
  BY <1>1, SaveStep, DeleteStoredStep, OthersSteps, BackupStep, ImportStep DEF Backups!Next

-----------------------------------------------------------------------------
(* The entrypoint script.                                                  *)

Places ==
  {"prerequisites", "start-nginx", "record-nginx", "check-nginx", "start-node",
   "record-node", "check-node", "monitor", "recover-node", "recover-nginx",
   "restart-node", "record-new-node", "check-new-node", "restart-nginx",
   "record-new-nginx", "check-new-nginx"}

\* What TypeOK says of the script, of the processes, and of the counts.
ScriptTyped ==
  /\ at \in Places \cup {"stop-node", "stop-nginx", "exited"}
  /\ status \in {-1} \cup Container!Code
  /\ (status = -1) <=> (at # "exited")

OutcomeTyped ==
  /\ code \in Container!Code /\ final \in Container!Code
  /\ stopping \in BOOLEAN /\ hurried \in BOOLEAN

ProcessesTyped ==
  /\ running \subseteq {"node", "child", "other"}
  /\ nodePid \in {"none", "node"} /\ nginxPid \in {"none", "child", "other"}

CountsTyped ==
  /\ attempts \in [{"node", "nginx"} -> 0..RestartMax + 1]
  /\ signals \in 0..MaxSignals

LEMMA TypeParts ==
  /\ Container!TypeOK <=> ScriptTyped /\ OutcomeTyped /\ ProcessesTyped /\ CountsTyped
  /\ (Container!TypeOK <=> ScriptTyped /\ OutcomeTyped /\ ProcessesTyped /\ CountsTyped)'
  BY DEF Container!TypeOK, ScriptTyped, OutcomeTyped, ProcessesTyped, CountsTyped, Places

\* Only a shutdown may find a budget exceeded.
WithinBudget ==
  at \in Places => attempts["node"] <= RestartMax /\ attempts["nginx"] <= RestartMax

\* A shutdown without a failure was asked for.
ShutdownAsked == at \in {"stop-node", "stop-nginx"} /\ final = 0 => signals > 0

\* What the script holds no PID of before it has started it, and what has
\* ended when it stops the other.
PidsKnown ==
  /\ at \in {"prerequisites", "start-nginx", "record-nginx", "check-nginx"}
       => nodePid = "none"
  /\ at \in {"prerequisites", "start-nginx", "record-nginx"} => nginxPid = "none"
  /\ at = "check-nginx" => nginxPid = "child"
  /\ at = "stop-nginx" => nodePid \notin running

ContainerInv == Container!TypeOK /\ WithinBudget /\ ShutdownAsked /\ PidsKnown
  /\ Container!NothingCutOff

\* A process that ended with 0 unasked is a failure too.
LEMMA FailFast ==
  ASSUME ContainerInv, Container!failFast
  PROVE  at' = "stop-node" /\ final' = 1 /\ stopping' = TRUE
<1>1. code \in 0..1
  BY DEF ContainerInv, Container!TypeOK, Container!Code
<1>2. Container!normalize_exit_code(code) = 1
  BY <1>1 DEF Container!normalize_exit_code
<1>3. Container!remember_exit_code(1) = 1
  BY DEF Container!remember_exit_code
<1>4. Container!remember_exit_code(Container!normalize_exit_code(code)) = 1
  BY <1>2, <1>3
<1> QED
  BY <1>4 DEF Container!failFast, Container!request_shutdown, Container!Goto

\* The counts of a budget stay natural numbers.
LEMMA BudgetStep ==
  ASSUME Container!ContainerAssumption, ContainerInv, NEW p \in {"node", "nginx"},
         NEW to \in Places,
         at \in Places, Container!IncrementBudget(p, to)
  PROVE  /\ attempts' \in [{"node", "nginx"} -> 0..RestartMax + 1]
         /\ \/ /\ attempts'["node"] <= RestartMax /\ attempts'["nginx"] <= RestartMax
               /\ at' = to /\ UNCHANGED <<final, stopping>>
            \/ /\ at' = "stop-node" /\ final' = 1 /\ stopping' = TRUE
<1>1. /\ attempts \in [{"node", "nginx"} -> 0..RestartMax + 1]
      /\ attempts["node"] <= RestartMax /\ attempts["nginx"] <= RestartMax
  BY DEF ContainerInv, WithinBudget, Container!TypeOK
<1>2. PICK n \in {attempts[p], 0} :
        /\ attempts' = [attempts EXCEPT ![p] = n + 1]
        /\ IF n + 1 > RestartMax THEN Container!failFast
           ELSE at' = to /\ UNCHANGED <<final, stopping>>
  BY DEF Container!IncrementBudget, Container!Goto
<1>3. n \in 0..RestartMax
  BY <1>1 DEF Container!ContainerAssumption
<1>5. Container!failFast => at' = "stop-node" /\ final' = 1 /\ stopping' = TRUE
  BY FailFast
<1>6. attempts' \in [{"node", "nginx"} -> 0..RestartMax + 1]
  BY <1>1, <1>2, <1>3 DEF Container!ContainerAssumption
<1>7. n + 1 <= RestartMax
        => attempts'["node"] <= RestartMax /\ attempts'["nginx"] <= RestartMax
  BY <1>1, <1>2, <1>3 DEF Container!ContainerAssumption
<1>8. n + 1 > RestartMax \/ n + 1 <= RestartMax
  BY <1>3 DEF Container!ContainerAssumption
<1> QED
  BY <1>2, <1>5, <1>6, <1>7, <1>8

\* A recovery goes on within the budget, or ends the container as a failure.
RecoveryStep ==
  /\ at \in {"recover-node", "recover-nginx", "restart-nginx", "check-new-nginx",
             "check-new-node"}
  /\ attempts' \in [{"node", "nginx"} -> 0..RestartMax + 1]
  /\ \/ /\ attempts'["node"] <= RestartMax /\ attempts'["nginx"] <= RestartMax
        /\ at' \in {"monitor", "restart-node", "restart-nginx"}
        /\ UNCHANGED <<final, stopping>>
     \/ at' = "stop-node" /\ final' = 1 /\ stopping' = TRUE
  /\ nginxPid' \in {nginxPid, "other"}
  /\ UNCHANGED <<running, nodePid, code, status, signals, hurried>>

LEMMA RecoveryMoves ==
  ASSUME Container!ContainerAssumption, ContainerInv,
         Container!recover_node_process \/ Container!recover_nginx_process
           \/ Container!Adopt \/ Container!Recovered
  PROVE  RecoveryStep
<1>0. /\ attempts \in [{"node", "nginx"} -> 0..RestartMax + 1]
      /\ at \in Places => attempts["node"] <= RestartMax /\ attempts["nginx"] <= RestartMax
  BY DEF ContainerInv, WithinBudget, Container!TypeOK
<1>1. \A place \in {"recover-node", "recover-nginx", "restart-node", "restart-nginx",
                    "check-new-nginx", "check-new-node"} : place \in Places
  BY DEF Places
<1>2. CASE Container!recover_node_process
  BY <1>1, <1>2, BudgetStep DEF Container!recover_node_process, RecoveryStep
<1>3. CASE Container!recover_nginx_process
  BY <1>1, <1>3, BudgetStep DEF Container!recover_nginx_process, RecoveryStep
<1>4. CASE Container!Adopt
  <2>1. CASE Container!IncrementBudget("nginx", "restart-nginx")
    BY <1>1, <1>4, <2>1, BudgetStep DEF Container!Adopt, RecoveryStep
  <2>2. CASE /\ attempts' = [attempts EXCEPT !["nginx"] = 0]
             /\ Container!Goto("monitor") /\ UNCHANGED <<final, stopping>>
    BY <1>0, <1>1, <1>4, <2>2
    DEF Container!Adopt, RecoveryStep, Container!Goto, Container!ContainerAssumption
  <2> QED
    BY <1>4, <2>1, <2>2 DEF Container!Adopt
<1>5. CASE Container!Recovered
  <2>1. CASE Container!failFast /\ UNCHANGED attempts
                    /\ at \in {"restart-nginx", "check-new-nginx", "check-new-node"}
    BY <1>0, <1>1, <1>5, <2>1, FailFast DEF Container!Recovered, RecoveryStep
  <2>2. CASE /\ at \in {"check-new-node", "check-new-nginx"}
             /\ \E p \in {"node", "nginx"} : attempts' = [attempts EXCEPT ![p] = 0]
             /\ Container!Goto("monitor") /\ UNCHANGED <<final, stopping>>
    BY <1>0, <1>1, <1>5, <2>2
    DEF Container!Recovered, RecoveryStep, Container!Goto, Container!ContainerAssumption
  <2> QED
    BY <1>5, <2>1, <2>2 DEF Container!Recovered
<1> QED
  BY <1>2, <1>3, <1>4, <1>5

LEMMA ContainerStep ==
  ASSUME Container!ContainerAssumption, ContainerInv, [Container!Next]_(Container!vars)
  PROVE  ContainerInv'
<1>1. ASSUME NEW p \in {"node", "child", "other"}, Container!End(p) \/ Container!Upgrade
      PROVE  ContainerInv'
  <2> USE <1>1 DEF ContainerInv, Container!End, Container!Upgrade, Container!Alive
  <2>1. Container!TypeOK'
    <3> USE TypeParts
        DEF ScriptTyped, OutcomeTyped, ProcessesTyped, CountsTyped, Places, Container!Code
    <3>1. ScriptTyped'
      OBVIOUS
    <3>2. OutcomeTyped'
      OBVIOUS
    <3>3. ProcessesTyped'
      OBVIOUS
    <3>4. CountsTyped'
      OBVIOUS
    <3> HIDE DEF ScriptTyped, OutcomeTyped, ProcessesTyped, CountsTyped
    <3> QED
      BY <3>1, <3>2, <3>3, <3>4
  <2>2. WithinBudget'
    BY DEF WithinBudget, Places
  <2>3. ShutdownAsked'
    BY DEF ShutdownAsked, Container!TypeOK
  <2>4. PidsKnown'
    BY DEF PidsKnown, Container!TypeOK
  <2>5. Container!NothingCutOff'
    BY DEF Container!NothingCutOff, PidsKnown, Container!TypeOK
  <2> QED
    BY <2>1, <2>2, <2>3, <2>4, <2>5
<1>2. ASSUME Container!handle_signal
      PROVE  ContainerInv'
  <2> USE <1>2
      DEF ContainerInv, Container!handle_signal, Container!Alive,
          Container!request_shutdown, Container!remember_exit_code, Container!Goto,
          Container!Exit, Container!ContainerAssumption
  <2>1. Container!TypeOK'
    <3> USE TypeParts
        DEF ScriptTyped, OutcomeTyped, ProcessesTyped, CountsTyped, Places, Container!Code
    <3>1. ScriptTyped'
      OBVIOUS
    <3>2. OutcomeTyped'
      OBVIOUS
    <3>3. ProcessesTyped'
      OBVIOUS
    <3>4. CountsTyped'
      OBVIOUS
    <3> HIDE DEF ScriptTyped, OutcomeTyped, ProcessesTyped, CountsTyped
    <3> QED
      BY <3>1, <3>2, <3>3, <3>4
  <2>2. WithinBudget'
    BY DEF WithinBudget, Places
  <2>3. ShutdownAsked'
    BY DEF ShutdownAsked, Container!TypeOK
  <2>4. PidsKnown'
    BY DEF PidsKnown, Container!TypeOK
  <2>5. Container!NothingCutOff'
    BY DEF Container!NothingCutOff, PidsKnown, Container!TypeOK
  <2> QED
    BY <2>1, <2>2, <2>3, <2>4, <2>5
<1>3. ASSUME Container!verify_prerequisites \/ Container!CheckNginx
      PROVE  ContainerInv'
  <2> USE <1>3
      DEF ContainerInv, Container!verify_prerequisites, Container!CheckNginx,
          Container!Goto, Container!Exit
  <2>1. Container!TypeOK'
    <3> USE TypeParts
        DEF ScriptTyped, OutcomeTyped, ProcessesTyped, CountsTyped, Places, Container!Code
    <3>1. ScriptTyped'
      OBVIOUS
    <3>2. OutcomeTyped'
      OBVIOUS
    <3>3. ProcessesTyped'
      OBVIOUS
    <3>4. CountsTyped'
      OBVIOUS
    <3> HIDE DEF ScriptTyped, OutcomeTyped, ProcessesTyped, CountsTyped
    <3> QED
      BY <3>1, <3>2, <3>3, <3>4
  <2>2. WithinBudget'
    BY DEF WithinBudget, Places
  <2>3. ShutdownAsked'
    BY DEF ShutdownAsked, Container!TypeOK
  <2>4. PidsKnown'
    BY DEF PidsKnown, Container!TypeOK
  <2>5. Container!NothingCutOff'
    BY DEF Container!NothingCutOff, PidsKnown, Container!TypeOK
  <2> QED
    BY <2>1, <2>2, <2>3, <2>4, <2>5
<1>4. ASSUME Container!CheckNode
      PROVE  ContainerInv'
  <2> USE <1>4
      DEF ContainerInv, Container!CheckNode, Container!Goto, Container!request_shutdown,
          Container!remember_exit_code
  <2>1. Container!TypeOK'
    <3> USE TypeParts
        DEF ScriptTyped, OutcomeTyped, ProcessesTyped, CountsTyped, Places, Container!Code
    <3>1. ScriptTyped'
      OBVIOUS
    <3>2. OutcomeTyped'
      <4>1. code' \in Container!Code /\ final' \in Container!Code
        OBVIOUS
      <4>2. stopping' \in BOOLEAN /\ hurried' \in BOOLEAN
        OBVIOUS
      <4> QED
        BY <4>1, <4>2
    <3>3. ProcessesTyped'
      OBVIOUS
    <3>4. CountsTyped'
      OBVIOUS
    <3> HIDE DEF ScriptTyped, OutcomeTyped, ProcessesTyped, CountsTyped
    <3> QED
      BY <3>1, <3>2, <3>3, <3>4
  <2>2. WithinBudget'
    BY DEF WithinBudget, Places
  <2>3. ShutdownAsked'
    BY DEF ShutdownAsked, Container!TypeOK
  <2>4. PidsKnown'
    BY DEF PidsKnown, Container!TypeOK
  <2>5. Container!NothingCutOff'
    BY DEF Container!NothingCutOff, PidsKnown, Container!TypeOK
  <2> QED
    BY <2>1, <2>2, <2>3, <2>4, <2>5
<1>5. ASSUME Container!StartNginx \/ Container!StartNode
      PROVE  ContainerInv'
  <2> USE <1>5
      DEF ContainerInv, Container!StartNginx, Container!StartNode, Container!Start,
          Container!Goto
  <2>1. Container!TypeOK'
    <3> USE TypeParts
        DEF ScriptTyped, OutcomeTyped, ProcessesTyped, CountsTyped, Places, Container!Code
    <3>1. ScriptTyped'
      OBVIOUS
    <3>2. OutcomeTyped'
      OBVIOUS
    <3>3. ProcessesTyped'
      OBVIOUS
    <3>4. CountsTyped'
      OBVIOUS
    <3> HIDE DEF ScriptTyped, OutcomeTyped, ProcessesTyped, CountsTyped
    <3> QED
      BY <3>1, <3>2, <3>3, <3>4
  <2>2. WithinBudget'
    BY DEF WithinBudget, Places
  <2>3. ShutdownAsked'
    BY DEF ShutdownAsked, Container!TypeOK
  <2>4. PidsKnown'
    BY DEF PidsKnown, Container!TypeOK
  <2>5. Container!NothingCutOff'
    BY DEF Container!NothingCutOff, PidsKnown, Container!TypeOK
  <2> QED
    BY <2>1, <2>2, <2>3, <2>4, <2>5
<1>6. ASSUME Container!RecordPid
      PROVE  ContainerInv'
  <2> USE <1>6 DEF ContainerInv, Container!RecordPid, Container!Record, Container!Goto
  <2>1. Container!TypeOK'
    <3> USE TypeParts
        DEF ScriptTyped, OutcomeTyped, ProcessesTyped, CountsTyped, Places, Container!Code
    <3>1. ScriptTyped'
      OBVIOUS
    <3>2. OutcomeTyped'
      OBVIOUS
    <3>3. ProcessesTyped'
      OBVIOUS
    <3>4. CountsTyped'
      OBVIOUS
    <3> HIDE DEF ScriptTyped, OutcomeTyped, ProcessesTyped, CountsTyped
    <3> QED
      BY <3>1, <3>2, <3>3, <3>4
  <2>2. WithinBudget'
    BY DEF WithinBudget, Places
  <2>3. ShutdownAsked'
    BY DEF ShutdownAsked, Container!TypeOK
  <2>4. PidsKnown'
    BY DEF PidsKnown, Container!TypeOK
  <2>5. Container!NothingCutOff'
    BY DEF Container!NothingCutOff, PidsKnown, Container!TypeOK
  <2> QED
    BY <2>1, <2>2, <2>3, <2>4, <2>5
<1>7. ASSUME Container!NodeEnded \/ Container!NginxEnded
      PROVE  ContainerInv'
  <2> USE <1>7 DEF ContainerInv, Container!NodeEnded, Container!NginxEnded, Container!Goto
  <2>1. Container!TypeOK'
    <3> USE TypeParts
        DEF ScriptTyped, OutcomeTyped, ProcessesTyped, CountsTyped, Places, Container!Code
    <3>1. ScriptTyped'
      OBVIOUS
    <3>2. OutcomeTyped'
      OBVIOUS
    <3>3. ProcessesTyped'
      OBVIOUS
    <3>4. CountsTyped'
      OBVIOUS
    <3> HIDE DEF ScriptTyped, OutcomeTyped, ProcessesTyped, CountsTyped
    <3> QED
      BY <3>1, <3>2, <3>3, <3>4
  <2>2. WithinBudget'
    BY DEF WithinBudget, Places
  <2>3. ShutdownAsked'
    BY DEF ShutdownAsked, Container!TypeOK
  <2>4. PidsKnown'
    BY DEF PidsKnown, Container!TypeOK
  <2>5. Container!NothingCutOff'
    BY DEF Container!NothingCutOff, PidsKnown, Container!TypeOK
  <2> QED
    BY <2>1, <2>2, <2>3, <2>4, <2>5
<1>8. ASSUME Container!StopNode \/ Container!StopNginx
      PROVE  ContainerInv'
  <2> USE <1>8
      DEF ContainerInv, Container!StopNode, Container!StopNginx, Container!Goto,
          Container!Exit
  <2>1. Container!TypeOK'
    <3> USE TypeParts
        DEF ScriptTyped, OutcomeTyped, ProcessesTyped, CountsTyped, Places, Container!Code
    <3>1. ScriptTyped'
      OBVIOUS
    <3>2. OutcomeTyped'
      OBVIOUS
    <3>3. ProcessesTyped'
      OBVIOUS
    <3>4. CountsTyped'
      OBVIOUS
    <3> HIDE DEF ScriptTyped, OutcomeTyped, ProcessesTyped, CountsTyped
    <3> QED
      BY <3>1, <3>2, <3>3, <3>4
  <2>2. WithinBudget'
    BY DEF WithinBudget, Places
  <2>3. ShutdownAsked'
    BY DEF ShutdownAsked, Container!TypeOK
  <2>4. PidsKnown'
    BY DEF PidsKnown, Container!TypeOK
  <2>5. Container!NothingCutOff'
    BY DEF Container!NothingCutOff, PidsKnown, Container!TypeOK
  <2> QED
    BY <2>1, <2>2, <2>3, <2>4, <2>5
<1>9. ASSUME UNCHANGED Container!vars
      PROVE  ContainerInv'
  <2> USE <1>9 DEF ContainerInv, Container!vars
  <2>1. Container!TypeOK'
    <3> USE TypeParts
        DEF ScriptTyped, OutcomeTyped, ProcessesTyped, CountsTyped, Places, Container!Code
    <3>1. ScriptTyped'
      OBVIOUS
    <3>2. OutcomeTyped'
      OBVIOUS
    <3>3. ProcessesTyped'
      OBVIOUS
    <3>4. CountsTyped'
      OBVIOUS
    <3> HIDE DEF ScriptTyped, OutcomeTyped, ProcessesTyped, CountsTyped
    <3> QED
      BY <3>1, <3>2, <3>3, <3>4
  <2>2. WithinBudget'
    BY DEF WithinBudget, Places
  <2>3. ShutdownAsked'
    BY DEF ShutdownAsked, Container!TypeOK
  <2>4. PidsKnown'
    BY DEF PidsKnown, Container!TypeOK
  <2>5. Container!NothingCutOff'
    BY DEF Container!NothingCutOff, PidsKnown, Container!TypeOK
  <2> QED
    BY <2>1, <2>2, <2>3, <2>4, <2>5
<1>10. ASSUME Container!recover_node_process \/ Container!recover_nginx_process
                \/ Container!Adopt \/ Container!Recovered
      PROVE  ContainerInv'
  <2>1. RecoveryStep
    BY <1>10, RecoveryMoves
  <2> USE <2>1 DEF ContainerInv, RecoveryStep
  <2>2. Container!TypeOK'
    <3> USE TypeParts
        DEF ScriptTyped, OutcomeTyped, ProcessesTyped, CountsTyped, Places, Container!Code
    <3>1. ScriptTyped'
      OBVIOUS
    <3>2. OutcomeTyped'
      <4>1. code' \in Container!Code /\ final' \in Container!Code
        OBVIOUS
      <4>2. stopping' \in BOOLEAN /\ hurried' \in BOOLEAN
        OBVIOUS
      <4> QED
        BY <4>1, <4>2
    <3>3. ProcessesTyped'
      OBVIOUS
    <3>4. CountsTyped'
      OBVIOUS
    <3> HIDE DEF ScriptTyped, OutcomeTyped, ProcessesTyped, CountsTyped
    <3> QED
      BY <3>1, <3>2, <3>3, <3>4
  <2>3. WithinBudget'
    BY DEF WithinBudget, Places
  <2>4. ShutdownAsked'
    BY DEF ShutdownAsked
  <2>5. PidsKnown'
    BY DEF PidsKnown
  <2>6. Container!NothingCutOff'
    BY DEF Container!NothingCutOff, Container!TypeOK
  <2> QED
    BY <2>2, <2>3, <2>4, <2>5, <2>6
<1> QED
  BY <1>1, <1>2, <1>3, <1>4, <1>5, <1>6, <1>7, <1>8, <1>9, <1>10 DEF Container!Next

LEMMA ContainerInit ==
  ASSUME Container!ContainerAssumption, Container!Init
  PROVE  ContainerInv
<1>1. ScriptTyped
  BY DEF Container!Init, ScriptTyped, Places, Container!Code
<1>2. OutcomeTyped
  <2>1. code \in Container!Code /\ final \in Container!Code
    BY DEF Container!Init, Container!Code
  <2> QED
    BY <2>1 DEF Container!Init, OutcomeTyped
<1>3. ProcessesTyped
  BY DEF Container!Init, ProcessesTyped
<1>4. CountsTyped
  BY DEF Container!ContainerAssumption, Container!Init, CountsTyped
<1>5. WithinBudget
  BY DEF Container!ContainerAssumption, Container!Init, WithinBudget
<1>6. ShutdownAsked /\ PidsKnown /\ Container!NothingCutOff
  BY DEF Container!Init, ShutdownAsked, PidsKnown, Container!NothingCutOff
<1> QED
  BY <1>1, <1>2, <1>3, <1>4, <1>5, <1>6, TypeParts DEF ContainerInv

\* A step that ends the container with 0.
LEMMA ZeroStep ==
  ASSUME Container!ContainerAssumption, ContainerInv, [Container!Next]_(Container!vars)
  PROVE  [status' = 0 => final = 0 /\ signals' > 0]_(Container!vars)
<1> SUFFICES ASSUME Container!Next, status' = 0
             PROVE  final = 0 /\ signals' > 0
  OBVIOUS
<1>1. /\ status \in {-1, 0, 1} /\ final \in {0, 1} /\ signals \in Nat
      /\ status # -1 <=> at = "exited"
  BY DEF ContainerInv, Container!TypeOK, Container!Code, Container!ContainerAssumption
<1>2. CASE Container!handle_signal
  <2>1. stopping /\ status' = final' /\ final' = Container!remember_exit_code(0)
          /\ signals' = signals + 1
    BY <1>1, <1>2 DEF Container!handle_signal, Container!Exit, Container!Alive
  <2> QED
    BY <1>1, <2>1 DEF Container!remember_exit_code
<1>3. CASE Container!StopNginx
  BY <1>1, <1>3 DEF Container!StopNginx, Container!Exit, ContainerInv, ShutdownAsked
<1>4. CASE Container!verify_prerequisites \/ Container!CheckNginx
  BY <1>1, <1>4 DEF Container!verify_prerequisites, Container!CheckNginx, Container!Exit
<1>5. CASE Container!StartNginx \/ Container!StartNode \/ Container!RecordPid
  BY <1>1, <1>5
  DEF Container!StartNginx, Container!StartNode, Container!Start, Container!RecordPid,
      Container!Record
<1>6. CASE Container!CheckNode \/ Container!NodeEnded \/ Container!NginxEnded
             \/ Container!StopNode
  BY <1>1, <1>6
  DEF Container!CheckNode, Container!NodeEnded, Container!NginxEnded, Container!StopNode
<1>7. CASE Container!recover_node_process \/ Container!Adopt
             \/ Container!recover_nginx_process \/ Container!Recovered
  <2>1. RecoveryStep
    BY <1>7, RecoveryMoves
  <2> QED
    BY <1>1, <2>1 DEF RecoveryStep
<1>8. CASE (\E p \in {"node", "child", "other"} : Container!End(p)) \/ Container!Upgrade
  BY <1>8 DEF Container!End, Container!Upgrade, Container!Alive
<1> QED
  BY <1>2, <1>3, <1>4, <1>5, <1>6, <1>7, <1>8 DEF Container!Next

-----------------------------------------------------------------------------
(* The advisory locks: types, and what queries do to sessions.             *)

\* A caller gives up with its last retry.
Trying(place) == place \in {"acquire", "acquired", "denied"}
RetriesLeft == \A w \in Caller : Trying(caller[w]) => retries[w] < MaxRetries

\* A query changes what one session holds.
Sets(p, c, n) == session' = [session EXCEPT ![p][c] = n]

LEMMA SessionSet ==
  ASSUME Locks!TypeOK, NEW p \in Process, NEW c \in Connection, NEW n \in 0 .. MaxHolds,
         Sets(p, c, n)
  PROVE  /\ session' \in [Process -> [Connection -> 0 .. MaxHolds]]
         /\ session'[p][c] = n
         /\ \A q \in Process, d \in Connection :
              q # p \/ d # c => session'[q][d] = session[q][d]
<1>1. session[p] \in [Connection -> 0 .. MaxHolds]
  BY DEF Locks!TypeOK
<1>2. [session[p] EXCEPT ![c] = n] \in [Connection -> 0 .. MaxHolds]
  BY <1>1
<1>3. session' = [session EXCEPT ![p] = [session[p] EXCEPT ![c] = n]]
  BY DEF Sets, Locks!TypeOK
<1> QED
  BY <1>1, <1>2, <1>3 DEF Locks!TypeOK

\* A query that gets the lock counts it, an unlock takes one back.
LEMMA QueryCounts ==
  ASSUME Locks!LockAssumption, Locks!TypeOK, NEW w \in Caller, NEW c \in Connection,
         Locks!Query(w, c)
  PROVE  \/ UNCHANGED session /\ Locks!Goto(w, "acquire", "denied")
         \/ /\ Locks!Free(<<ProcessOf[w], c>>) /\ Locks!Goto(w, "acquire", "acquired")
            /\ session[ProcessOf[w]][c] + 1 \in 0 .. MaxHolds
            /\ Sets(ProcessOf[w], c, session[ProcessOf[w]][c] + 1)
<1>1. ProcessOf[w] \in Process
  BY DEF Locks!LockAssumption
<1>2. session[ProcessOf[w]][c] \in 0 .. MaxHolds
  BY <1>1 DEF Locks!TypeOK
<1> QED
  BY <1>2 DEF Locks!Query, Locks!LockAssumption, Sets

LEMMA UnlockCounts ==
  ASSUME Locks!LockAssumption, Locks!TypeOK, NEW w \in Caller, NEW c \in Connection,
         Locks!Unlock(w, c)
  PROVE  \E n \in 0 .. MaxHolds :
           /\ Sets(ProcessOf[w], c, n)
           /\ n = IF session[ProcessOf[w]][c] > 0 THEN session[ProcessOf[w]][c] - 1 ELSE 0
<1>1. ProcessOf[w] \in Process
  BY DEF Locks!LockAssumption
<1>2. session[ProcessOf[w]][c] \in 0 .. MaxHolds
  BY <1>1 DEF Locks!TypeOK
<1> DEFINE n == IF session[ProcessOf[w]][c] > 0 THEN session[ProcessOf[w]][c] - 1 ELSE 0
<1>3. n \in 0 .. MaxHolds
  BY <1>2 DEF Locks!LockAssumption
<1>4. Sets(ProcessOf[w], c, n)
  BY DEF Locks!Unlock, Sets
<1> QED
  BY <1>3, <1>4

LEMMA LocksTypeStep ==
  ASSUME Locks!LockAssumption, Locks!TypeOK, RetriesLeft, [Locks!Next]_(Locks!vars)
  PROVE  Locks!TypeOK' /\ RetriesLeft'
<1> USE DEF Locks!LockAssumption
<1>1. ASSUME NEW w \in Caller,
             Locks!withLock(w) \/ Locks!Enter(w) \/ Locks!releaseLock(w) \/ Locks!Forget(w)
               \/ Locks!releaseAllLocks(w)
      PROVE  Locks!TypeOK' /\ RetriesLeft'
  <2>1. CASE Locks!withLock(w)
    BY <2>1 DEF Locks!withLock, Locks!Goto, Locks!TypeOK, RetriesLeft, Trying
  <2>2. CASE Locks!Enter(w)
    BY <2>2 DEF Locks!Enter, Locks!Goto, Locks!GiveBack, Locks!TypeOK, RetriesLeft, Trying
  <2>3. CASE Locks!releaseLock(w)
    BY <2>3 DEF Locks!releaseLock, Locks!Goto, Locks!TypeOK, RetriesLeft, Trying
  <2>4. CASE Locks!Forget(w)
    BY <2>4 DEF Locks!Forget, Locks!Goto, Locks!GiveBack, Locks!TypeOK, RetriesLeft, Trying
  <2>5. CASE Locks!releaseAllLocks(w)
    <3>1. losses' \in 0 .. MaxLosses /\ exposed' \subseteq Process
      BY <2>5 DEF Locks!releaseAllLocks, Locks!TypeOK
    <3>2. RetriesLeft'
      BY <2>5 DEF Locks!releaseAllLocks, Locks!Goto, Locks!TypeOK, RetriesLeft, Trying
    <3> QED
      BY <2>5, <3>1, <3>2 DEF Locks!releaseAllLocks, Locks!Goto, Locks!TypeOK
  <2> QED
    BY <1>1, <2>1, <2>2, <2>3, <2>4, <2>5
<1>2. ASSUME NEW w \in Caller, Locks!Retry(w) PROVE Locks!TypeOK' /\ RetriesLeft'
  <2>1. retries[w] \in Nat /\ retries[w] < MaxRetries
    BY <1>2 DEF Locks!Retry, Locks!Goto, Locks!TypeOK, RetriesLeft, Trying
  <2>2. retries' \in [Caller -> 0 .. MaxRetries]
    BY <1>2, <2>1 DEF Locks!Retry, Locks!TypeOK
  <2>3. Trying(caller'[w]) => retries'[w] < MaxRetries
    BY <1>2, <2>1 DEF Locks!Retry, Locks!Goto, Locks!TypeOK, Trying
  <2> QED
    BY <1>2, <2>2, <2>3
    DEF Locks!Retry, Locks!Goto, Locks!GiveBack, Locks!TypeOK, RetriesLeft, Trying
<1>3. ASSUME NEW w \in Caller, NEW c \in Connection, Locks!Query(w, c)
      PROVE  Locks!TypeOK' /\ RetriesLeft'
  <2>1. session' \in [Process -> [Connection -> 0 .. MaxHolds]]
    BY <1>3, QueryCounts, SessionSet DEF Locks!TypeOK
  <2> QED
    BY <1>3, <2>1 DEF Locks!Query, Locks!Goto, Locks!TypeOK, RetriesLeft, Trying
<1>4. ASSUME NEW w \in Caller, NEW c \in Connection, Locks!Unlock(w, c)
      PROVE  Locks!TypeOK' /\ RetriesLeft'
  <2>1. session' \in [Process -> [Connection -> 0 .. MaxHolds]]
    BY <1>4, UnlockCounts, SessionSet
  <2> QED
    BY <1>4, <2>1
    DEF Locks!Unlock, Locks!Releases, Locks!Goto, Locks!TypeOK, RetriesLeft, Trying
<1>5. ASSUME NEW p \in Process, NEW c \in Connection, Locks!LoseSession(p, c)
      PROVE  Locks!TypeOK' /\ RetriesLeft'
  <2>1. Sets(p, c, 0) /\ 0 \in 0 .. MaxHolds
    BY <1>5 DEF Locks!LoseSession, Sets
  <2>2. session' \in [Process -> [Connection -> 0 .. MaxHolds]]
    BY <2>1, SessionSet
  <2>3. losses' \in 0 .. MaxLosses
    BY <1>5 DEF Locks!LoseSession, Locks!TypeOK
  <2>4. /\ caller' \in [Caller -> {"idle", "acquire", "acquired", "denied", "running",
                                "release", "closing", "released"}]
        /\ exposed' \subseteq Process
        /\ \A w \in Caller : Trying(caller'[w]) => Trying(caller[w])
    BY <1>5 DEF Locks!LoseSession, Locks!Goto, Locks!TypeOK, Trying
  <2> QED
    BY <1>5, <2>2, <2>3, <2>4 DEF Locks!LoseSession, Locks!TypeOK, RetriesLeft, Trying
<1>6. ASSUME NEW p \in Process, Locks!Crash(p)
      PROVE  Locks!TypeOK' /\ RetriesLeft'
  BY <1>6 DEF Locks!Crash, Locks!TypeOK, RetriesLeft, Trying
<1>7. CASE UNCHANGED Locks!vars
  BY <1>7 DEF Locks!vars, Locks!TypeOK, RetriesLeft, Trying
<1> QED
  BY <1>1, <1>2, <1>3, <1>4, <1>5, <1>6, <1>7 DEF Locks!Next

-----------------------------------------------------------------------------
(* The advisory locks: mutual exclusion.                                   *)

\* PostgreSQL: one session at most holds the lock.
OneSession ==
  \A p, q \in Process, c, d \in Connection :
    session[p][c] > 0 /\ session[q][d] > 0 => p = q /\ c = d

Holders(p) == {w \in Caller : ProcessOf[w] = p /\ Locks!Holds(w)}

\* Some session of the process holds the lock once for every caller of the
\* process that relies on it, whichever connection their unlocks run on.
CountedIn(p) ==
  /\ IsFiniteSet(Holders(p))
  /\ Holders(p) # {} =>
       \E c \in Connection : Cardinality(Holders(p)) <= session[p][c]

\* It does so until a session ends with the lock or the process gives it up in
\* a shutdown, as the calls of releaseAllLocks do.
Counted ==
  /\ \A p \in Process \ exposed : CountedIn(p)
  /\ \A w \in Caller : caller[w] = "closing" => ProcessOf[w] \in exposed

LEMMA OneSessionStep ==
  ASSUME Locks!LockAssumption, Locks!TypeOK, OneSession, [Locks!Next]_(Locks!vars)
  PROVE  OneSession'
<1>0. ProcessOf \in [Caller -> Process]
  BY DEF Locks!LockAssumption
<1>1. ASSUME \A p \in Process, c \in Connection :
               session'[p][c] > 0 => session[p][c] > 0
      PROVE  OneSession'
  BY <1>1 DEF OneSession
<1>2. ASSUME NEW w \in Caller, NEW c \in Connection, Locks!Query(w, c)
      PROVE  OneSession'
  <2>1. CASE UNCHANGED session
    BY <2>1 DEF OneSession
  <2>2. CASE /\ Locks!Free(<<ProcessOf[w], c>>)
             /\ session[ProcessOf[w]][c] + 1 \in 0 .. MaxHolds
             /\ Sets(ProcessOf[w], c, session[ProcessOf[w]][c] + 1)
    <3>1. \A q \in Process, d \in Connection :
            q # ProcessOf[w] \/ d # c => session'[q][d] = 0
      BY <1>0, <2>2, SessionSet DEF Locks!Free
    <3> QED
      BY <3>1 DEF OneSession
  <2> QED
    BY <1>2, <2>1, <2>2, QueryCounts
<1>3. ASSUME NEW w \in Caller, NEW c \in Connection, Locks!Unlock(w, c)
      PROVE  OneSession'
  <2>1. PICK n \in 0 .. MaxHolds :
          /\ Sets(ProcessOf[w], c, n)
          /\ n = IF session[ProcessOf[w]][c] > 0 THEN session[ProcessOf[w]][c] - 1 ELSE 0
    BY <1>3, UnlockCounts
  <2>2. /\ session'[ProcessOf[w]][c] = n
        /\ \A q \in Process, d \in Connection :
             q # ProcessOf[w] \/ d # c => session'[q][d] = session[q][d]
    BY <1>0, <2>1, SessionSet
  <2> QED
    BY <1>0, <1>1, <2>1, <2>2
<1>4. ASSUME NEW p \in Process, NEW c \in Connection, Locks!LoseSession(p, c)
      PROVE  OneSession'
  <2>1. Sets(p, c, 0) /\ 0 \in 0 .. MaxHolds
    BY <1>4 DEF Locks!LoseSession, Sets, Locks!LockAssumption
  <2>2. /\ session'[p][c] = 0
        /\ \A q \in Process, d \in Connection :
             q # p \/ d # c => session'[q][d] = session[q][d]
    BY <2>1, SessionSet
  <2> QED
    BY <1>1, <2>2
<1>5. ASSUME NEW p \in Process, Locks!Crash(p)
      PROVE  OneSession'
  BY <1>1, <1>5 DEF Locks!Crash, Locks!TypeOK
<1>6. ASSUME UNCHANGED session PROVE OneSession'
  BY <1>6 DEF OneSession
<1> QED
  BY <1>2, <1>3, <1>4, <1>5, <1>6
  DEF Locks!Next, Locks!vars, Locks!withLock, Locks!Enter, Locks!Retry, Locks!releaseLock,
      Locks!releaseAllLocks, Locks!Forget

LEMMA CountedStep ==
  ASSUME Locks!LockAssumption, Locks!TypeOK, OneSession, Counted, [Locks!Next]_(Locks!vars)
  PROVE  Counted'
<1>0. ProcessOf \in [Caller -> Process]
  BY DEF Locks!LockAssumption
<1>1. ASSUME NEW w \in Caller, NEW from, NEW to, Locks!Goto(w, from, to)
      PROVE  /\ \A v \in Caller \ {w} : /\ Locks!Holds(v)' <=> Locks!Holds(v)
                                        /\ caller'[v] = caller[v]
             /\ caller[w] = from /\ caller'[w] = to
  BY <1>1 DEF Locks!Goto, Locks!Holds, Locks!TypeOK
<1>2. ASSUME NEW q \in Process, Locks!Crash(q)
      PROVE  Counted'
  <2>1. \A p \in Process \ exposed' : p = q \/ p \in Process \ exposed
    BY <1>2 DEF Locks!Crash
  <2>2. ASSUME NEW p \in Process \ exposed', p # q
        PROVE  CountedIn(p)'
    <3>1. CountedIn(p)
      BY <2>1, <2>2 DEF Counted
    <3>2. Holders(p)' = Holders(p)
      BY <1>2, <2>2 DEF Locks!Crash, Holders, Locks!Holds
    <3>3. \A c \in Connection : session'[p][c] = session[p][c]
      BY <1>2, <2>2 DEF Locks!Crash, Locks!TypeOK
    <3> QED
      BY <3>1, <3>2, <3>3 DEF CountedIn
  <2>3. CountedIn(q)'
    <3>1. Holders(q)' = {}
      BY <1>2 DEF Locks!Crash, Holders, Locks!Holds
    <3> QED
      BY <3>1, FS_EmptySet DEF CountedIn
  <2>4. \A w \in Caller : caller'[w] = "closing" => ProcessOf[w] \in exposed'
    BY <1>2 DEF Locks!Crash, Counted
  <2> QED
    BY <2>1, <2>2, <2>3, <2>4 DEF Counted
<1>3. ASSUME NEW q \in Process, NEW d \in Connection, Locks!LoseSession(q, d)
      PROVE  Counted'
  <2>1. Sets(q, d, 0) /\ 0 \in 0 .. MaxHolds
    BY <1>3 DEF Locks!LoseSession, Sets, Locks!LockAssumption
  <2>2. /\ session'[q][d] = 0
        /\ \A p \in Process, c \in Connection :
             p # q \/ c # d => session'[p][c] = session[p][c]
    BY <2>1, SessionSet
  <2>3. session[q][d] \in Nat
    BY DEF Locks!TypeOK, Locks!LockAssumption
  <2>4. exposed \subseteq exposed' /\ (q \notin exposed' => session[q][d] = 0)
    BY <1>3, <2>3 DEF Locks!LoseSession
  <2>5. \A v \in Caller : /\ Locks!Holds(v)' => Locks!Holds(v)
                          /\ caller'[v] = "closing" => caller[v] = "closing"
    BY <1>1, <1>3 DEF Locks!LoseSession, Locks!Holds
  <2>6. ASSUME NEW p \in Process \ exposed'
        PROVE  CountedIn(p)'
    <3>1. CountedIn(p) /\ Holders(p)' \subseteq Holders(p)
      BY <2>4, <2>5 DEF Counted, Holders
    <3>2. \A c \in Connection : session'[p][c] = session[p][c]
      BY <2>2, <2>4
    <3>3. IsFiniteSet(Holders(p)') /\ Cardinality(Holders(p)') <= Cardinality(Holders(p))
      BY <3>1, FS_Subset DEF CountedIn
    <3>4. Cardinality(Holders(p)') \in Nat /\ Cardinality(Holders(p)) \in Nat
      BY <3>1, <3>3, FS_CardinalityType DEF CountedIn
    <3>5. \A c \in Connection : session[p][c] \in Nat
      BY DEF Locks!TypeOK, Locks!LockAssumption
    <3> QED
      BY <3>1, <3>2, <3>3, <3>4, <3>5 DEF CountedIn
  <2> QED
    BY <2>4, <2>5, <2>6 DEF Counted
<1>4. ASSUME NEW w \in Caller, Locks!releaseAllLocks(w)
      PROVE  Counted'
  <2>1. \A v \in Caller : /\ Locks!Holds(v)' <=> Locks!Holds(v)
                          /\ caller'[v] = "closing" => v = w \/ caller[v] = "closing"
    BY <1>1, <1>4 DEF Locks!releaseAllLocks, Locks!Holds
  <2>2. ASSUME NEW p \in Process \ exposed'
        PROVE  CountedIn(p)'
    <3>1. CountedIn(p) /\ Holders(p)' = Holders(p) /\ UNCHANGED session
      BY <1>4, <2>1 DEF Locks!releaseAllLocks, Counted, Holders
    <3> QED
      BY <3>1 DEF CountedIn
  <2> QED
    BY <1>4, <2>1, <2>2 DEF Locks!releaseAllLocks, Counted
<1>5. ASSUME UNCHANGED exposed,
             \/ \E w \in Caller :
                  \/ Locks!withLock(w) \/ Locks!Enter(w) \/ Locks!Retry(w)
                  \/ Locks!releaseLock(w) \/ Locks!Forget(w)
                  \/ \E c \in Connection : Locks!Query(w, c) \/ Locks!Unlock(w, c)
             \/ UNCHANGED Locks!vars
      PROVE  Counted'
  <2>0. \A w \in Caller : caller'[w] = "closing" => caller[w] = "closing"
    BY <1>1, <1>5
    DEF Locks!withLock, Locks!Enter, Locks!Retry, Locks!releaseLock, Locks!Forget,
        Locks!Query, Locks!Unlock, Locks!Releases, Locks!vars
  <2> SUFFICES ASSUME NEW p \in Process \ exposed PROVE CountedIn(p)'
    BY <1>5, <2>0 DEF Counted
  <2>1. CountedIn(p)
    BY DEF Counted
  <2>2. ASSUME UNCHANGED session, Holders(p)' \subseteq Holders(p)
        PROVE  CountedIn(p)'
    <3>1. IsFiniteSet(Holders(p)') /\ Cardinality(Holders(p)') <= Cardinality(Holders(p))
      BY <2>1, <2>2, FS_Subset DEF CountedIn
    <3>2. Cardinality(Holders(p)') \in Nat /\ Cardinality(Holders(p)) \in Nat
      BY <2>1, <3>1, FS_CardinalityType DEF CountedIn
    <3>3. \A c \in Connection : session[p][c] \in Nat
      BY DEF Locks!TypeOK, Locks!LockAssumption
    <3> QED
      BY <2>1, <2>2, <3>1, <3>2, <3>3 DEF CountedIn
  <2>3. ASSUME NEW w \in Caller,
               Locks!withLock(w) \/ Locks!Enter(w) \/ Locks!Retry(w) \/ Locks!releaseLock(w)
                 \/ Locks!Forget(w)
        PROVE  CountedIn(p)'
    <3>1. Holders(p)' \subseteq Holders(p)
      BY <1>1, <2>3
      DEF Locks!withLock, Locks!Enter, Locks!Retry, Locks!releaseLock, Locks!Forget,
          Holders, Locks!Holds
    <3> QED
      BY <2>2, <2>3, <3>1
      DEF Locks!withLock, Locks!Enter, Locks!Retry, Locks!releaseLock, Locks!Forget
  <2>4. ASSUME NEW w \in Caller, NEW c \in Connection, Locks!Query(w, c)
        PROVE  CountedIn(p)'
    <3>1. CASE UNCHANGED session /\ Locks!Goto(w, "acquire", "denied")
      <4>1. Holders(p)' \subseteq Holders(p)
        BY <1>1, <3>1 DEF Holders, Locks!Holds
      <4> QED
        BY <2>2, <3>1, <4>1
    <3>2. CASE /\ Locks!Free(<<ProcessOf[w], c>>) /\ Locks!Goto(w, "acquire", "acquired")
               /\ session[ProcessOf[w]][c] + 1 \in 0 .. MaxHolds
               /\ Sets(ProcessOf[w], c, session[ProcessOf[w]][c] + 1)
      <4>1. /\ session'[ProcessOf[w]][c] = session[ProcessOf[w]][c] + 1
            /\ \A q \in Process, d \in Connection :
                 q # ProcessOf[w] \/ d # c =>
                   session'[q][d] = session[q][d] /\ session[q][d] = 0
        BY <1>0, <3>2, SessionSet DEF Locks!Free
      <4>2. CASE p # ProcessOf[w]
        <5>1. Holders(p)' = Holders(p)
          BY <1>1, <3>2, <4>2 DEF Holders
        <5>2. Holders(p) = {}
          BY <2>1, <4>1, <4>2, FS_CardinalityType, FS_EmptySet DEF CountedIn
        <5> QED
          BY <2>1, <5>1, <5>2 DEF CountedIn
      <4>3. CASE p = ProcessOf[w]
        <5>1. Holders(p)' = Holders(p) \cup {w} /\ w \notin Holders(p)
          BY <1>1, <3>2, <4>3 DEF Holders, Locks!Holds
        <5>2. /\ IsFiniteSet(Holders(p)')
              /\ Cardinality(Holders(p)') = Cardinality(Holders(p)) + 1
          BY <2>1, <5>1, FS_AddElement DEF CountedIn
        <5>3. Cardinality(Holders(p)) \in Nat /\ session[p][c] \in Nat
          BY <2>1, FS_CardinalityType DEF CountedIn, Locks!TypeOK, Locks!LockAssumption
        <5>4. Cardinality(Holders(p)) <= session[p][c]
          BY <2>1, <4>1, <4>3, <5>3, FS_EmptySet DEF CountedIn
        <5>5. Cardinality(Holders(p)') <= session'[p][c]
          BY <4>1, <4>3, <5>2, <5>3, <5>4
        <5> QED
          BY <5>2, <5>5 DEF CountedIn
      <4> QED
        BY <4>2, <4>3
    <3> QED
      BY <2>4, <3>1, <3>2, QueryCounts
  <2>5. ASSUME NEW w \in Caller, NEW c \in Connection, Locks!Unlock(w, c)
        PROVE  CountedIn(p)'
    <3>0. PICK n \in 0 .. MaxHolds :
            /\ Sets(ProcessOf[w], c, n)
            /\ n = IF session[ProcessOf[w]][c] > 0 THEN session[ProcessOf[w]][c] - 1 ELSE 0
      BY <2>5, UnlockCounts
    <3>1. /\ session'[ProcessOf[w]][c] = n
          /\ \A q \in Process, d \in Connection :
               q # ProcessOf[w] \/ d # c => session'[q][d] = session[q][d]
      BY <1>0, <3>0, SessionSet
    <3>2. \/ Locks!Goto(w, "release", "released")
          \/ Locks!Goto(w, "closing", "released")
      BY <2>5 DEF Locks!Unlock, Locks!Releases
    <3>3. CASE p # ProcessOf[w]
      <4>1. Holders(p)' = Holders(p)
        BY <1>1, <3>2, <3>3 DEF Holders
      <4> QED
        BY <2>1, <3>1, <3>3, <4>1 DEF CountedIn
    <3>4. CASE p = ProcessOf[w]
      <4>0. Locks!Goto(w, "release", "released")
        BY <1>1, <3>2, <3>4 DEF Counted
      <4>1. Holders(p)' = Holders(p) \ {w} /\ w \in Holders(p)
        BY <1>1, <3>4, <4>0 DEF Holders, Locks!Holds
      <4>2. /\ IsFiniteSet(Holders(p)')
            /\ Cardinality(Holders(p)') = Cardinality(Holders(p)) - 1
        BY <2>1, <4>1, FS_RemoveElement DEF CountedIn
      <4>3. PICK d \in Connection : Cardinality(Holders(p)) <= session[p][d]
        BY <2>1, <4>1 DEF CountedIn
      <4>4. /\ Cardinality(Holders(p)) \in Nat /\ Cardinality(Holders(p)) # 0
            /\ session[p][d] \in Nat /\ session[p][c] \in Nat
        BY <2>1, <4>1, FS_CardinalityType, FS_EmptySet
        DEF CountedIn, Locks!TypeOK, Locks!LockAssumption
      <4>5. session'[p][d] >= session[p][d] - 1
        BY <3>0, <3>1, <3>4, <4>3, <4>4
      <4>6. session'[p][d] \in Nat
        BY <3>0, <3>1, <3>4, <4>4
      <4>7. Cardinality(Holders(p)') <= session'[p][d]
        BY <4>2, <4>3, <4>4, <4>5, <4>6
      <4> QED
        BY <4>2, <4>7 DEF CountedIn
    <3> QED
      BY <3>3, <3>4
  <2>6. CASE UNCHANGED Locks!vars
    <3>1. Holders(p)' = Holders(p) /\ UNCHANGED session
      BY <2>6 DEF Locks!vars, Holders, Locks!Holds
    <3> QED
      BY <2>2, <3>1
  <2> QED
    BY <1>5, <2>3, <2>4, <2>5, <2>6
<1>6. \/ \E w \in Caller : Locks!releaseAllLocks(w)
      \/ \E q \in Process : Locks!Crash(q) \/ \E d \in Connection : Locks!LoseSession(q, d)
      \/ /\ UNCHANGED exposed
         /\ \/ \E w \in Caller :
                 \/ Locks!withLock(w) \/ Locks!Enter(w) \/ Locks!Retry(w)
                 \/ Locks!releaseLock(w) \/ Locks!Forget(w)
                 \/ \E c \in Connection : Locks!Query(w, c) \/ Locks!Unlock(w, c)
            \/ UNCHANGED Locks!vars
  BY DEF Locks!Next, Locks!vars, Locks!withLock, Locks!Query, Locks!Enter, Locks!Retry,
         Locks!releaseLock, Locks!Unlock, Locks!Forget
<1> QED
  BY <1>2, <1>3, <1>4, <1>5, <1>6

LEMMA LocksInit ==
  ASSUME Locks!LockAssumption, Locks!Init
  PROVE  Locks!TypeOK /\ RetriesLeft
BY DEF Locks!LockAssumption, Locks!Init, Locks!TypeOK, RetriesLeft, Trying

LEMMA LocksExclude ==
  ASSUME Locks!LockAssumption
  PROVE  Locks!Spec => []Locks!ExcludesOthers
<1>1. Locks!Init => Locks!TypeOK /\ RetriesLeft
  BY LocksInit
<1>2. Locks!Init => OneSession /\ Counted
  <2> SUFFICES ASSUME Locks!Init PROVE OneSession /\ Counted
    OBVIOUS
  <2>1. \A p \in Process : Holders(p) = {}
    BY DEF Locks!Init, Holders, Locks!Holds
  <2> QED
    BY <2>1, FS_EmptySet DEF Locks!Init, OneSession, Counted, CountedIn
<1>3. Locks!TypeOK /\ RetriesLeft /\ [Locks!Next]_(Locks!vars)
        => Locks!TypeOK' /\ RetriesLeft'
  BY LocksTypeStep
<1>4. Locks!TypeOK /\ OneSession /\ [Locks!Next]_(Locks!vars) => OneSession'
  BY OneSessionStep
<1>5. Locks!TypeOK /\ OneSession /\ Counted /\ [Locks!Next]_(Locks!vars) => Counted'
  BY CountedStep
<1>6. Locks!TypeOK /\ OneSession /\ Counted => Locks!ExcludesOthers
  <2> SUFFICES ASSUME Locks!TypeOK, OneSession, Counted,
                      NEW v \in Caller, NEW w \in Caller, Locks!Holds(v), Locks!Holds(w),
                      ProcessOf[v] \notin exposed, ProcessOf[w] \notin exposed
               PROVE  ProcessOf[v] = ProcessOf[w]
    BY DEF Locks!ExcludesOthers
  <2>1. ASSUME NEW u \in Caller, Locks!Holds(u), ProcessOf[u] \notin exposed
        PROVE  /\ ProcessOf[u] \in Process
               /\ \E c \in Connection : session[ProcessOf[u]][c] > 0
    <3>1. ProcessOf[u] \in Process
      BY DEF Locks!LockAssumption
    <3>2. CountedIn(ProcessOf[u]) /\ Holders(ProcessOf[u]) # {}
      BY <2>1, <3>1 DEF Counted, Holders
    <3>3. /\ Cardinality(Holders(ProcessOf[u])) \in Nat
          /\ Cardinality(Holders(ProcessOf[u])) # 0
      BY <3>2, FS_CardinalityType, FS_EmptySet DEF CountedIn
    <3>4. \A c \in Connection : session[ProcessOf[u]][c] \in Nat
      BY <3>1 DEF Locks!TypeOK, Locks!LockAssumption
    <3> QED
      BY <3>1, <3>2, <3>3, <3>4 DEF CountedIn
  <2> QED
    BY <2>1 DEF OneSession
<1> QED
  BY <1>1, <1>2, <1>3, <1>4, <1>5, <1>6, PTL DEF Locks!Spec

-----------------------------------------------------------------------------
(* The stored keys and the challenges: the instances here and those of     *)
(* their proof modules have the same behaviours.                           *)

LEMMA SameKeys ==
  /\ Keys!Init => KeyProofs!Init
  /\ [Keys!Next]_(Keys!vars) => [KeyProofs!Next]_(KeyProofs!vars)
<1>1. /\ Keys!NoRow = KeyProofs!NoRow /\ Keys!NoPass = KeyProofs!NoPass
      /\ Keys!Version = KeyProofs!Version /\ Keys!Config0 = KeyProofs!Config0
  BY DEF Keys!NoRow, KeyProofs!NoRow, Keys!NoPass, KeyProofs!NoPass, Keys!Version,
         KeyProofs!Version, Keys!Config0, KeyProofs!Config0
<1>2. Keys!Legacy = KeyProofs!Legacy
  BY <1>1 DEF Keys!Legacy, KeyProofs!Legacy
<1>3. Keys!Init => KeyProofs!Init
  BY <1>1, <1>2 DEF Keys!Init, KeyProofs!Init, Keys!Off, KeyProofs!Off
<1>4. ASSUME NEW p \in Actor
      PROVE  /\ \A config \in Config : Keys!onModuleInit(p, config)
                  => KeyProofs!onModuleInit(p, config)
             /\ Keys!rotatePrivateKeyEncryption(p)
                  => KeyProofs!rotatePrivateKeyEncryption(p)
             /\ Keys!ReadCertificates(p) => KeyProofs!ReadCertificates(p)
             /\ Keys!ReadArtifacts(p) => KeyProofs!ReadArtifacts(p)
             /\ Keys!Migrate(p) => KeyProofs!Migrate(p)
             /\ Keys!Throw(p) => KeyProofs!Throw(p)
             /\ Keys!EndPass(p) => KeyProofs!EndPass(p)
             /\ Keys!recordArtifact(p) => KeyProofs!recordArtifact(p)
             /\ Keys!SaveCertificate(p) => KeyProofs!SaveCertificate(p)
             /\ Keys!Stop(p) => KeyProofs!Stop(p)
  <2>0. Keys!Stored = KeyProofs!Stored /\ Keys!Alive = KeyProofs!Alive
    BY <1>1 DEF Keys!Stored, KeyProofs!Stored, Keys!Alive, KeyProofs!Alive
  <2> USE <1>1, <2>0 DEF Keys!Up, KeyProofs!Up
  <2>1. \A config \in Config : Keys!onModuleInit(p, config)
          => KeyProofs!onModuleInit(p, config)
    BY DEF Keys!onModuleInit, KeyProofs!onModuleInit
  <2>2. Keys!rotatePrivateKeyEncryption(p) => KeyProofs!rotatePrivateKeyEncryption(p)
    BY
    DEF Keys!rotatePrivateKeyEncryption, KeyProofs!rotatePrivateKeyEncryption,
        Keys!BeginPass, KeyProofs!BeginPass, Keys!AllLike, KeyProofs!AllLike
  <2>3. Keys!ReadCertificates(p) => KeyProofs!ReadCertificates(p)
    BY DEF Keys!ReadCertificates, KeyProofs!ReadCertificates
  <2>4. Keys!ReadArtifacts(p) => KeyProofs!ReadArtifacts(p)
    BY DEF Keys!ReadArtifacts, KeyProofs!ReadArtifacts
  <2>6. Keys!Migrate(p) => KeyProofs!Migrate(p)
    BY
    DEF Keys!Needs, KeyProofs!Needs, Keys!CanDecrypt, KeyProofs!CanDecrypt,
        Keys!IsPlaintext, KeyProofs!IsPlaintext, Keys!Encrypted, KeyProofs!Encrypted,
        Keys!Migrate, KeyProofs!Migrate, Keys!MigrateRow, KeyProofs!MigrateRow,
        Keys!Written, KeyProofs!Written
  <2>7. Keys!Throw(p) => KeyProofs!Throw(p)
    BY
    DEF Keys!Needs, KeyProofs!Needs, Keys!CanDecrypt, KeyProofs!CanDecrypt,
        Keys!IsPlaintext, KeyProofs!IsPlaintext, Keys!Throw, KeyProofs!Throw, Keys!Off,
        KeyProofs!Off
  <2>8. Keys!EndPass(p) => KeyProofs!EndPass(p)
    BY DEF Keys!EndPass, KeyProofs!EndPass
  <2>9. Keys!recordArtifact(p) => KeyProofs!recordArtifact(p)
    BY
    DEF Keys!Encrypted, KeyProofs!Encrypted, Keys!recordArtifact, KeyProofs!recordArtifact
  <2>10. Keys!SaveCertificate(p) => KeyProofs!SaveCertificate(p)
    <3>1. \A r : Keys!CanDecrypt(p, r) <=> KeyProofs!CanDecrypt(p, r)
      BY DEF Keys!CanDecrypt, KeyProofs!CanDecrypt, Keys!IsPlaintext, KeyProofs!IsPlaintext
    <3>2. \A c, k : Keys!Encrypted(p, c, k) = KeyProofs!Encrypted(p, c, k)
      BY DEF Keys!Encrypted, KeyProofs!Encrypted
    <3> SUFFICES ASSUME Keys!SaveCertificate(p)
                 PROVE  KeyProofs!SaveCertificate(p)
      OBVIOUS
    <3>3. raced' = \E q \in KeyProofs!Alive : \E e \in pass[q].copies :
                     /\ e[1] = 0 /\ e[2] # KeyProofs!NoRow
                     /\ e[2].version # process[q].config.version
      <4>1. raced' = \E q \in Keys!Alive : \E e \in pass[q].copies :
                       /\ e[1] = 0 /\ e[2] # Keys!NoRow
                       /\ e[2].version # process[q].config.version
        BY DEF Keys!SaveCertificate
      <4> QED
        BY <4>1
    <3>4. \E v \in KeyProofs!Stored :
            /\ KeyProofs!CanDecrypt(p, artifact[v])
            /\ current' = KeyProofs!Encrypted(p, v, artifact[v].key)
      BY <3>1, <3>2 DEF Keys!SaveCertificate
    <3>5. KeyProofs!Up(p) /\ UNCHANGED <<process, artifact, pass>>
      BY DEF Keys!SaveCertificate
    <3> QED
      BY <3>3, <3>4, <3>5 DEF KeyProofs!SaveCertificate
  <2>11. Keys!Stop(p) => KeyProofs!Stop(p)
    BY DEF Keys!Stop, KeyProofs!Stop, Keys!Off, KeyProofs!Off
  <2> QED
    BY <2>1, <2>2, <2>3, <2>4, <2>6, <2>7, <2>8, <2>9, <2>10, <2>11
<1>5. [Keys!Next]_(Keys!vars) => [KeyProofs!Next]_(KeyProofs!vars)
  BY <1>4 DEF Keys!Next, KeyProofs!Next, Keys!vars, KeyProofs!vars
<1> QED
  BY <1>3, <1>5

LEMMA SameAcme ==
  /\ Acme!Init => AcmeProofs!Init
  /\ [Acme!Next]_(Acme!vars) => [AcmeProofs!Next]_(AcmeProofs!vars)
<1>1. Acme!Init => AcmeProofs!Init
  BY DEF Acme!NoRow, AcmeProofs!NoRow, Acme!NoAttempt, AcmeProofs!NoAttempt, Acme!Answered,
       AcmeProofs!Answered, Acme!Init, AcmeProofs!Init
<1>2. [Acme!Next]_(Acme!vars) => [AcmeProofs!Next]_(AcmeProofs!vars)
  BY DEF Acme!vars, AcmeProofs!vars, Acme!NoRow, AcmeProofs!NoRow, Acme!NoAttempt,
       AcmeProofs!NoAttempt, Acme!Answered, AcmeProofs!Answered, Acme!AuthzAt,
       AcmeProofs!AuthzAt, Acme!AuthzGoto, AcmeProofs!AuthzGoto, Acme!InProgress,
       AcmeProofs!InProgress, Acme!InHand, AcmeProofs!InHand, Acme!Begin,
       AcmeProofs!Begin, Acme!presentChallenge, AcmeProofs!presentChallenge, Acme!Served,
       AcmeProofs!Served, Acme!Validate, AcmeProofs!Validate, Acme!Fail, AcmeProofs!Fail,
       Acme!cleanupChallenge, AcmeProofs!cleanupChallenge, Acme!OfOrder,
       AcmeProofs!OfOrder, Acme!Finalizing, AcmeProofs!Finalizing, Acme!FindChallenges,
       AcmeProofs!FindChallenges, Acme!Finalize, AcmeProofs!Finalize, Acme!Mishap,
       AcmeProofs!Mishap, Acme!FailCleanup, AcmeProofs!FailCleanup, Acme!Writes,
       AcmeProofs!Writes, Acme!FailFinding, AcmeProofs!FailFinding, Acme!AfterFailure,
       AcmeProofs!AfterFailure, Acme!FailFinalizing, AcmeProofs!FailFinalizing, Acme!Crash,
       AcmeProofs!Crash, Acme!FindExpired, AcmeProofs!FindExpired, Acme!MarkExpired,
       AcmeProofs!MarkExpired, Acme!Age, AcmeProofs!Age, Acme!Next, AcmeProofs!Next
<1> QED
  BY <1>1, <1>2

-----------------------------------------------------------------------------
(* Services.                                                               *)

\* A step of the whole is a step of a component, or leaves it alone.
LEMMA Steps ==
  /\ [Next]_vars => [Proxies!Next]_(Proxies!vars)
  /\ [Next]_vars => [Backups!Next]_(Backups!vars)
  /\ [Next]_vars => [Locks!Next]_(Locks!vars)
  /\ [Next]_vars => [Container!Next]_(Container!vars)
  /\ [Next]_vars => [Cleanup!Next]_(Cleanup!vars)
  /\ [Next]_vars => [Keys!Next]_(Keys!vars)
  /\ [Next]_vars => [Acme!Next]_(Acme!vars)
BY DEF Next, OthersStay, vars, proxyVars, backupVars, lockVars, containerVars, cleanupVars,
       keyVars, acmeVars, Proxies!vars, Backups!vars, Locks!vars, Container!vars,
       Cleanup!vars, Keys!vars, Acme!vars

(***************************************************************************)
(* Two entries serve a common host only if each was checked before the     *)
(* other was written: requests to ProxyService that do not overlap never   *)
(* make a host ambiguous.  What the invariant adds is that a request in    *)
(* front of its write conflicts with nothing written before its check, for *)
(* whichever entries were updated or deleted since, and that domains that  *)
(* serve a common host conflict (CommonHost).                              *)
(***************************************************************************)
THEOREM EntriesConflictOnlyByOverlap == Spec => []ConflictsOnlyByOverlap
<1>1. Init => ProxyInv
  BY ProxyInit, ServicesAssumption DEF Init
<1>2. ProxyInv /\ [Next]_vars => ProxyInv'
  BY Steps, ProxyStep, ServicesAssumption
<1>3. ProxyInv => ConflictsOnlyByOverlap
  BY OverlapOnly, ServicesAssumption DEF ConflictsOnlyByOverlap
<1> QED
  BY <1>1, <1>2, <1>3, PTL DEF Spec

(***************************************************************************)
(* An import that reports no error has left no record out: there is a row  *)
(* with its domains, and it holds the record's own certificate if nothing  *)
(* was skipped, unless others saved or deleted the row meanwhile.  The     *)
(* invariant says so of the records looked at so far: a row that is found  *)
(* by its list has the record's set, one that is refused for its hash      *)
(* makes an error, and one that is created holds the certificate.          *)
(***************************************************************************)
THEOREM CleanImportsAreComplete == Spec => []CleanImportIsComplete
<1>1. Init => BackupsInv
  BY BackupsInit, ServicesAssumption DEF Init
<1>2. BackupsInv /\ [Next]_vars => BackupsInv'
  BY Steps, BackupsStep, ServicesAssumption
<1>3. BackupsInv => CleanImportIsComplete
  BY BackupsComplete DEF CleanImportIsComplete
<1> QED
  BY <1>1, <1>2, <1>3, PTL DEF Spec

(***************************************************************************)
(* withLock excludes the callers of other processes, except of a process   *)
(* whose session ended with the lock or that shuts down with               *)
(* releaseAllLocks.  Callers of one process share the entry in heldLocks   *)
(* and unlock on any connection of the pool; the invariant shows that this *)
(* never costs the process the lock: the session that has it holds it once *)
(* for every caller that relies on it, and an unlock on another connection *)
(* finds nothing to release.                                               *)
(***************************************************************************)
THEOREM LockExcludesOthers == Spec => []ExcludesOthers
<1>1. Init => Locks!Init
  BY DEF Init
<1>2. [Next]_vars => [Locks!Next]_(Locks!vars)
  BY Steps
<1>3. Locks!Spec => []Locks!ExcludesOthers
  BY LocksExclude, ServicesAssumption
<1>4. Locks!ExcludesOthers => ExcludesOthers
  BY DEF ExcludesOthers
<1> QED
  BY <1>1, <1>2, <1>3, <1>4, PTL DEF Spec, Locks!Spec

(***************************************************************************)
(* docker-entrypoint.sh does not cut off a process whose PID it holds,     *)
(* unless a signal arrived while a shutdown was under way: the second one  *)
(* of a shutdown that was asked for, or any of one after a failure.        *)
(***************************************************************************)
THEOREM NothingIsCutOff == Spec => []NothingCutOff
<1>1. Init => ContainerInv
  BY ContainerInit, ServicesAssumption DEF Init
<1>2. ContainerInv /\ [Next]_vars => ContainerInv'
  BY Steps, ContainerStep, ServicesAssumption
<1>3. ContainerInv => NothingCutOff
  BY DEF ContainerInv, NothingCutOff
<1> QED
  BY <1>1, <1>2, <1>3, PTL DEF Spec

(***************************************************************************)
(* The container exits with 0 only if it was asked to and no process had   *)
(* failed it: a signal does not turn a fail-fast shutdown into a success.  *)
(***************************************************************************)
THEOREM ZeroExitWasAsked == Spec => ZeroMeansAsked
<1>1. Init => ContainerInv
  BY ContainerInit, ServicesAssumption DEF Init
<1>2. ContainerInv /\ [Next]_vars => ContainerInv'
  BY Steps, ContainerStep, ServicesAssumption
<1>3. ContainerInv /\ [Next]_vars
        => [status' = 0 => final = 0 /\ signals' > 0]_(Container!vars)
  BY Steps, ZeroStep, ServicesAssumption
<1> QED
  BY <1>1, <1>2, <1>3, PTL DEF Spec, ZeroMeansAsked, Container!ZeroMeansAsked

(***************************************************************************)
(* No clean-up takes a valid certificate that an entry uses, whatever      *)
(* marks clean-ups that were cut short and syncs have left on it, except   *)
(* one that came into use, or was renewed, since they read the database.   *)
(***************************************************************************)
THEOREM UsedCertificatesAreKept == Spec => UsedCertificatesStay
<1>1. Init => CleanupInv
  BY CleanupInit, ServicesAssumption DEF Init
<1>2. CleanupInv /\ [Next]_vars => CleanupInv'
  BY Steps, CleanupStep, ServicesAssumption
<1>3. CleanupInv /\ [Next]_vars
        => [\A h \in used \ hot :
              stored[h].state = "valid" =>
                stored'[h] # Cleanup!NoCertificate
                \/ Cleanup!deleteCertificate(h)]_(Cleanup!vars)
  BY Steps, UsedStay, ServicesAssumption
<1> QED
  BY <1>1, <1>2, <1>3, PTL DEF Spec, UsedCertificatesStay, Cleanup!UsedCertificatesStay

(***************************************************************************)
(* The stored key is the stored certificate's, however many passes of      *)
(* migrateStoredPrivateKeys and renewals overlap, unless a certificate was *)
(* saved while a pass had the key before it in hand.                       *)
(***************************************************************************)
THEOREM StoredKeysStayMatched == Spec => []KeysMatch
<1>1. Init => KeyProofs!Init
  BY SameKeys DEF Init
<1>2. [Next]_vars => [KeyProofs!Next]_(KeyProofs!vars)
  BY Steps, SameKeys
<1>3. KeyProofs!KeysAssumption
  BY ServicesAssumption DEF Keys!KeysAssumption, KeyProofs!KeysAssumption
<1>4. KeyProofs!Spec => []KeyProofs!KeysMatch
  BY <1>3, KeyProofs!StoredKeysMatch
<1>5. KeyProofs!KeysMatch => KeysMatch
  BY DEF KeysMatch, Keys!KeysMatch, KeyProofs!KeysMatch, Keys!Stored, KeyProofs!Stored,
         Keys!Version, KeyProofs!Version, Keys!NoRow, KeyProofs!NoRow
<1> QED
  BY <1>1, <1>2, <1>4, <1>5, PTL DEF Spec, KeyProofs!Spec

(***************************************************************************)
(* A pass of migrateStoredPrivateKeys that is complete has left nothing    *)
(* behind, and nothing comes back after it, unless a process with another  *)
(* configuration was alive during the pass or since.                       *)
(***************************************************************************)
THEOREM PassesAreComplete == Spec => []CompletedPassIsComplete
<1>1. Init => KeyProofs!Init
  BY SameKeys DEF Init
<1>2. [Next]_vars => [KeyProofs!Next]_(KeyProofs!vars)
  BY Steps, SameKeys
<1>3. KeyProofs!KeysAssumption
  BY ServicesAssumption DEF Keys!KeysAssumption, KeyProofs!KeysAssumption
<1>4. KeyProofs!Spec => []KeyProofs!CompletedPassIsComplete
  BY <1>3, KeyProofs!CompletePassIsComplete
<1>5. KeyProofs!CompletedPassIsComplete => CompletedPassIsComplete
  BY DEF CompletedPassIsComplete, Keys!CompletedPassIsComplete,
         KeyProofs!CompletedPassIsComplete, Keys!Version, KeyProofs!Version,
         Keys!NoRow, KeyProofs!NoRow
<1> QED
  BY <1>1, <1>2, <1>4, <1>5, PTL DEF Spec, KeyProofs!Spec

(***************************************************************************)
(* No challenge stays published when nobody waits for it: one that is      *)
(* presented has a callback of obtainCertificate that has to remove it, or *)
(* this very challenge is left over because its removal failed or the      *)
(* process that was to remove it died.                                     *)
(***************************************************************************)
THEOREM ChallengesAreWithdrawn == Spec => []NothingLeftPresented
<1>1. Init => AcmeProofs!Init
  BY SameAcme DEF Init
<1>2. [Next]_vars => [AcmeProofs!Next]_(AcmeProofs!vars)
  BY Steps, SameAcme
<1>3. AcmeProofs!AcmeAssumption
  BY ServicesAssumption
  DEF Acme!AcmeAssumption, AcmeProofs!AcmeAssumption, Acme!Answered, AcmeProofs!Answered
<1>4. AcmeProofs!Spec => []AcmeProofs!NothingLeftPresented
  BY <1>3, AcmeProofs!NothingIsLeftPresented
<1>5. AcmeProofs!NothingLeftPresented => NothingLeftPresented
  BY DEF NothingLeftPresented, Acme!NothingLeftPresented, AcmeProofs!NothingLeftPresented
<1> QED
  BY <1>1, <1>2, <1>4, <1>5, PTL DEF Spec, AcmeProofs!Spec

(***************************************************************************)
(* A challenge that an attempt of obtainCertificate waits for is served    *)
(* until it expires: neither finalisations of other orders nor callbacks   *)
(* of attempts that are over take it away, unless they have it in hand or  *)
(* the attempt shares its order with another one of the same node.         *)
(***************************************************************************)
THEOREM WaitingChallengesAreServed == Spec => []WaitingIsServed
<1>1. Init => AcmeProofs!Init
  BY SameAcme DEF Init
<1>2. [Next]_vars => [AcmeProofs!Next]_(AcmeProofs!vars)
  BY Steps, SameAcme
<1>3. AcmeProofs!AcmeAssumption
  BY ServicesAssumption
  DEF Acme!AcmeAssumption, AcmeProofs!AcmeAssumption, Acme!Answered, AcmeProofs!Answered
<1>4. AcmeProofs!Spec => []AcmeProofs!WaitingIsServed
  BY <1>3, AcmeProofs!WaitingChallengeIsServed
<1>5. AcmeProofs!WaitingIsServed => WaitingIsServed
  BY DEF WaitingIsServed, Acme!WaitingIsServed, AcmeProofs!WaitingIsServed
<1> QED
  BY <1>1, <1>2, <1>4, <1>5, PTL DEF Spec, AcmeProofs!Spec

(***************************************************************************)
(* Every variable of every component keeps its type and its bounds.        *)
(***************************************************************************)
THEOREM TypeCorrect == Spec => []TypeOK
<1>1. Init => /\ ProxyInv /\ CleanupInv /\ BackupsInv /\ ContainerInv
              /\ Locks!TypeOK /\ RetriesLeft
              /\ KeyProofs!Init /\ AcmeProofs!Init
  BY ProxyInit, CleanupInit, BackupsInit, ContainerInit, LocksInit, SameKeys, SameAcme,
     ServicesAssumption
  DEF Init
<1>2. ProxyInv /\ [Next]_vars => ProxyInv'
  BY Steps, ProxyStep, ServicesAssumption
<1>3. CleanupInv /\ [Next]_vars => CleanupInv'
  BY Steps, CleanupStep, ServicesAssumption
<1>4. BackupsInv /\ [Next]_vars => BackupsInv'
  BY Steps, BackupsStep, ServicesAssumption
<1>5. ContainerInv /\ [Next]_vars => ContainerInv'
  BY Steps, ContainerStep, ServicesAssumption
<1>6. Locks!TypeOK /\ RetriesLeft /\ [Next]_vars => Locks!TypeOK' /\ RetriesLeft'
  BY Steps, LocksTypeStep, ServicesAssumption
<1>7. /\ [Next]_vars => [KeyProofs!Next]_(KeyProofs!vars)
      /\ [Next]_vars => [AcmeProofs!Next]_(AcmeProofs!vars)
  BY Steps, SameKeys, SameAcme
<1>8. KeyProofs!Spec => []KeyProofs!TypeOK
  BY KeyProofs!TypeCorrect, ServicesAssumption
  DEF Keys!KeysAssumption, KeyProofs!KeysAssumption
<1>9. AcmeProofs!Spec => []AcmeProofs!TypeOK
  BY AcmeProofs!TypeCorrect, ServicesAssumption
  DEF Acme!AcmeAssumption, AcmeProofs!AcmeAssumption, Acme!Answered, AcmeProofs!Answered
<1>10. KeyProofs!TypeOK => Keys!TypeOK
  BY
  DEF Keys!TypeOK, KeyProofs!TypeOK, Keys!Start, KeyProofs!Start, Keys!Row, KeyProofs!Row,
         Keys!Pass, KeyProofs!Pass, Keys!Version, KeyProofs!Version, Keys!Place,
         KeyProofs!Place
<1>11. AcmeProofs!TypeOK => Acme!TypeOK
  BY DEF Acme!TypeOK, AcmeProofs!TypeOK, Acme!Answered, AcmeProofs!Answered
<1>12. /\ ProxyInv => Proxies!TypeOK
       /\ CleanupInv => Cleanup!TypeOK
       /\ BackupsInv => Backups!TypeOK
       /\ ContainerInv => Container!TypeOK
  BY DEF ProxyInv, CleanupInv, BackupsInv, ContainerInv
<1>13. /\ Proxies!TypeOK /\ Cleanup!TypeOK /\ Keys!TypeOK /\ Acme!TypeOK
       /\ Backups!TypeOK /\ Container!TypeOK /\ Locks!TypeOK
       => TypeOK
  BY DEF TypeOK
<1> QED
  BY <1>1, <1>2, <1>3, <1>4, <1>5, <1>6, <1>7, <1>8, <1>9, <1>10, <1>11, <1>12, <1>13, PTL
  DEF Spec, KeyProofs!Spec, AcmeProofs!Spec
=============================================================================
