---------------------------- MODULE ProxyEntries ----------------------------
(***************************************************************************)
(* The proxy entries of the database and the requests that change them:    *)
(* ProxyService with the domain names of utils/domain-utils.ts.            *)
(*                                                                         *)
(* A domain is the sequence of its labels, "*" first for a wildcard.  A    *)
(* request spells a domain in some way: normalizeDomain either finds the   *)
(* labels in it or refuses it.  Of an entry only the set of its domains is *)
(* kept, which is what the checks for conflicts go by; the checks of its   *)
(* upstream and of its custom code read nothing else.                      *)
(***************************************************************************)
EXTENDS Integers, Sequences

CONSTANTS
  Label,        \* labels of domain names
  List,         \* what requests send: sets of spelt domains, each
                \* [labels |-> ..., valid |-> ...]
  MaxLabels,    \* bound: labels of the hosts nginx is asked for
  Request,      \* requests in progress
  MaxWrites     \* bound: entries created, updated or deleted

ProxyAssumption ==
  /\ "*" \notin Label
  /\ MaxWrites \in Nat /\ MaxLabels \in Nat
  /\ \A list \in List : \A d \in list : d.labels \in Seq(Label \cup {"*"})

VARIABLES
  entry,        \* the ProxyEntry rows by id
  request,      \* the coroutines of ProxyService
  writes        \* the writes so far, which also number the entries

vars == <<entry, request, writes>>

Id == 1..MaxWrites

-----------------------------------------------------------------------------
(* Names.                                                                  *)

IsWildcard(domain) == Head(domain) = "*"

\* ensureLabelRules: at least two labels; a wildcard only at the left.
IsDomain(labels) ==
  /\ labels # <<>>
  /\ LET rest == IF IsWildcard(labels) THEN Tail(labels) ELSE labels
     IN  rest \in Seq(Label) /\ Len(rest) >= 2

Accepted(list) == list # {} /\ \A d \in list : d.valid /\ IsDomain(d.labels)

\* normalizeDomains: several spellings of one domain are one.
normalizeDomains(list) == {d.labels : d \in list}

\* The domain is longer than the wildcard without its "*", and ends with that.
domainMatchesWildcard(domain, wildcard) ==
  /\ IsWildcard(wildcard)
  /\ Len(domain) > Len(wildcard) - 1
  /\ SubSeq(domain, Len(domain) - Len(wildcard) + 2, Len(domain)) = Tail(wildcard)

domainsConflictOneWay(left, right) ==  \* faulty: an entry below a new wildcard is overlooked
  left = right \/ domainMatchesWildcard(left, right)

domainsConflict(left, right) ==
  left = right \/ domainMatchesWildcard(left, right) \/ domainMatchesWildcard(right, left)

-----------------------------------------------------------------------------
(* Requests.                                                               *)

\* checked and written: the writes there had been when the entry was checked
\* and when it was written.
Entry == [domains : SUBSET Seq(Label \cup {"*"}),
          checked : 0..MaxWrites, written : 0..MaxWrites]
NoEntry == [domains |-> {}, checked |-> 0, written |-> 0]
Stored == {id \in Id : entry[id] # NoEntry}

\* id 0: the request creates an entry.
NoRequest == [at |-> "idle", id |-> 0, domains |-> {}, checked |-> 0]

Init ==
  /\ entry = [id \in Id |-> NoEntry]
  /\ request = [r \in Request |-> NoRequest]
  /\ writes = 0

RequestAt(r, place) == request[r].at = place
Finish(r) == request' = [request EXCEPT ![r] = NoRequest]

\* createProxy, and updateProxy with or without domains of its own, which
\* reads the entry first: what the request leaves out is taken from there.
createProxy(r, list) ==
  /\ RequestAt(r, "idle")
  /\ Accepted(list)
  /\ request' = [request EXCEPT ![r] =
       [NoRequest EXCEPT !.at = "check", !.domains = normalizeDomains(list)]]
  /\ UNCHANGED <<entry, writes>>

updateProxy(r, id, list) ==
  /\ RequestAt(r, "idle")
  /\ id \in Stored
  /\ list = {} \/ Accepted(list)
  /\ request' = [request EXCEPT ![r] =
       [NoRequest EXCEPT !.at = "check",
                         !.id = id,
                         !.domains = IF list = {} THEN entry[id].domains
                                     ELSE normalizeDomains(list)]]
  /\ UNCHANGED <<entry, writes>>

\* ensureNoDomainConflicts: one query, and a comparison with what it returned.
Conflicts(r) ==
  \E id \in Stored \ {request[r].id} :
    \E left \in request[r].domains, right \in entry[id].domains :
      domainsConflict(left, right)

ensureNoDomainConflicts(r) ==
  /\ RequestAt(r, "check")
  /\ IF Conflicts(r) THEN Finish(r)
     ELSE request' = [request EXCEPT ![r].at = "write", ![r].checked = writes]
  /\ UNCHANGED <<entry, writes>>

\* The new id is one that was never used; the update of an entry that is gone
\* throws.
Write(r) ==
  /\ RequestAt(r, "write")
  /\ writes < MaxWrites
  /\ LET id == IF request[r].id = 0 THEN writes + 1 ELSE request[r].id
         row == [domains |-> request[r].domains,
                 checked |-> request[r].checked,
                 written |-> writes + 1]
     IN  IF request[r].id = 0 \/ id \in Stored
         THEN entry' = [entry EXCEPT ![id] = row] /\ writes' = writes + 1
         ELSE UNCHANGED <<entry, writes>>
  /\ Finish(r)

\* deleteProxy; a reading before it only serves the answer.
deleteProxy(id) ==
  /\ id \in Stored
  /\ writes < MaxWrites
  /\ entry' = [entry EXCEPT ![id] = NoEntry]
  /\ writes' = writes + 1
  /\ UNCHANGED request

Next ==
  \/ \E r \in Request :
       \/ \E list \in List : createProxy(r, list)
       \/ \E id \in Id, list \in List \cup {{}} : updateProxy(r, id, list)
       \/ ensureNoDomainConflicts(r)
       \/ Write(r)
  \/ \E id \in Id : deleteProxy(id)

Spec == Init /\ [][Next]_vars

-----------------------------------------------------------------------------
(* Properties.                                                             *)

Coroutine == [at : {"idle", "check", "write"}, id : 0..MaxWrites,
              domains : SUBSET Seq(Label \cup {"*"}), checked : 0..MaxWrites]

TypeOK ==
  /\ writes \in 0..MaxWrites
  /\ entry \in [Id -> Entry]
  /\ \A id \in Stored : entry[id].domains # {} /\ entry[id].written <= writes
  /\ request \in [Request -> Coroutine]
  /\ \A r \in Request : request[r].checked <= writes

\* The hosts nginx can be asked for.
Host == UNION {[1..n -> Label] : n \in 2..MaxLabels}

\* nginx's server_name: the name itself, or a name below the wildcard.
Serves(domain, host) ==
  IF IsWildcard(domain)
  THEN \E n \in 1..Len(host) - 1 : SubSeq(host, n + 1, Len(host)) = Tail(domain)
  ELSE host = domain

Ambiguous(i, j) ==
  \E host \in Host, d \in entry[i].domains, e \in entry[j].domains :
    Serves(d, host) /\ Serves(e, host)

(***************************************************************************)
(* Two entries serve a common host only if each was checked before the     *)
(* other was written: whatever the spelling, the order of the domains, the *)
(* wildcards and the entries deleted and updated in between, requests that *)
(* do not overlap never make a host ambiguous.  (Requests that do overlap  *)
(* can: check and write are two queries.)                                  *)
(***************************************************************************)
ConflictsOnlyByOverlap ==
  \A i, j \in Stored :
    i # j /\ Ambiguous(i, j) =>
      entry[i].checked < entry[j].written /\ entry[j].checked < entry[i].written
=============================================================================
