--------------------------- MODULE AcmeChallenges ---------------------------
(***************************************************************************)
(* The HTTP-01 challenges in the database: AcmeService, which presents,    *)
(* removes and finalises them while certificates are obtained, and the     *)
(* route of AcmeController, from which any node answers the certificate    *)
(* authority.                                                              *)
(*                                                                         *)
(* client.auto of acme-client calls back for the authorizations of an      *)
(* order side by side; it reports the first failure at once, although the  *)
(* others go on, and it ignores a removal that fails.  The authority gives *)
(* out the token of an authorization that is still pending again.  The     *)
(* callers' lock keeps other nodes from an order, but not other callers of *)
(* the same node: two attempts may work on one order.  Every query may     *)
(* fail.                                                                   *)
(***************************************************************************)
EXTENDS Integers, FiniteSets

CONSTANTS
  Order,        \* certificate orders (orderId)
  Token,        \* challenges, by their tokens
  Attempt,      \* calls of obtainCertificate
  Asking,       \* requests for a challenge in progress
  MaxMishaps    \* bound: failing queries, deaths and expiries

VARIABLES
  row,          \* the AcmeChallenge rows by token
  attempt,      \* obtainCertificate: [at, order, found], where found are the
                \* finalisation's writes under way
  authz,        \* the callbacks of each attempt by token
  asking,       \* the requests that found an expired challenge: its token
  disturbed,    \* history: tokens that were given out or presented while others
                \* had them in hand
  joint,        \* history: attempts that shared their order with another one
  left,         \* history: tokens whose removal failed or was cut off by a death,
                \* since they were written last
  mishaps       \* failing queries, deaths and expiries so far

vars == <<row, attempt, authz, asking, disturbed, joint, left, mishaps>>

NoRow == [order |-> "none", status |-> "none", late |-> FALSE]
NoAttempt == [at |-> "idle", order |-> "none", found |-> {}]
Answered == "nothing"

AcmeAssumption == Answered \notin Token /\ MaxMishaps \in Nat

Init ==
  /\ row = [t \in Token |-> NoRow]
  /\ attempt = [a \in Attempt |-> NoAttempt]
  /\ authz = [a \in Attempt |-> [t \in Token |-> "none"]]
  /\ asking = [k \in Asking |-> Answered]
  /\ disturbed = {}
  /\ joint = {}
  /\ left = {}
  /\ mishaps = 0

AuthzAt(a, t, place) == authz[a][t] = place
AuthzGoto(a, t, place) == authz' = [authz EXCEPT ![a][t] = place]
Mishap == mishaps < MaxMishaps /\ mishaps' = mishaps + 1

InProgress(a) == attempt[a].at \in {"running", "failing", "validated", "failed"}

\* Somebody other than attempt a is to write to t's row.
InHand(a, t) ==
  \/ \E b \in Attempt \ {a} : \/ authz[b][t] \in {"present", "wait", "remove"}
                              \/ \E w \in attempt[b].found : w.token = t
  \/ \E k \in Asking : asking[k] = t

-----------------------------------------------------------------------------
(* obtainCertificate.                                                      *)

\* The order may be one that another attempt is at: getOrCreateOrder returns
\* the order in progress.
Begin(a, o) ==
  LET sharing == {b \in Attempt : InProgress(b) /\ attempt[b].order = o} IN
  /\ attempt[a].at = "idle"
  /\ attempt' = [attempt EXCEPT ![a] = [NoAttempt EXCEPT !.at = "running", !.order = o]]
  /\ \E tokens \in SUBSET Token :  \* none for authorizations that are still valid
       /\ authz' = [authz EXCEPT ![a] =
                       [t \in Token |-> IF t \in tokens THEN "present" ELSE "none"]]
       /\ disturbed' = disturbed \cup {t \in tokens : InHand(a, t)}
  /\ joint' = IF sharing = {} THEN joint ELSE joint \cup sharing \cup {a}
  /\ UNCHANGED <<row, asking, left, mishaps>>

presentChallenge(a, t) ==
  /\ AuthzAt(a, t, "present")
  /\ row' = [row EXCEPT ![t] =
       [order |-> attempt[a].order, status |-> "presented", late |-> FALSE]]
  /\ disturbed' = IF InHand(a, t) THEN disturbed \cup {t} ELSE disturbed \ {t}
  /\ left' = left \ {t}
  /\ AuthzGoto(a, t, "wait")
  /\ UNCHANGED <<attempt, asking, joint, mishaps>>

\* getPresentedHttpChallenge answers: the row is presented and in time.
Served(t) == row[t].status = "presented" /\ ~row[t].late

\* waitForChallengeReadiness and the authority's own request succeed.
Validate(a, t) ==
  /\ AuthzAt(a, t, "wait")
  /\ Served(t)
  /\ AuthzGoto(a, t, "remove")
  /\ UNCHANGED <<row, attempt, asking, disturbed, joint, left, mishaps>>

FailForgetting(a, t) ==  \* faulty: leaves the challenge of a failed callback
  /\ authz[a][t] \in {"present", "wait"}
  /\ AuthzGoto(a, t, "none")
  /\ attempt' = IF attempt[a].at = "running" THEN [attempt EXCEPT ![a].at = "failing"] ELSE attempt
  /\ UNCHANGED <<row, asking, disturbed, joint, left, mishaps>>

\* They do not, within the time-out, or the challenge could not be stored:
\* client.auto fails, and this callback's challenge is removed.
Fail(a, t) ==
  /\ authz[a][t] \in {"present", "wait"}
  /\ AuthzGoto(a, t, "remove")
  /\ attempt' = IF attempt[a].at = "running" THEN [attempt EXCEPT ![a].at = "failing"] ELSE attempt
  /\ UNCHANGED <<row, asking, disturbed, joint, left, mishaps>>

\* cleanupChallenge, which nobody waits for if the attempt has failed: the
\* row becomes cleaned-up whatever it was.
cleanupChallenge(a, t) ==
  /\ AuthzAt(a, t, "remove")
  /\ row' = [row EXCEPT ![t] =
       IF @ = NoRow THEN [order |-> attempt[a].order, status |-> "cleaned-up", late |-> FALSE]
       ELSE [@ EXCEPT !.status = "cleaned-up", !.late = FALSE]]
  /\ left' = left \ {t}
  /\ AuthzGoto(a, t, "none")
  /\ UNCHANGED <<attempt, asking, disturbed, joint, mishaps>>

\* One of its queries fails, which acme-client ignores.
FailCleanup(a, t) ==
  /\ Mishap
  /\ AuthzAt(a, t, "remove")
  /\ left' = left \cup {t}
  /\ AuthzGoto(a, t, "none")
  /\ UNCHANGED <<row, attempt, asking, disturbed, joint>>

OfAnyOrder(a) ==  \* faulty: finalises the challenges of all orders
  {t \in Token : row[t].status \in {"presented", "cleaned-up"}}

OfOrder(a) ==
  {t \in Token : row[t].order = attempt[a].order /\ row[t].status \in {"presented", "cleaned-up"}}

Writes(tokens, status) == {[token |-> t, status |-> status] : t \in tokens}

\* The attempt returns or throws once it has nothing left to wait for; after a
\* write that failed, the others are still under way.
Finalizing(a, status, found) ==
  attempt' = [attempt EXCEPT
    ![a].at = IF \E w \in found : w.status = status THEN status ELSE "over",
    ![a].found = found]

\* finalizeChallengesForOrder reads the rows of the order: every authorization
\* is valid, and the certificate is there, or client.auto or the finalisation
\* has failed.
FindChallenges(a) ==
  /\ \/ /\ attempt[a].at = "running"
        /\ \A t \in Token : AuthzAt(a, t, "none")
        /\ Finalizing(a, "validated", Writes(OfOrder(a), "validated"))
     \/ /\ attempt[a].at = "failing"
        /\ Finalizing(a, "failed", attempt[a].found \cup Writes(OfOrder(a), "failed"))
  /\ UNCHANGED <<row, authz, asking, disturbed, joint, left, mishaps>>

\* The query fails, or client.auto without one of its callbacks; a failure in
\* the catch block ends the attempt.
FailFinding(a) ==
  /\ Mishap
  /\ \/ /\ attempt[a].at = "running"
        /\ \A t \in Token : AuthzAt(a, t, "none")
        /\ attempt' = [attempt EXCEPT ![a].at = "failing"]
     \/ /\ attempt[a].at = "failing"
        /\ attempt' = [attempt EXCEPT ![a].at = "over"]
  /\ UNCHANGED <<row, authz, asking, disturbed, joint, left>>

\* Then it writes each by its id.
Finalize(a, w) ==
  /\ w \in attempt[a].found
  /\ row' = [row EXCEPT ![w.token].late = FALSE, ![w.token].status = w.status]
  /\ left' = left \ {w.token}
  /\ IF attempt[a].at = w.status THEN Finalizing(a, w.status, attempt[a].found \ {w})
     ELSE attempt' = [attempt EXCEPT ![a].found = @ \ {w}]
  /\ UNCHANGED <<authz, asking, disturbed, joint, mishaps>>

AfterFailure(place, status) ==
  IF place = "validated" THEN "failing"
  ELSE IF place = "failed" /\ status = "failed" THEN "over" ELSE place

\* A write that fails: the first one sends the attempt to its catch block, and
\* ends it there.
FailFinalizing(a, w) ==
  /\ Mishap
  /\ w \in attempt[a].found
  /\ attempt' = [attempt EXCEPT ![a].at = AfterFailure(@, w.status),
                                ![a].found = @ \ {w}]
  /\ UNCHANGED <<row, authz, asking, disturbed, joint, left>>

\* The process dies: rows stay as they are.
Crash(a) ==
  /\ Mishap
  /\ InProgress(a) \/ attempt[a].found # {} \/ \E t \in Token : authz[a][t] # "none"
  /\ attempt' = [attempt EXCEPT ![a] = [NoAttempt EXCEPT !.at = "dead"]]
  /\ authz' = [authz EXCEPT ![a] = [t \in Token |-> "none"]]
  /\ left' = left \cup {t \in Token : authz[a][t] \in {"wait", "remove"}}
  /\ UNCHANGED <<row, asking, disturbed, joint>>

-----------------------------------------------------------------------------
(* The route.                                                              *)

\* A challenge that is asked for after its expiry: read, then marked by its
\* id whatever it has become, unless that query fails.
FindExpired(k, t) ==
  /\ asking[k] = Answered
  /\ row[t].status = "presented" /\ row[t].late
  /\ asking' = [asking EXCEPT ![k] = t]
  /\ UNCHANGED <<row, attempt, authz, disturbed, joint, left, mishaps>>

MarkExpired(k) ==
  /\ asking[k] # Answered
  /\ row' \in {row, [row EXCEPT ![asking[k]].status = "expired"]}
  /\ asking' = [asking EXCEPT ![k] = Answered]
  /\ UNCHANGED <<attempt, authz, disturbed, joint, left, mishaps>>

\* expiresAt passes.
Age(t) ==
  /\ Mishap
  /\ row[t].status = "presented" /\ ~row[t].late
  /\ row' = [row EXCEPT ![t].late = TRUE]
  /\ UNCHANGED <<attempt, authz, asking, disturbed, joint, left>>

Next ==
  \/ \E a \in Attempt :
       \/ \E o \in Order : Begin(a, o)
       \/ \E t \in Token : \/ presentChallenge(a, t) \/ Validate(a, t) \/ Fail(a, t)
                           \/ cleanupChallenge(a, t) \/ FailCleanup(a, t)
       \/ \E w \in attempt[a].found : Finalize(a, w) \/ FailFinalizing(a, w)
       \/ FindChallenges(a) \/ FailFinding(a) \/ Crash(a)
  \/ \E k \in Asking : MarkExpired(k) \/ \E t \in Token : FindExpired(k, t)
  \/ \E t \in Token : Age(t)

Spec == Init /\ [][Next]_vars

-----------------------------------------------------------------------------
(* Properties.                                                             *)

TypeOK ==
  /\ row \in [Token -> [order : Order \cup {"none"},
                        status : {"none", "presented", "cleaned-up", "validated",
                                  "failed", "expired"},
                        late : BOOLEAN]]
  /\ attempt \in [Attempt -> [at : {"idle", "running", "failing", "validated", "failed",
                                    "over", "dead"},
                              order : Order \cup {"none"},
                              found : SUBSET [token : Token,
                                              status : {"validated", "failed"}]]]
  /\ authz \in [Attempt -> [Token -> {"none", "present", "wait", "remove"}]]
  /\ asking \in [Asking -> Token \cup {Answered}]
  /\ disturbed \subseteq Token
  /\ joint \subseteq Attempt
  /\ left \subseteq Token
  /\ mishaps \in 0 .. MaxMishaps

(***************************************************************************)
(* A challenge an attempt waits for is served, by any node, until it       *)
(* expires: neither the other orders' finalisations, nor callbacks and     *)
(* late writes of attempts that are over, nor the rows that a dead process *)
(* left take it away, unless they have this very token in hand.  The other *)
(* exception is an attempt that shares its order with another one, whose   *)
(* finalisation is for all rows of the order.                              *)
(***************************************************************************)
WaitingIsServed ==
  \A a \in Attempt \ joint, t \in Token :
    authz[a][t] = "wait" /\ attempt[a].at = "running" /\ t \notin disturbed =>
      row[t].status = "presented" \/ (row[t].status = "expired" /\ row[t].late)

(***************************************************************************)
(* No challenge stays published when nobody waits for it: one that is      *)
(* presented has a callback that still has to remove it, or this very one  *)
(* is left over because its removal failed or its process died.            *)
(***************************************************************************)
NothingLeftPresented ==
  \A t \in Token :
    row[t].status = "presented" =>
      t \in left \/ \E a \in Attempt : authz[a][t] \in {"wait", "remove"}
=============================================================================
