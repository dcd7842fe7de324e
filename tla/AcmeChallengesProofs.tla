------------------------ MODULE AcmeChallengesProofs ------------------------
(***************************************************************************)
(* Proofs about AcmeChallenges, for any orders, challenges, attempts and   *)
(* requests.                                                               *)
(***************************************************************************)
EXTENDS AcmeChallenges, TLAPS

-----------------------------------------------------------------------------
(* Type correctness, and what the steps do to one attempt, callback or row.*)

Row == [order : Order \cup {"none"},
        status : {"none", "presented", "cleaned-up", "validated", "failed", "expired"},
        late : BOOLEAN]

Write == [token : Token, status : {"validated", "failed"}]

AttemptType == [at : {"idle", "running", "failing", "validated", "failed", "over", "dead"},
                order : Order \cup {"none"},
                found : SUBSET Write]

Callback == {"none", "present", "wait", "remove"}

(* Before it begins, an attempt has no callbacks, and it has only rows to  *)
(* finalise once its outcome is known.                                     *)
AttemptInv ==
  \A a \in Attempt :
    /\ attempt[a].at = "idle" => \A t \in Token : authz[a][t] = "none"
    /\ attempt[a].at \in {"idle", "running"} => attempt[a].found = {}

LEMMA AttemptTyped ==
  ASSUME TypeOK
  PROVE  attempt \in [Attempt -> AttemptType]
BY DEF TypeOK, AttemptType, Write

LEMMA AuthzMoves ==
  ASSUME TypeOK, NEW a \in Attempt, NEW t \in Token, NEW place \in Callback,
         AuthzGoto(a, t, place)
  PROVE  /\ authz' \in [Attempt -> [Token -> Callback]]
         /\ authz'[a][t] = place
         /\ \A b \in Attempt, u \in Token :
              b # a \/ u # t => authz'[b][u] = authz[b][u]
<1>1. authz[a] \in [Token -> Callback]
  BY DEF TypeOK, Callback
<1>2. authz' = [authz EXCEPT ![a] = [authz[a] EXCEPT ![t] = place]]
  BY DEF AuthzGoto, TypeOK
<1> QED
  BY <1>1, <1>2 DEF TypeOK, Callback

LEMMA RowMoves ==
  ASSUME TypeOK, NEW t \in Token, NEW r \in Row, row' = [row EXCEPT ![t] = r]
  PROVE  /\ row' \in [Token -> Row]
         /\ row'[t] = r
         /\ \A u \in Token \ {t} : row'[u] = row[u]
BY DEF TypeOK, Row

LEMMA BeginMoves ==
  ASSUME TypeOK, NEW a \in Attempt, NEW o \in Order, Begin(a, o)
  PROVE  /\ attempt' \in [Attempt -> AttemptType]
         /\ attempt'[a].at = "running" /\ attempt'[a].order = o /\ attempt'[a].found = {}
         /\ \A b \in Attempt \ {a} : attempt'[b] = attempt[b]
         /\ authz' \in [Attempt -> [Token -> Callback]]
         /\ \A t \in Token : \/ authz'[a][t] = "none"
                             \/ /\ authz'[a][t] = "present"
                                /\ InHand(a, t) => t \in disturbed'
         /\ \A b \in Attempt \ {a} : authz'[b] = authz[b]
         /\ disturbed \subseteq disturbed' /\ disturbed' \subseteq Token
<1> DEFINE new == [NoAttempt EXCEPT !.at = "running", !.order = o]
<1>1. new.at = "running" /\ new.order = o /\ new.found = {} /\ new \in AttemptType
  BY DEF NoAttempt, AttemptType
<1>2. attempt' = [attempt EXCEPT ![a] = new]
  BY DEF Begin
<1> HIDE DEF new
<1>3. PICK tokens \in SUBSET Token :
        /\ authz' = [authz EXCEPT ![a] =
                       [t \in Token |-> IF t \in tokens THEN "present" ELSE "none"]]
        /\ disturbed' = disturbed \cup {t \in tokens : InHand(a, t)}
  BY DEF Begin
<1>4. [t \in Token |-> IF t \in tokens THEN "present" ELSE "none"] \in [Token -> Callback]
  BY DEF Callback
<1>5. authz' \in [Attempt -> [Token -> Callback]] /\ \A b \in Attempt \ {a} : authz'[b] = authz[b]
  BY <1>3, <1>4 DEF TypeOK, Callback
<1>6. \A t \in Token : authz'[a][t] = IF t \in tokens THEN "present" ELSE "none"
  BY <1>3 DEF TypeOK
<1>7. /\ attempt' \in [Attempt -> AttemptType] /\ attempt'[a] = new
      /\ \A b \in Attempt \ {a} : attempt'[b] = attempt[b]
  BY <1>1, <1>2, AttemptTyped
<1>8. disturbed' \subseteq Token
  BY <1>3 DEF TypeOK
<1> QED
  BY <1>1, <1>3, <1>5, <1>6, <1>7, <1>8

(* One attempt gets on, with its order. *)
GetsOn(a) ==
  /\ attempt' \in [Attempt -> AttemptType]
  /\ attempt'[a].order = attempt[a].order
  /\ \A b \in Attempt \ {a} : attempt'[b] = attempt[b]

LEMMA AttemptMoves ==
  ASSUME TypeOK, NEW a \in Attempt,
         NEW place \in {"idle", "running", "failing", "validated", "failed", "over", "dead"},
         NEW found \in SUBSET Write,
         attempt' = [attempt EXCEPT ![a] = [attempt[a] EXCEPT !.at = place, !.found = found]]
  PROVE  GetsOn(a) /\ attempt'[a].at = place /\ attempt'[a].found = found
<1> DEFINE new == [attempt[a] EXCEPT !.at = place, !.found = found]
<1>1. attempt[a] \in AttemptType
  BY DEF TypeOK, AttemptType, Write
<1>2. new \in AttemptType /\ new.at = place /\ new.order = attempt[a].order /\ new.found = found
  BY <1>1 DEF AttemptType
<1> HIDE DEF new
<1> QED
  BY <1>2 DEF TypeOK, AttemptType, GetsOn, Write

LEMMA FailMoves ==
  ASSUME TypeOK, NEW a \in Attempt, NEW t \in Token, Fail(a, t)
  PROVE  /\ GetsOn(a) /\ attempt'[a].found = attempt[a].found
         /\ \/ attempt'[a].at = attempt[a].at
            \/ attempt[a].at = "running" /\ attempt'[a].at = "failing"
<1>1. attempt[a] \in AttemptType
  BY DEF TypeOK, AttemptType, Write
<1>2. CASE attempt[a].at = "running"
  <2>1. attempt' = [attempt EXCEPT ![a] =
                      [attempt[a] EXCEPT !.at = "failing", !.found = attempt[a].found]]
    BY <1>1, <1>2 DEF Fail, AttemptType
  <2>2. attempt[a].found \in SUBSET Write
    BY <1>1 DEF AttemptType
  <2>3. GetsOn(a) /\ attempt'[a].at = "failing" /\ attempt'[a].found = attempt[a].found
    BY <2>1, <2>2, AttemptMoves
  <2> QED
    BY <1>2, <2>3
<1>3. CASE attempt[a].at # "running"
  BY <1>3 DEF Fail, GetsOn, TypeOK, AttemptType, Write
<1> QED
  BY <1>2, <1>3

LEMMA FinalizingMoves ==
  ASSUME TypeOK, NEW a \in Attempt, NEW status \in {"validated", "failed"},
         NEW found \in SUBSET Write, Finalizing(a, status, found)
  PROVE  GetsOn(a) /\ attempt'[a].at \in {status, "over"} /\ attempt'[a].found = found
<1> DEFINE place == IF \E w \in found : w.status = status THEN status ELSE "over"
<1>1. attempt' = [attempt EXCEPT ![a] = [attempt[a] EXCEPT !.at = place, !.found = found]]
  BY DEF Finalizing, TypeOK
<1>2. place \in {status, "over"}
  OBVIOUS
<1> HIDE DEF place
<1>3. place \in {"idle", "running", "failing", "validated", "failed", "over", "dead"}
  BY <1>2
<1> QED
  BY <1>1, <1>2, <1>3, AttemptMoves

LEMMA WritesTyped ==
  ASSUME NEW tokens \in SUBSET Token, NEW status \in {"validated", "failed"}
  PROVE  /\ Writes(tokens, status) \in SUBSET Write
         /\ \A w \in Writes(tokens, status) : w.token \in tokens
BY DEF Writes, Write

(* The finalisation: what an attempt reads, writes or fails to write.      *)
Finalization(a) ==
  \/ FindChallenges(a) \/ FailFinding(a)
  \/ \E w \in attempt[a].found : Finalize(a, w) \/ FailFinalizing(a, w)

LEMMA FinalizationMoves ==
  ASSUME TypeOK, AttemptInv, NEW a \in Attempt, Finalization(a)
  PROVE  /\ GetsOn(a)
         /\ attempt[a].at \in {"running", "failing"} \/ attempt[a].found # {}
         /\ attempt'[a].at \in {"failing", "validated", "failed", "over", "dead"}
         /\ attempt'[a].at \in {"failing", "validated", "failed"} => InProgress(a)
         /\ \A w \in attempt'[a].found :
              w \in attempt[a].found \/ (InProgress(a) /\ w.token \in OfOrder(a))
         /\ UNCHANGED <<authz, asking, disturbed, joint>>
<1>0. attempt[a] \in AttemptType
  BY DEF TypeOK, AttemptType, Write
<1>1. CASE FindChallenges(a)
  <2>1. OfOrder(a) \in SUBSET Token /\ InProgress(a)
    BY <1>1 DEF OfOrder, FindChallenges, InProgress
  <2>2. PICK status \in {"validated", "failed"}, found \in SUBSET Write :
          /\ Finalizing(a, status, found)
          /\ \A w \in found : w \in attempt[a].found \/ w.token \in OfOrder(a)
    <3>1. attempt[a].found \in SUBSET Write
      BY <1>0 DEF AttemptType
    <3>2. CASE Finalizing(a, "validated", Writes(OfOrder(a), "validated"))
      BY <2>1, <3>2, WritesTyped
    <3>3. CASE Finalizing(a, "failed", attempt[a].found \cup Writes(OfOrder(a), "failed"))
      <4>1. /\ attempt[a].found \cup Writes(OfOrder(a), "failed") \in SUBSET Write
            /\ \A w \in attempt[a].found \cup Writes(OfOrder(a), "failed") :
                 w \in attempt[a].found \/ w.token \in OfOrder(a)
        BY <2>1, <3>1, WritesTyped
      <4> QED
        BY <3>3, <4>1
    <3> QED
      BY <1>1, <3>2, <3>3 DEF FindChallenges
  <2>3. GetsOn(a) /\ attempt'[a].at \in {status, "over"} /\ attempt'[a].found = found
    BY <2>2, FinalizingMoves
  <2> QED
    BY <1>1, <2>1, <2>2, <2>3 DEF FindChallenges
<1>2. CASE FailFinding(a)
  <2>1. PICK place \in {"failing", "over"} : attempt' = [attempt EXCEPT ![a].at = place]
    BY <1>2 DEF FailFinding
  <2>2. attempt' = [attempt EXCEPT ![a] =
                      [attempt[a] EXCEPT !.at = place, !.found = attempt[a].found]]
    BY <1>0, <2>1 DEF AttemptType
  <2>3. GetsOn(a) /\ attempt'[a].at = place /\ attempt'[a].found = attempt[a].found
    BY <1>0, <2>2, AttemptMoves DEF AttemptType
  <2> QED
    BY <1>2, <2>3 DEF FailFinding, InProgress
<1>3. ASSUME NEW w \in attempt[a].found, Finalize(a, w)
      PROVE  /\ GetsOn(a) /\ attempt'[a].found = attempt[a].found \ {w}
             /\ attempt'[a].at \in {attempt[a].at, "over"}
  <2>1. w \in Write /\ attempt[a].found \ {w} \in SUBSET Write
    BY <1>0 DEF AttemptType
  <2>2. CASE attempt[a].at = w.status
    <3>1. w.status \in {"validated", "failed"}
      BY <2>1 DEF Write
    <3> QED
      BY <1>3, <2>1, <2>2, <3>1, FinalizingMoves DEF Finalize
  <2>3. CASE attempt[a].at # w.status
    <3>0. PICK found \in SUBSET Write : found = attempt[a].found \ {w}
      BY <2>1
    <3>1. attempt' = [attempt EXCEPT ![a] = [attempt[a] EXCEPT !.at = attempt[a].at,
                                                               !.found = found]]
      BY <1>0, <1>3, <2>3, <3>0 DEF Finalize, AttemptType, TypeOK
    <3>2. attempt[a].at \in {"idle", "running", "failing", "validated", "failed", "over", "dead"}
      BY <1>0 DEF AttemptType
    <3>3. /\ GetsOn(a) /\ attempt'[a].at = attempt[a].at
          /\ attempt'[a].found = found
      BY <3>1, <3>2, AttemptMoves
    <3> QED
      BY <3>0, <3>3
  <2> QED
    BY <2>2, <2>3
<1>4. ASSUME NEW w \in attempt[a].found, FailFinalizing(a, w)
      PROVE  /\ GetsOn(a) /\ attempt'[a].found = attempt[a].found \ {w}
             /\ attempt'[a].at \in {attempt[a].at, "failing", "over"}
             /\ attempt'[a].at = "failing" => attempt[a].at \in {"validated", "failing"}
  <2> DEFINE place == AfterFailure(attempt[a].at, w.status)
  <2>1. /\ place \in {attempt[a].at, "failing", "over"}
        /\ place = "failing" => attempt[a].at \in {"validated", "failing"}
    BY DEF AfterFailure
  <2>a. PICK found \in SUBSET Write : found = attempt[a].found \ {w}
    BY <1>0 DEF AttemptType
  <2>2. attempt' = [attempt EXCEPT ![a] = [attempt[a] EXCEPT !.at = place, !.found = found]]
    BY <1>4, <2>a DEF FailFinalizing, TypeOK
  <2> HIDE DEF place
  <2>3. place \in {"idle", "running", "failing", "validated", "failed", "over", "dead"}
    BY <1>0, <2>1 DEF AttemptType
  <2>4. GetsOn(a) /\ attempt'[a].at = place /\ attempt'[a].found = found
    BY <2>2, <2>3, AttemptMoves
  <2> QED
    BY <2>1, <2>a, <2>4
<1>5. attempt[a].found # {} =>
        attempt[a].at \in {"failing", "validated", "failed", "over", "dead"}
  BY <1>0 DEF AttemptInv, AttemptType
<1> QED
  BY <1>1, <1>2, <1>3, <1>4, <1>5 DEF Finalization, Finalize, FailFinalizing, InProgress

LEMMA CrashMoves ==
  ASSUME TypeOK, NEW a \in Attempt, Crash(a)
  PROVE  /\ attempt' \in [Attempt -> AttemptType]
         /\ attempt'[a].at = "dead" /\ attempt'[a].found = {}
         /\ \A b \in Attempt \ {a} : attempt'[b] = attempt[b]
         /\ authz' \in [Attempt -> [Token -> Callback]]
         /\ \A t \in Token : authz'[a][t] = "none"
         /\ \A b \in Attempt \ {a} : authz'[b] = authz[b]
<1> DEFINE new == [NoAttempt EXCEPT !.at = "dead"]
           none == [t \in Token |-> "none"]
<1>1. new.at = "dead" /\ new.found = {} /\ new \in AttemptType
  BY DEF NoAttempt, AttemptType
<1>2. none \in [Token -> Callback] /\ \A t \in Token : none[t] = "none"
  BY DEF Callback
<1>3. attempt' = [attempt EXCEPT ![a] = new] /\ authz' = [authz EXCEPT ![a] = none]
  BY DEF Crash
<1> HIDE DEF new, none
<1>4. /\ attempt' \in [Attempt -> AttemptType] /\ attempt'[a] = new
      /\ \A b \in Attempt \ {a} : attempt'[b] = attempt[b]
  BY <1>1, <1>3, AttemptTyped
<1>5. /\ authz' \in [Attempt -> [Token -> Callback]] /\ authz'[a] = none
      /\ \A b \in Attempt \ {a} : authz'[b] = authz[b]
  BY <1>2, <1>3 DEF TypeOK, Callback
<1> QED
  BY <1>1, <1>2, <1>4, <1>5

LEMMA PresentMoves ==
  ASSUME TypeOK, NEW a \in Attempt, NEW t \in Token, presentChallenge(a, t)
  PROVE  /\ row' \in [Token -> Row]
         /\ row'[t].status = "presented" /\ ~row'[t].late /\ row'[t].order = attempt[a].order
         /\ \A u \in Token \ {t} : row'[u] = row[u]
<1> DEFINE new == [order |-> attempt[a].order, status |-> "presented", late |-> FALSE]
<1>1. new \in Row
  BY DEF TypeOK, Row
<1>2. row' = [row EXCEPT ![t] = new]
  BY DEF presentChallenge
<1> QED
  BY <1>1, <1>2, RowMoves

LEMMA CleanupMoves ==
  ASSUME TypeOK, NEW a \in Attempt, NEW t \in Token, cleanupChallenge(a, t)
  PROVE  /\ row' \in [Token -> Row]
         /\ row'[t].status = "cleaned-up"
         /\ \A u \in Token \ {t} : row'[u] = row[u]
<1> DEFINE added == [order |-> attempt[a].order, status |-> "cleaned-up", late |-> FALSE]
           changed == [row[t] EXCEPT !.status = "cleaned-up", !.late = FALSE]
<1>1. added \in Row /\ added.status = "cleaned-up"
  BY DEF TypeOK, Row
<1>2. row[t] \in Row
  BY DEF TypeOK, Row
<1>3. changed \in Row /\ changed.status = "cleaned-up"
  BY <1>2 DEF Row
<1>4. row' = [row EXCEPT ![t] = IF row[t] = NoRow THEN added ELSE changed]
  BY DEF cleanupChallenge
<1> HIDE DEF added, changed
<1> QED
  BY <1>1, <1>3, <1>4, RowMoves

LEMMA FinalizeMoves ==
  ASSUME TypeOK, NEW a \in Attempt, NEW w \in attempt[a].found, Finalize(a, w)
  PROVE  /\ row' \in [Token -> Row]
         /\ w.token \in Token /\ row'[w.token].status # "presented"
         /\ \A u \in Token \ {w.token} : row'[u] = row[u]
<1> DEFINE new == [row[w.token] EXCEPT !.late = FALSE, !.status = w.status]
<1>1. w \in Write
  BY DEF TypeOK, Write
<1>2. w.token \in Token /\ w.status \in {"validated", "failed"}
  BY <1>1 DEF Write
<1>3. row[w.token] \in Row
  BY <1>2 DEF TypeOK, Row
<1>4. new \in Row /\ new.status = w.status
  BY <1>2, <1>3 DEF Row
<1>5. row' = [row EXCEPT ![w.token] = new]
  BY <1>2 DEF Finalize, TypeOK
<1> HIDE DEF new
<1> QED
  BY <1>2, <1>4, <1>5, RowMoves

LEMMA MarkExpiredMoves ==
  ASSUME TypeOK, NEW k \in Asking, MarkExpired(k)
  PROVE  /\ asking[k] \in Token
         /\ row' \in [Token -> Row]
         /\ \A t \in Token : /\ row'[t].order = row[t].order
                             /\ row'[t].late = row[t].late
                             /\ \/ row'[t].status = row[t].status
                                \/ t = asking[k] /\ row'[t].status = "expired"
<1>1. asking[k] \in Token
  BY DEF MarkExpired, TypeOK
<1> DEFINE new == [row[asking[k]] EXCEPT !.status = "expired"]
<1>2. row[asking[k]] \in Row
  BY <1>1 DEF TypeOK, Row
<1>3. /\ new \in Row /\ new.status = "expired"
      /\ new.order = row[asking[k]].order /\ new.late = row[asking[k]].late
  BY <1>2 DEF Row
<1>4. row' = row \/ row' = [row EXCEPT ![asking[k]] = new]
  BY <1>1 DEF MarkExpired, TypeOK
<1> HIDE DEF new
<1>5. CASE row' = row
  BY <1>1, <1>5 DEF TypeOK, Row
<1>6. CASE row' = [row EXCEPT ![asking[k]] = new]
  BY <1>1, <1>3, <1>6, RowMoves
<1> QED
  BY <1>4, <1>5, <1>6

LEMMA AgeMoves ==
  ASSUME TypeOK, NEW t \in Token, Age(t)
  PROVE  /\ row' \in [Token -> Row]
         /\ \A u \in Token : /\ row'[u].order = row[u].order
                             /\ row'[u].status = row[u].status
                             /\ row'[u].late = (row[u].late \/ u = t)
<1> DEFINE new == [row[t] EXCEPT !.late = TRUE]
<1>1. row[t] \in Row
  BY DEF TypeOK, Row
<1>2. new \in Row /\ new.status = row[t].status /\ new.order = row[t].order /\ new.late = TRUE
  BY <1>1 DEF Row
<1>3. row' = [row EXCEPT ![t] = new]
  BY DEF Age, TypeOK
<1> HIDE DEF new
<1>4. \A u \in Token : row[u].late \in BOOLEAN
  BY DEF TypeOK
<1> QED
  BY <1>2, <1>3, <1>4, RowMoves

LEMMA TypeStep ==
  ASSUME AcmeAssumption, TypeOK, AttemptInv, [Next]_vars
  PROVE  TypeOK' /\ AttemptInv'
<1> DEFINE Types == /\ row \in [Token -> Row]
                    /\ attempt \in [Attempt -> AttemptType]
                    /\ authz \in [Attempt -> [Token -> Callback]]
                    /\ asking \in [Asking -> Token \cup {Answered}]
                    /\ disturbed \subseteq Token
                    /\ joint \subseteq Attempt
                    /\ left \subseteq Token
                    /\ mishaps \in 0 .. MaxMishaps
<1>0. Types /\ (Types' => TypeOK')
  BY DEF TypeOK, Row, AttemptType, Callback, Write
<1>a. Mishap => mishaps' \in 0 .. MaxMishaps
  BY DEF Mishap, TypeOK, AcmeAssumption
<1>1. ASSUME NEW a \in Attempt, NEW o \in Order, Begin(a, o) PROVE TypeOK' /\ AttemptInv'
  <2>1. Types'
    BY <1>0, <1>1, BeginMoves DEF Begin
  <2>2. ASSUME NEW b \in Attempt
        PROVE  /\ attempt'[b].at = "idle" => \A u \in Token : authz'[b][u] = "none"
               /\ attempt'[b].at \in {"idle", "running"} => attempt'[b].found = {}
    <3>1. CASE b = a
      BY <1>1, <3>1, BeginMoves
    <3>2. CASE b # a
      BY <1>1, <3>2, BeginMoves DEF AttemptInv
    <3> QED
      BY <3>1, <3>2
  <2>3. AttemptInv'
    BY <2>2 DEF AttemptInv
  <2> QED
    BY <1>0, <2>1, <2>3
<1>2. ASSUME NEW a \in Attempt, NEW t \in Token, NEW place \in Callback, AuthzGoto(a, t, place),
             authz[a][t] # "none", attempt' = attempt
      PROVE  AttemptInv'
  BY <1>2, AuthzMoves DEF AttemptInv
<1>3. ASSUME NEW a \in Attempt, NEW t \in Token, presentChallenge(a, t)
      PROVE  TypeOK' /\ AttemptInv'
  <2>1. "wait" \in Callback /\ AuthzGoto(a, t, "wait") /\ authz[a][t] # "none"
    BY <1>3 DEF presentChallenge, Callback, AuthzAt
  <2>2. Types'
    BY <1>0, <1>3, <2>1, PresentMoves, AuthzMoves DEF presentChallenge
  <2>3. AttemptInv'
    BY <1>2, <1>3, <2>1 DEF presentChallenge
  <2> QED
    BY <1>0, <2>2, <2>3
<1>4. ASSUME NEW a \in Attempt, NEW t \in Token, Validate(a, t)
      PROVE  TypeOK' /\ AttemptInv'
  <2>1. "remove" \in Callback /\ AuthzGoto(a, t, "remove") /\ authz[a][t] # "none"
    BY <1>4 DEF Validate, Callback, AuthzAt
  <2> QED
    BY <1>0, <1>2, <1>4, <2>1, AuthzMoves DEF Validate
<1>5. ASSUME NEW a \in Attempt, NEW t \in Token, Fail(a, t)
      PROVE  TypeOK' /\ AttemptInv'
  <2>1. "remove" \in Callback /\ AuthzGoto(a, t, "remove") /\ authz[a][t] # "none"
    BY <1>5 DEF Fail, Callback
  <2>2. Types'
    BY <1>0, <1>5, <2>1, FailMoves, AuthzMoves DEF Fail, GetsOn
  <2>3. ASSUME NEW b \in Attempt
        PROVE  /\ attempt'[b].at = "idle" => \A u \in Token : authz'[b][u] = "none"
               /\ attempt'[b].at \in {"idle", "running"} => attempt'[b].found = {}
    <3>1. /\ attempt'[b].found = attempt[b].found
          /\ \/ attempt'[b].at = attempt[b].at
             \/ attempt[b].at = "running" /\ attempt'[b].at = "failing"
      BY <1>5, FailMoves DEF GetsOn
    <3>2. \A u \in Token : authz[b][u] = "none" => authz'[b][u] = "none"
      BY <2>1, AuthzMoves
    <3> QED
      BY <3>1, <3>2 DEF AttemptInv
  <2>4. AttemptInv'
    BY <2>3 DEF AttemptInv
  <2> QED
    BY <1>0, <2>2, <2>4
<1>6. ASSUME NEW a \in Attempt, NEW t \in Token, cleanupChallenge(a, t) \/ FailCleanup(a, t)
      PROVE  TypeOK' /\ AttemptInv'
  <2>1. /\ "none" \in Callback /\ AuthzGoto(a, t, "none") /\ authz[a][t] # "none"
        /\ attempt' = attempt
    BY <1>6 DEF cleanupChallenge, FailCleanup, Callback, AuthzAt
  <2>2. row' \in [Token -> Row]
    BY <1>0, <1>6, CleanupMoves DEF FailCleanup
  <2>3. Types'
    BY <1>0, <1>6, <1>a, <2>1, <2>2, AuthzMoves DEF cleanupChallenge, FailCleanup
  <2>4. AttemptInv'
    BY <1>2, <2>1
  <2> QED
    BY <1>0, <2>3, <2>4
<1>7. ASSUME NEW a \in Attempt, Finalization(a) PROVE TypeOK' /\ AttemptInv'
  <2>1. row' \in [Token -> Row]
    BY <1>0, <1>7, FinalizeMoves DEF Finalization, FindChallenges, FailFinding, FailFinalizing
  <2>2. mishaps' \in 0 .. MaxMishaps /\ left' \subseteq Token
    BY <1>0, <1>7, <1>a
    DEF Finalization, FindChallenges, FailFinding, Finalize, FailFinalizing
  <2>3. Types'
    BY <1>0, <1>7, <2>1, <2>2, FinalizationMoves DEF GetsOn
  <2>4. AttemptInv'
    BY <1>7, FinalizationMoves DEF AttemptInv, GetsOn
  <2> QED
    BY <1>0, <2>3, <2>4
<1>8. ASSUME NEW a \in Attempt, Crash(a) PROVE TypeOK' /\ AttemptInv'
  <2>1. Types'
    BY <1>0, <1>8, <1>a, CrashMoves DEF Crash
  <2>2. ASSUME NEW b \in Attempt
        PROVE  /\ attempt'[b].at = "idle" => \A u \in Token : authz'[b][u] = "none"
               /\ attempt'[b].at \in {"idle", "running"} => attempt'[b].found = {}
    <3>1. CASE b = a
      BY <1>8, <3>1, CrashMoves
    <3>2. CASE b # a
      <4>1. attempt'[b] = attempt[b] /\ authz'[b] = authz[b]
        BY <1>8, <3>2, CrashMoves
      <4> QED
        BY <4>1 DEF AttemptInv
    <3> QED
      BY <3>1, <3>2
  <2>3. AttemptInv'
    BY <2>2 DEF AttemptInv
  <2> QED
    BY <1>0, <2>1, <2>3
<1>9. ASSUME NEW k \in Asking, MarkExpired(k) PROVE TypeOK' /\ AttemptInv'
  <2>1. asking' \in [Asking -> Token \cup {Answered}]
    BY <1>0, <1>9 DEF MarkExpired
  <2>2. row' \in [Token -> Row]
    BY <1>9, MarkExpiredMoves
  <2>3. Types'
    BY <1>0, <1>9, <2>1, <2>2 DEF MarkExpired
  <2>4. AttemptInv'
    BY <1>9 DEF MarkExpired, AttemptInv
  <2> QED
    BY <1>0, <2>3, <2>4
<1>10. ASSUME NEW k \in Asking, NEW t \in Token, FindExpired(k, t) PROVE TypeOK' /\ AttemptInv'
  BY <1>0, <1>10 DEF FindExpired, AttemptInv
<1>11. ASSUME NEW t \in Token, Age(t) PROVE TypeOK' /\ AttemptInv'
  BY <1>0, <1>11, <1>a, AgeMoves DEF Age, AttemptInv
<1>12. CASE UNCHANGED vars
  BY <1>12 DEF vars, TypeOK, AttemptInv
<1> QED
  BY <1>1, <1>3, <1>4, <1>5, <1>6, <1>7, <1>8, <1>9, <1>10, <1>11, <1>12 DEF Next, Finalization

(* Every variable keeps its type. *)
THEOREM TypeCorrect ==
  ASSUME AcmeAssumption
  PROVE  Spec => []TypeOK
<1>1. Init => TypeOK /\ AttemptInv
  BY DEF Init, TypeOK, AttemptInv, NoRow, NoAttempt, Answered, AcmeAssumption
<1>2. TypeOK /\ AttemptInv /\ [Next]_vars => TypeOK' /\ AttemptInv'
  BY TypeStep
<1> QED
  BY <1>1, <1>2, PTL DEF Spec

-----------------------------------------------------------------------------
(* What is left behind.                                                    *)

(* Nothing but presentChallenge makes a row presented. *)
LEMMA OnlyPresenting ==
  ASSUME TypeOK, AttemptInv, [Next]_vars, NEW t \in Token,
         \A a \in Attempt : ~presentChallenge(a, t),
         row'[t].status = "presented"
  PROVE  row[t].status = "presented"
<1>1. ASSUME NEW a \in Attempt, NEW u \in Token, presentChallenge(a, u)
      PROVE  row[t].status = "presented"
  BY <1>1, PresentMoves
<1>2. ASSUME NEW a \in Attempt, NEW u \in Token, cleanupChallenge(a, u)
      PROVE  row[t].status = "presented"
  BY <1>2, CleanupMoves
<1>3. ASSUME NEW a \in Attempt, NEW w \in attempt[a].found, Finalize(a, w)
      PROVE  row[t].status = "presented"
  BY <1>3, FinalizeMoves
<1>4. ASSUME NEW k \in Asking, MarkExpired(k) PROVE row[t].status = "presented"
  BY <1>4, MarkExpiredMoves
<1>5. ASSUME NEW u \in Token, Age(u) PROVE row[t].status = "presented"
  BY <1>5, AgeMoves
<1>6. ASSUME row' = row PROVE row[t].status = "presented"
  BY <1>6
<1> QED
  BY <1>1, <1>2, <1>3, <1>4, <1>5, <1>6
  DEF Next, vars, Begin, Validate, Fail, FailCleanup, FindChallenges, FailFinding,
      FailFinalizing, Crash, FindExpired

(* A challenge that is left over stays noted as such until its row is      *)
(* written, and then it is presented only if it is presented anew.         *)
LEMMA LeftStays ==
  ASSUME TypeOK, AttemptInv, [Next]_vars, NEW t \in Token,
         \A a \in Attempt : ~presentChallenge(a, t),
         row'[t].status = "presented", t \in left
  PROVE  t \in left'
<1>1. ASSUME NEW a \in Attempt, NEW u \in Token, presentChallenge(a, u) PROVE t \in left'
  BY <1>1 DEF presentChallenge
<1>2. ASSUME NEW a \in Attempt, NEW u \in Token, cleanupChallenge(a, u) PROVE t \in left'
  BY <1>2, CleanupMoves DEF cleanupChallenge
<1>3. ASSUME NEW a \in Attempt, NEW w \in attempt[a].found, Finalize(a, w) PROVE t \in left'
  BY <1>3, FinalizeMoves DEF Finalize
<1>4. ASSUME left \subseteq left' PROVE t \in left'
  BY <1>4
<1> QED
  BY <1>1, <1>2, <1>3, <1>4
  DEF Next, vars, Begin, Validate, Fail, FailCleanup, FindChallenges, FailFinding,
      FailFinalizing, Crash, FindExpired, MarkExpired, Age

(* A callback that has presented its challenge is there until it has       *)
(* removed it, or has failed to or died, which leaves the challenge over.  *)
LEMMA CallbackStays ==
  ASSUME TypeOK, AttemptInv, [Next]_vars, NEW a \in Attempt, NEW t \in Token,
         authz[a][t] \in {"wait", "remove"}, ~cleanupChallenge(a, t)
  PROVE  authz'[a][t] \in {"wait", "remove"} \/ t \in left'
<1>1. ASSUME NEW b \in Attempt, NEW o \in Order, Begin(b, o)
      PROVE  authz'[a][t] \in {"wait", "remove"}
  <2>1. b # a
    BY <1>1 DEF Begin, AttemptInv
  <2> QED
    BY <1>1, <2>1, BeginMoves
<1>2. ASSUME NEW b \in Attempt, Crash(b)
      PROVE  authz'[a][t] \in {"wait", "remove"} \/ t \in left'
  <2>1. CASE b = a
    BY <1>2, <2>1 DEF Crash
  <2>2. CASE b # a
    BY <1>2, <2>2, CrashMoves
  <2> QED
    BY <2>1, <2>2
<1>3. ASSUME NEW b \in Attempt, NEW u \in Token, NEW place \in {"wait", "remove"},
             AuthzGoto(b, u, place)
      PROVE  authz'[a][t] \in {"wait", "remove"}
  BY <1>3, AuthzMoves DEF Callback
<1>4. ASSUME NEW b \in Attempt, NEW u \in Token, cleanupChallenge(b, u)
      PROVE  authz'[a][t] \in {"wait", "remove"}
  <2>1. b # a \/ u # t
    BY <1>4
  <2> QED
    BY <1>4, <2>1, AuthzMoves DEF cleanupChallenge, Callback
<1>5. ASSUME NEW b \in Attempt, NEW u \in Token, FailCleanup(b, u)
      PROVE  authz'[a][t] \in {"wait", "remove"} \/ t \in left'
  <2>1. CASE u = t
    BY <1>5, <2>1 DEF FailCleanup
  <2>2. CASE u # t
    BY <1>5, <2>2, AuthzMoves DEF FailCleanup, Callback
  <2> QED
    BY <2>1, <2>2
<1>6. ASSUME authz' = authz PROVE authz'[a][t] \in {"wait", "remove"}
  BY <1>6
<1> QED
  BY <1>1, <1>2, <1>3, <1>4, <1>5, <1>6
  DEF Next, vars, presentChallenge, Validate, Fail, Finalize, FindChallenges, FailFinding,
      FailFinalizing, MarkExpired, FindExpired, Age

LEMMA PresentedStep ==
  ASSUME TypeOK, AttemptInv, NothingLeftPresented, [Next]_vars
  PROVE  NothingLeftPresented'
<1> SUFFICES ASSUME NEW t \in Token, row'[t].status = "presented"
             PROVE  t \in left' \/ \E a \in Attempt : authz'[a][t] \in {"wait", "remove"}
  BY DEF NothingLeftPresented
<1>1. CASE \E a \in Attempt : presentChallenge(a, t)
  <2>1. PICK a \in Attempt : presentChallenge(a, t)
    BY <1>1
  <2>2. "wait" \in Callback /\ AuthzGoto(a, t, "wait")
    BY <2>1 DEF presentChallenge, Callback
  <2> QED
    BY <2>2, AuthzMoves
<1>2. CASE \A a \in Attempt : ~presentChallenge(a, t)
  <2>1. row[t].status = "presented"
    BY <1>2, OnlyPresenting
  <2>2. ASSUME NEW a \in Attempt, authz[a][t] \in {"wait", "remove"}
        PROVE  authz'[a][t] \in {"wait", "remove"} \/ t \in left'
    <3>1. ~cleanupChallenge(a, t)
      BY CleanupMoves
    <3> QED
      BY <2>2, <3>1, CallbackStays
  <2> QED
    BY <1>2, <2>1, <2>2, LeftStays DEF NothingLeftPresented
<1> QED
  BY <1>1, <1>2

(***************************************************************************)
(* However attempts and requests overlap, and whichever queries fail, a    *)
(* challenge that stays published without a callback to remove it is one   *)
(* whose own removal failed or was cut off by a death: a callback removes  *)
(* its challenge whatever has happened to the row or to the attempt        *)
(* meanwhile, and nothing else publishes one.                              *)
(***************************************************************************)
THEOREM NothingIsLeftPresented ==
  ASSUME AcmeAssumption
  PROVE  Spec => []NothingLeftPresented
<1>1. Init => TypeOK /\ AttemptInv /\ NothingLeftPresented
  BY DEF Init, TypeOK, AttemptInv, NoRow, NoAttempt, Answered, NothingLeftPresented,
         AcmeAssumption
<1>2. TypeOK /\ AttemptInv /\ NothingLeftPresented /\ [Next]_vars
        => TypeOK' /\ AttemptInv' /\ NothingLeftPresented'
  BY TypeStep, PresentedStep
<1> QED
  BY <1>1, <1>2, PTL DEF Spec

-----------------------------------------------------------------------------
(* What is served.                                                         *)

(* Attempts in progress at one order have noted that they share it. *)
SharersAreJoint ==
  \A a, b \in Attempt :
    a # b /\ InProgress(a) /\ InProgress(b) /\ attempt[a].order = attempt[b].order =>
      a \in joint /\ b \in joint

(* Nobody else is to write to the row, but a request that found it late. *)
Undisturbed(a, t) ==
  /\ \A b \in Attempt \ {a} : /\ authz[b][t] = "none"
                             /\ \A w \in attempt[b].found : w.token # t
  /\ \A k \in Asking : asking[k] = t => row[t].late
  /\ row[t].order = attempt[a].order
  /\ row[t].status = "presented" \/ (row[t].status = "expired" /\ row[t].late)

WaitInv ==
  \A a \in Attempt \ joint, t \in Token :
    authz[a][t] = "wait" /\ attempt[a].at = "running" /\ t \notin disturbed =>
      Undisturbed(a, t)

LEMMA SharersStep ==
  ASSUME TypeOK, AttemptInv, SharersAreJoint, [Next]_vars
  PROVE  SharersAreJoint'
<1>1. ASSUME NEW a \in Attempt, NEW o \in Order, Begin(a, o) PROVE SharersAreJoint'
  <2>1. /\ attempt'[a].order = o
        /\ \A b \in Attempt \ {a} : attempt'[b] = attempt[b]
        /\ ~InProgress(a)
    BY <1>1, BeginMoves DEF Begin, InProgress
  <2>2. /\ joint \subseteq joint'
        /\ \A b \in Attempt : InProgress(b) /\ attempt[b].order = o => {a, b} \subseteq joint'
    BY <1>1 DEF Begin
  <2> QED
    BY <2>1, <2>2 DEF SharersAreJoint, InProgress
<1>2. ASSUME \A b \in Attempt : InProgress(b)' =>
               InProgress(b) /\ attempt'[b].order = attempt[b].order,
             joint' = joint
      PROVE  SharersAreJoint'
  BY <1>2 DEF SharersAreJoint
<1>3. ASSUME NEW a \in Attempt, NEW t \in Token, Fail(a, t) PROVE SharersAreJoint'
  <2>1. \A b \in Attempt : InProgress(b)' =>
          InProgress(b) /\ attempt'[b].order = attempt[b].order
    BY <1>3, FailMoves DEF InProgress, GetsOn
  <2> QED
    BY <1>2, <1>3, <2>1 DEF Fail
<1>4. ASSUME NEW a \in Attempt, Finalization(a) PROVE SharersAreJoint'
  <2>1. \A b \in Attempt : InProgress(b)' =>
          InProgress(b) /\ attempt'[b].order = attempt[b].order
    BY <1>4, FinalizationMoves DEF InProgress, GetsOn
  <2> QED
    BY <1>2, <1>4, <2>1, FinalizationMoves
<1>5. ASSUME NEW a \in Attempt, Crash(a) PROVE SharersAreJoint'
  <2>1. \A b \in Attempt : InProgress(b)' =>
          InProgress(b) /\ attempt'[b].order = attempt[b].order
    BY <1>5, CrashMoves DEF InProgress
  <2> QED
    BY <1>2, <1>5, <2>1 DEF Crash
<1>6. ASSUME attempt' = attempt, joint' = joint PROVE SharersAreJoint'
  BY <1>2, <1>6 DEF InProgress
<1> QED
  BY <1>1, <1>3, <1>4, <1>5, <1>6
  DEF Next, vars, Finalization, presentChallenge, Validate, cleanupChallenge, FailCleanup,
      MarkExpired, FindExpired, Age

(* Presenting puts the row into nobody else's hands. *)
LEMMA PresentWaits ==
  ASSUME TypeOK, AttemptInv, NEW a \in Attempt, NEW t \in Token, presentChallenge(a, t),
         t \notin disturbed'
  PROVE  Undisturbed(a, t)'
<1>1. ~InHand(a, t) /\ UNCHANGED <<attempt, asking>>
  BY DEF presentChallenge
<1>2. "wait" \in Callback /\ AuthzGoto(a, t, "wait")
  BY DEF presentChallenge, Callback
<1>3. \A b \in Attempt \ {a} : /\ authz[b][t] = "none"
                               /\ \A w \in attempt[b].found : w.token # t
  BY <1>1 DEF InHand, TypeOK
<1>4. \A b \in Attempt \ {a} : /\ authz'[b][t] = "none"
                               /\ \A w \in attempt'[b].found : w.token # t
  BY <1>1, <1>2, <1>3, AuthzMoves
<1>5. \A k \in Asking : asking'[k] # t
  BY <1>1 DEF InHand
<1>6. row'[t].order = attempt'[a].order /\ row'[t].status = "presented"
  BY <1>1, PresentMoves
<1> QED
  BY <1>4, <1>5, <1>6 DEF Undisturbed

(* While its attempt goes on, nobody disturbs a challenge unnoticed. *)
LEMMA WaitStays ==
  ASSUME AcmeAssumption, TypeOK, AttemptInv, SharersAreJoint, [Next]_vars,
         NEW a \in Attempt \ joint, NEW t \in Token,
         authz[a][t] = "wait", attempt[a].at = "running", Undisturbed(a, t),
         authz'[a][t] = "wait", attempt'[a].at = "running", t \notin disturbed'
  PROVE  Undisturbed(a, t)'
<1>0. \A b \in Attempt \ {a} : InHand(b, t)
  BY DEF InHand
<1>1. ASSUME NEW b \in Attempt, NEW o \in Order, Begin(b, o) PROVE Undisturbed(a, t)'
  <2>1. b # a
    BY <1>1 DEF Begin
  <2>2. authz'[b][t] = "none" /\ attempt'[b].found = {}
    BY <1>0, <1>1, <2>1, BeginMoves
  <2>3. \A c \in Attempt \ {b} : attempt'[c] = attempt[c] /\ authz'[c] = authz[c]
    BY <1>1, BeginMoves
  <2> QED
    BY <1>1, <2>1, <2>2, <2>3 DEF Begin, Undisturbed
<1>2. ASSUME NEW b \in Attempt, NEW u \in Token, NEW place \in Callback,
             AuthzGoto(b, u, place), authz[b][u] # "none"
      PROVE  \A c \in Attempt \ {a} : authz'[c][t] = "none"
  BY <1>2, AuthzMoves DEF Undisturbed
<1>3. ASSUME NEW b \in Attempt, NEW u \in Token, presentChallenge(b, u) PROVE Undisturbed(a, t)'
  <2>1. authz[b][u] = "present" /\ "wait" \in Callback /\ AuthzGoto(b, u, "wait")
    BY <1>3 DEF presentChallenge, Callback, AuthzAt
  <2>2. u # t
    BY <2>1 DEF Undisturbed
  <2> QED
    BY <1>2, <1>3, <2>1, <2>2, PresentMoves DEF presentChallenge, Undisturbed
<1>4. ASSUME NEW b \in Attempt, NEW u \in Token, Validate(b, u) PROVE Undisturbed(a, t)'
  <2>1. authz[b][u] = "wait" /\ "remove" \in Callback /\ AuthzGoto(b, u, "remove")
    BY <1>4 DEF Validate, Callback, AuthzAt
  <2> QED
    BY <1>2, <1>4, <2>1 DEF Validate, Undisturbed
<1>5. ASSUME NEW b \in Attempt, NEW u \in Token, Fail(b, u) PROVE Undisturbed(a, t)'
  <2>1. authz[b][u] # "none" /\ "remove" \in Callback /\ AuthzGoto(b, u, "remove")
    BY <1>5 DEF Fail, Callback
  <2>2. \A c \in Attempt : /\ attempt'[c].order = attempt[c].order
                           /\ attempt'[c].found = attempt[c].found
    BY <1>5, FailMoves DEF GetsOn
  <2> QED
    BY <1>2, <1>5, <2>1, <2>2 DEF Fail, Undisturbed
<1>6. ASSUME NEW b \in Attempt, NEW u \in Token, cleanupChallenge(b, u) PROVE Undisturbed(a, t)'
  <2>1. authz[b][u] = "remove" /\ "none" \in Callback /\ AuthzGoto(b, u, "none")
    BY <1>6 DEF cleanupChallenge, Callback, AuthzAt
  <2>2. u # t
    BY <2>1 DEF Undisturbed
  <2> QED
    BY <1>2, <1>6, <2>1, <2>2, CleanupMoves DEF cleanupChallenge, Undisturbed
<1>7. ASSUME NEW b \in Attempt, NEW u \in Token, FailCleanup(b, u) PROVE Undisturbed(a, t)'
  <2>1. authz[b][u] = "remove" /\ "none" \in Callback /\ AuthzGoto(b, u, "none")
    BY <1>7 DEF FailCleanup, Callback, AuthzAt
  <2> QED
    BY <1>2, <1>7, <2>1 DEF FailCleanup, Undisturbed
<1>8. ASSUME NEW b \in Attempt, Finalization(b) PROVE Undisturbed(a, t)'
  <2>1. attempt[a].found = {}
    BY DEF AttemptInv
  <2>2. /\ GetsOn(b) /\ UNCHANGED <<authz, asking>>
        /\ \A w \in attempt'[b].found :
             w \in attempt[b].found \/ (InProgress(b) /\ w.token \in OfOrder(b))
    BY <1>8, FinalizationMoves
  <2>3. b # a => \A w \in attempt'[b].found : w.token # t
    <3>1. b # a /\ InProgress(b) => attempt[b].order # attempt[a].order
      BY DEF SharersAreJoint, InProgress
    <3>2. b # a /\ InProgress(b) => t \notin OfOrder(b)
      BY <3>1 DEF OfOrder, Undisturbed
    <3> QED
      BY <2>2, <3>2 DEF Undisturbed
  <2>4. \A c \in Attempt \ {a} : \A w \in attempt'[c].found : w.token # t
    BY <2>2, <2>3 DEF GetsOn, Undisturbed
  <2>5. row'[t] = row[t]
    <3>1. ASSUME NEW w \in attempt[b].found, Finalize(b, w) PROVE row'[t] = row[t]
      <4>1. w.token # t
        BY <2>1, <3>1 DEF Undisturbed
      <4> QED
        BY <3>1, <4>1, FinalizeMoves
    <3> QED
      BY <1>8, <3>1 DEF Finalization, FindChallenges, FailFinding, FailFinalizing
  <2>6. attempt'[a].order = attempt[a].order
    BY <2>2 DEF GetsOn
  <2> QED
    BY <2>2, <2>4, <2>5, <2>6 DEF Undisturbed
<1>9. ASSUME NEW b \in Attempt, Crash(b) PROVE Undisturbed(a, t)'
  <2>1. /\ attempt'[b].at = "dead" /\ attempt'[b].found = {} /\ authz'[b][t] = "none"
        /\ \A c \in Attempt \ {b} : attempt'[c] = attempt[c] /\ authz'[c] = authz[c]
    BY <1>9, CrashMoves
  <2> QED
    BY <1>9, <2>1 DEF Crash, Undisturbed
<1>10. ASSUME NEW k \in Asking, MarkExpired(k) PROVE Undisturbed(a, t)'
  <2>1. \A j \in Asking : asking'[j] = t => asking[j] = t
    BY <1>10 DEF MarkExpired, AcmeAssumption, TypeOK
  <2> QED
    BY <1>10, <2>1, MarkExpiredMoves DEF MarkExpired, Undisturbed
<1>11. ASSUME NEW k \in Asking, NEW u \in Token, FindExpired(k, u) PROVE Undisturbed(a, t)'
  BY <1>11 DEF FindExpired, Undisturbed, TypeOK
<1>12. ASSUME NEW u \in Token, Age(u) PROVE Undisturbed(a, t)'
  BY <1>12, AgeMoves DEF Age, Undisturbed
<1>13. CASE UNCHANGED vars
  BY <1>13 DEF vars, Undisturbed
<1> QED
  BY <1>1, <1>3, <1>4, <1>5, <1>6, <1>7, <1>8, <1>9, <1>10, <1>11, <1>12, <1>13
  DEF Next, Finalization

LEMMA WaitedBefore ==
  ASSUME TypeOK, AttemptInv, [Next]_vars, NEW a \in Attempt, NEW t \in Token,
         ~presentChallenge(a, t), authz'[a][t] = "wait", attempt'[a].at = "running"
  PROVE  authz[a][t] = "wait" /\ attempt[a].at = "running"
<1>1. ASSUME NEW b \in Attempt, NEW o \in Order, Begin(b, o)
      PROVE  authz[a][t] = "wait" /\ attempt[a].at = "running"
  BY <1>1, BeginMoves
<1>2. ASSUME NEW b \in Attempt, NEW u \in Token, NEW place \in Callback,
             AuthzGoto(b, u, place), place # "wait" \/ b # a \/ u # t
      PROVE  authz[a][t] = "wait"
  BY <1>2, AuthzMoves
<1>3. ASSUME NEW b \in Attempt, NEW u \in Token, presentChallenge(b, u)
      PROVE  authz[a][t] = "wait" /\ attempt[a].at = "running"
  <2>1. "wait" \in Callback /\ AuthzGoto(b, u, "wait") /\ (b # a \/ u # t)
    BY <1>3 DEF presentChallenge, Callback
  <2> QED
    BY <1>2, <1>3, <2>1 DEF presentChallenge
<1>4. ASSUME NEW b \in Attempt, NEW u \in Token,
             \/ Validate(b, u) \/ Fail(b, u)
             \/ cleanupChallenge(b, u) \/ FailCleanup(b, u)
      PROVE  authz[a][t] = "wait" /\ attempt[a].at = "running"
  <2>1. PICK place \in {"none", "remove"} : AuthzGoto(b, u, place)
    BY <1>4 DEF Validate, Fail, cleanupChallenge, FailCleanup
  <2>2. authz[a][t] = "wait"
    BY <1>2, <2>1 DEF Callback
  <2>3. attempt[a].at = "running"
    BY <1>4, FailMoves DEF Validate, cleanupChallenge, FailCleanup, GetsOn
  <2> QED
    BY <2>2, <2>3
<1>5. ASSUME NEW b \in Attempt, Finalization(b)
      PROVE  authz[a][t] = "wait" /\ attempt[a].at = "running"
  BY <1>5, FinalizationMoves DEF GetsOn
<1>6. ASSUME NEW b \in Attempt, Crash(b)
      PROVE  authz[a][t] = "wait" /\ attempt[a].at = "running"
  BY <1>6, CrashMoves
<1>7. ASSUME UNCHANGED <<authz, attempt>>
      PROVE  authz[a][t] = "wait" /\ attempt[a].at = "running"
  BY <1>7
<1> QED
  BY <1>1, <1>3, <1>4, <1>5, <1>6, <1>7
  DEF Next, vars, Finalization, MarkExpired, FindExpired, Age

LEMMA WaitStep ==
  ASSUME AcmeAssumption, TypeOK, AttemptInv, SharersAreJoint, WaitInv, [Next]_vars
  PROVE  WaitInv'
<1> SUFFICES ASSUME NEW a \in Attempt \ joint', NEW t \in Token,
                    authz'[a][t] = "wait", attempt'[a].at = "running", t \notin disturbed'
             PROVE  Undisturbed(a, t)'
  BY DEF WaitInv
<1>0. a \notin joint
  BY DEF Next, vars, Begin, presentChallenge, Validate, Fail, cleanupChallenge, FailCleanup,
     FindChallenges, FailFinding, Finalize, FailFinalizing, Crash, MarkExpired, FindExpired, Age
<1>1. CASE presentChallenge(a, t)
  BY <1>1, PresentWaits
<1>2. CASE ~presentChallenge(a, t)
  <2>1. authz[a][t] = "wait" /\ attempt[a].at = "running"
    BY <1>2, WaitedBefore
  <2>2. t \notin disturbed
    <3>1. ASSUME NEW b \in Attempt, NEW u \in Token, presentChallenge(b, u) PROVE t \notin disturbed
      <4>1. b = a => u # t
        BY <1>2, <3>1
      <4>2. u = t => InHand(b, u)
        BY <2>1, <4>1 DEF InHand
      <4> QED
        BY <3>1, <4>2 DEF presentChallenge
    <3>2. ASSUME NEW b \in Attempt, NEW o \in Order, Begin(b, o) PROVE t \notin disturbed
      BY <3>2, BeginMoves
    <3>3. ASSUME disturbed' = disturbed PROVE t \notin disturbed
      BY <3>3
    <3> QED
      BY <3>1, <3>2, <3>3 DEF Next, vars, Validate, Fail, cleanupChallenge, FailCleanup,
         Finalize, FailFinalizing, FindChallenges, FailFinding, Crash, MarkExpired, FindExpired,
         Age
  <2> QED
    BY <1>0, <2>1, <2>2, WaitStays DEF WaitInv
<1> QED
  BY <1>1, <1>2

(***************************************************************************)
(* A challenge that an attempt waits for is served until it expires,       *)
(* unless somebody had this token in hand or the attempt shares its order  *)
(* with another one: the invariant shows that the row is then the waiting  *)
(* order's own, that the finalisation of any other order leaves it alone,  *)
(* and that a request only marks it as expired when it has expired.        *)
(***************************************************************************)
THEOREM WaitingChallengeIsServed ==
  ASSUME AcmeAssumption
  PROVE  Spec => []WaitingIsServed
<1>1. Init => TypeOK /\ AttemptInv /\ SharersAreJoint /\ WaitInv
  BY DEF Init, TypeOK, AttemptInv, NoRow, NoAttempt, Answered, SharersAreJoint, InProgress,
     WaitInv, AcmeAssumption
<1>2. TypeOK /\ AttemptInv /\ SharersAreJoint /\ WaitInv /\ [Next]_vars
        => TypeOK' /\ AttemptInv' /\ SharersAreJoint' /\ WaitInv'
  BY TypeStep, SharersStep, WaitStep
<1>3. WaitInv => WaitingIsServed
  BY DEF WaitInv, WaitingIsServed, Undisturbed
<1> QED
  BY <1>1, <1>2, <1>3, PTL DEF Spec
=============================================================================
