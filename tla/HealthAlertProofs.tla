--------------------------- MODULE HealthAlertProofs ---------------------------
(***************************************************************************)
(* Theorems about HealthAlert, for any finite set of requests: how many    *)
(* alerts of one metric can be open at once.                               *)
(*                                                                         *)
(* The bound is an argument about the requests that may still open one.    *)
(* Ahead(a) are those that have not passed a yet, Committed(a) those that  *)
(* have searched for it and found none.  While a search finds no alert,    *)
(* every request ahead may open one; once it finds one, only those that    *)
(* are committed (Promised).  Whoever opened an alert that no search finds *)
(* is not ahead any more, and who starts while there is one is counted in  *)
(* early (Unfound); that part is what is needed when the last alert that a *)
(* search finds is closed.                                                 *)
(***************************************************************************)
EXTENDS HealthAlert, FiniteSetTheorems, TLAPS

Ahead(a) == {r \in Requests : pc[r] \in {"scores", "stuck"} \/ a \in todo[r]}

Committed(a) == {r \in Requests : pc[r] = "create" /\ First(todo[r]) = a}

Bound == IF overlap THEN Cardinality(Requests) ELSE 1

\* Until two requests have overlapped, at most one is at work.
Alone ==
  ~overlap => \A q, r \in Requests : pc[q] # "idle" /\ pc[r] # "idle" => q = r

Promised(a) ==
  shown[a] + unindexed[a]
      + Cardinality(IF shown[a] = 0 THEN Ahead(a) ELSE Committed(a))
    =< Bound + lost[a] + early[a]

Unfound(a) == unindexed[a] + Cardinality(Ahead(a)) =< Bound + lost[a] + early[a]

IInv == TypeOK /\ Alone /\ \A a \in Metrics : Promised(a) /\ Unfound(a)
-----------------------------------------------------------------------------
(* Types.                                                                  *)

LEMMA FirstOfAlerts ==
  ASSUME NEW alerts \in SUBSET Metrics, alerts # {}
  PROVE  First(alerts) \in alerts
  BY DEF First, Metrics

LEMMA ReadingTyped ==
  /\ Unread \in Reading
  /\ \A m \in Readings : m \in Reading
  BY ReadingsAssumption DEF Unread, Reading, NoScore

LEMMA InitTypeOK == Init => TypeOK
<1> SUFFICES ASSUME Init PROVE TypeOK
  OBVIOUS
<1>1. 0 \in 0..Attempts
  BY AttemptsAssumption
<1>2. /\ attempt \in [Requests -> 0..Attempts] /\ metrics \in [Requests -> Reading]
      /\ pc \in [Requests -> Calls] /\ todo \in [Requests -> SUBSET Metrics]
  BY <1>1, ReadingTyped DEF Init, Calls
<1>3. \A r \in Requests :
        /\ pc[r] \in {"installations", "search", "create"} <=> todo[r] # {}
        /\ pc[r] = "create" <=> attempt[r] > 0
  <2>1. \A r \in Requests : pc[r] = "idle" /\ todo[r] = {} /\ attempt[r] = 0
    BY DEF Init
  <2> QED
    BY <2>1
<1>4. /\ shown \in [Metrics -> Nat] /\ unindexed \in [Metrics -> Nat]
      /\ lost \in [Metrics -> Nat] /\ early \in [Metrics -> Nat]
  BY DEF Init
<1>5. reading \in Readings /\ changes \in Nat /\ overlap \in BOOLEAN /\ faults \in Nat
  BY DEF Init
<1> QED
  BY <1>2, <1>3, <1>4, <1>5 DEF TypeOK

\* Evaluate and Continue leave a request at its next alert or at none.
LEMMA EvaluateTyped ==
  ASSUME TypeOK, NEW r \in Requests, NEW m, Evaluate(r, m),
         pc[r] = "stuck", UNCHANGED <<reading, github, changes, attempt, overlap, lost, early>>,
         faults' \in Nat
  PROVE  TypeOK'
<1>1. EvaluateThresholds(m) \in SUBSET Metrics
  BY DEF EvaluateThresholds
<1>2. todo' \in [Requests -> SUBSET Metrics] /\ metrics' \in [Requests -> Reading]
  BY <1>1, ReadingTyped DEF TypeOK, Evaluate
<1>3. /\ pc' \in [Requests -> Calls]
      /\ \A q \in Requests :
           /\ pc'[q] \in {"installations", "search", "create"} <=> todo'[q] # {}
           /\ pc'[q] = "create" <=> attempt[q] > 0
  BY <1>1 DEF TypeOK, Evaluate, Calls
<1> QED
  BY <1>2, <1>3 DEF TypeOK, github

LEMMA ContinueTyped ==
  ASSUME TypeOK, NEW r \in Requests, todo[r] # {}, Continue(r)
  PROVE  /\ todo' \in [Requests -> SUBSET Metrics]
         /\ pc' \in [Requests -> Calls]
         /\ attempt' \in [Requests -> 0..Attempts]
         /\ \A q \in Requests :
              /\ pc'[q] \in {"installations", "search", "create"} <=> todo'[q] # {}
              /\ pc'[q] = "create" <=> attempt'[q] > 0
<1>1. todo[r] \ {First(todo[r])} \in SUBSET Metrics /\ 0 \in 0..Attempts
  BY AttemptsAssumption DEF TypeOK
<1> QED
  BY <1>1 DEF TypeOK, Continue, Calls

LEMMA RetryTyped ==
  ASSUME TypeOK, NEW r \in Requests, pc[r] = "create", Retry(r)
  PROVE  /\ todo' \in [Requests -> SUBSET Metrics]
         /\ pc' \in [Requests -> Calls]
         /\ attempt' \in [Requests -> 0..Attempts]
         /\ \A q \in Requests :
              /\ pc'[q] \in {"installations", "search", "create"} <=> todo'[q] # {}
              /\ pc'[q] = "create" <=> attempt'[q] > 0
<1>1. todo[r] # {} /\ attempt[r] \in 0..Attempts
  BY DEF TypeOK
<1>2. CASE attempt[r] < Attempts
  <2>1. attempt[r] + 1 \in 0..Attempts /\ attempt[r] + 1 > 0
    BY <1>1, <1>2, AttemptsAssumption
  <2>2. attempt' = [attempt EXCEPT ![r] = attempt[r] + 1] /\ UNCHANGED <<pc, todo>>
    BY <1>2 DEF Retry
  <2> QED
    BY <2>1, <2>2 DEF TypeOK
<1>3. CASE ~(attempt[r] < Attempts)
  BY <1>1, <1>3, ContinueTyped DEF Retry
<1> QED
  BY <1>2, <1>3

LEMMA OpenTyped ==
  ASSUME TypeOK, NEW r \in Requests, todo[r] # {}, Open(First(todo[r]))
  PROVE  unindexed' \in [Metrics -> Nat]
<1>1. First(todo[r]) \in Metrics
  BY FirstOfAlerts DEF TypeOK
<1>2. unindexed[First(todo[r])] + 1 \in Nat
  BY <1>1 DEF TypeOK
<1> QED
  BY <1>1, <1>2 DEF TypeOK, Open

LEMMA TypeStep == TypeOK /\ [Next]_vars => TypeOK'
<1> SUFFICES ASSUME TypeOK, [Next]_vars PROVE TypeOK'
  OBVIOUS
<1> USE DEF github, request, history
<1>1. ASSUME NEW m \in Readings, Change(m) PROVE TypeOK'
  BY <1>1 DEF TypeOK, Change
<1>2. ASSUME NEW a \in Metrics, Close(a) PROVE TypeOK'
  <2>1. shown[a] - 1 \in Nat
    BY <1>2 DEF TypeOK, Close
  <2> QED
    BY <1>2, <2>1 DEF TypeOK, Close
<1>3. CASE Index
  <2>1. \A a \in Metrics : shown[a] + unindexed[a] \in Nat
    BY DEF TypeOK
  <2> QED
    BY <1>3, <2>1 DEF TypeOK, Index
<1>4. ASSUME NEW r \in Requests, Start(r) PROVE TypeOK'
  <2>1. early' \in [Metrics -> Nat]
    BY <1>4 DEF TypeOK, Start
  <2> QED
    BY <1>4, <2>1 DEF TypeOK, Start, Calls
<1>5. ASSUME NEW r \in Requests, QueryScores(r) PROVE TypeOK'
  <2>1. reading \in Reading /\ metrics[r] \in Reading
    BY ReadingTyped DEF TypeOK
  <2>2. [metrics[r] EXCEPT !.recent = reading.recent, !.all = reading.all] \in Reading
    BY <2>1 DEF Reading
  <2>3. metrics' \in [Requests -> Reading]
    BY <1>5, <2>2 DEF TypeOK, QueryScores
  <2> QED
    BY <1>5, <2>3 DEF TypeOK, QueryScores, Calls
<1>6. ASSUME NEW r \in Requests, QueryScoresFails(r) PROVE TypeOK'
  BY <1>6 DEF TypeOK, QueryScoresFails, Calls
<1>7. ASSUME NEW r \in Requests, QueryStuck(r) PROVE TypeOK'
  BY <1>7, EvaluateTyped DEF TypeOK, QueryStuck
<1>8. ASSUME NEW r \in Requests, QueryStuckFails(r) PROVE TypeOK'
  <2>1. faults' \in Nat
    BY <1>8 DEF TypeOK, QueryStuckFails
  <2> QED
    BY <1>8, <2>1, EvaluateTyped DEF QueryStuckFails
<1>9. ASSUME NEW r \in Requests, ListInstallations(r) PROVE TypeOK'
  BY <1>9 DEF TypeOK, ListInstallations, Calls
<1>10. ASSUME NEW r \in Requests, ListInstallationsFails(r) PROVE TypeOK'
  BY <1>10 DEF TypeOK, ListInstallationsFails, Calls
<1>11. ASSUME NEW r \in Requests, SearchIssues(r) PROVE TypeOK'
  <2>1. todo[r] # {} /\ UNCHANGED <<reading, github, changes, metrics, history>>
    BY <1>11 DEF TypeOK, SearchIssues
  <2>2. CASE shown[First(todo[r])] > 0
    <3>1. Continue(r)
      BY <1>11, <2>2 DEF SearchIssues
    <3> QED
      BY <2>1, <3>1, ContinueTyped DEF TypeOK
  <2>3. CASE ~(shown[First(todo[r])] > 0)
    <3>1. 1 \in 0..Attempts
      BY AttemptsAssumption
    <3>2. /\ pc' = [pc EXCEPT ![r] = "create"] /\ attempt' = [attempt EXCEPT ![r] = 1]
          /\ todo' = todo
      BY <1>11, <2>3 DEF SearchIssues
    <3> QED
      BY <2>1, <3>1, <3>2 DEF TypeOK, Calls
  <2> QED
    BY <2>2, <2>3
<1>12. ASSUME NEW r \in Requests, SearchIssuesFails(r) PROVE TypeOK'
  <2>1. todo[r] # {} /\ faults' \in Nat
    BY <1>12 DEF TypeOK, SearchIssuesFails
  <2> QED
    BY <1>12, <2>1, ContinueTyped DEF TypeOK, SearchIssuesFails
<1>13. ASSUME NEW r \in Requests, CreateIssue(r) PROVE TypeOK'
  <2>1. todo[r] # {}
    BY <1>13 DEF TypeOK, CreateIssue
  <2> QED
    BY <1>13, <2>1, ContinueTyped, OpenTyped DEF TypeOK, CreateIssue
<1>14. ASSUME NEW r \in Requests, AnswerLost(r) PROVE TypeOK'
  <2>1. todo[r] # {} /\ faults' \in Nat
    BY <1>14 DEF TypeOK, AnswerLost
  <2>2. First(todo[r]) \in Metrics
    BY <2>1, FirstOfAlerts DEF TypeOK
  <2>3. lost' \in [Metrics -> Nat]
    BY <1>14, <2>2 DEF TypeOK, AnswerLost
  <2> QED
    BY <1>14, <2>1, <2>3, RetryTyped, OpenTyped DEF TypeOK, AnswerLost
<1>15. ASSUME NEW r \in Requests, Transient(r) PROVE TypeOK'
  <2>1. faults' \in Nat
    BY <1>15 DEF TypeOK, Transient
  <2> QED
    BY <1>15, <2>1, RetryTyped DEF TypeOK, Transient
<1>16. ASSUME NEW r \in Requests, Refused(r) PROVE TypeOK'
  <2>1. todo[r] # {} /\ faults' \in Nat
    BY <1>16 DEF TypeOK, Refused
  <2> QED
    BY <1>16, <2>1, ContinueTyped DEF TypeOK, Refused
<1>17. CASE UNCHANGED vars
  BY <1>17 DEF TypeOK, vars
<1> QED
  BY <1>1, <1>2, <1>3, <1>4, <1>5, <1>6, <1>7, <1>8, <1>9, <1>10, <1>11, <1>12,
     <1>13, <1>14, <1>15, <1>16, <1>17 DEF Next, Handle
-----------------------------------------------------------------------------
(* Counting.                                                               *)

\* Sets of requests are finite, and a smaller one counts no more.
LEMMA Counts ==
  ASSUME NEW S \in SUBSET Requests, NEW T \in SUBSET S
  PROVE  /\ IsFiniteSet(S) /\ Cardinality(S) \in Nat
         /\ Cardinality(T) \in Nat /\ Cardinality(T) =< Cardinality(S)
  BY RequestsAssumption, FS_Subset, FS_CardinalityType

LEMMA BoundTyped == Bound \in Nat /\ 1 =< Bound
<1>1. Cardinality(Requests) \in Nat /\ Cardinality(Requests) # 0
  BY RequestsAssumption, FS_CardinalityType, FS_EmptySet
<1> QED
  BY <1>1 DEF Bound

\* Committed requests are ahead, and idle ones are not.
LEMMA AheadOfThem ==
  ASSUME TypeOK, NEW a \in Metrics
  PROVE  /\ Ahead(a) \subseteq Requests /\ Committed(a) \subseteq Ahead(a)
         /\ \A r \in Ahead(a) : pc[r] # "idle"
<1>1. \A r \in Requests : pc[r] = "create" => First(todo[r]) \in todo[r]
  BY FirstOfAlerts DEF TypeOK
<1> QED
  BY <1>1 DEF Ahead, Committed, TypeOK

\* No more requests are ahead than may be at work.
LEMMA AheadWithinBound ==
  ASSUME TypeOK, Alone, NEW a \in Metrics
  PROVE  Cardinality(Ahead(a)) \in Nat /\ Cardinality(Ahead(a)) =< Bound
<1>1. Cardinality(Ahead(a)) \in Nat /\ Cardinality(Ahead(a)) =< Cardinality(Requests)
  BY Counts DEF Ahead
<1>2. CASE overlap
  BY <1>1, <1>2 DEF Bound
<1>3. CASE ~overlap /\ Ahead(a) = {}
  BY <1>1, <1>3, FS_EmptySet DEF Bound
<1>4. CASE ~overlap /\ Ahead(a) # {}
  <2>1. PICK r \in Requests : r \in Ahead(a)
    BY <1>4 DEF Ahead
  <2>2. Ahead(a) \subseteq {r} /\ {r} \subseteq Requests
    BY <1>4, <2>1, AheadOfThem DEF Alone
  <2>3. Cardinality({r}) = 1
    BY FS_Singleton
  <2> QED
    BY <1>1, <1>4, <2>2, <2>3, Counts DEF Bound
<1> QED
  BY <1>2, <1>3, <1>4

\* As a formula, which also holds of the state after a step.
LEMMA AheadWithinBoundAlways ==
  TypeOK /\ Alone =>
    \A b \in Metrics : Cardinality(Ahead(b)) \in Nat /\ Cardinality(Ahead(b)) =< Bound
  BY AheadWithinBound
-----------------------------------------------------------------------------
(* The invariant.                                                          *)

LEMMA AloneStep == TypeOK /\ Alone /\ [Next]_vars => Alone'
<1> SUFFICES ASSUME TypeOK, Alone, [Next]_vars PROVE Alone'
  OBVIOUS
<1> USE DEF github, request, history
<1>1. ASSUME UNCHANGED overlap, \A r \in Requests : pc'[r] # "idle" => pc[r] # "idle"
      PROVE  Alone'
  BY <1>1 DEF Alone
<1>2. ASSUME NEW r \in Requests, Start(r) PROVE Alone'
  <2>1. /\ overlap' = (overlap \/ \E q \in Requests : pc[q] # "idle")
        /\ \A q \in Requests \ {r} : pc'[q] = pc[q]
    BY <1>2 DEF TypeOK, Start
  <2> QED
    BY <2>1 DEF Alone
<1>3. ASSUME NEW r \in Requests, QueryScores(r) \/ QueryScoresFails(r) PROVE Alone'
  BY <1>1, <1>3 DEF TypeOK, QueryScores, QueryScoresFails
<1>4. ASSUME NEW r \in Requests, QueryStuck(r) \/ QueryStuckFails(r) PROVE Alone'
  BY <1>1, <1>4 DEF TypeOK, QueryStuck, QueryStuckFails, Evaluate
<1>5. ASSUME NEW r \in Requests, ListInstallations(r) \/ ListInstallationsFails(r) PROVE Alone'
  BY <1>1, <1>5 DEF TypeOK, ListInstallations, ListInstallationsFails
<1>6. ASSUME NEW r \in Requests, SearchIssues(r) \/ SearchIssuesFails(r) PROVE Alone'
  BY <1>1, <1>6 DEF TypeOK, SearchIssues, SearchIssuesFails, Continue
<1>7. ASSUME NEW r \in Requests,
             CreateIssue(r) \/ AnswerLost(r) \/ Transient(r) \/ Refused(r)
      PROVE  Alone'
  BY <1>1, <1>7 DEF TypeOK, CreateIssue, AnswerLost, Transient, Refused, Retry, Continue
<1>8. CASE UNCHANGED <<overlap, pc>>
  BY <1>1, <1>8
<1> QED
  BY <1>2, <1>3, <1>4, <1>5, <1>6, <1>7, <1>8 DEF Next, Handle, Change, Close, Index, vars

\* Most steps open nothing, and take requests from those that may.
LEMMA OpensNothing ==
  ASSUME TypeOK, TypeOK', NEW a \in Metrics, Promised(a), Unfound(a),
         shown'[a] = shown[a], unindexed'[a] = unindexed[a], lost'[a] = lost[a],
         early'[a] = early[a], overlap' = overlap, Ahead(a)' \subseteq Ahead(a),
         shown[a] > 0 => Committed(a)' \subseteq Committed(a)
  PROVE  Promised(a)' /\ Unfound(a)'
<1>1. Cardinality(Ahead(a)') =< Cardinality(Ahead(a))
  BY AheadOfThem, Counts
<1>2. shown[a] > 0 => Cardinality(Committed(a)') =< Cardinality(Committed(a))
  <2>1. Committed(a) \subseteq Requests
    BY DEF Committed
  <2> QED
    BY <2>1, Counts
<1>3. /\ Cardinality(Ahead(a)) \in Nat /\ Cardinality(Committed(a)) \in Nat
      /\ Cardinality(Ahead(a)') \in Nat /\ Cardinality(Committed(a)') \in Nat
  BY Counts DEF Ahead, Committed
<1>4. /\ shown[a] \in Nat /\ unindexed[a] \in Nat /\ lost[a] \in Nat
      /\ early[a] \in Nat
      /\ Bound \in Nat /\ Bound' = Bound
  BY BoundTyped DEF TypeOK, Bound
<1> QED
  BY <1>1, <1>2, <1>3, <1>4 DEF Promised, Unfound

\* An issue that is opened was promised by the request that opens it.
LEMMA OpensPromised ==
  ASSUME TypeOK, TypeOK', NEW a \in Metrics, Promised(a), Unfound(a),
         NEW r \in Committed(a),
         shown'[a] = shown[a], unindexed'[a] = unindexed[a] + 1, lost'[a] = lost[a],
         early'[a] = early[a], overlap' = overlap,
         Ahead(a)' = Ahead(a) \ {r}, Committed(a)' = Committed(a) \ {r}
  PROVE  Promised(a)' /\ Unfound(a)'
<1>1. r \in Ahead(a) /\ IsFiniteSet(Ahead(a)) /\ IsFiniteSet(Committed(a))
  BY AheadOfThem, Counts
<1>2. /\ Cardinality(Ahead(a)') = Cardinality(Ahead(a)) - 1
      /\ Cardinality(Committed(a)') = Cardinality(Committed(a)) - 1
  BY <1>1, FS_RemoveElement
<1>3. Cardinality(Ahead(a)) \in Nat /\ Cardinality(Committed(a)) \in Nat
  BY <1>1, FS_CardinalityType
<1>4. /\ shown[a] \in Nat /\ unindexed[a] \in Nat /\ lost[a] \in Nat
      /\ early[a] \in Nat
      /\ Bound \in Nat /\ Bound' = Bound
  BY BoundTyped DEF TypeOK, Bound
<1> QED
  BY <1>2, <1>3, <1>4 DEF Promised, Unfound

\* Or it is one more of those whose answer was lost.
LEMMA OpensLost ==
  ASSUME TypeOK, TypeOK', NEW a \in Metrics, Promised(a), Unfound(a),
         shown'[a] = shown[a], unindexed'[a] = unindexed[a] + 1, lost'[a] = lost[a] + 1,
         early'[a] = early[a], overlap' = overlap,
         Ahead(a)' \subseteq Ahead(a), Committed(a)' \subseteq Committed(a)
  PROVE  Promised(a)' /\ Unfound(a)'
<1>1. /\ Cardinality(Ahead(a)') =< Cardinality(Ahead(a))
      /\ Cardinality(Committed(a)') =< Cardinality(Committed(a))
  <2>1. Ahead(a) \subseteq Requests /\ Committed(a) \subseteq Requests
    BY DEF Ahead, Committed
  <2> QED
    BY <2>1, Counts
<1>2. /\ Cardinality(Ahead(a)) \in Nat /\ Cardinality(Committed(a)) \in Nat
      /\ Cardinality(Ahead(a)') \in Nat /\ Cardinality(Committed(a)') \in Nat
  BY Counts DEF Ahead, Committed
<1>3. /\ shown[a] \in Nat /\ unindexed[a] \in Nat /\ lost[a] \in Nat
      /\ early[a] \in Nat
      /\ Bound \in Nat /\ Bound' = Bound
  BY BoundTyped DEF TypeOK, Bound
<1> QED
  BY <1>1, <1>2, <1>3 DEF Promised, Unfound

\* A request that goes on to its next alert leaves those that are ahead of the
\* one it had, and commits to nothing.
LEMMA ContinueLeaves ==
  ASSUME TypeOK, NEW r \in Requests, todo[r] # {}, pc[r] \in {"search", "create"}, Continue(r),
         NEW a \in Metrics
  PROVE  /\ Ahead(a)' = IF a = First(todo[r]) THEN Ahead(a) \ {r} ELSE Ahead(a)
         /\ Committed(a)' = Committed(a) \ {r}
<1>1. /\ todo'[r] = todo[r] \ {First(todo[r])} /\ pc'[r] \in {"idle", "search"}
      /\ \A q \in Requests \ {r} : todo'[q] = todo[q] /\ pc'[q] = pc[q]
  BY DEF TypeOK, Continue
<1>2. Ahead(a)' = IF a = First(todo[r]) THEN Ahead(a) \ {r} ELSE Ahead(a)
  BY <1>1 DEF Ahead
<1>3. Committed(a)' = Committed(a) \ {r}
  BY <1>1 DEF Committed
<1> QED
  BY <1>2, <1>3

LEMMA InitIInv == Init => IInv
<1> SUFFICES ASSUME Init PROVE IInv
  OBVIOUS
<1>1. TypeOK /\ Alone
  BY InitTypeOK DEF Init, Alone
<1>2. ASSUME NEW a \in Metrics PROVE Promised(a) /\ Unfound(a)
  <2>1. Ahead(a) = {} /\ Committed(a) = {}
    BY DEF Init, Ahead, Committed
  <2>2. Cardinality(Ahead(a)) = 0 /\ Cardinality(Committed(a)) = 0
    BY <2>1, FS_EmptySet
  <2>3. shown[a] = 0 /\ unindexed[a] = 0 /\ lost[a] = 0 /\ early[a] = 0
    BY DEF Init
  <2> QED
    BY <2>2, <2>3, BoundTyped DEF Promised, Unfound
<1> QED
  BY <1>1, <1>2 DEF IInv

LEMMA CountsStep ==
  ASSUME IInv, TypeOK', Alone', [Next]_vars, NEW a \in Metrics
  PROVE  Promised(a)' /\ Unfound(a)'
<1> USE DEF IInv, github, request, history
<1>1. /\ shown[a] \in Nat /\ unindexed[a] \in Nat /\ lost[a] \in Nat
      /\ early[a] \in Nat
      /\ Bound \in Nat /\ (overlap' = overlap => Bound' = Bound)
      /\ Cardinality(Ahead(a)) \in Nat /\ Cardinality(Committed(a)) \in Nat
  BY BoundTyped, Counts DEF TypeOK, Bound, Ahead, Committed
<1>2. Cardinality(Committed(a)) =< Cardinality(Ahead(a))
  BY AheadOfThem, Counts
<1>3. ASSUME NEW m \in Readings, Change(m) PROVE Promised(a)' /\ Unfound(a)'
  <2>1. UNCHANGED <<pc, todo, shown, unindexed, overlap, lost, early>>
    BY <1>3 DEF Change
  <2> QED
    BY <2>1, OpensNothing DEF Ahead, Committed
<1>4. ASSUME NEW b \in Metrics, Close(b) PROVE Promised(a)' /\ Unfound(a)'
  <2>1. Ahead(a)' = Ahead(a) /\ Committed(a)' = Committed(a) /\ Bound' = Bound
    BY <1>4 DEF Close, Ahead, Committed, Bound
  <2>2. /\ shown'[a] = shown[a] \/ (shown[a] > 0 /\ shown'[a] = shown[a] - 1)
        /\ UNCHANGED <<unindexed, lost, early>>
    BY <1>4 DEF TypeOK, Close
  <2> QED
    BY <1>1, <2>1, <2>2 DEF Promised, Unfound
<1>5. CASE Index
  <2>1. Ahead(a)' = Ahead(a) /\ Committed(a)' = Committed(a) /\ Bound' = Bound
    BY <1>5 DEF Index, Ahead, Committed, Bound
  <2>2. /\ shown'[a] = shown[a] + unindexed[a] /\ unindexed'[a] = 0
        /\ lost'[a] = lost[a] /\ early'[a] = early[a]
    BY <1>5 DEF TypeOK, Index
  <2>3. Cardinality(Ahead(a)) =< Bound
    BY AheadWithinBound
  <2>4. Unfound(a)'
    BY <1>1, <2>1, <2>2, <2>3 DEF Unfound
  <2>5. /\ shown[a] = 0 =>
             shown[a] + unindexed[a] + Cardinality(Ahead(a)) =< Bound + lost[a] + early[a]
        /\ shown[a] # 0 =>
             shown[a] + unindexed[a] + Cardinality(Committed(a)) =< Bound + lost[a] + early[a]
    <3>1. Promised(a)
      OBVIOUS
    <3> QED
      BY <3>1 DEF Promised
  <2>6. CASE shown[a] = 0 /\ unindexed[a] = 0
    <3>1. shown'[a] = 0
      BY <1>1, <2>2, <2>6
    <3>2. shown'[a] + unindexed'[a] + Cardinality(Ahead(a)') =< Bound' + lost'[a] + early'[a]
      BY <1>1, <2>1, <2>2, <2>3, <3>1
    <3> QED
      BY <2>4, <3>1, <3>2 DEF Promised
  <2>7. CASE shown[a] > 0 \/ unindexed[a] > 0
    <3>1. shown'[a] # 0
      BY <1>1, <2>2, <2>7
    <3>2. shown[a] + unindexed[a] + Cardinality(Committed(a)) =< Bound + lost[a] + early[a]
      BY <1>1, <1>2, <2>5
    <3>3. shown'[a] + unindexed'[a] + Cardinality(Committed(a)') =< Bound' + lost'[a] + early'[a]
      BY <1>1, <2>1, <2>2, <3>2
    <3> QED
      BY <2>4, <3>1, <3>3 DEF Promised
  <2> QED
    BY <1>1, <2>6, <2>7
<1>6. ASSUME NEW r \in Requests, Start(r) PROVE Promised(a)' /\ Unfound(a)'
  <2>1. /\ UNCHANGED <<shown, unindexed, todo, lost>>
        /\ early'[a] = early[a] + (IF unindexed[a] > 0 THEN 1 ELSE 0)
        /\ pc' = [pc EXCEPT ![r] = "scores"] /\ pc[r] = "idle"
    BY <1>6 DEF Start
  <2>2. Committed(a)' = Committed(a)
    BY <2>1 DEF TypeOK, Committed
  <2>3. Bound =< Bound'
    <3>1. 1 =< Cardinality(Requests) /\ Cardinality(Requests) \in Nat
      BY RequestsAssumption, FS_CardinalityType, FS_EmptySet
    <3>2. overlap => overlap'
      BY <1>6 DEF Start
    <3> QED
      BY <3>1, <3>2 DEF Bound
  <2>4. Bound' \in Nat
    <3>1. Cardinality(Requests) \in Nat
      BY RequestsAssumption, FS_CardinalityType
    <3> QED
      BY <3>1 DEF Bound
  <2>5. Cardinality(Ahead(a)') \in Nat /\ Cardinality(Ahead(a)') =< Bound'
    <3>1. (\A b \in Metrics : Cardinality(Ahead(b)) \in Nat /\ Cardinality(Ahead(b)) =< Bound)'
      BY AheadWithinBoundAlways, PTL
    <3> QED
      BY <3>1
  <2>6. CASE unindexed[a] = 0
    BY <1>1, <2>1, <2>2, <2>3, <2>4, <2>5, <2>6 DEF Promised, Unfound
  <2>7. CASE unindexed[a] > 0
    <3>1. Ahead(a)' = Ahead(a) \cup {r}
      BY <2>1 DEF TypeOK, Ahead
    <3>2. Cardinality(Ahead(a)') =< Cardinality(Ahead(a)) + 1
      BY <1>1, <3>1, Counts, FS_AddElement DEF Ahead
    <3> QED
      BY <1>1, <2>1, <2>2, <2>3, <2>4, <2>5, <2>7, <3>2 DEF Promised, Unfound
  <2> QED
    BY <1>1, <2>6, <2>7
<1>7. ASSUME NEW r \in Requests, QueryScores(r) \/ QueryScoresFails(r)
      PROVE  Promised(a)' /\ Unfound(a)'
  <2>1. /\ UNCHANGED <<todo, shown, unindexed, overlap, lost, early>>
        /\ pc[r] = "scores" /\ pc' = [pc EXCEPT ![r] = "stuck"]
    BY <1>7 DEF QueryScores, QueryScoresFails
  <2>2. Ahead(a)' \subseteq Ahead(a) /\ Committed(a)' \subseteq Committed(a)
    BY <2>1 DEF TypeOK, Ahead, Committed
  <2> QED
    BY <2>1, <2>2, OpensNothing
<1>8. ASSUME NEW r \in Requests, QueryStuck(r) \/ QueryStuckFails(r)
      PROVE  Promised(a)' /\ Unfound(a)'
  <2>1. /\ UNCHANGED <<shown, unindexed, overlap, lost, early>> /\ pc[r] = "stuck"
        /\ pc'[r] \in {"idle", "installations"}
        /\ \A q \in Requests \ {r} : pc'[q] = pc[q] /\ todo'[q] = todo[q]
    BY <1>8 DEF TypeOK, QueryStuck, QueryStuckFails, Evaluate
  <2>2. Ahead(a)' \subseteq Ahead(a) /\ Committed(a)' \subseteq Committed(a)
    BY <2>1 DEF Ahead, Committed
  <2> QED
    BY <2>1, <2>2, OpensNothing
<1>9. ASSUME NEW r \in Requests, ListInstallations(r) \/ ListInstallationsFails(r)
      PROVE  Promised(a)' /\ Unfound(a)'
  <2>1. /\ UNCHANGED <<shown, unindexed, overlap, lost, early>> /\ pc[r] = "installations"
        /\ pc'[r] \in {"idle", "search"} /\ todo'[r] \subseteq todo[r]
        /\ \A q \in Requests \ {r} : pc'[q] = pc[q] /\ todo'[q] = todo[q]
    BY <1>9 DEF TypeOK, ListInstallations, ListInstallationsFails
  <2>2. Ahead(a)' \subseteq Ahead(a) /\ Committed(a)' \subseteq Committed(a)
    BY <2>1 DEF Ahead, Committed
  <2> QED
    BY <2>1, <2>2, OpensNothing
<1>10. ASSUME NEW r \in Requests, pc[r] \in {"search", "create"}, Continue(r),
              UNCHANGED <<shown, unindexed, overlap, lost, early>>
       PROVE  Promised(a)' /\ Unfound(a)'
  <2>1. Ahead(a)' \subseteq Ahead(a) /\ Committed(a)' \subseteq Committed(a)
    BY <1>10, ContinueLeaves DEF TypeOK
  <2> QED
    BY <1>10, <2>1, OpensNothing
<1>11. ASSUME NEW r \in Requests, SearchIssues(r) PROVE Promised(a)' /\ Unfound(a)'
  <2>1. UNCHANGED <<shown, unindexed, overlap, lost, early>> /\ pc[r] = "search"
    BY <1>11 DEF SearchIssues
  <2>2. CASE shown[First(todo[r])] > 0
    BY <1>10, <1>11, <2>1, <2>2 DEF SearchIssues
  <2>3. CASE ~(shown[First(todo[r])] > 0)
    <3>1. pc' = [pc EXCEPT ![r] = "create"] /\ todo' = todo
      BY <1>11, <2>3 DEF SearchIssues
    <3>2. Ahead(a)' \subseteq Ahead(a)
      BY <2>1, <3>1 DEF TypeOK, Ahead
    <3>3. shown[a] > 0 => Committed(a)' \subseteq Committed(a)
      BY <2>3, <3>1 DEF TypeOK, Committed
    <3> QED
      BY <2>1, <3>2, <3>3, OpensNothing
  <2> QED
    BY <2>2, <2>3
<1>12. ASSUME NEW r \in Requests, SearchIssuesFails(r) \/ Refused(r)
       PROVE  Promised(a)' /\ Unfound(a)'
  BY <1>10, <1>12 DEF SearchIssuesFails, Refused
<1>13. ASSUME NEW r \in Requests, CreateIssue(r) PROVE Promised(a)' /\ Unfound(a)'
  <2>1. /\ pc[r] = "create" /\ todo[r] # {} /\ Continue(r) /\ Open(First(todo[r]))
        /\ UNCHANGED <<shown, overlap, lost, early>>
    BY <1>13 DEF TypeOK, CreateIssue
  <2>2. CASE a = First(todo[r])
    <3>1. Ahead(a)' = Ahead(a) \ {r} /\ Committed(a)' = Committed(a) \ {r}
      BY <2>1, <2>2, ContinueLeaves
    <3>2. r \in Committed(a) /\ unindexed'[a] = unindexed[a] + 1
      BY <2>1, <2>2 DEF TypeOK, Committed, Open
    <3> QED
      BY <2>1, <3>1, <3>2, OpensPromised
  <2>3. CASE a # First(todo[r])
    <3>1. Ahead(a)' \subseteq Ahead(a) /\ Committed(a)' \subseteq Committed(a)
      BY <2>1, <2>3, ContinueLeaves
    <3>2. unindexed'[a] = unindexed[a]
      BY <2>1, <2>3 DEF TypeOK, Open
    <3> QED
      BY <2>1, <3>1, <3>2, OpensNothing
  <2> QED
    BY <2>2, <2>3
<1>14. ASSUME NEW r \in Requests, pc[r] = "create", Retry(r)
       PROVE  Ahead(a)' \subseteq Ahead(a) /\ Committed(a)' \subseteq Committed(a)
  <2>1. CASE attempt[r] < Attempts
    BY <1>14, <2>1 DEF Retry, Ahead, Committed
  <2>2. CASE ~(attempt[r] < Attempts)
    BY <1>14, <2>2, ContinueLeaves DEF TypeOK, Retry
  <2> QED
    BY <2>1, <2>2
<1>15. ASSUME NEW r \in Requests, AnswerLost(r) PROVE Promised(a)' /\ Unfound(a)'
  <2>1. /\ pc[r] = "create" /\ Open(First(todo[r])) /\ UNCHANGED <<shown, overlap, early>>
        /\ lost' = [lost EXCEPT ![First(todo[r])] = @ + 1]
    BY <1>15 DEF AnswerLost
  <2>2. Ahead(a)' \subseteq Ahead(a) /\ Committed(a)' \subseteq Committed(a)
    BY <1>14, <1>15 DEF AnswerLost
  <2>3. CASE a = First(todo[r])
    <3>1. unindexed'[a] = unindexed[a] + 1 /\ lost'[a] = lost[a] + 1
      BY <2>1, <2>3 DEF TypeOK, Open
    <3> QED
      BY <2>1, <2>2, <3>1, OpensLost
  <2>4. CASE a # First(todo[r])
    <3>1. unindexed'[a] = unindexed[a] /\ lost'[a] = lost[a]
      BY <2>1, <2>4 DEF TypeOK, Open
    <3> QED
      BY <2>1, <2>2, <3>1, OpensNothing
  <2> QED
    BY <2>3, <2>4
<1>16. ASSUME NEW r \in Requests, Transient(r) PROVE Promised(a)' /\ Unfound(a)'
  <2>1. UNCHANGED <<shown, unindexed, overlap, lost, early>>
    BY <1>16 DEF Transient
  <2>2. Ahead(a)' \subseteq Ahead(a) /\ Committed(a)' \subseteq Committed(a)
    BY <1>14, <1>16 DEF Transient
  <2> QED
    BY <2>1, <2>2, OpensNothing
<1>17. CASE UNCHANGED vars
  BY <1>17, OpensNothing DEF vars, Ahead, Committed
<1> QED
  BY <1>3, <1>4, <1>5, <1>6, <1>7, <1>8, <1>9, <1>11, <1>12, <1>13, <1>15, <1>16, <1>17
     DEF Next, Handle
-----------------------------------------------------------------------------
(* The theorems.                                                           *)

THEOREM Invariance == Spec => []IInv
<1>1. IInv /\ [Next]_vars => IInv'
  BY TypeStep, AloneStep, CountsStep DEF IInv
<1> QED
  BY <1>1, InitIInv, PTL DEF Spec

\* Every variable keeps its type; a request makes at most Attempts attempts.
THEOREM TypeCorrect == Spec => []TypeOK
<1>1. IInv => TypeOK
  BY DEF IInv
<1> QED
  BY <1>1, Invariance, PTL

\* healthCheckHandler: however long a metric stays bad, the open alerts about
\* it are at most one, or one for each request when some have overlapped, one
\* for each answer that retryTransport lost, and one for each request that
\* started while an open alert was not yet searchable.
THEOREM AlertsBounded == Spec => []OneAlertPerMetric
<1>1. ASSUME IInv, NEW a \in Metrics
      PROVE  shown[a] + unindexed[a]
               =< (IF overlap THEN Cardinality(Requests) ELSE 1) + lost[a] + early[a]
  <2>1. /\ shown[a] \in Nat /\ unindexed[a] \in Nat /\ lost[a] \in Nat
        /\ early[a] \in Nat /\ Bound \in Nat
        /\ Cardinality(Ahead(a)) \in Nat /\ Cardinality(Committed(a)) \in Nat
    BY <1>1, BoundTyped, Counts DEF IInv, TypeOK, Ahead, Committed
  <2>2. Promised(a)
    BY <1>1 DEF IInv
  <2>3. shown[a] + unindexed[a] =< Bound + lost[a] + early[a]
    BY <2>1, <2>2 DEF Promised
  <2> QED
    BY <2>3 DEF Bound
<1>2. IInv => OneAlertPerMetric
  BY <1>1 DEF OneAlertPerMetric
<1> QED
  BY <1>2, Invariance, PTL
=============================================================================
