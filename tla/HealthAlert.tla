----------------------------- MODULE HealthAlert -----------------------------
(***************************************************************************)
(* The health monitor: /health-check requests, which may overlap, read the *)
(* metrics of one repository and open an issue for every metric beyond its *)
(* threshold unless a search finds one open.  The issues are created       *)
(* through retryTransport, which sends a POST again when the answer is     *)
(* lost.                                                                   *)
(*                                                                         *)
(* Scores are in tenths.  What is open at GitHub is counted per metric;    *)
(* the search index lags behind for as long as it likes: the cron repeats  *)
(* a request 3 seconds after one that failed or took more than 30, and     *)
(* anyone may dispatch it.                                                 *)
(***************************************************************************)
EXTENDS Integers, FiniteSets

CONSTANTS
  Requests,     \* /health-check requests that may be handled at once
  Readings,     \* what the two queries may find (a set of Reading)
  Attempts,     \* newRetryTransport: attempts per call (3)
  MaxChanges,   \* bound: changes of the metrics and issues closed
  MaxEarly,     \* bound: requests that start before the index has caught up
  MaxFaults     \* bound: failed queries and calls

NoScore == -1

Reading == [recent : Nat \cup {NoScore}, all : Nat \cup {NoScore}, stuck : Nat]

ASSUME ReadingsAssumption == Readings \subseteq Reading
ASSUME RequestsAssumption == IsFiniteSet(Requests) /\ Requests # {}
ASSUME AttemptsAssumption == Attempts \in Nat \ {0}
ASSUME BoundsAssumption ==
  MaxChanges \in Nat /\ MaxEarly \in Nat /\ MaxFaults \in Nat

VARIABLES
  reading,    \* the database: what the queries would find now
  shown,      \* GitHub: open alert issues a search finds, per metric
  unindexed,  \* GitHub: open alert issues a search does not find yet
  changes,    \* changes and closings so far
  pc,         \* the call each request makes next
  metrics,    \* the metrics it has read
  todo,       \* the alerts it has left
  attempt,    \* the number of this attempt of the call it is making
  overlap,    \* history: two requests were handled at once
  lost,       \* history: answers to CreateIssue lost, per metric
  early,      \* history: requests started while an alert was unindexed
  faults      \* history: failed queries and calls

github == <<shown, unindexed>>
request == <<pc, metrics, todo, attempt>>
history == <<overlap, lost, early, faults>>
vars == <<reading, github, changes, request, history>>

Metrics == {"confidence_degradation", "stuck_sessions"}

\* What a request knows before, or without, an answer to its queries.
Unread == [recent |-> NoScore, all |-> NoScore, stuck |-> 0]

Degraded(m) ==
  m.recent # NoScore /\ m.all # NoScore /\ m.all > 0 /\ 10 * m.recent < 8 * m.all

EvaluateThresholds(m) ==
  {a \in Metrics : \/ a = "confidence_degradation" /\ Degraded(m)
                   \/ a = "stuck_sessions" /\ m.stuck > 2}

\* The alerts are raised in the order in which they are evaluated.
First(alerts) ==
  IF "confidence_degradation" \in alerts THEN "confidence_degradation"
  ELSE "stuck_sessions"

Init ==
  /\ reading \in Readings /\ changes = 0
  /\ shown = [a \in Metrics |-> 0] /\ unindexed = [a \in Metrics |-> 0]
  /\ pc = [r \in Requests |-> "idle"]
  /\ metrics = [r \in Requests |-> Unread]
  /\ todo = [r \in Requests |-> {}]
  /\ attempt = [r \in Requests |-> 0]
  /\ overlap = FALSE /\ faults = 0
  /\ lost = [a \in Metrics |-> 0] /\ early = [a \in Metrics |-> 0]
-----------------------------------------------------------------------------
(* The database, the maintainers and GitHub's index.                       *)

Change(m) ==
  /\ changes < MaxChanges /\ m # reading
  /\ changes' = changes + 1 /\ reading' = m
  /\ UNCHANGED <<github, request, history>>

Close(a) ==
  /\ changes < MaxChanges /\ shown[a] > 0
  /\ changes' = changes + 1
  /\ shown' = [shown EXCEPT ![a] = @ - 1]
  /\ UNCHANGED <<reading, unindexed, request, history>>

Index ==
  /\ \E a \in Metrics : unindexed[a] > 0
  /\ shown' = [a \in Metrics |-> shown[a] + unindexed[a]]
  /\ unindexed' = [a \in Metrics |-> 0]
  /\ UNCHANGED <<reading, changes, request, history>>
-----------------------------------------------------------------------------
(* The handler.                                                            *)

\* The cron, its retry, or somebody by hand; another request may still be
\* handled, or may have opened an issue that no search finds yet.
Start(r) ==
  /\ pc[r] = "idle"
  /\ pc' = [pc EXCEPT ![r] = "scores"]
  /\ overlap' = (overlap \/ \E q \in Requests : pc[q] # "idle")
  /\ early' = [a \in Metrics |-> early[a] + (IF unindexed[a] > 0 THEN 1 ELSE 0)]
  /\ \A a \in Metrics : unindexed[a] > 0 => early[a] < MaxEarly
  /\ UNCHANGED <<reading, github, changes, metrics, todo, attempt, lost, faults>>

\* GetHealthMetrics makes two queries and returns what it could read.
QueryScores(r) ==
  /\ pc[r] = "scores"
  /\ metrics' = [metrics EXCEPT ![r].recent = reading.recent, ![r].all = reading.all]
  /\ pc' = [pc EXCEPT ![r] = "stuck"]
  /\ UNCHANGED <<reading, github, changes, todo, attempt, history>>

QueryScoresFails(r) ==
  /\ pc[r] = "scores" /\ faults < MaxFaults
  /\ faults' = faults + 1
  /\ pc' = [pc EXCEPT ![r] = "stuck"]
  /\ UNCHANGED <<reading, github, changes, metrics, todo, attempt, overlap, lost, early>>

\* Mutant: only the first alert is raised.
EvaluateFirst(r, m) ==
  LET alerts == EvaluateThresholds(m)
  IN /\ todo' = [todo EXCEPT ![r] = IF alerts = {} THEN {} ELSE {First(alerts)}]
     /\ pc' = [pc EXCEPT ![r] = IF alerts = {} THEN "idle" ELSE "installations"]
     /\ metrics' = [metrics EXCEPT ![r] = Unread]

\* The thresholds of what was read; without an alert the request is over.
Evaluate(r, m) ==
  LET alerts == EvaluateThresholds(m)
  IN /\ todo' = [todo EXCEPT ![r] = alerts]
     /\ pc' = [pc EXCEPT ![r] = IF alerts = {} THEN "idle" ELSE "installations"]
     /\ metrics' = [metrics EXCEPT ![r] = Unread]

QueryStuck(r) ==
  /\ pc[r] = "stuck"
  /\ Evaluate(r, [metrics[r] EXCEPT !.stuck = reading.stuck])
  /\ UNCHANGED <<reading, github, changes, attempt, history>>

QueryStuckFails(r) ==
  /\ pc[r] = "stuck" /\ faults < MaxFaults
  /\ faults' = faults + 1
  /\ Evaluate(r, metrics[r])
  /\ UNCHANGED <<reading, github, changes, attempt, overlap, lost, early>>

ListInstallations(r) ==
  /\ pc[r] = "installations"
  /\ pc' = [pc EXCEPT ![r] = "search"]
  /\ UNCHANGED <<reading, github, changes, metrics, todo, attempt, history>>

\* Without an installation there is nobody to open the issues as.
ListInstallationsFails(r) ==
  /\ pc[r] = "installations" /\ faults < MaxFaults
  /\ faults' = faults + 1
  /\ pc' = [pc EXCEPT ![r] = "idle"]
  /\ todo' = [todo EXCEPT ![r] = {}]
  /\ UNCHANGED <<reading, github, changes, metrics, attempt, overlap, lost, early>>

\* The loop goes on with the next alert, whatever happened to this one.
Continue(r) ==
  LET left == todo[r] \ {First(todo[r])}
  IN /\ todo' = [todo EXCEPT ![r] = left]
     /\ pc' = [pc EXCEPT ![r] = IF left = {} THEN "idle" ELSE "search"]
     /\ attempt' = [attempt EXCEPT ![r] = 0]

SearchIssues(r) ==
  /\ pc[r] = "search"
  /\ IF shown[First(todo[r])] > 0 THEN Continue(r)
     ELSE /\ pc' = [pc EXCEPT ![r] = "create"]
          /\ attempt' = [attempt EXCEPT ![r] = 1]
          /\ UNCHANGED todo
  /\ UNCHANGED <<reading, github, changes, metrics, history>>

\* Mutant: a failed search counts as one that found nothing.
SearchFailsOpen(r) ==
  /\ pc[r] = "search" /\ faults < MaxFaults
  /\ faults' = faults + 1
  /\ pc' = [pc EXCEPT ![r] = "create"]
  /\ attempt' = [attempt EXCEPT ![r] = 1]
  /\ UNCHANGED <<reading, github, changes, metrics, todo, overlap, lost, early>>

SearchIssuesFails(r) ==
  /\ pc[r] = "search" /\ faults < MaxFaults
  /\ faults' = faults + 1
  /\ Continue(r)
  /\ UNCHANGED <<reading, github, changes, metrics, overlap, lost, early>>
-----------------------------------------------------------------------------
(* CreateIssue through retryTransport.                                     *)

\* GitHub opens the issue.
Open(a) == unindexed' = [unindexed EXCEPT ![a] = @ + 1]

CreateIssue(r) ==
  /\ pc[r] = "create"
  /\ Open(First(todo[r]))
  /\ Continue(r)
  /\ UNCHANGED <<reading, shown, changes, metrics, history>>

\* Mutant: one attempt too many.
RetryOnceMore(r) ==
  IF attempt[r] =< Attempts
  THEN attempt' = [attempt EXCEPT ![r] = @ + 1] /\ UNCHANGED <<pc, todo>>
  ELSE Continue(r)

\* shouldRetry: the last attempt's failure goes to the caller, which logs it.
Retry(r) ==
  IF attempt[r] < Attempts
  THEN attempt' = [attempt EXCEPT ![r] = @ + 1] /\ UNCHANGED <<pc, todo>>
  ELSE Continue(r)

\* The connection is lost, or a gateway answers 502 or 504, and the issue is
\* open all the same.
AnswerLost(r) ==
  /\ pc[r] = "create" /\ faults < MaxFaults
  /\ faults' = faults + 1
  /\ lost' = [lost EXCEPT ![First(todo[r])] = @ + 1]
  /\ Open(First(todo[r]))
  /\ Retry(r)
  /\ UNCHANGED <<reading, shown, changes, metrics, overlap, early>>

\* A timeout, a reset or a 503 before GitHub did anything.
Transient(r) ==
  /\ pc[r] = "create" /\ faults < MaxFaults
  /\ faults' = faults + 1
  /\ Retry(r)
  /\ UNCHANGED <<reading, github, changes, metrics, overlap, lost, early>>

\* Any other answer is not retried.
Refused(r) ==
  /\ pc[r] = "create" /\ faults < MaxFaults
  /\ faults' = faults + 1
  /\ Continue(r)
  /\ UNCHANGED <<reading, github, changes, metrics, overlap, lost, early>>

\* A request that nothing fails.
Handle(r) ==
  \/ QueryScores(r) \/ QueryStuck(r) \/ ListInstallations(r)
  \/ SearchIssues(r) \/ CreateIssue(r)

Next ==
  \/ \E m \in Readings : Change(m)
  \/ \E a \in Metrics : Close(a)
  \/ Index
  \/ \E r \in Requests :
       \/ Start(r)
       \/ Handle(r)
       \/ QueryScoresFails(r) \/ QueryStuckFails(r)
       \/ ListInstallationsFails(r) \/ SearchIssuesFails(r)
       \/ AnswerLost(r) \/ Transient(r) \/ Refused(r)

Spec == Init /\ [][Next]_vars

\* The cron asks every day, requests are handled, the index catches up.
FairSpec ==
  /\ Spec
  /\ WF_vars(Index)
  /\ \A r \in Requests : WF_vars(Handle(r)) /\ WF_vars(Start(r))
-----------------------------------------------------------------------------
Calls == {"idle", "scores", "stuck", "installations", "search", "create"}

\* Every variable keeps its type; a request at work on an alert has one, and
\* makes at most Attempts attempts.
TypeOK ==
  /\ reading \in Readings /\ changes \in Nat
  /\ shown \in [Metrics -> Nat] /\ unindexed \in [Metrics -> Nat]
  /\ pc \in [Requests -> Calls] /\ metrics \in [Requests -> Reading]
  /\ todo \in [Requests -> SUBSET Metrics]
  /\ attempt \in [Requests -> 0..Attempts]
  /\ \A r \in Requests :
       /\ pc[r] \in {"installations", "search", "create"} <=> todo[r] # {}
       /\ pc[r] = "create" <=> attempt[r] > 0
  /\ overlap \in BOOLEAN /\ faults \in Nat
  /\ lost \in [Metrics -> Nat] /\ early \in [Metrics -> Nat]

\* A metric that stays bad for days has one open issue.  What adds to it are
\* requests handled at once, one for each, answers lost by the transport, and
\* requests that start while the alert is open and no search finds it.
OneAlertPerMetric ==
  \A a \in Metrics :
    shown[a] + unindexed[a]
      =< (IF overlap THEN Cardinality(Requests) ELSE 1) + lost[a] + early[a]

\* A metric that stays bad gets its issue, also when one was closed before,
\* when calls failed and when the other metric's alert could not be raised.
AlertIsRaised ==
  \A a \in Metrics :
    <>[](a \in EvaluateThresholds(reading)) => <>[](shown[a] > 0)
=============================================================================
