------------------------- MODULE AgentSessionProofs -------------------------
(***************************************************************************)
(* Theorems about AgentSession for any set of handlers, any MaxRoundTrips  *)
(* and any bounds: first those that hold however the actors interleave,    *)
(* then those of the serial regime.                                        *)
(***************************************************************************)
EXTENDS AgentSession, SequenceTheorems, TLAPS

USE BoundsAssumption, CommentsAssumption

-----------------------------------------------------------------------------
(* The inductive invariant.                                                *)

\* What every value the row ever had satisfies, so a snapshot as well: rounds
\* are left while a document is under review, and that document is one of those posted.
GoodRow(r, posted) ==
  /\ r.rt <= MaxRoundTrips
  /\ r.stage \in UnderReview \cup {"approved"} =>
       r.rt < MaxRoundTrips /\ r.doc \in 1..posted

\* What a handler knows from the branches it took to reach its next call.
GoodTask(t, posted) ==
  /\ GoodRow(t.snap, posted)
  /\ t.pc \in {"lookup", "resolve"} /\ t.sig \notin Closing =>
       t.snap.stage \in UnderReview \cup {"clarifying"}
  /\ t.pc \in {"revise", "research", "save_research"} =>
       RoundTrips(t) < MaxRoundTrips
  /\ t.pc = "escalate" => RoundTrips(t) <= MaxRoundTrips
  /\ t.pc = "save_research" => t.doc \in 1..posted
  /\ t.pc \in {"revise", "branch", "commit", "open_pr", "approve"} =>
       t.snap.stage \in UnderReview

Rows == /\ GoodRow(sess, research)
        /\ \A h \in Handlers : GoodTask(task[h], research)

\* From the branch to the saved approval only one handler passes, once.
CreatesPR == {"commit", "open_pr", "approve"}

PullRequest ==
  /\ \A g, h \in Handlers :
       task[g].pc \in CreatesPR /\ task[h].pc \in CreatesPR => g = h
  /\ \A h \in Handlers : task[h].pc \in {"commit", "open_pr"} => branch /\ prs = 0
  /\ \A h \in Handlers : task[h].pc = "open_pr" => prDoc \in 1..research
  /\ \A h \in Handlers : task[h].pc = "approve" => prs = 1
  /\ prs = 0 \/ (prs = 1 /\ branch /\ prDoc \in 1..research)

\* Whoever may write to the public issue has the pull request behind it.
Approved ==
  /\ sess.stage = "approved" \/ public > 0 => prs = 1
  /\ \A h \in Handlers :
       task[h].snap.stage = "approved" \/ task[h].pc \in {"promote", "finish"}
         => prs = 1

IInv == TypeOK /\ Rows /\ PullRequest /\ Approved
-----------------------------------------------------------------------------
(* Types.                                                                  *)

LEMMA DispatchType ==
  ASSUME NEW stage \in Stages, NEW s \in Signals
  PROVE  Dispatch(stage, s) \in Steps
BY DEF Dispatch, Steps

LEMMA TaskTypes ==
  ASSUME NEW t \in Task
  PROVE  /\ Verdict(t) \in GateStatuses
         /\ RoundTrips(t) \in Nat
         /\ AfterGate(t) \in Steps
BY DEF Verdict, GateStatuses, RoundTrips, AfterGate, Steps, Task, Session

LEMMA IdleType == Idle \in Task
BY DEF Idle, NoSession, Task, Session, Steps, Stages, Signals

LEMMA GotoType ==
  ASSUME TypeOK, NEW h \in Handlers, NEW p \in Steps, Goto(h, p)
  PROVE  task' \in [Handlers -> Task]
BY DEF TypeOK, Goto, Task

LEMMA ReturnType ==
  ASSUME TypeOK, NEW h \in Handlers, Return(h)
  PROVE  task' \in [Handlers -> Task]
BY IdleType DEF TypeOK, Return

LEMMA RowType ==
  ASSUME NEW stage \in Stages, NEW doc \in Nat, NEW project \in BOOLEAN,
         NEW rt \in Nat, UpdateSessionStage(stage, doc, project, rt)
  PROVE  sess' \in Session
BY DEF UpdateSessionStage, Session

LEMMA TaskUpdateType ==
  ASSUME NEW t \in Task, NEW p \in Steps, NEW n \in Nat
  PROVE  /\ [t EXCEPT !.pc = p, !.doc = n] \in Task
         /\ [t EXCEPT !.gate = n, !.pc = p] \in Task
BY DEF Task

LEMMA GateUpdateType ==
  ASSUME NEW gs \in Seq(GateStatuses), NEW i, NEW v \in GateStatuses
  PROVE  [gs EXCEPT ![i] = v] \in Seq(GateStatuses)
<1>1. gs \in [1..Len(gs) -> GateStatuses] /\ Len(gs) \in Nat
  BY LenProperties
<1>2. [gs EXCEPT ![i] = v] \in [1..Len(gs) -> GateStatuses]
  BY <1>1
<1> QED
  BY <1>1, <1>2, SeqDef

\* Every action keeps the types of the variables.
LEMMA TypeStep ==
  ASSUME TypeOK, [Next]_vars
  PROVE  TypeOK'
<1> \A h \in Handlers :
      /\ task[h] \in Task
      /\ task[h].snap \in Session /\ task[h].doc \in Nat
      /\ task[h].snap.doc \in Nat /\ task[h].snap.rt \in Nat
      /\ task[h].snap.project \in BOOLEAN
      /\ task[h].gate \in Nat
      /\ RoundTrips(task[h]) \in Nat
      /\ Verdict(task[h]) \in GateStatuses
      /\ AfterGate(task[h]) \in Steps
  BY TaskTypes DEF TypeOK, Task, Session
<1> USE GotoType, ReturnType DEF TypeOK, github
<1>1. ASSUME NEW h \in Handlers, StartSession(h) PROVE TypeOK'
  <2>1. sess' \in Session BY <1>1, RowType DEF StartSession, Stages
  <2>2. [Idle EXCEPT !.pc = "brief", !.snap = sess'] \in Task
    BY <2>1 DEF Idle, NoSession, Task, Steps, Signals
  <2> QED BY <1>1, <2>1, <2>2 DEF StartSession
<1>2. ASSUME NEW h \in Handlers, NEW s \in Comments, Receive(h, s) PROVE TypeOK'
  <2>1. Dispatch(sess.stage, s) \in Steps BY DispatchType DEF Session
  <2>2. [Idle EXCEPT !.pc = Dispatch(sess.stage, s), !.snap = sess, !.sig = s]
          \in Task
    BY <2>1 DEF Idle, NoSession, Task
  <2> QED BY <1>2, <2>2 DEF Receive
<1>3. ASSUME NEW h \in Handlers, PostBrief(h) PROVE TypeOK'
  BY <1>3 DEF PostBrief, Steps
<1>4. ASSUME NEW h \in Handlers, SaveBrief(h) PROVE TypeOK'
  <2>1. sess' \in Session BY <1>4, RowType DEF SaveBrief, Stages
  <2> QED BY <1>4, <2>1 DEF SaveBrief
<1>5. ASSUME NEW h \in Handlers, LookupGate(h) PROVE TypeOK'
  <2>1. Len(gates) \in Nat BY LenProperties
  <2> PICK g \in 0..Len(gates) :
         task' = [task EXCEPT
                    ![h].gate = g,
                    ![h].pc = IF g = 0 THEN AfterGate(task[h]) ELSE "resolve"]
    BY <1>5 DEF LookupGate
  <2> DEFINE p == IF g = 0 THEN AfterGate(task[h]) ELSE "resolve"
  <2>2. p \in Steps /\ g \in Nat BY <2>1 DEF Steps
  <2>3. task' = [task EXCEPT ![h] = [task[h] EXCEPT !.gate = g, !.pc = p]]
    OBVIOUS
  <2> HIDE DEF p
  <2>4. [task[h] EXCEPT !.gate = g, !.pc = p] \in Task
    BY <2>2, TaskUpdateType
  <2>5. task' \in [Handlers -> Task] BY <2>3, <2>4
  <2> QED BY <1>5, <2>5 DEF LookupGate
<1>6. ASSUME NEW h \in Handlers, ResolveGate(h) PROVE TypeOK'
  <2>1. gates' \in Seq(GateStatuses)
    BY <1>6, GateUpdateType DEF ResolveGate
  <2>2. task' \in [Handlers -> Task]
    BY <1>6 DEF ResolveGate
  <2> QED BY <1>6, <2>1, <2>2 DEF ResolveGate
<1>7. ASSUME NEW h \in Handlers, CloseSession(h) PROVE TypeOK'
  <2>1. sess' \in Session BY <1>7, RowType DEF CloseSession, Stages
  <2> QED BY <1>7, <2>1 DEF CloseSession, Steps
<1>8. ASSUME NEW h \in Handlers, Acknowledge(h) PROVE TypeOK'
  BY <1>8 DEF Acknowledge
<1>9. ASSUME NEW h \in Handlers, UseAsContext(h) PROVE TypeOK'
  <2>1. sess' \in Session BY <1>9, RowType DEF UseAsContext, Stages
  <2> QED BY <1>9, <2>1 DEF UseAsContext
<1>10. ASSUME NEW h \in Handlers, Escalate(h) PROVE TypeOK'
  <2>1. sess' \in Session BY <1>10, RowType DEF Escalate, Stages
  <2> QED BY <1>10, <2>1 DEF Escalate
<1>11. ASSUME NEW h \in Handlers, MarkRevision(h) PROVE TypeOK'
  <2>1. sess' \in Session BY <1>11, RowType DEF MarkRevision, Stages
  <2> QED BY <1>11, <2>1 DEF MarkRevision, Steps
<1>12. ASSUME NEW h \in Handlers, PostResearch(h) PROVE TypeOK'
  <2> research + 1 \in Nat /\ "save_research" \in Steps BY DEF Steps
  <2>1. [task[h] EXCEPT !.pc = "save_research", !.doc = research + 1] \in Task
    BY TaskUpdateType
  <2>2. task' = [task EXCEPT ![h] =
                   [task[h] EXCEPT !.pc = "save_research", !.doc = research + 1]]
    BY <1>12 DEF PostResearch
  <2>3. task' \in [Handlers -> Task] BY <2>1, <2>2
  <2> QED BY <1>12, <2>3 DEF PostResearch
<1>13. ASSUME NEW h \in Handlers, SaveResearch(h) PROVE TypeOK'
  <2>1. sess' \in Session BY <1>13, RowType DEF SaveResearch, Stages
  <2> QED BY <1>13, <2>1 DEF SaveResearch, Steps
<1>14. ASSUME NEW h \in Handlers, OpenGate(h) PROVE TypeOK'
  BY <1>14 DEF OpenGate, GateStatuses
<1>15. ASSUME NEW h \in Handlers, CreateBranch(h) PROVE TypeOK'
  BY <1>15 DEF CreateBranch, Steps
<1>16. ASSUME NEW h \in Handlers, BranchRefused(h) PROVE TypeOK'
  BY <1>16 DEF BranchRefused
<1>17. ASSUME NEW h \in Handlers, CommitFile(h) PROVE TypeOK'
  BY <1>17 DEF CommitFile, Steps
<1>18. ASSUME NEW h \in Handlers, OpenPR(h) PROVE TypeOK'
  BY <1>18 DEF OpenPR, Steps
<1>19. ASSUME NEW h \in Handlers, SaveApproved(h) PROVE TypeOK'
  <2>1. sess' \in Session BY <1>19, RowType DEF SaveApproved, Stages
  <2> QED BY <1>19, <2>1 DEF SaveApproved, Steps
<1>20. ASSUME NEW h \in Handlers, PostPublic(h) PROVE TypeOK'
  BY <1>20 DEF PostPublic, Steps
<1>21. ASSUME NEW h \in Handlers, FinishPromotion(h) PROVE TypeOK'
  <2>1. sess' \in Session BY <1>21, RowType DEF FinishPromotion, Stages
  <2> QED BY <1>21, <2>1 DEF FinishPromotion
<1>22. ASSUME NEW h \in Handlers, QualityReject(h) PROVE TypeOK'
  BY <1>22 DEF QualityReject
<1>23. ASSUME NEW h \in Handlers, ResolveGateFails(h) PROVE TypeOK'
  BY <1>23 DEF ResolveGateFails, Steps
<1>24. ASSUME NEW h \in Handlers, Abandon(h) PROVE TypeOK'
  BY <1>24 DEF Abandon
<1>25. CASE ListStale
  BY <1>25 DEF ListStale
<1>26. CASE MarkSessionComplete
  <2>1. sess' \in Session BY <1>26 DEF MarkSessionComplete, Session, Stages
  <2> QED BY <1>26, <2>1 DEF MarkSessionComplete
<1>27. CASE UNCHANGED vars
  BY <1>27 DEF vars
<1> QED
  BY <1>1, <1>2, <1>3, <1>4, <1>5, <1>6, <1>7, <1>8, <1>9, <1>10, <1>11, <1>12,
     <1>13, <1>14, <1>15, <1>16, <1>17, <1>18, <1>19, <1>20, <1>21, <1>22, <1>23,
     <1>24, <1>25, <1>26, <1>27 DEF Next, Advance

LEMMA InitType == Init => TypeOK
<1> SUFFICES ASSUME Init PROVE TypeOK
  OBVIOUS
<1>1. sess \in Session
  <2>1. CASE NoRow
    BY <2>1 DEF NoRow, NoSession, Session, Stages
  <2>2. CASE ClarifyingRow
    <3> PICK rt \in 0..MaxRoundTrips :
           sess = [stage |-> "clarifying", rt |-> rt, doc |-> 0, project |-> FALSE]
      BY <2>2 DEF ClarifyingRow
    <3> QED BY DEF Session, Stages
  <2> QED BY <2>1, <2>2 DEF Init
<1>2. gates \in Seq(GateStatuses)
  <2>1. <<>> \in Seq(GateStatuses) BY EmptySeq
  <2>2. <<"pending">> \in Seq(GateStatuses) BY DEF GateStatuses
  <2> QED BY <2>1, <2>2 DEF Init, NoRow, ClarifyingRow
<1> QED
  BY <1>1, <1>2, IdleType DEF Init, NothingHappened, TypeOK

\* The type invariant holds throughout: TypeOK is inductive.
THEOREM TypeCorrect == Spec => []TypeOK
BY InitType, TypeStep, PTL DEF Spec

-----------------------------------------------------------------------------
(* Rows: the row and the snapshots.                                        *)

\* What is known of a row or of a handler survives another document.
LEMMA GoodRowMonotonic ==
  ASSUME NEW r \in Session, NEW m \in Nat, NEW n \in Nat, m <= n, GoodRow(r, m)
  PROVE  GoodRow(r, n)
BY DEF GoodRow, Session

LEMMA GoodTaskMonotonic ==
  ASSUME NEW t \in Task, NEW m \in Nat, NEW n \in Nat, m <= n, GoodTask(t, m)
  PROVE  GoodTask(t, n)
BY DEF GoodTask, GoodRow, Task, Session

LEMMA GoodIdle ==
  ASSUME NEW n \in Nat PROVE GoodTask(Idle, n)
BY DEF GoodTask, GoodRow, Idle, NoSession, UnderReview

\* Enough to look at the row and at the handler that moved.
LEMMA RowsStep ==
  ASSUME TypeOK, TypeOK', Rows, NEW h \in Handlers,
         \A g \in Handlers : g # h => task'[g] = task[g],
         research <= research',
         GoodRow(sess', research'), GoodTask(task'[h], research')
  PROVE  Rows'
<1> SUFFICES ASSUME NEW g \in Handlers PROVE GoodTask(task'[g], research')
  BY DEF Rows
<1> CASE g # h
  BY GoodTaskMonotonic DEF Rows, TypeOK
<1> QED OBVIOUS

\* What changes in a handler that goes on to call p.
LEMMA GotoFields ==
  ASSUME TypeOK, NEW h \in Handlers, NEW p \in Steps, Goto(h, p)
  PROVE  /\ task'[h].pc = p
         /\ task'[h].snap = task[h].snap /\ task'[h].sig = task[h].sig
         /\ task'[h].doc = task[h].doc
         /\ \A g \in Handlers : g # h => task'[g] = task[g]
BY DEF TypeOK, Goto, Task

\* The branch HandleComment takes on a good row is a good task.
LEMMA DispatchGood ==
  ASSUME NEW r \in Session, NEW s \in Signals, NEW n \in Nat, GoodRow(r, n),
         NEW u \in Task, u.pc = Dispatch(r.stage, s), u.snap = r, u.sig = s
  PROVE  GoodTask(u, n)
<1>1. u.pc \in {"lookup", "brief", "use_context", "research", "promote", "idle"}
  BY DEF Dispatch
<1>2. u.pc = "lookup" /\ s \notin Closing =>
         r.stage \in UnderReview \cup {"clarifying"}
  BY DEF Dispatch, Closing, UnderReview
<1>3. u.pc = "research" => r.stage = "context_brief"
  BY DEF Dispatch, Closing, UnderReview
<1>4. u.pc = "research" => RoundTrips(u) = 0
  BY <1>3 DEF RoundTrips, UnderReview
<1> QED
  BY <1>1, <1>2, <1>4 DEF GoodTask

\* So is the branch taken once the pending gate is dealt with.
LEMMA AfterGateGood ==
  ASSUME NEW t \in Task, NEW n \in Nat, GoodTask(t, n),
         t.pc \in {"lookup", "resolve"},
         NEW u \in Task, u.pc = AfterGate(t), u.snap = t.snap, u.sig = t.sig
  PROVE  GoodTask(u, n)
<1>1. u.pc \in {"close", "branch", "escalate", "revise", "research"}
  BY DEF AfterGate
<1>2. RoundTrips(u) = RoundTrips(t) /\ RoundTrips(t) \in Nat
  BY TaskTypes DEF RoundTrips
<1>3. u.pc \in {"revise", "research"} => RoundTrips(t) < MaxRoundTrips
  BY <1>2 DEF AfterGate
<1>4. u.pc = "escalate" => RoundTrips(t) <= MaxRoundTrips
  BY <1>2 DEF AfterGate, RoundTrips, GoodTask, GoodRow, UnderReview, Task, Session
<1>5. u.pc \in {"revise", "branch"} => u.snap.stage \in UnderReview
  BY DEF AfterGate, GoodTask
<1> QED
  BY <1>1, <1>2, <1>3, <1>4, <1>5 DEF GoodTask

LEMMA RowsInvariant ==
  ASSUME TypeOK, TypeOK', Rows, [Next]_vars
  PROVE  Rows'
<1> \A h \in Handlers : task[h] \in Task
  BY DEF TypeOK
<1> USE GoodIdle, RowsStep DEF Rows, github, At, Goto, Return, UpdateSessionStage, TypeOK
<1>1. ASSUME NEW h \in Handlers, StartSession(h) PROVE Rows'
  BY <1>1 DEF StartSession, GoodTask, GoodRow, Idle, UnderReview
<1>2. ASSUME NEW h \in Handlers, NEW s \in Comments, Receive(h, s) PROVE Rows'
  <2>1. s \in Signals /\ task' = [task EXCEPT ![h] = task'[h]]
    BY <1>2 DEF Receive
  <2>2. /\ task'[h].pc = Dispatch(sess.stage, s)
        /\ task'[h].snap = sess /\ task'[h].sig = s
    BY <1>2 DEF Receive, Idle
  <2>3. GoodTask(task'[h], research)
    BY <2>1, <2>2, DispatchGood
  <2> QED BY <1>2, <2>3 DEF Receive
<1>3. ASSUME NEW h \in Handlers, PostBrief(h) PROVE Rows'
  BY <1>3 DEF PostBrief, GoodTask, GoodRow, RoundTrips, UnderReview, Task, Session
<1>4. ASSUME NEW h \in Handlers, SaveBrief(h) PROVE Rows'
  <2>1. GoodRow(sess', research')
    BY <1>4 DEF SaveBrief, GoodRow, UnderReview
  <2> QED BY <1>4, <2>1 DEF SaveBrief
<1>5. ASSUME NEW h \in Handlers, LookupGate(h) PROVE Rows'
  <2> PICK g \in 0..Len(gates) :
         task' = [task EXCEPT
                    ![h].gate = g,
                    ![h].pc = IF g = 0 THEN AfterGate(task[h]) ELSE "resolve"]
    BY <1>5 DEF LookupGate
  <2>1. /\ task'[h].snap = task[h].snap /\ task'[h].sig = task[h].sig
        /\ task'[h].pc = IF g = 0 THEN AfterGate(task[h]) ELSE "resolve"
        /\ \A k \in Handlers : k # h => task'[k] = task[k]
    BY DEF Task
  <2>2. task[h].pc = "lookup" /\ GoodTask(task[h], research) /\ task'[h] \in Task
    BY <1>5 DEF LookupGate
  <2>3. CASE g = 0
    <3>1. GoodTask(task'[h], research) BY <2>1, <2>2, <2>3, AfterGateGood
    <3> QED BY <1>5, <2>1, <3>1 DEF LookupGate
  <2>4. CASE g # 0
    <3>1. GoodTask(task'[h], research) BY <2>1, <2>2, <2>4 DEF GoodTask
    <3> QED BY <1>5, <2>1, <3>1 DEF LookupGate
  <2> QED BY <2>3, <2>4
<1>6. ASSUME NEW h \in Handlers, ResolveGate(h) PROVE Rows'
  <2>1. AfterGate(task[h]) \in Steps BY TaskTypes
  <2>2. /\ task[h].pc = "resolve" /\ GoodTask(task[h], research)
        /\ task'[h] \in Task
    BY <1>6 DEF ResolveGate
  <2>3. GoodTask(task'[h], research)
    BY <1>6, <2>1, <2>2, GotoFields, AfterGateGood DEF ResolveGate
  <2> QED BY <1>6, <2>1, <2>3, GotoFields DEF ResolveGate
<1>7. ASSUME NEW h \in Handlers, CloseSession(h) PROVE Rows'
  BY <1>7 DEF CloseSession, GoodTask, GoodRow, RoundTrips, UnderReview, Task, Session
<1>8. ASSUME NEW h \in Handlers, Acknowledge(h) PROVE Rows'
  BY <1>8 DEF Acknowledge, GoodTask, GoodRow, RoundTrips, UnderReview, Task, Session
<1>9. ASSUME NEW h \in Handlers, UseAsContext(h) PROVE Rows'
  BY <1>9 DEF UseAsContext, GoodTask, GoodRow, RoundTrips, UnderReview, Task, Session
<1>10. ASSUME NEW h \in Handlers, Escalate(h) PROVE Rows'
  BY <1>10 DEF Escalate, GoodTask, GoodRow, RoundTrips, UnderReview, Task, Session
<1>11. ASSUME NEW h \in Handlers, MarkRevision(h) PROVE Rows'
  <2> /\ task[h].snap \in Session /\ RoundTrips(task[h]) \in Nat
      /\ GoodTask(task[h], research) /\ task[h].pc = "revise"
    BY <1>11, TaskTypes DEF MarkRevision, Task
  <2>1. GoodRow(sess', research)
    BY <1>11 DEF MarkRevision, GoodTask, GoodRow, UnderReview, Session
  <2>2. "research" \in Steps BY DEF Steps
  <2>3. GoodTask(task'[h], research)
    BY <1>11, <2>2, GotoFields DEF MarkRevision, GoodTask, RoundTrips
  <2> QED BY <1>11, <2>1, <2>2, <2>3, GotoFields DEF MarkRevision
<1>12. ASSUME NEW h \in Handlers, PostResearch(h) PROVE Rows'
  <2> /\ GoodTask(task[h], research) /\ task[h].pc = "research"
      /\ research' = research + 1 /\ sess' = sess
    BY <1>12 DEF PostResearch
  <2>1. /\ task'[h].snap = task[h].snap /\ task'[h].pc = "save_research"
        /\ task'[h].doc = research + 1
        /\ \A g \in Handlers : g # h => task'[g] = task[g]
    BY <1>12 DEF PostResearch, Task
  <2>2. GoodRow(sess, research') /\ GoodRow(task[h].snap, research')
    <3>1. research \in Nat /\ research' \in Nat /\ research <= research'
      OBVIOUS
    <3>2. GoodRow(sess, research) /\ GoodRow(task[h].snap, research)
      BY DEF GoodTask
    <3>3. task[h].snap \in Session BY DEF Task
    <3> QED BY <3>1, <3>2, <3>3, GoodRowMonotonic
  <2>3. GoodTask(task'[h], research')
    BY <2>1, <2>2 DEF GoodTask, RoundTrips
  <2> QED BY <2>1, <2>2, <2>3
<1>13. ASSUME NEW h \in Handlers, SaveResearch(h) PROVE Rows'
  <2> /\ RoundTrips(task[h]) \in Nat /\ GoodTask(task[h], research)
      /\ task[h].pc = "save_research"
    BY <1>13, TaskTypes DEF SaveResearch
  <2>1. GoodRow(sess', research)
    BY <1>13 DEF SaveResearch, GoodTask, GoodRow
  <2>2. "open_gate" \in Steps BY DEF Steps
  <2>3. GoodTask(task'[h], research)
    BY <1>13, <2>2, GotoFields DEF SaveResearch, GoodTask
  <2> QED BY <1>13, <2>1, <2>2, <2>3, GotoFields DEF SaveResearch
<1>14. ASSUME NEW h \in Handlers, OpenGate(h) PROVE Rows'
  BY <1>14 DEF OpenGate, GoodTask, GoodRow, RoundTrips, UnderReview, Task, Session
<1>15. ASSUME NEW h \in Handlers, CreateBranch(h) PROVE Rows'
  BY <1>15 DEF CreateBranch, GoodTask, GoodRow, RoundTrips, UnderReview, Task, Session
<1>16. ASSUME NEW h \in Handlers, BranchRefused(h) PROVE Rows'
  BY <1>16 DEF BranchRefused, GoodTask, GoodRow, RoundTrips, UnderReview, Task, Session
<1>17. ASSUME NEW h \in Handlers, CommitFile(h) PROVE Rows'
  BY <1>17 DEF CommitFile, GoodTask, GoodRow, RoundTrips, UnderReview, Task, Session
<1>18. ASSUME NEW h \in Handlers, OpenPR(h) PROVE Rows'
  BY <1>18 DEF OpenPR, GoodTask, GoodRow, RoundTrips, UnderReview, Task, Session
<1>19. ASSUME NEW h \in Handlers, SaveApproved(h) PROVE Rows'
  <2> /\ task[h].snap \in Session /\ GoodTask(task[h], research)
      /\ task[h].pc = "approve"
    BY <1>19 DEF SaveApproved, Task
  <2>1. GoodRow(sess', research)
    BY <1>19 DEF SaveApproved, GoodTask, GoodRow, Session
  <2>2. "promote" \in Steps BY DEF Steps
  <2>3. CASE task[h].sig = "promote"
    <3>1. Goto(h, "promote") BY <1>19, <2>3 DEF SaveApproved
    <3>2. GoodTask(task'[h], research)
      BY <2>2, <3>1, GotoFields DEF GoodTask
    <3> QED BY <1>19, <2>1, <2>2, <3>1, <3>2, GotoFields DEF SaveApproved
  <2>4. CASE task[h].sig # "promote"
    BY <1>19, <2>1, <2>4 DEF SaveApproved
  <2> QED BY <2>3, <2>4
<1>20. ASSUME NEW h \in Handlers, PostPublic(h) PROVE Rows'
  BY <1>20 DEF PostPublic, GoodTask, GoodRow, RoundTrips, UnderReview, Task, Session
<1>21. ASSUME NEW h \in Handlers, FinishPromotion(h) PROVE Rows'
  BY <1>21 DEF FinishPromotion, GoodTask, GoodRow, RoundTrips, UnderReview, Task, Session
<1>22. ASSUME NEW h \in Handlers, QualityReject(h) PROVE Rows'
  BY <1>22 DEF QualityReject, GoodTask, GoodRow, RoundTrips, UnderReview, Task, Session
<1>23. ASSUME NEW h \in Handlers, ResolveGateFails(h) PROVE Rows'
  <2>1. AfterGate(task[h]) \in Steps BY TaskTypes
  <2>2. /\ task[h].pc = "resolve" /\ GoodTask(task[h], research)
        /\ task'[h] \in Task
    BY <1>23 DEF ResolveGateFails
  <2>3. GoodTask(task'[h], research)
    BY <1>23, <2>1, <2>2, GotoFields, AfterGateGood DEF ResolveGateFails
  <2> QED BY <1>23, <2>1, <2>3, GotoFields DEF ResolveGateFails
<1>24. ASSUME NEW h \in Handlers, Abandon(h) PROVE Rows'
  BY <1>24 DEF Abandon, GoodTask, GoodRow, RoundTrips, UnderReview, Task, Session
<1>25. CASE ListStale
  BY <1>25 DEF ListStale
<1>26. CASE MarkSessionComplete
  BY <1>26 DEF MarkSessionComplete, GoodRow, UnderReview
<1>27. CASE UNCHANGED vars
  BY <1>27 DEF vars
<1> QED
  BY <1>1, <1>2, <1>3, <1>4, <1>5, <1>6, <1>7, <1>8, <1>9, <1>10, <1>11, <1>12,
     <1>13, <1>14, <1>15, <1>16, <1>17, <1>18, <1>19, <1>20, <1>21, <1>22, <1>23,
     <1>24, <1>25, <1>26, <1>27 DEF Next, Advance

-----------------------------------------------------------------------------
(* PullRequest: the branch is a lock that is taken once.                   *)

\* Where the branches of HandleComment lead: never into createResearchPR.
LEMMA DispatchTargets ==
  ASSUME NEW stage, NEW s
  PROVE  /\ Dispatch(stage, s) \in {"lookup", "brief", "use_context", "research",
                                    "promote", "idle"}
         /\ Dispatch(stage, s) = "promote" => stage = "approved"
BY DEF Dispatch

LEMMA AfterGateTargets ==
  ASSUME NEW t
  PROVE  AfterGate(t) \in {"close", "branch", "escalate", "revise", "research"}
BY DEF AfterGate

\* A step that stays outside createResearchPR disturbs nothing.
LEMMA PullRequestFrame ==
  ASSUME TypeOK, TypeOK', PullRequest, NEW h \in Handlers,
         \A g \in Handlers : g # h => task'[g] = task[g],
         branch' = branch, prs' = prs, prDoc' = prDoc, research <= research',
         task'[h].pc \notin CreatesPR
  PROVE  PullRequest'
BY DEF PullRequest, TypeOK, CreatesPR

LEMMA PullRequestInvariant ==
  ASSUME TypeOK, TypeOK', Rows, PullRequest, [Next]_vars
  PROVE  PullRequest'
<1> \A h \in Handlers : task[h] \in Task /\ AfterGate(task[h]) \in Steps
  BY TaskTypes DEF TypeOK
<1> research \in Nat /\ research <= research
  BY DEF TypeOK
<1> USE PullRequestFrame DEF CreatesPR, github, At
<1>1. ASSUME NEW h \in Handlers, StartSession(h) PROVE PullRequest'
  BY <1>1 DEF StartSession, Idle, TypeOK
<1>2. ASSUME NEW h \in Handlers, NEW s \in Comments, Receive(h, s)
      PROVE PullRequest'
  BY <1>2, DispatchTargets DEF Receive, Idle, TypeOK
<1>3. ASSUME NEW h \in Handlers, PostBrief(h) PROVE PullRequest'
  <2> "save_brief" \in Steps BY DEF Steps
  <2> QED BY <1>3, GotoFields DEF PostBrief
<1>4. ASSUME NEW h \in Handlers, SaveBrief(h) PROVE PullRequest'
  BY <1>4 DEF SaveBrief, Return, Idle, TypeOK
<1>5. ASSUME NEW h \in Handlers, LookupGate(h) PROVE PullRequest'
  <2> PICK g \in 0..Len(gates) :
         task' = [task EXCEPT
                    ![h].gate = g,
                    ![h].pc = IF g = 0 THEN AfterGate(task[h]) ELSE "resolve"]
    BY <1>5 DEF LookupGate
  <2>1. /\ task'[h].pc = IF g = 0 THEN AfterGate(task[h]) ELSE "resolve"
        /\ \A k \in Handlers : k # h => task'[k] = task[k]
    BY DEF Task, TypeOK
  <2>2. task'[h].pc \notin CreatesPR BY <2>1, AfterGateTargets
  <2> QED BY <1>5, <2>1, <2>2 DEF LookupGate
<1>6. ASSUME NEW h \in Handlers, ResolveGate(h) PROVE PullRequest'
  BY <1>6, GotoFields, AfterGateTargets DEF ResolveGate
<1>7. ASSUME NEW h \in Handlers, CloseSession(h) PROVE PullRequest'
  <2> "ack" \in Steps BY DEF Steps
  <2> QED BY <1>7, GotoFields DEF CloseSession
<1>8. ASSUME NEW h \in Handlers, Acknowledge(h) PROVE PullRequest'
  BY <1>8 DEF Acknowledge, Return, Idle, TypeOK
<1>9. ASSUME NEW h \in Handlers, UseAsContext(h) PROVE PullRequest'
  BY <1>9 DEF UseAsContext, Return, Idle, TypeOK
<1>10. ASSUME NEW h \in Handlers, Escalate(h) PROVE PullRequest'
  BY <1>10 DEF Escalate, Return, Idle, TypeOK
<1>11. ASSUME NEW h \in Handlers, MarkRevision(h) PROVE PullRequest'
  <2> "research" \in Steps BY DEF Steps
  <2> QED BY <1>11, GotoFields DEF MarkRevision
<1>12. ASSUME NEW h \in Handlers, PostResearch(h) PROVE PullRequest'
  <2>1. /\ task'[h].pc = "save_research"
        /\ \A g \in Handlers : g # h => task'[g] = task[g]
    BY <1>12 DEF PostResearch, Task, TypeOK
  <2>2. branch' = branch /\ prs' = prs /\ prDoc' = prDoc /\ research <= research'
    BY <1>12 DEF PostResearch
  <2> QED BY <2>1, <2>2
<1>13. ASSUME NEW h \in Handlers, SaveResearch(h) PROVE PullRequest'
  <2> "open_gate" \in Steps BY DEF Steps
  <2> QED BY <1>13, GotoFields DEF SaveResearch
<1>14. ASSUME NEW h \in Handlers, OpenGate(h) PROVE PullRequest'
  BY <1>14 DEF OpenGate, Return, Idle, TypeOK
<1>15. ASSUME NEW h \in Handlers, CreateBranch(h) PROVE PullRequest'
  <2>1. "commit" \in Steps BY DEF Steps
  <2>2. ~branch /\ branch' /\ prs' = prs /\ prDoc' = prDoc /\ research' = research
    BY <1>15 DEF CreateBranch
  <2>3. prs = 0 /\ \A g \in Handlers : task[g].pc \notin CreatesPR
    BY <2>2 DEF PullRequest
  <2>4. task'[h].pc = "commit" /\ \A g \in Handlers : g # h => task'[g] = task[g]
    BY <1>15, <2>1, GotoFields DEF CreateBranch
  <2> QED BY <2>2, <2>3, <2>4 DEF PullRequest
<1>16. ASSUME NEW h \in Handlers, BranchRefused(h) PROVE PullRequest'
  BY <1>16 DEF BranchRefused, Return, Idle, TypeOK
<1>17. ASSUME NEW h \in Handlers, CommitFile(h) PROVE PullRequest'
  <2>1. "open_pr" \in Steps BY DEF Steps
  <2>2. /\ task[h].pc = "commit" /\ prDoc' = task[h].snap.doc
        /\ branch' = branch /\ prs' = prs /\ research' = research
    BY <1>17 DEF CommitFile
  <2>3. prDoc' \in 1..research'
    BY <2>2 DEF Rows, GoodTask, GoodRow
  <2>4. task'[h].pc = "open_pr" /\ \A g \in Handlers : g # h => task'[g] = task[g]
    BY <1>17, <2>1, GotoFields DEF CommitFile
  <2>5. \A g \in Handlers : g # h => task'[g].pc \notin CreatesPR
    BY <2>2, <2>4 DEF PullRequest
  <2> QED BY <2>2, <2>3, <2>4, <2>5 DEF PullRequest
<1>18. ASSUME NEW h \in Handlers, OpenPR(h) PROVE PullRequest'
  <2>1. "approve" \in Steps BY DEF Steps
  <2>2. /\ task[h].pc = "open_pr" /\ prs' = prs + 1
        /\ branch' = branch /\ prDoc' = prDoc /\ research' = research
    BY <1>18 DEF OpenPR
  <2>3. prs' = 1 /\ branch /\ prDoc \in 1..research
    BY <2>2 DEF PullRequest
  <2>4. task'[h].pc = "approve" /\ \A g \in Handlers : g # h => task'[g] = task[g]
    BY <1>18, <2>1, GotoFields DEF OpenPR
  <2>5. \A g \in Handlers : g # h => task'[g].pc \notin CreatesPR
    BY <2>2, <2>4 DEF PullRequest
  <2> QED BY <2>2, <2>3, <2>4, <2>5 DEF PullRequest
<1>19. ASSUME NEW h \in Handlers, SaveApproved(h) PROVE PullRequest'
  <2>1. CASE task[h].sig = "promote"
    <3> "promote" \in Steps BY DEF Steps
    <3>1. Goto(h, "promote") BY <1>19, <2>1 DEF SaveApproved
    <3> QED BY <1>19, <3>1, GotoFields DEF SaveApproved
  <2>2. CASE task[h].sig # "promote"
    BY <1>19, <2>2 DEF SaveApproved, Return, Idle, TypeOK
  <2> QED BY <2>1, <2>2
<1>20. ASSUME NEW h \in Handlers, PostPublic(h) PROVE PullRequest'
  <2> "finish" \in Steps BY DEF Steps
  <2> QED BY <1>20, GotoFields DEF PostPublic
<1>21. ASSUME NEW h \in Handlers, FinishPromotion(h) PROVE PullRequest'
  BY <1>21 DEF FinishPromotion, Return, Idle, TypeOK
<1>22. ASSUME NEW h \in Handlers, QualityReject(h) PROVE PullRequest'
  BY <1>22 DEF QualityReject, Return, Idle, TypeOK
<1>23. ASSUME NEW h \in Handlers, ResolveGateFails(h) PROVE PullRequest'
  BY <1>23, GotoFields, AfterGateTargets DEF ResolveGateFails
<1>24. ASSUME NEW h \in Handlers, Abandon(h) PROVE PullRequest'
  BY <1>24 DEF Abandon, Return, Idle, TypeOK
<1>25. CASE ListStale
  BY <1>25 DEF ListStale, PullRequest
<1>26. CASE MarkSessionComplete
  BY <1>26 DEF MarkSessionComplete, PullRequest
<1>27. CASE UNCHANGED vars
  BY <1>27 DEF vars, PullRequest
<1> QED
  BY <1>1, <1>2, <1>3, <1>4, <1>5, <1>6, <1>7, <1>8, <1>9, <1>10, <1>11, <1>12,
     <1>13, <1>14, <1>15, <1>16, <1>17, <1>18, <1>19, <1>20, <1>21, <1>22, <1>23,
     <1>24, <1>25, <1>26, <1>27 DEF Next, Advance

-----------------------------------------------------------------------------
(* Approved: the row says so, or the public issue hears of it, afterwards.  *)

\* It is enough that whatever is new about the row, the public issue and the
\* handler that moved was so before, or that the pull request is there.
LEMMA ApprovedFrame ==
  ASSUME Approved, NEW h \in Handlers,
         \A g \in Handlers : g # h => task'[g] = task[g],
         prs = 1 => prs' = 1,
         sess'.stage = "approved" => sess.stage = "approved" \/ prs' = 1,
         public' > 0 => public > 0 \/ prs' = 1,
         task'[h].snap.stage = "approved" =>
           \/ sess.stage = "approved" \/ task[h].snap.stage = "approved"
           \/ prs' = 1,
         task'[h].pc \in {"promote", "finish"} =>
           \/ sess.stage = "approved" \/ task[h].snap.stage = "approved"
           \/ task[h].pc \in {"promote", "finish"} \/ prs' = 1
  PROVE  Approved'
BY DEF Approved

LEMMA ApprovedInvariant ==
  ASSUME TypeOK, TypeOK', PullRequest, Approved, [Next]_vars
  PROVE  Approved'
<1> \A h \in Handlers : task[h] \in Task /\ AfterGate(task[h]) \in Steps
  BY TaskTypes DEF TypeOK
<1> USE ApprovedFrame DEF github, At
<1>1. ASSUME NEW h \in Handlers, StartSession(h) PROVE Approved'
  BY <1>1 DEF StartSession, UpdateSessionStage, Idle, TypeOK
<1>2. ASSUME NEW h \in Handlers, NEW s \in Comments, Receive(h, s)
      PROVE Approved'
  BY <1>2, DispatchTargets DEF Receive, Idle, TypeOK
<1>3. ASSUME NEW h \in Handlers, PostBrief(h) PROVE Approved'
  <2> "save_brief" \in Steps BY DEF Steps
  <2> QED BY <1>3, GotoFields DEF PostBrief
<1>4. ASSUME NEW h \in Handlers, SaveBrief(h) PROVE Approved'
  BY <1>4 DEF SaveBrief, Return, Idle, NoSession, TypeOK, UpdateSessionStage
<1>5. ASSUME NEW h \in Handlers, LookupGate(h) PROVE Approved'
  <2> PICK g \in 0..Len(gates) :
         task' = [task EXCEPT
                    ![h].gate = g,
                    ![h].pc = IF g = 0 THEN AfterGate(task[h]) ELSE "resolve"]
    BY <1>5 DEF LookupGate
  <2>1. /\ task'[h].pc = IF g = 0 THEN AfterGate(task[h]) ELSE "resolve"
        /\ task'[h].snap = task[h].snap
        /\ \A k \in Handlers : k # h => task'[k] = task[k]
    BY DEF Task, TypeOK
  <2>2. task'[h].pc \notin {"promote", "finish"} BY <2>1, AfterGateTargets
  <2> QED BY <1>5, <2>1, <2>2 DEF LookupGate
<1>6. ASSUME NEW h \in Handlers, ResolveGate(h) PROVE Approved'
  BY <1>6, GotoFields, AfterGateTargets DEF ResolveGate
<1>7. ASSUME NEW h \in Handlers, CloseSession(h) PROVE Approved'
  <2> "ack" \in Steps BY DEF Steps
  <2> QED BY <1>7, GotoFields DEF CloseSession, UpdateSessionStage
<1>8. ASSUME NEW h \in Handlers, Acknowledge(h) PROVE Approved'
  BY <1>8 DEF Acknowledge, Return, Idle, NoSession, TypeOK
<1>9. ASSUME NEW h \in Handlers, UseAsContext(h) PROVE Approved'
  BY <1>9 DEF UseAsContext, Return, Idle, NoSession, TypeOK, UpdateSessionStage
<1>10. ASSUME NEW h \in Handlers, Escalate(h) PROVE Approved'
  BY <1>10 DEF Escalate, Return, Idle, NoSession, TypeOK, UpdateSessionStage
<1>11. ASSUME NEW h \in Handlers, MarkRevision(h) PROVE Approved'
  <2> "research" \in Steps BY DEF Steps
  <2> QED BY <1>11, GotoFields DEF MarkRevision, UpdateSessionStage
<1>12. ASSUME NEW h \in Handlers, PostResearch(h) PROVE Approved'
  BY <1>12 DEF PostResearch, Task, TypeOK
<1>13. ASSUME NEW h \in Handlers, SaveResearch(h) PROVE Approved'
  <2> "open_gate" \in Steps BY DEF Steps
  <2> QED BY <1>13, GotoFields DEF SaveResearch, UpdateSessionStage
<1>14. ASSUME NEW h \in Handlers, OpenGate(h) PROVE Approved'
  BY <1>14 DEF OpenGate, Return, Idle, NoSession, TypeOK
<1>15. ASSUME NEW h \in Handlers, CreateBranch(h) PROVE Approved'
  <2> "commit" \in Steps BY DEF Steps
  <2> QED BY <1>15, GotoFields DEF CreateBranch
<1>16. ASSUME NEW h \in Handlers, BranchRefused(h) PROVE Approved'
  BY <1>16 DEF BranchRefused, Return, Idle, NoSession, TypeOK
<1>17. ASSUME NEW h \in Handlers, CommitFile(h) PROVE Approved'
  <2> "open_pr" \in Steps BY DEF Steps
  <2> QED BY <1>17, GotoFields DEF CommitFile
<1>18. ASSUME NEW h \in Handlers, OpenPR(h) PROVE Approved'
  <2> "approve" \in Steps BY DEF Steps
  <2>1. prs = 0 /\ prs' = 1
    BY <1>18 DEF OpenPR, PullRequest
  <2> QED BY <1>18, <2>1, GotoFields DEF OpenPR
<1>19. ASSUME NEW h \in Handlers, SaveApproved(h) PROVE Approved'
  <2>1. prs = 1 /\ prs' = 1
    BY <1>19 DEF SaveApproved, PullRequest
  <2>2. \A g \in Handlers : g # h => task'[g] = task[g]
    BY <1>19 DEF SaveApproved, Goto, Return, TypeOK
  <2> QED BY <1>19, <2>1, <2>2 DEF SaveApproved
<1>20. ASSUME NEW h \in Handlers, PostPublic(h) PROVE Approved'
  <2> "finish" \in Steps BY DEF Steps
  <2>1. prs = 1 /\ prs' = prs
    BY <1>20 DEF PostPublic, Approved
  <2> QED BY <1>20, <2>1, GotoFields DEF PostPublic
<1>21. ASSUME NEW h \in Handlers, FinishPromotion(h) PROVE Approved'
  BY <1>21 DEF FinishPromotion, Return, Idle, NoSession, TypeOK, UpdateSessionStage
<1>22. ASSUME NEW h \in Handlers, QualityReject(h) PROVE Approved'
  BY <1>22 DEF QualityReject, Return, Idle, NoSession, TypeOK
<1>23. ASSUME NEW h \in Handlers, ResolveGateFails(h) PROVE Approved'
  BY <1>23, GotoFields, AfterGateTargets DEF ResolveGateFails
<1>24. ASSUME NEW h \in Handlers, Abandon(h) PROVE Approved'
  BY <1>24 DEF Abandon, Return, Idle, NoSession, TypeOK
<1>25. CASE ListStale
  BY <1>25 DEF ListStale, Approved
<1>26. CASE MarkSessionComplete
  BY <1>26 DEF MarkSessionComplete, Approved, TypeOK, Session
<1>27. CASE UNCHANGED vars
  BY <1>27 DEF vars, Approved
<1> QED
  BY <1>1, <1>2, <1>3, <1>4, <1>5, <1>6, <1>7, <1>8, <1>9, <1>10, <1>11, <1>12,
     <1>13, <1>14, <1>15, <1>16, <1>17, <1>18, <1>19, <1>20, <1>21, <1>22, <1>23,
     <1>24, <1>25, <1>26, <1>27 DEF Next, Advance

-----------------------------------------------------------------------------
(* The theorems.                                                           *)

LEMMA Invariance == Spec => []IInv
<1>1. Init => IInv
  <2> SUFFICES ASSUME Init PROVE IInv
    OBVIOUS
  <2>1. TypeOK BY InitType
  <2>2. Rows
    <3>1. GoodRow(sess, research)
      BY DEF Init, NoRow, NothingHappened, ClarifyingRow, GoodRow, NoSession, UnderReview
    <3>2. \A h \in Handlers : GoodTask(task[h], research)
      BY GoodIdle DEF Init, NothingHappened
    <3> QED BY <3>1, <3>2 DEF Rows
  <2>3. PullRequest /\ Approved
    BY DEF Init, NoRow, ClarifyingRow, NoSession, NothingHappened, PullRequest,
           Approved, CreatesPR, Idle
  <2> QED BY <2>1, <2>2, <2>3 DEF IInv
<1>2. IInv /\ [Next]_vars => IInv'
  <2> SUFFICES ASSUME IInv, [Next]_vars PROVE IInv'
    OBVIOUS
  <2>1. TypeOK' BY TypeStep DEF IInv
  <2>2. Rows' BY <2>1, RowsInvariant DEF IInv
  <2>3. PullRequest' BY <2>1, PullRequestInvariant DEF IInv
  <2>4. Approved' BY <2>1, ApprovedInvariant DEF IInv
  <2> QED BY <2>1, <2>2, <2>3, <2>4 DEF IInv
<1> QED
  BY <1>1, <1>2, PTL DEF Spec

\* The stored round-trip count stays within MaxRoundTrips, for any number of
\* handlers that overwrite each other's updates.
THEOREM RoundTripsBounded == Spec => []RoundTripBound
<1>1. IInv => RoundTripBound
  BY DEF IInv, Rows, GoodRow, RoundTripBound
<1> QED
  BY <1>1, Invariance, PTL

\* However many approvals are handled at once, and wherever one of them stops,
\* a session gets at most one pull request.
THEOREM AtMostOnePullRequest == Spec => []OnePullRequest
<1>1. IInv => OnePullRequest
  BY DEF IInv, PullRequest, OnePullRequest
<1> QED
  BY <1>1, Invariance, PTL

\* Nothing is approved or published without the pull request, and what that
\* contains was posted for review.
THEOREM PublishedOnlyReviewed == Spec => []PublishedWasReviewed
<1>1. IInv => PublishedWasReviewed
  BY DEF IInv, PullRequest, Approved, PublishedWasReviewed
<1> QED
  BY <1>1, Invariance, PTL

\* No stale snapshot written back ever leaves a session under review, or
\* approved, without a posted document.
THEOREM ReviewedHasDocument == Spec => []ReviewHasDocument
<1>1. IInv => ReviewHasDocument
  BY DEF IInv, Rows, GoodRow, ReviewHasDocument
<1> QED
  BY <1>1, Invariance, PTL

-----------------------------------------------------------------------------
(* Handlers of a complete session.                                         *)

\* A handler that read a complete row only closes it once more.
ClosesAgain ==
  \A h \in Handlers :
    task[h].snap.stage = "complete" =>
      /\ task[h].pc \in {"idle", "lookup", "resolve", "close", "ack"}
      /\ task[h].pc # "idle" => task[h].sig \in Closing

\* Nothing happens to a complete session but by a handler that had read the row
\* before it was complete: it is neither opened again, nor does it get another
\* document, pull request or public comment.
DisturbedOnlyByOverlap ==
  [][sess.stage = "complete" /\ <<sess.stage, research, prs, public>>'
                                  # <<sess.stage, research, prs, public>>
       => \E h \in Handlers : task[h].pc # "idle" /\ task[h].snap.stage # "complete"]_vars

LEMMA ClosesAgainStep ==
  ASSUME TypeOK, TypeOK', ClosesAgain, [Next]_vars
  PROVE  ClosesAgain'
<1> \A h \in Handlers : task[h] \in Task /\ AfterGate(task[h]) \in Steps
  BY TaskTypes DEF TypeOK
<1> USE DEF At, github, UpdateSessionStage
<1>1. ASSUME NEW h \in Handlers,
             StartSession(h) \/ (\E s \in Comments : Receive(h, s)) \/ Advance(h)
               \/ ResolveGateFails(h) \/ Abandon(h)
      PROVE  ClosesAgain'
  <2> DEFINE t == task[h]
  <2> /\ Return(h) => task'[h] = Idle
      /\ \A p \in Steps : Goto(h, p) => /\ task'[h].pc = p
                                        /\ task'[h].snap = t.snap /\ task'[h].sig = t.sig
    BY GotoFields DEF Return, TypeOK
  <2> Idle.snap.stage = "none"
    BY DEF Idle, NoSession
  <2>a. ASSUME task'[h].snap.stage = "complete" =>
                 /\ task'[h].pc \in {"idle", "lookup", "resolve", "close", "ack"}
                 /\ task'[h].pc # "idle" => task'[h].sig \in Closing,
               \A g \in Handlers : g # h => task'[g] = task[g]
        PROVE  ClosesAgain'
    BY <2>a DEF ClosesAgain
  <2>b. t.snap.stage = "complete" /\ t.pc # "idle" =>
          t.pc \in {"lookup", "resolve", "close", "ack"} /\ t.sig \in Closing
    BY DEF ClosesAgain
  <2>c. t.sig \in Closing => AfterGate(t) = "close"
    BY DEF AfterGate
  <2>d. \A g \in Handlers : g # h => task'[g] = task[g]
    BY <1>1 DEF StartSession, Receive, Advance, ResolveGateFails, Abandon, Goto, Return,
       PostBrief, SaveBrief, LookupGate, ResolveGate, CloseSession, Acknowledge,
       UseAsContext, Escalate, MarkRevision, PostResearch, SaveResearch, OpenGate,
       CreateBranch, BranchRefused, CommitFile, OpenPR, SaveApproved, PostPublic,
       FinishPromotion, QualityReject, TypeOK
  <2>1. CASE StartSession(h)
    <3>1. task'[h].snap.stage = "new"
      BY <2>1 DEF StartSession, Idle, TypeOK
    <3> QED BY <2>a, <2>d, <3>1
  <2>2. CASE \E s \in Comments : Receive(h, s)
    <3>1. PICK s \in Comments : Receive(h, s) BY <2>2
    <3>2. /\ task'[h].snap = sess /\ task'[h].sig = s
          /\ task'[h].pc = Dispatch(sess.stage, s) /\ task'[h].pc # "idle"
      BY <3>1 DEF Receive, Idle, TypeOK
    <3>3. sess.stage = "complete" => s \in Closing /\ Dispatch(sess.stage, s) = "lookup"
      BY <3>2 DEF Dispatch, Closing, UnderReview
    <3> QED BY <2>a, <2>d, <3>2, <3>3
  <2>3. CASE LookupGate(h)
    <3>1. PICK g \in 0..Len(gates) :
            task' = [task EXCEPT
                       ![h].gate = g,
                       ![h].pc = IF g = 0 THEN AfterGate(task[h]) ELSE "resolve"]
      BY <2>3 DEF LookupGate
    <3>2. /\ task'[h].pc = IF g = 0 THEN AfterGate(t) ELSE "resolve"
          /\ task'[h].snap = t.snap /\ task'[h].sig = t.sig /\ t.pc = "lookup"
      BY <2>3, <3>1 DEF TypeOK, Task, LookupGate
    <3> QED BY <2>a, <2>b, <2>c, <2>d, <3>2
  <2>4. CASE ResolveGate(h) \/ ResolveGateFails(h)
    BY <2>4, <2>a, <2>b, <2>c, <2>d DEF ResolveGate, ResolveGateFails
  <2>5. CASE CloseSession(h)
    BY <2>5, <2>a, <2>b, <2>d DEF CloseSession, Steps
  <2>6. CASE PostResearch(h)
    <3>1. task'[h].snap = t.snap /\ t.pc = "research"
      BY <2>6 DEF PostResearch, TypeOK, Task
    <3> QED BY <2>a, <2>b, <2>d, <3>1
  <2>7. CASE \/ PostBrief(h) \/ MarkRevision(h) \/ SaveResearch(h) \/ CreateBranch(h)
             \/ CommitFile(h) \/ OpenPR(h) \/ SaveApproved(h) \/ PostPublic(h)
    <3>1. t.snap.stage # "complete"
      BY <2>7, <2>b DEF PostBrief, MarkRevision, SaveResearch, CreateBranch, CommitFile,
         OpenPR, SaveApproved, PostPublic
    <3>2. task'[h] = Idle \/ task'[h].snap = t.snap
      BY <2>7 DEF PostBrief, MarkRevision, SaveResearch, CreateBranch, CommitFile,
         OpenPR, SaveApproved, PostPublic, Steps
    <3> QED BY <2>a, <2>d, <3>1, <3>2
  <2>8. CASE Return(h)
    BY <2>8, <2>a, <2>d
  <2> QED
    BY <1>1, <2>1, <2>2, <2>3, <2>4, <2>5, <2>6, <2>7, <2>8 DEF Advance, Abandon,
       SaveBrief, Acknowledge, UseAsContext, Escalate, OpenGate, BranchRefused,
       FinishPromotion, QualityReject
<1>2. CASE ListStale \/ MarkSessionComplete \/ UNCHANGED vars
  BY <1>2 DEF ListStale, MarkSessionComplete, vars, ClosesAgain
<1> QED
  BY <1>1, <1>2 DEF Next

\* What goes on in a complete session is the doing of handlers that started
\* before it was complete: this is all that overlapping comments can break of
\* "No further research will be generated".
THEOREM CompleteStaysUndisturbed == Spec => DisturbedOnlyByOverlap
<1> DEFINE Overlap == \E h \in Handlers : task[h].pc # "idle" /\ task[h].snap.stage # "complete"
           Same == <<sess.stage, research, prs, public>>'
                     = <<sess.stage, research, prs, public>>
           Only == sess.stage = "complete" /\ <<sess.stage, research, prs, public>>'
                                                # <<sess.stage, research, prs, public>>
                     => Overlap
<1>1. TypeOK /\ ClosesAgain /\ [Next]_vars /\ sess.stage = "complete" => Overlap \/ Same
  <2> SUFFICES ASSUME TypeOK, ClosesAgain, Next, sess.stage = "complete", ~Overlap
      PROVE  Same
    BY DEF vars
  <2>1. \A h \in Handlers :
          task[h].pc # "idle" =>
            task[h].snap.stage = "complete" /\ task[h].pc \in {"lookup", "resolve", "close", "ack"}
    BY DEF ClosesAgain
  <2> HIDE DEF Overlap
  <2> USE DEF github, At, UpdateSessionStage
  <2>2. ASSUME NEW h \in Handlers, Advance(h) PROVE Same
    <3>1. LookupGate(h) \/ ResolveGate(h) \/ CloseSession(h) \/ Acknowledge(h)
      BY <2>1, <2>2 DEF Advance, PostBrief, SaveBrief, UseAsContext, Escalate,
         MarkRevision, PostResearch, SaveResearch, OpenGate, CreateBranch,
         BranchRefused, CommitFile, OpenPR, SaveApproved, PostPublic, FinishPromotion,
         QualityReject
    <3> QED BY <3>1 DEF LookupGate, ResolveGate, CloseSession, Acknowledge
  <2>3. ASSUME NEW h \in Handlers, \/ \E s \in Comments : Receive(h, s)
                                   \/ ResolveGateFails(h) \/ Abandon(h)
        PROVE Same
    BY <2>3 DEF Receive, ResolveGateFails, Abandon
  <2>4. \A h \in Handlers : ~StartSession(h)
    BY DEF StartSession
  <2>5. CASE ListStale \/ MarkSessionComplete
    BY <2>5 DEF ListStale, MarkSessionComplete, TypeOK, Session
  <2> QED BY <2>2, <2>3, <2>4, <2>5 DEF Next
<1>2. Init => ClosesAgain
  BY DEF Init, NothingHappened, ClosesAgain, Idle, NoSession
<1>3. Spec => []ClosesAgain
  BY <1>2, ClosesAgainStep, TypeCorrect, TypeStep, PTL DEF Spec
<1>4. TypeOK /\ ClosesAgain /\ [Next]_vars
        => [Only]_vars
  BY <1>1
<1> HIDE DEF Only
<1>5. Spec => [][Only]_vars
  BY <1>3, <1>4, TypeCorrect, PTL DEF Spec
<1> QED BY <1>5 DEF DisturbedOnlyByOverlap, Only

-----------------------------------------------------------------------------
(* The serial regime, where an actor starts only when no other one is at    *)
(* work: the agent implements SessionLifecycle, and what repeats does so    *)
(* only after a failure.  First the inductive invariant.                    *)

Running(h) == task[h].pc # "idle"

\* One actor is at work, and the cleanup's list is still true when it is used.
Alone ==
  /\ \A g, h \in Handlers : Running(g) /\ Running(h) => g = h
  /\ reaper = "listed" =>
       /\ \A h \in Handlers : ~Running(h)
       /\ sess.stage \notin {"none", "complete"}

\* The row that MarkRevision leaves for a handler with task t.
Marked(t) == [stage |-> "revision", rt |-> RoundTrips(t), doc |-> t.snap.doc,
              project |-> t.snap.project]

\* How the row r relates to the snapshot of the handler at work: it is the
\* snapshot until that handler itself writes.
Current(t, r) ==
  /\ t.pc \in {"brief", "save_brief", "lookup", "resolve", "close", "use_context",
               "escalate", "revise", "branch", "commit", "open_pr", "approve"}
       => r = t.snap
  /\ t.pc \in {"research", "save_research"} =>
       r = t.snap \/ (t.snap.stage \in UnderReview /\ r = Marked(t))
  /\ t.pc = "open_gate" => r.stage = "review_pending"
  /\ t.pc = "ack" => r.stage = "complete"
  /\ t.pc \in {"promote", "finish"} => r.stage = "approved" /\ r.rt = t.snap.rt

\* The stages from which a handler comes to its next call.
Came(t) ==
  /\ t.pc # "idle" => t.snap.stage # "none"
  /\ t.pc \in {"brief", "save_brief"} => t.snap.stage = "new"
  /\ t.pc = "use_context" => t.snap.stage = "context_brief"
  /\ t.pc \in {"lookup", "resolve"} /\ t.sig \notin Closing =>
       t.snap.stage \in UnderReview \cup {"clarifying"}
  /\ t.pc \in {"research", "save_research"} =>
       t.snap.stage \in UnderReview \cup {"context_brief", "clarifying"}
  /\ t.pc = "escalate" => /\ t.snap.stage \in UnderReview \cup {"clarifying"}
                          /\ RoundTrips(t) = MaxRoundTrips

Snapshots ==
  /\ sess.stage \in {"none", "new", "context_brief"} => sess.rt = 0
  /\ \A h \in Handlers : Running(h) => Current(task[h], sess) /\ Came(task[h])

SerialInv == IInv /\ Alone /\ Snapshots

-----------------------------------------------------------------------------
(* Steps of the one handler at work.                                       *)

HandlerStep(h) ==
  StartSession(h) \/ (\E s \in Comments : Receive(h, s)) \/ Advance(h)
    \/ ResolveGateFails(h) \/ Abandon(h)

LEMMA Moves ==
  ASSUME [Next]_vars
  PROVE  \/ \E h \in Handlers : HandlerStep(h)
         \/ ListStale \/ MarkSessionComplete \/ UNCHANGED vars
BY DEF Next, HandlerStep

\* Whoever moves is alone with its step.
LEMMA OneMoves ==
  ASSUME Serial, TypeOK, Alone, NEW h \in Handlers, HandlerStep(h)
  PROVE  /\ reaper' = reaper /\ reaper # "listed"
         /\ \A g \in Handlers : g # h => task'[g] = task[g] /\ ~Running(g)
<1>1. CASE StartSession(h)
  BY <1>1 DEF StartSession, MayStart, Quiescent, Running, TypeOK
<1>2. CASE \E s \in Comments : Receive(h, s)
  BY <1>2 DEF Receive, MayStart, Quiescent, Running, TypeOK
<1>3. CASE Advance(h) \/ ResolveGateFails(h) \/ Abandon(h)
  <2>1. task[h].pc # "idle"
    BY <1>3 DEF Advance, ResolveGateFails, Abandon, At, PostBrief, SaveBrief,
       LookupGate, ResolveGate, CloseSession, Acknowledge, UseAsContext, Escalate,
       MarkRevision, PostResearch, SaveResearch, OpenGate, CreateBranch,
       BranchRefused, CommitFile, OpenPR, SaveApproved, PostPublic,
       FinishPromotion, QualityReject
  <2>2. reaper' = reaper /\ \A g \in Handlers : g # h => task'[g] = task[g]
    BY <1>3 DEF Advance, ResolveGateFails, Abandon, Goto, Return, PostBrief, SaveBrief,
       LookupGate, ResolveGate, CloseSession, Acknowledge, UseAsContext, Escalate,
       MarkRevision, PostResearch, SaveResearch, OpenGate, CreateBranch,
       BranchRefused, CommitFile, OpenPR, SaveApproved, PostPublic,
       FinishPromotion, QualityReject, TypeOK
  <2> QED BY <2>1, <2>2 DEF Alone, Running
<1> QED BY <1>1, <1>2, <1>3 DEF HandlerStep

LEMMA AloneStep ==
  ASSUME Serial, TypeOK, Alone, [Next]_vars
  PROVE  Alone'
<1>1. ASSUME NEW h \in Handlers, HandlerStep(h) PROVE Alone'
  <2>1. /\ reaper' # "listed"
        /\ \A g \in Handlers : g # h => ~(task'[g].pc # "idle")
    BY <1>1, OneMoves DEF Running
  <2> QED BY <2>1 DEF Alone, Running
<1>2. CASE ListStale
  BY <1>2 DEF ListStale, MayStart, Quiescent, Alone, Running
<1>3. CASE MarkSessionComplete
  BY <1>3 DEF MarkSessionComplete, Alone, Running
<1>4. CASE UNCHANGED vars
  BY <1>4 DEF vars, Alone, Running
<1> QED BY <1>1, <1>2, <1>3, <1>4, Moves

\* It is enough to look at the row and at the handler that moved.
LEMMA SnapshotsFrame ==
  ASSUME Serial, TypeOK, Alone, NEW h \in Handlers, HandlerStep(h),
         sess'.stage \in {"none", "new", "context_brief"} => sess'.rt = 0,
         task'[h].pc # "idle" => Current(task'[h], sess') /\ Came(task'[h])
  PROVE  Snapshots'
<1>1. \A g \in Handlers : g # h => ~(task'[g].pc # "idle")
  BY OneMoves DEF Running
<1> QED BY <1>1 DEF Snapshots, Running

\* What LookupGate leaves of its handler.
LEMMA LookupFields ==
  ASSUME TypeOK, NEW h \in Handlers, LookupGate(h)
  PROVE  \E g \in 0..Len(gates) :
           /\ IsOldestPending(g)
           /\ task'[h].gate = g
           /\ task'[h].pc = IF g = 0 THEN AfterGate(task[h]) ELSE "resolve"
           /\ task'[h].snap = task[h].snap /\ task'[h].sig = task[h].sig
           /\ task'[h].doc = task[h].doc
<1> task[h] \in Task
  BY DEF TypeOK
<1>1. PICK g \in 0..Len(gates) :
        /\ IsOldestPending(g)
        /\ task' = [task EXCEPT
                      ![h].gate = g,
                      ![h].pc = IF g = 0 THEN AfterGate(task[h]) ELSE "resolve"]
  BY DEF LookupGate
<1>2. /\ task'[h].gate = g
      /\ task'[h].pc = IF g = 0 THEN AfterGate(task[h]) ELSE "resolve"
      /\ task'[h].snap = task[h].snap /\ task'[h].sig = task[h].sig
      /\ task'[h].doc = task[h].doc
  BY <1>1 DEF TypeOK, Task
<1> QED BY <1>1, <1>2

\* A comment's handler starts with the row as its snapshot.
LEMMA ReceiveSnapshot ==
  ASSUME TypeOK, NEW h \in Handlers, NEW s \in Comments, Receive(h, s)
  PROVE  Current(task'[h], sess') /\ Came(task'[h])
<1>1. /\ task'[h].snap = sess /\ task'[h].sig = s
      /\ task'[h].pc = Dispatch(sess.stage, s) /\ sess' = sess
      /\ sess.stage # "none" /\ task'[h].pc # "idle"
  BY DEF Receive, Idle, TypeOK
<1>2. task'[h].pc \in {"lookup", "brief", "use_context", "research", "promote"}
  BY <1>1, DispatchTargets
<1>3. /\ task'[h].pc = "brief" => sess.stage = "new"
      /\ task'[h].pc = "use_context" => sess.stage = "context_brief"
      /\ task'[h].pc = "research" => sess.stage = "context_brief"
      /\ task'[h].pc = "promote" => sess.stage = "approved"
      /\ task'[h].pc = "lookup" /\ s \notin Closing =>
           sess.stage \in UnderReview \cup {"clarifying"}
  BY <1>1 DEF Dispatch, Closing, UnderReview
<1> QED BY <1>1, <1>2, <1>3 DEF Current, Came

\* After the gate is dealt with, the snapshot still is the row.
LEMMA AfterGateSnapshot ==
  ASSUME TypeOK, NEW t \in Task, NEW r, Current(t, r), Came(t), GoodTask(t, research),
         t.pc \in {"lookup", "resolve"},
         NEW u \in Task, u.pc = AfterGate(t), u.snap = t.snap, u.sig = t.sig
  PROVE  Current(u, r) /\ Came(u)
<1>1. r = t.snap /\ t.snap.stage # "none"
  BY DEF Current, Came
<1>2. u.pc \in {"close", "branch", "escalate", "revise", "research"}
  BY AfterGateTargets
<1>3. u.pc # "close" => t.snap.stage \in UnderReview \cup {"clarifying"}
  BY DEF AfterGate, Came
<1>4. u.pc = "escalate" => RoundTrips(u) = MaxRoundTrips
  <2>1. RoundTrips(u) = RoundTrips(t) /\ RoundTrips(t) \in Nat
    BY TaskTypes DEF RoundTrips
  <2>2. u.pc = "escalate" => RoundTrips(t) >= MaxRoundTrips
    BY DEF AfterGate
  <2>3. GoodTask(u, research)
    BY AfterGateGood DEF TypeOK
  <2> QED BY <2>1, <2>2, <2>3 DEF GoodTask
<1> QED BY <1>1, <1>2, <1>3, <1>4 DEF Current, Came

\* The row and the snapshot of the handler at work stay in step.
LEMMA SnapshotsStep ==
  ASSUME Serial, TypeOK, TypeOK', Rows, Alone, Snapshots, [Next]_vars
  PROVE  Snapshots'
<1> \A h \in Handlers :
      /\ task[h] \in Task /\ task'[h] \in Task /\ GoodTask(task[h], research)
      /\ task[h].pc # "idle" => Current(task[h], sess) /\ Came(task[h])
      /\ AfterGate(task[h]) \in Steps /\ RoundTrips(task[h]) \in Nat
  BY TaskTypes DEF TypeOK, Rows, Snapshots, Running
<1> sess \in Session /\ (sess.stage \in {"none", "new", "context_brief"} => sess.rt = 0)
  BY DEF TypeOK, Snapshots
<1>1. ASSUME NEW h \in Handlers, HandlerStep(h) PROVE Snapshots'
  <2> SUFFICES ASSUME TRUE
      PROVE /\ sess'.stage \in {"none", "new", "context_brief"} => sess'.rt = 0
            /\ task'[h].pc # "idle" => Current(task'[h], sess') /\ Came(task'[h])
    BY <1>1, SnapshotsFrame
  <2> USE DEF At, UpdateSessionStage
  <2> Return(h) => task'[h].pc = "idle"
    BY DEF Return, Idle, TypeOK
  <2>1. CASE StartSession(h)
    BY <2>1 DEF StartSession, Current, Came, Idle, TypeOK
  <2>2. CASE \E s \in Comments : Receive(h, s)
    BY <2>2, ReceiveSnapshot DEF Receive
  <2>3. CASE PostBrief(h)
    <3> "save_brief" \in Steps BY DEF Steps
    <3> QED BY <2>3, GotoFields DEF PostBrief, Current, Came
  <2>4. CASE SaveBrief(h)
    BY <2>4 DEF SaveBrief
  <2>5. CASE LookupGate(h)
    <3>1. task[h].pc = "lookup" /\ sess' = sess BY <2>5 DEF LookupGate
    <3>2. PICK g \in 0..Len(gates) :
            /\ task'[h].pc = IF g = 0 THEN AfterGate(task[h]) ELSE "resolve"
            /\ task'[h].snap = task[h].snap /\ task'[h].sig = task[h].sig
      BY <2>5, LookupFields
    <3>3. CASE g = 0
      BY <3>1, <3>2, <3>3, AfterGateSnapshot
    <3>4. CASE g # 0
      BY <3>1, <3>2, <3>4 DEF Current, Came
    <3> QED BY <3>3, <3>4
  <2>6. CASE ResolveGate(h) \/ ResolveGateFails(h)
    <3>1. task[h].pc = "resolve" /\ sess' = sess /\ Goto(h, AfterGate(task[h]))
      BY <2>6 DEF ResolveGate, ResolveGateFails
    <3>2. /\ task'[h].pc = AfterGate(task[h])
          /\ task'[h].snap = task[h].snap /\ task'[h].sig = task[h].sig
      BY <3>1, GotoFields
    <3> QED BY <3>1, <3>2, AfterGateSnapshot
  <2>7. CASE CloseSession(h)
    <3> "ack" \in Steps BY DEF Steps
    <3> QED BY <2>7, GotoFields DEF CloseSession, Current, Came
  <2>8. CASE Acknowledge(h)
    BY <2>8 DEF Acknowledge
  <2>9. CASE UseAsContext(h) \/ Escalate(h) \/ FinishPromotion(h)
    BY <2>9 DEF UseAsContext, Escalate, FinishPromotion
  <2>10. CASE MarkRevision(h)
    <3> "research" \in Steps BY DEF Steps
    <3>1. /\ task'[h].pc = "research" /\ task'[h].snap = task[h].snap
          /\ task[h].snap.stage \in UnderReview /\ task[h].snap.stage # "none"
      BY <2>10, GotoFields DEF MarkRevision, GoodTask, UnderReview
    <3>2. sess' = Marked(task'[h])
      BY <2>10, <3>1 DEF MarkRevision, Marked, RoundTrips
    <3>3. Current(task'[h], sess') /\ Came(task'[h])
      BY <3>1, <3>2 DEF Current, Came
    <3> QED BY <2>10, <3>3 DEF MarkRevision
  <2>11. CASE PostResearch(h)
    <3>1. /\ task'[h].pc = "save_research" /\ task'[h].snap = task[h].snap
          /\ task[h].pc = "research" /\ sess' = sess
      BY <2>11 DEF PostResearch, TypeOK, Task
    <3> QED BY <3>1 DEF Current, Came, Marked, RoundTrips
  <2>12. CASE SaveResearch(h)
    <3> "open_gate" \in Steps BY DEF Steps
    <3> QED BY <2>12, GotoFields DEF SaveResearch, Current, Came
  <2>13. CASE OpenGate(h) \/ BranchRefused(h) \/ QualityReject(h) \/ Abandon(h)
    BY <2>13 DEF OpenGate, BranchRefused, QualityReject, Abandon
  <2>14. CASE CreateBranch(h)
    <3> "commit" \in Steps BY DEF Steps
    <3> QED BY <2>14, GotoFields DEF CreateBranch, Current, Came
  <2>15. CASE CommitFile(h)
    <3> "open_pr" \in Steps BY DEF Steps
    <3> QED BY <2>15, GotoFields DEF CommitFile, Current, Came
  <2>16. CASE OpenPR(h)
    <3> "approve" \in Steps BY DEF Steps
    <3> QED BY <2>16, GotoFields DEF OpenPR, Current, Came
  <2>17. CASE SaveApproved(h)
    <3> "promote" \in Steps BY DEF Steps
    <3>1. CASE task[h].sig = "promote"
      BY <2>17, <3>1, GotoFields DEF SaveApproved, Current, Came
    <3>2. CASE task[h].sig # "promote"
      BY <2>17, <3>2 DEF SaveApproved
    <3> QED BY <3>1, <3>2
  <2>18. CASE PostPublic(h)
    <3> "finish" \in Steps BY DEF Steps
    <3> QED BY <2>18, GotoFields DEF PostPublic, Current, Came
  <2> QED
    BY <1>1, <2>1, <2>2, <2>3, <2>4, <2>5, <2>6, <2>7, <2>8, <2>9, <2>10, <2>11,
       <2>12, <2>13, <2>14, <2>15, <2>16, <2>17, <2>18 DEF HandlerStep, Advance
<1>2. CASE ListStale
  BY <1>2 DEF ListStale, Snapshots, Running
<1>3. CASE MarkSessionComplete
  <2>1. /\ sess'.stage = "complete" /\ task' = task
        /\ \A h \in Handlers : task[h].pc = "idle"
    BY <1>3 DEF MarkSessionComplete, Alone, Running, Session
  <2> QED BY <2>1 DEF Snapshots, Running
<1>4. CASE UNCHANGED vars
  BY <1>4 DEF vars, Snapshots, Running
<1> QED BY <1>1, <1>2, <1>3, <1>4, Moves

-----------------------------------------------------------------------------
(* The refinement: each step is one of SessionLifecycle, or none.          *)

\* A step that changes no stage, count, document or comment is a stutter.
LEMMA Stutter ==
  ASSUME UNCHANGED <<sess, research, prs, public>>
  PROVE  UNCHANGED Lifecycle!vars
BY DEF Lifecycle!vars

\* A write of the row alone moves the stage and the count.
LEMMA MoveRow ==
  ASSUME NEW st, NEW rt, sess'.stage = st, sess'.rt = rt,
         UNCHANGED <<research, prs, public>>
  PROVE  Lifecycle!Move(st, rt)
BY DEF Lifecycle!Move

LEMMA HandlerImplements ==
  ASSUME SerialInv, NEW h \in Handlers, HandlerStep(h)
  PROVE  [Lifecycle!Next]_Lifecycle!vars
<1> DEFINE t == task[h]
<1> /\ t \in Task /\ GoodTask(t, research) /\ sess \in Session
    /\ t.pc # "idle" => Current(t, sess) /\ Came(t)
    /\ RoundTrips(t) \in Nat /\ research \in Nat /\ prs \in Nat /\ public \in Nat
  BY TaskTypes DEF SerialInv, IInv, TypeOK, Rows, Snapshots, Running
<1> GoodRow(sess, research) /\ PullRequest /\ Approved
  BY DEF SerialInv, IInv, Rows
<1> USE Stutter, MoveRow DEF At, UpdateSessionStage, github
<1>1. CASE StartSession(h)
  BY <1>1 DEF StartSession, Lifecycle!Open, Lifecycle!Next
<1>2. CASE \E s \in Comments : Receive(h, s)
  BY <1>2 DEF Receive
<1>3. CASE SaveBrief(h)
  <2>1. sess.stage = "new" BY <1>3 DEF SaveBrief, Current, Came
  <2> QED BY <1>3, <2>1 DEF SaveBrief, Lifecycle!Brief, Lifecycle!Next
<1>4. CASE CloseSession(h)
  <2>1. t.pc = "close" /\ sess = t.snap /\ sess.stage # "none"
    BY <1>4 DEF CloseSession, Current, Came
  <2>2. sess'.stage = "complete" /\ sess'.rt = sess.rt
    BY <1>4, <2>1 DEF CloseSession
  <2>3. UNCHANGED <<research, prs, public>>
    BY <1>4 DEF CloseSession
  <2>4. CASE sess.stage = "complete"
    BY <2>2, <2>3, <2>4 DEF Lifecycle!vars
  <2>5. CASE sess.stage # "complete"
    BY <2>1, <2>2, <2>3, <2>5 DEF Lifecycle!Close, Lifecycle!Next
  <2> QED BY <2>4, <2>5
<1>5. CASE UseAsContext(h)
  <2>1. sess = t.snap /\ sess.stage = "context_brief"
    BY <1>5 DEF UseAsContext, Current, Came
  <2> QED BY <1>5, <2>1 DEF UseAsContext, Lifecycle!Close, Lifecycle!Next
<1>6. CASE Escalate(h)
  <2>1. /\ sess = t.snap /\ sess.stage \in UnderReview \cup {"clarifying"}
        /\ RoundTrips(t) = MaxRoundTrips
    BY <1>6 DEF Escalate, Current, Came
  <2>2. /\ sess'.stage = "complete" /\ sess'.rt = RoundTrips(t)
        /\ UNCHANGED <<research, prs, public>>
    BY <1>6 DEF Escalate
  <2>3. RoundTrips(t) = IF sess.stage \in UnderReview THEN sess.rt + 1 ELSE sess.rt
    BY <2>1 DEF RoundTrips, UnderReview
  <2> QED
    BY <2>1, <2>2, <2>3 DEF Lifecycle!Close, Lifecycle!Next, UnderReview
<1>7. CASE MarkRevision(h)
  <2>1. /\ sess = t.snap /\ sess.stage \in UnderReview
        /\ RoundTrips(t) = sess.rt + 1 /\ RoundTrips(t) < MaxRoundTrips
    BY <1>7 DEF MarkRevision, Current, GoodTask, RoundTrips
  <2> QED
    BY <1>7, <2>1 DEF MarkRevision, Lifecycle!Revise, Lifecycle!Next, UnderReview
<1>8. CASE PostResearch(h)
  <2>1. /\ t.pc = "research" /\ RoundTrips(t) < MaxRoundTrips
        /\ t.snap.stage \in UnderReview \cup {"context_brief", "clarifying"}
        /\ sess = t.snap \/ (t.snap.stage \in UnderReview /\ sess = Marked(t))
    BY <1>8 DEF PostResearch, Current, Came, GoodTask
  <2>2. sess.stage \in {"context_brief", "clarifying", "review_pending", "revision"}
    BY <2>1 DEF UnderReview, Marked
  <2>3. sess.rt < MaxRoundTrips
    <3>1. CASE sess = t.snap
      BY <2>1, <3>1 DEF UnderReview, RoundTrips, GoodRow, SerialInv, Snapshots, Session
    <3>2. CASE sess = Marked(t)
      BY <2>1, <3>2 DEF Marked
    <3> QED BY <2>1, <3>1, <3>2
  <2> QED
    BY <1>8, <2>2, <2>3 DEF PostResearch, Lifecycle!Draft, Lifecycle!Next
<1>9. CASE SaveResearch(h)
  <2>1. /\ t.pc = "save_research" /\ RoundTrips(t) < MaxRoundTrips
        /\ t.snap.stage \in UnderReview \cup {"context_brief", "clarifying"}
        /\ sess = t.snap \/ (t.snap.stage \in UnderReview /\ sess = Marked(t))
        /\ research > 0
    BY <1>9 DEF SaveResearch, Current, Came, GoodTask
  <2>2. Lifecycle!Move("review_pending", RoundTrips(t))
    BY <1>9 DEF SaveResearch
  <2>3. CASE sess = Marked(t)
    BY <2>1, <2>2, <2>3 DEF Marked, Lifecycle!Submit, Lifecycle!Next
  <2>4. CASE sess = t.snap /\ sess.stage \in UnderReview
    <3>1. RoundTrips(t) = sess.rt + 1 BY <2>4 DEF RoundTrips
    <3> QED
      BY <2>1, <2>2, <2>4, <3>1 DEF UnderReview, Lifecycle!Submit, Lifecycle!Next
  <2>5. CASE sess = t.snap /\ sess.stage \notin UnderReview
    <3>1. sess.stage \in {"context_brief", "clarifying"} BY <2>1, <2>5
    <3>2. RoundTrips(t) = sess.rt
      BY <2>5, <3>1 DEF RoundTrips, SerialInv, Snapshots, UnderReview
    <3> QED
      BY <2>1, <2>2, <3>1, <3>2 DEF Lifecycle!Submit, Lifecycle!Next
  <2> QED BY <2>1, <2>3, <2>4, <2>5
<1>10. CASE OpenPR(h)
  <2>1. /\ sess.stage \in UnderReview /\ prs = 0
        /\ prs' = 1 /\ UNCHANGED <<sess, research, public>>
    BY <1>10 DEF OpenPR, Current, GoodTask, PullRequest
  <2> QED BY <2>1 DEF Lifecycle!OpenPR, Lifecycle!Next, UnderReview
<1>11. CASE SaveApproved(h)
  <2>1. /\ sess = t.snap /\ sess.stage \in UnderReview /\ prs = 1
    BY <1>11 DEF SaveApproved, Current, GoodTask, PullRequest
  <2> QED
    BY <1>11, <2>1 DEF SaveApproved, Lifecycle!Approve, Lifecycle!Next, UnderReview
<1>12. CASE PostPublic(h)
  <2>1. sess.stage = "approved" BY <1>12 DEF PostPublic, Current
  <2> QED BY <1>12, <2>1 DEF PostPublic, Lifecycle!Publish, Lifecycle!Next
<1>13. CASE FinishPromotion(h)
  <2>1. sess.stage = "approved" /\ sess.rt = t.snap.rt
    BY <1>13 DEF FinishPromotion, Current
  <2> QED BY <1>13, <2>1 DEF FinishPromotion, Lifecycle!Close, Lifecycle!Next
<1>14. CASE \/ PostBrief(h) \/ LookupGate(h) \/ ResolveGate(h) \/ Acknowledge(h)
            \/ OpenGate(h) \/ CreateBranch(h) \/ BranchRefused(h) \/ CommitFile(h)
            \/ QualityReject(h) \/ ResolveGateFails(h) \/ Abandon(h)
  BY <1>14 DEF PostBrief, LookupGate, ResolveGate, Acknowledge, OpenGate,
     CreateBranch, BranchRefused, CommitFile, QualityReject, ResolveGateFails, Abandon
<1> QED
  BY <1>1, <1>2, <1>3, <1>4, <1>5, <1>6, <1>7, <1>8, <1>9, <1>10, <1>11, <1>12,
     <1>13, <1>14 DEF HandlerStep, Advance

LEMMA StepImplements ==
  ASSUME SerialInv, [Next]_vars
  PROVE  [Lifecycle!Next]_Lifecycle!vars
<1>1. CASE ListStale
  BY <1>1, Stutter DEF ListStale, github
<1>2. CASE MarkSessionComplete
  <2>1. /\ sess.stage \notin {"none", "complete"}
        /\ sess'.stage = "complete" /\ sess'.rt = sess.rt
        /\ UNCHANGED <<research, prs, public>>
    BY <1>2 DEF MarkSessionComplete, SerialInv, Alone, IInv, TypeOK, Session, github
  <2> QED BY <2>1, MoveRow DEF Lifecycle!Close, Lifecycle!Next
<1>3. CASE UNCHANGED vars
  BY <1>3, Stutter DEF vars
<1> QED BY <1>1, <1>2, <1>3, HandlerImplements, Moves

LEMMA SerialInvariance == Serial => (Spec => []SerialInv)
<1> SUFFICES ASSUME Serial PROVE Spec => []SerialInv
  OBVIOUS
<1>1. Init => Alone /\ Snapshots
  BY DEF Init, NoRow, ClarifyingRow, NoSession, NothingHappened, Idle, Alone,
     Snapshots, Running
<1>2. IInv /\ IInv' /\ Alone /\ Snapshots /\ [Next]_vars => Alone' /\ Snapshots'
  BY AloneStep, SnapshotsStep DEF IInv
<1> QED BY <1>1, <1>2, Invariance, PTL DEF Spec, SerialInv

\* With one actor at a time the agent implements SessionLifecycle, whatever
\* fails and wherever a handler stops: stages follow each other as promised, a
\* document is posted only for somebody to review it, the public issue hears only
\* of an approved session, and a complete session stays as it is.
THEOREM SerialImplementsLifecycle == Serial => (Spec => ImplementsLifecycle)
<1> SUFFICES ASSUME Serial PROVE Spec => Lifecycle!Spec
  BY DEF ImplementsLifecycle
<1>1. Init => Lifecycle!Init
  BY DEF Init, NoRow, ClarifyingRow, NoSession, NothingHappened, Lifecycle!Init
<1>2. SerialInv /\ [Next]_vars => [Lifecycle!Next]_Lifecycle!vars
  BY StepImplements
<1> QED BY <1>1, <1>2, SerialInvariance, PTL DEF Spec, Lifecycle!Spec

\* In SessionLifecycle nothing leaves the stage "complete", and an approved
\* session can only be completed.
LEMMA AbstractSettled ==
  ASSUME [Lifecycle!Next]_Lifecycle!vars
  PROVE  /\ sess.stage = "complete" => sess'.stage = "complete"
         /\ sess.stage = "approved" => sess'.stage \in {"approved", "complete"}
BY DEF Lifecycle!vars, Lifecycle!Next, Lifecycle!Open, Lifecycle!Brief,
   Lifecycle!Draft, Lifecycle!Submit, Lifecycle!Revise, Lifecycle!OpenPR,
   Lifecycle!Approve, Lifecycle!Publish, Lifecycle!Close, Lifecycle!Move

-----------------------------------------------------------------------------
(* Gates.                                                                  *)

\* The gate a handler is about to decide still waits.
PendingHeld ==
  \A h \in Handlers : task[h].pc = "resolve" => task[h].gate \in PendingGates

\* The cleanup has closed the session for good.
Reaped == reaper = "done" => sess.stage = "complete"

\* Without failures one gate waits at most, nobody works past it, and the
\* session is one that a comment can decide.
OneGate ==
  faults = 0 =>
    /\ \A i, j \in PendingGates : i = j
    /\ (\E h \in Handlers : task[h].pc \notin {"idle", "lookup", "resolve"})
         => PendingGates = {}
    /\ PendingGates # {} =>
         sess.stage \in {"review_pending", "clarifying"} \/ reaper = "done"

LEMMA PendingHeldStep ==
  ASSUME Serial, SerialInv, PendingHeld, [Next]_vars
  PROVE  PendingHeld'
<1> TypeOK /\ Alone /\ \A h \in Handlers : task[h] \in Task
  BY DEF SerialInv, IInv, TypeOK
<1>1. ASSUME NEW h \in Handlers, HandlerStep(h) PROVE PendingHeld'
  <2>1. \A g \in Handlers : g # h => ~(task'[g].pc # "idle")
    BY <1>1, OneMoves DEF Running
  <2> SUFFICES ASSUME task'[h].pc = "resolve"
      PROVE task'[h].gate \in PendingGates'
    BY <2>1 DEF PendingHeld
  <2>2. LookupGate(h)
    <3> AfterGate(task[h]) \in {"close", "branch", "escalate", "revise", "research"}
      BY AfterGateTargets
    <3> USE DEF At
    <3> /\ Return(h) => task'[h].pc = "idle"
        /\ \A p \in Steps : Goto(h, p) => task'[h].pc = p
      BY GotoFields DEF Return, Idle, TypeOK
    <3> AfterGate(task[h]) \in Steps
      BY TaskTypes
    <3>1. ~(\E s \in Comments : Receive(h, s))
      BY DispatchTargets DEF Receive, Idle, TypeOK
    <3>2. ~StartSession(h) /\ ~ResolveGateFails(h) /\ ~Abandon(h)
      BY DEF StartSession, ResolveGateFails, Abandon, Idle, TypeOK
    <3>3. /\ ~PostBrief(h) /\ ~SaveBrief(h) /\ ~ResolveGate(h) /\ ~CloseSession(h)
          /\ ~Acknowledge(h) /\ ~UseAsContext(h) /\ ~Escalate(h) /\ ~MarkRevision(h)
      BY DEF PostBrief, SaveBrief, ResolveGate, CloseSession, Acknowledge,
         UseAsContext, Escalate, MarkRevision, Steps
    <3>6. ~PostResearch(h)
      BY DEF PostResearch, TypeOK, Task
    <3>4. /\ ~SaveResearch(h) /\ ~OpenGate(h) /\ ~CreateBranch(h)
          /\ ~BranchRefused(h) /\ ~CommitFile(h) /\ ~OpenPR(h)
      BY DEF SaveResearch, OpenGate, CreateBranch, BranchRefused,
         CommitFile, OpenPR, Steps
    <3>5. ~SaveApproved(h) /\ ~PostPublic(h) /\ ~FinishPromotion(h) /\ ~QualityReject(h)
      BY DEF SaveApproved, PostPublic, FinishPromotion, QualityReject, Steps
    <3> QED BY <1>1, <3>1, <3>2, <3>3, <3>4, <3>5, <3>6 DEF HandlerStep, Advance
  <2>3. PICK g \in 0..Len(gates) :
          /\ IsOldestPending(g) /\ task'[h].gate = g
          /\ task'[h].pc = IF g = 0 THEN AfterGate(task[h]) ELSE "resolve"
    BY <2>2, LookupFields
  <2>4. g # 0
    BY <2>3, AfterGateTargets
  <2> QED BY <2>2, <2>3, <2>4 DEF LookupGate, IsOldestPending, PendingGates
<1>2. CASE ListStale \/ MarkSessionComplete \/ UNCHANGED vars
  BY <1>2 DEF ListStale, MarkSessionComplete, vars, PendingHeld, PendingGates
<1> QED BY <1>1, <1>2, Moves

LEMMA ReapedStep ==
  ASSUME Serial, SerialInv, Reaped, [Next]_vars
  PROVE  Reaped'
<1>1. CASE \E h \in Handlers : HandlerStep(h)
  BY <1>1, StepImplements, AbstractSettled, OneMoves
     DEF Reaped, SerialInv, IInv
<1>2. CASE ListStale \/ UNCHANGED vars
  BY <1>2 DEF ListStale, vars, Reaped
<1>3. CASE MarkSessionComplete
  BY <1>3 DEF MarkSessionComplete, Reaped, SerialInv, IInv, TypeOK, Session
<1> QED BY <1>1, <1>2, <1>3, Moves

\* A handler that neither opens nor decides a gate.
LEMMA OneGateFrame ==
  ASSUME Serial, SerialInv, OneGate, Reaped, Reaped', NEW h \in Handlers, HandlerStep(h),
         gates' = gates, faults' \in Nat, faults <= faults',
         task'[h].pc \notin {"idle", "lookup", "resolve"} /\ faults' = 0
           => PendingGates = {},
         PendingGates # {} /\ faults' = 0 =>
           sess'.stage = sess.stage \/ sess.stage \notin {"review_pending", "clarifying"}
  PROVE  OneGate'
<1>1. /\ \A g \in Handlers : g # h => ~(task'[g].pc # "idle")
      /\ reaper' = reaper
  BY OneMoves DEF Running, SerialInv, IInv
<1>2. PendingGates' = PendingGates
  BY DEF PendingGates
<1>3. faults' = 0 => faults = 0
  BY DEF SerialInv, IInv, TypeOK
<1> QED BY <1>1, <1>2, <1>3 DEF OneGate

LEMMA OneGateStep ==
  ASSUME Serial, SerialInv, PendingHeld, Reaped, Reaped', OneGate, [Next]_vars
  PROVE  OneGate'
<1> /\ TypeOK /\ Alone /\ faults \in Nat /\ \A h \in Handlers : task[h] \in Task
    /\ gates \in Seq(GateStatuses) /\ \A h \in Handlers : GoodTask(task[h], research)
    /\ \A h \in Handlers : task[h].pc # "idle" => Current(task[h], sess) /\ Came(task[h])
  BY DEF SerialInv, IInv, TypeOK, Rows, Snapshots, Running
<1>1. ASSUME NEW h \in Handlers, HandlerStep(h) PROVE OneGate'
  <2> DEFINE t == task[h]
  <2> USE <1>1, OneGateFrame DEF At, UpdateSessionStage, github
  <2> Return(h) => task'[h].pc = "idle"
    BY DEF Return, Idle, TypeOK
  <2>a. t.pc \notin {"idle", "lookup", "resolve"} /\ faults = 0 => PendingGates = {}
    BY DEF OneGate
  <2>1. CASE StartSession(h)
    <3>1. sess.stage = "none" /\ faults' = faults /\ gates' = gates
      BY <2>1 DEF StartSession
    <3>2. faults = 0 => PendingGates = {}
      BY <3>1 DEF OneGate, Reaped
    <3> QED BY <3>1, <3>2
  <2>2. CASE \E s \in Comments : Receive(h, s)
    <3>1. PICK s \in Comments : Receive(h, s) BY <2>2
    <3>2. /\ gates' = gates /\ faults' = faults /\ sess' = sess
          /\ task'[h].pc = Dispatch(sess.stage, s) /\ sess.stage # "none"
      BY <3>1 DEF Receive, Idle, TypeOK
    <3>3. \/ Dispatch(sess.stage, s) \in {"lookup", "idle"}
          \/ sess.stage \in {"new", "context_brief", "approved"}
      BY DEF Dispatch, Closing, UnderReview
    <3>4. sess.stage \in {"new", "context_brief", "approved"} /\ faults = 0
            => PendingGates = {}
      BY DEF OneGate, Reaped
    <3> QED BY <3>2, <3>3, <3>4
  <2>3. CASE LookupGate(h)
    <3>1. gates' = gates /\ faults' = faults /\ sess' = sess
      BY <2>3 DEF LookupGate
    <3>2. PICK g \in 0..Len(gates) :
            /\ IsOldestPending(g)
            /\ task'[h].pc = IF g = 0 THEN AfterGate(t) ELSE "resolve"
      BY <2>3, LookupFields
    <3>3. g = 0 => PendingGates = {}
      BY <3>2 DEF IsOldestPending, PendingGates
    <3> QED BY <3>1, <3>2, <3>3
  <2>4. CASE ResolveGate(h)
    <3>1. t.pc = "resolve" /\ gates' = [gates EXCEPT ![t.gate] = Verdict(t)]
      BY <2>4 DEF ResolveGate
    <3>2. t.gate \in PendingGates /\ Verdict(t) # "pending"
      BY <3>1 DEF PendingHeld, Verdict
    <3>3. DOMAIN gates' = DOMAIN gates /\ gates'[t.gate] # "pending"
          /\ \A i \in DOMAIN gates : i # t.gate => gates'[i] = gates[i]
      BY <3>1, <3>2 DEF PendingGates
    <3>4. faults = 0 => PendingGates' = {}
      BY <3>2, <3>3 DEF OneGate, PendingGates
    <3>5. faults' = faults BY <2>4 DEF ResolveGate
    <3> QED BY <3>4, <3>5 DEF OneGate
  <2>5. CASE ResolveGateFails(h) \/ Abandon(h)
    <3>1. faults' = faults + 1 BY <2>5 DEF ResolveGateFails, Abandon
    <3> QED BY <3>1 DEF OneGate
  <2>6. CASE OpenGate(h)
    <3>1. /\ t.pc = "open_gate" /\ gates' = Append(gates, "pending")
          /\ faults' = faults /\ sess' = sess /\ task'[h].pc = "idle"
          /\ sess.stage = "review_pending"
      BY <2>6 DEF OpenGate, Current
    <3>2. /\ DOMAIN gates = 1..Len(gates) /\ DOMAIN gates' = 1..(Len(gates) + 1)
          /\ Len(gates) \in Nat
          /\ \A i \in 1..Len(gates) : gates'[i] = gates[i]
      BY <3>1
    <3>3. faults = 0 => PendingGates' \subseteq {Len(gates) + 1}
      <4> SUFFICES ASSUME faults = 0, NEW i \in PendingGates', i # Len(gates) + 1
          PROVE FALSE
        OBVIOUS
      <4>1. i \in 1..Len(gates) /\ gates'[i] = "pending"
        BY <3>2 DEF PendingGates
      <4>2. i \in PendingGates
        BY <3>2, <4>1 DEF PendingGates
      <4> QED BY <2>a, <3>1, <4>2
    <3>4. \A g \in Handlers : task'[g].pc = "idle"
      BY <3>1, OneMoves DEF Running
    <3> QED BY <3>1, <3>3, <3>4 DEF OneGate
  <2>7. CASE QualityReject(h) \/ BranchRefused(h) \/ Acknowledge(h)
    BY <2>7 DEF QualityReject, BranchRefused, Acknowledge
  <2>8. CASE \/ PostBrief(h) \/ SaveBrief(h) \/ CloseSession(h) \/ UseAsContext(h)
             \/ Escalate(h) \/ MarkRevision(h) \/ PostResearch(h) \/ SaveResearch(h)
             \/ CreateBranch(h) \/ CommitFile(h) \/ OpenPR(h) \/ SaveApproved(h)
             \/ PostPublic(h) \/ FinishPromotion(h)
    <3>1. t.pc \notin {"idle", "lookup", "resolve"} /\ gates' = gates /\ faults' = faults
      BY <2>8 DEF PostBrief, SaveBrief, CloseSession, UseAsContext, Escalate,
         MarkRevision, PostResearch, SaveResearch, CreateBranch, CommitFile, OpenPR,
         SaveApproved, PostPublic, FinishPromotion
    <3> QED BY <2>a, <3>1
  <2> QED
    BY <2>1, <2>2, <2>3, <2>4, <2>5, <2>6, <2>7, <2>8 DEF HandlerStep, Advance
<1>2. CASE ListStale
  BY <1>2 DEF ListStale, OneGate, PendingGates, MayStart, Quiescent
<1>3. CASE MarkSessionComplete
  BY <1>3 DEF MarkSessionComplete, OneGate, PendingGates, github
<1>4. CASE UNCHANGED vars
  BY <1>4 DEF vars, OneGate, PendingGates
<1> QED BY <1>1, <1>2, <1>3, <1>4, Moves

LEMMA GateInvariance == Serial => (Spec => [](PendingHeld /\ Reaped /\ OneGate))
<1> SUFFICES ASSUME Serial PROVE Spec => [](PendingHeld /\ Reaped /\ OneGate)
  OBVIOUS
<1>1. Init => PendingHeld /\ Reaped /\ OneGate
  <2> SUFFICES ASSUME Init PROVE PendingHeld /\ Reaped /\ OneGate
    OBVIOUS
  <2>1. /\ \A h \in Handlers : task[h].pc = "idle"
        /\ reaper = "idle"
    BY DEF Init, NothingHappened, Idle
  <2>2. \A i, j \in PendingGates : i = j
    BY DEF Init, NoRow, ClarifyingRow, PendingGates
  <2>3. PendingGates # {} => sess.stage = "clarifying"
    BY DEF Init, NoRow, ClarifyingRow, PendingGates
  <2> QED BY <2>1, <2>2, <2>3 DEF PendingHeld, Reaped, OneGate
<1>2. SerialInv /\ PendingHeld /\ Reaped /\ OneGate /\ [Next]_vars
        => PendingHeld' /\ Reaped' /\ OneGate'
  BY PendingHeldStep, ReapedStep, OneGateStep
<1> QED BY <1>1, <1>2, SerialInvariance, PTL DEF Spec

\* With one actor at a time and no failure, at most one gate waits between
\* comments, and only for a session that a comment can still decide or that the
\* cleanup has closed.
THEOREM PendingGateLive == Serial => (Spec => []PendingGateIsLive)
<1>1. OneGate => PendingGateIsLive
  BY DEF OneGate, PendingGateIsLive
<1> QED BY <1>1, GateInvariance, PTL

\* With one actor at a time a decision on a gate is final, failures or not.
THEOREM DecisionsFinal == Serial => (Spec => GateDecidedOnce)
<1> SUFFICES ASSUME Serial PROVE Spec => GateDecidedOnce
  OBVIOUS
<1> DEFINE Final == \A i \in DOMAIN gates : gates[i] # "pending" => gates'[i] = gates[i]
<1>1. TypeOK /\ PendingHeld /\ [Next]_vars => Final \/ UNCHANGED vars
  <2> SUFFICES ASSUME TypeOK, PendingHeld, Next PROVE Final
    OBVIOUS
  <2>1. CASE \E h \in Handlers : ResolveGate(h)
    BY <2>1 DEF ResolveGate, At, PendingHeld, PendingGates
  <2>2. CASE \E h \in Handlers : OpenGate(h)
    BY <2>2 DEF OpenGate, TypeOK
  <2>3. CASE gates' = gates
    BY <2>3
  <2> QED
    BY <2>1, <2>2, <2>3 DEF Next, Advance, StartSession, Receive, ResolveGateFails,
       Abandon, ListStale, MarkSessionComplete, PostBrief, SaveBrief, LookupGate,
       CloseSession, Acknowledge, UseAsContext, Escalate, MarkRevision, PostResearch,
       SaveResearch, CreateBranch, BranchRefused, CommitFile, OpenPR, SaveApproved,
       PostPublic, FinishPromotion, QualityReject
<1> HIDE DEF Final
<1>2. TypeOK /\ PendingHeld /\ [Next]_vars => [Final]_vars
  BY <1>1
<1>3. Spec => [][Final]_vars
  BY <1>2, TypeCorrect, GateInvariance, PTL DEF Spec
<1> QED BY <1>3 DEF GateDecidedOnce, Final

-----------------------------------------------------------------------------
(* Documents: how many were posted, and which is the latest.               *)

Saving == \E h \in Handlers : task[h].pc = "save_research"

\* The documents that the row accounts for.
Counted(r) == IF r.stage = "review_pending" THEN r.rt + 1
              ELSE IF r.stage = "revision" THEN r.rt ELSE 0

\* A document that the row does not account for is on its way to it, or a call
\* failed.
Budget ==
  /\ research <= MaxRoundTrips + faults
  /\ sess.stage \notin {"approved", "complete"} =>
       research <= Counted(sess) + faults + (IF Saving THEN 1 ELSE 0)

\* Without failures the row under review, and the handler that leads from it to
\* the pull request, hold the latest document, and none follows the pull request.
Latest ==
  faults = 0 =>
    /\ sess.stage \in UnderReview /\ ~Saving => sess.doc = research
    /\ \A h \in Handlers : task[h].pc = "save_research" => task[h].doc = research
    /\ \A h \in Handlers : task[h].pc = "open_pr" => prDoc = research
    /\ prs = 1 =>
         /\ prDoc = research
         /\ \/ sess.stage \in {"approved", "complete"}
            \/ \E h \in Handlers : task[h].pc = "approve"

\* Only the handler that moves can be about to save.
LEMMA SavingMoves ==
  ASSUME Serial, TypeOK, Alone, NEW h \in Handlers, HandlerStep(h)
  PROVE  /\ Saving => task[h].pc = "save_research"
         /\ Saving' <=> task'[h].pc = "save_research"
         /\ \A g \in Handlers : g # h => task[g].pc = "idle" /\ task'[g].pc = "idle"
BY OneMoves DEF Running, Saving

\* The count that a handler about to save will write covers what is posted.
LEMMA CountedBySave ==
  ASSUME NEW t \in Task, NEW r \in Session, Current(t, r), Came(t),
         t.pc \in {"research", "save_research"}
  PROVE  /\ Counted(r) <= RoundTrips(t) /\ Counted(r) \in Nat
         /\ r.stage \notin {"approved", "complete"}
         /\ r.stage \in UnderReview => t.snap.stage \in UnderReview
<1>1. RoundTrips(t) \in Nat BY TaskTypes
<1>2. CASE r = t.snap
  BY <1>1, <1>2 DEF Counted, RoundTrips, UnderReview, Came, Session
<1>3. CASE t.snap.stage \in UnderReview /\ r = Marked(t)
  BY <1>1, <1>3 DEF Counted, Marked, UnderReview
<1> QED BY <1>2, <1>3 DEF Current

\* A step that posts no document.
LEMMA BudgetFrame ==
  ASSUME Serial, SerialInv, Budget, NEW h \in Handlers, HandlerStep(h),
         research' = research, faults' = faults, TypeOK',
         task[h].pc # "save_research" /\ task'[h].pc # "save_research",
         sess'.stage \notin {"approved", "complete"} =>
           sess.stage \notin {"approved", "complete"} /\ Counted(sess) <= Counted(sess')
  PROVE  Budget'
<1>1. ~Saving /\ ~Saving'
  BY SavingMoves DEF SerialInv, IInv
<1>2. Counted(sess) \in Nat /\ Counted(sess') \in Nat
  BY DEF Counted, SerialInv, IInv, TypeOK, Session
<1>3. research \in Nat /\ faults \in Nat
  BY DEF SerialInv, IInv, TypeOK
<1> QED BY <1>1, <1>2, <1>3 DEF Budget

LEMMA BudgetStep ==
  ASSUME Serial, SerialInv, TypeOK', Budget, [Next]_vars
  PROVE  Budget'
<1> /\ TypeOK /\ Alone /\ sess \in Session /\ research \in Nat /\ faults \in Nat
    /\ \A h \in Handlers :
         /\ task[h] \in Task /\ GoodTask(task[h], research)
         /\ RoundTrips(task[h]) \in Nat /\ AfterGate(task[h]) \in Steps
         /\ task[h].pc # "idle" => Current(task[h], sess) /\ Came(task[h])
    /\ Counted(sess) \in Nat
  BY TaskTypes DEF SerialInv, IInv, TypeOK, Rows, Snapshots, Running, Counted, Session
<1>1. ASSUME NEW h \in Handlers, HandlerStep(h) PROVE Budget'
  <2> DEFINE t == task[h]
  <2> USE <1>1, BudgetFrame DEF At, UpdateSessionStage, github
  <2> /\ Return(h) => task'[h].pc = "idle"
      /\ \A p \in Steps : Goto(h, p) => task'[h].pc = p
    BY GotoFields DEF Return, Idle, TypeOK
  <2> Saving => t.pc = "save_research"
    BY SavingMoves
  <2>1. CASE StartSession(h)
    BY <2>1 DEF StartSession, Idle, TypeOK, Counted
  <2>2. CASE \E s \in Comments : Receive(h, s)
    BY <2>2, DispatchTargets DEF Receive, Idle, TypeOK
  <2>3. CASE PostBrief(h)
    BY <2>3 DEF PostBrief, Steps
  <2>4. CASE SaveBrief(h)
    <3>1. sess.stage = "new" /\ sess'.stage = "context_brief" /\ t.pc = "save_brief"
      BY <2>4 DEF SaveBrief, Current, Came
    <3>2. Counted(sess) = 0 /\ Counted(sess') = 0
      BY <3>1 DEF Counted
    <3> QED BY <2>4, <3>1, <3>2 DEF SaveBrief
  <2>5. CASE LookupGate(h)
    <3>1. task'[h].pc \in {AfterGate(t), "resolve"}
      BY <2>5, LookupFields
    <3>2. task'[h].pc # "save_research"
      BY <3>1, AfterGateTargets
    <3>3. /\ t.pc = "lookup" /\ sess' = sess /\ research' = research /\ faults' = faults
      BY <2>5 DEF LookupGate
    <3> QED BY <3>2, <3>3
  <2>6. CASE ResolveGate(h)
    BY <2>6, AfterGateTargets DEF ResolveGate
  <2>7. CASE CloseSession(h)
    BY <2>7 DEF CloseSession, Steps
  <2>8. CASE Acknowledge(h) \/ OpenGate(h) \/ BranchRefused(h) \/ QualityReject(h)
    BY <2>8 DEF Acknowledge, OpenGate, BranchRefused, QualityReject
  <2>9. CASE UseAsContext(h) \/ Escalate(h) \/ FinishPromotion(h)
    BY <2>9 DEF UseAsContext, Escalate, FinishPromotion
  <2>10. CASE MarkRevision(h)
    <3>1. /\ t.pc = "revise" /\ sess = t.snap /\ sess.stage \in UnderReview
          /\ sess'.stage = "revision" /\ sess'.rt = sess.rt + 1
      BY <2>10 DEF MarkRevision, Current, GoodTask, RoundTrips
    <3>2. Counted(sess) <= Counted(sess')
      BY <3>1 DEF Counted, UnderReview, Session
    <3> QED BY <2>10, <3>1, <3>2 DEF MarkRevision, Steps, UnderReview
  <2>11. CASE PostResearch(h)
    <3>1. /\ t.pc = "research" /\ task'[h].pc = "save_research"
          /\ research' = research + 1 /\ sess' = sess /\ faults' = faults
      BY <2>11 DEF PostResearch, TypeOK, Task
    <3>2. /\ Counted(sess) <= RoundTrips(t) /\ sess.stage \notin {"approved", "complete"}
          /\ RoundTrips(t) < MaxRoundTrips
      BY <3>1, CountedBySave DEF GoodTask
    <3>3. ~Saving /\ Saving'
      BY <3>1, SavingMoves
    <3> QED BY <3>1, <3>2, <3>3 DEF Budget
  <2>12. CASE SaveResearch(h)
    <3>1. /\ t.pc = "save_research" /\ sess'.stage = "review_pending"
          /\ sess'.rt = RoundTrips(t) /\ research' = research /\ faults' = faults
      BY <2>12 DEF SaveResearch
    <3>2. Counted(sess) <= RoundTrips(t) /\ sess.stage \notin {"approved", "complete"}
      BY <3>1, CountedBySave
    <3>3. Saving BY <3>1 DEF Saving
    <3>4. Counted(sess') = RoundTrips(t) + 1
      BY <3>1 DEF Counted
    <3> QED BY <3>1, <3>2, <3>3, <3>4 DEF Budget
  <2>13. CASE CreateBranch(h) \/ CommitFile(h) \/ OpenPR(h) \/ PostPublic(h)
    BY <2>13 DEF CreateBranch, CommitFile, OpenPR, PostPublic, Steps
  <2>14. CASE SaveApproved(h)
    BY <2>14 DEF SaveApproved, Steps
  <2>15. CASE ResolveGateFails(h)
    <3>1. /\ research' = research /\ faults' = faults + 1 /\ sess' = sess /\ ~Saving
      BY <2>15 DEF ResolveGateFails
    <3> QED BY <3>1 DEF Budget
  <2>16. CASE Abandon(h)
    <3>1. /\ research' = research /\ faults' = faults + 1 /\ sess' = sess
          /\ task'[h].pc = "idle"
      BY <2>16 DEF Abandon
    <3>2. ~Saving' BY <3>1, SavingMoves
    <3> QED BY <3>1, <3>2 DEF Budget
  <2> QED
    BY <2>1, <2>2, <2>3, <2>4, <2>5, <2>6, <2>7, <2>8, <2>9, <2>10, <2>11, <2>12,
       <2>13, <2>14, <2>15, <2>16 DEF HandlerStep, Advance
<1>2. CASE ListStale
  BY <1>2 DEF ListStale, Budget, Saving, github
<1>3. CASE MarkSessionComplete
  BY <1>3 DEF MarkSessionComplete, Budget, github, Session
<1>4. CASE UNCHANGED vars
  BY <1>4 DEF vars, Budget, Saving
<1> QED BY <1>1, <1>2, <1>3, <1>4, Moves

\* A step that posts and commits nothing, and does not end at the pull request.
LEMMA LatestFrame ==
  ASSUME Serial, SerialInv, Latest, NEW h \in Handlers, HandlerStep(h),
         UNCHANGED <<research, faults, prDoc, prs>>,
         task[h].pc \notin {"save_research", "approve"},
         task'[h].pc \notin {"save_research", "open_pr"},
         sess'.stage \in UnderReview =>
           sess.stage \in UnderReview /\ sess'.doc = sess.doc
  PROVE  Latest'
<1>1. /\ ~Saving /\ ~Saving'
      /\ \A g \in Handlers : g # h => task[g].pc = "idle" /\ task'[g].pc = "idle"
  BY SavingMoves DEF SerialInv, IInv
<1>2. sess.stage \in {"approved", "complete"} => sess'.stage \in {"approved", "complete"}
  BY StepImplements, AbstractSettled DEF HandlerStep, Next
<1> QED BY <1>1, <1>2 DEF Latest, UnderReview

LEMMA LatestStep ==
  ASSUME Serial, SerialInv, TypeOK', Latest, [Next]_vars
  PROVE  Latest'
<1> /\ TypeOK /\ Alone /\ sess \in Session /\ research \in Nat /\ faults \in Nat
    /\ PullRequest
    /\ \A h \in Handlers :
         /\ task[h] \in Task /\ GoodTask(task[h], research)
         /\ AfterGate(task[h]) \in Steps
         /\ task[h].pc # "idle" => Current(task[h], sess) /\ Came(task[h])
  BY TaskTypes DEF SerialInv, IInv, TypeOK, Rows, Snapshots, Running
<1>1. ASSUME NEW h \in Handlers, HandlerStep(h) PROVE Latest'
  <2> DEFINE t == task[h]
  <2> USE <1>1, LatestFrame DEF At, UpdateSessionStage, github
  <2> /\ Return(h) => task'[h].pc = "idle"
      /\ \A p \in Steps : Goto(h, p) => task'[h].pc = p
    BY GotoFields DEF Return, Idle, TypeOK
  <2>a. /\ Saving => t.pc = "save_research"
        /\ Saving' <=> task'[h].pc = "save_research"
        /\ \A g \in Handlers : g # h => task[g].pc = "idle" /\ task'[g].pc = "idle"
    BY SavingMoves
  \* No pull request while a handler may still post.
  <2>b. /\ faults = 0 /\ t.pc # "approve" /\ sess.stage \notin {"approved", "complete"}
             => prs # 1
    BY <2>a DEF Latest
  <2>1. CASE StartSession(h)
    BY <2>1 DEF StartSession, Idle, TypeOK, UnderReview
  <2>2. CASE \E s \in Comments : Receive(h, s)
    BY <2>2, DispatchTargets DEF Receive, Idle, TypeOK
  <2>3. CASE PostBrief(h)
    BY <2>3 DEF PostBrief, Steps
  <2>4. CASE SaveBrief(h)
    BY <2>4 DEF SaveBrief, UnderReview
  <2>5. CASE LookupGate(h)
    <3>1. task'[h].pc \in {AfterGate(t), "resolve"}
      BY <2>5, LookupFields
    <3> QED BY <2>5, <3>1, AfterGateTargets DEF LookupGate
  <2>6. CASE ResolveGate(h)
    BY <2>6, AfterGateTargets DEF ResolveGate
  <2>7. CASE CloseSession(h)
    BY <2>7 DEF CloseSession, Steps, UnderReview
  <2>8. CASE Acknowledge(h) \/ OpenGate(h) \/ BranchRefused(h) \/ QualityReject(h)
    BY <2>8 DEF Acknowledge, OpenGate, BranchRefused, QualityReject
  <2>9. CASE UseAsContext(h) \/ Escalate(h) \/ FinishPromotion(h)
    BY <2>9 DEF UseAsContext, Escalate, FinishPromotion, UnderReview
  <2>10. CASE MarkRevision(h)
    <3>1. t.pc = "revise" /\ sess = t.snap /\ sess.stage \in UnderReview
      BY <2>10 DEF MarkRevision, Current, GoodTask
    <3> QED BY <2>10, <3>1 DEF MarkRevision, Steps
  <2>11. CASE PostResearch(h)
    <3>1. /\ t.pc = "research" /\ task'[h].pc = "save_research"
          /\ task'[h].doc = research + 1 /\ research' = research + 1
          /\ UNCHANGED <<sess, faults, prs, prDoc>>
      BY <2>11 DEF PostResearch, TypeOK, Task
    <3>2. faults = 0 => prs # 1
      BY <2>b, <3>1, CountedBySave
    <3> QED BY <2>a, <3>1, <3>2 DEF Latest
  <2>12. CASE SaveResearch(h)
    <3>1. /\ t.pc = "save_research" /\ task'[h].pc = "open_gate"
          /\ sess'.stage = "review_pending" /\ sess'.doc = t.doc
          /\ UNCHANGED <<research, faults, prs, prDoc>>
      BY <2>12 DEF SaveResearch, Steps
    <3>2. faults = 0 => prs # 1
      BY <2>b, <3>1, CountedBySave
    <3> QED BY <2>a, <3>1, <3>2 DEF Latest
  <2>13. CASE CreateBranch(h) \/ PostPublic(h)
    BY <2>13 DEF CreateBranch, PostPublic, Steps
  <2>14. CASE CommitFile(h)
    <3>1. /\ t.pc = "commit" /\ task'[h].pc = "open_pr" /\ prDoc' = sess.doc
          /\ sess.stage \in UnderReview /\ UNCHANGED <<sess, research, faults, prs>>
      BY <2>14 DEF CommitFile, Steps, Current, GoodTask
    <3>2. prs = 0 BY <3>1 DEF PullRequest
    <3> QED BY <2>a, <3>1, <3>2 DEF Latest
  <2>15. CASE OpenPR(h)
    <3>1. /\ t.pc = "open_pr" /\ task'[h].pc = "approve"
          /\ UNCHANGED <<sess, research, faults, prDoc>>
      BY <2>15 DEF OpenPR, Steps
    <3> QED BY <2>a, <3>1 DEF Latest
  <2>16. CASE SaveApproved(h)
    <3>1. /\ t.pc = "approve" /\ sess'.stage = "approved"
          /\ task'[h].pc \in {"promote", "idle"}
          /\ UNCHANGED <<research, faults, prs, prDoc>>
      BY <2>16 DEF SaveApproved, Steps
    <3> QED BY <2>a, <3>1 DEF Latest, UnderReview
  <2>17. CASE ResolveGateFails(h) \/ Abandon(h)
    <3>1. faults' = faults + 1 BY <2>17 DEF ResolveGateFails, Abandon
    <3> QED BY <3>1 DEF Latest
  <2> QED
    BY <2>1, <2>2, <2>3, <2>4, <2>5, <2>6, <2>7, <2>8, <2>9, <2>10, <2>11, <2>12,
       <2>13, <2>14, <2>15, <2>16, <2>17 DEF HandlerStep, Advance
<1>2. CASE ListStale
  BY <1>2 DEF ListStale, Latest, Saving, github
<1>3. CASE MarkSessionComplete
  BY <1>3 DEF MarkSessionComplete, Latest, Saving, github, Session, UnderReview
<1>4. CASE UNCHANGED vars
  BY <1>4 DEF vars, Latest, Saving
<1> QED BY <1>1, <1>2, <1>3, <1>4, Moves

LEMMA DocumentInvariance == Serial => (Spec => [](Budget /\ Latest))
<1> SUFFICES ASSUME Serial PROVE Spec => [](Budget /\ Latest)
  OBVIOUS
<1>1. Init => Budget /\ Latest
  BY DEF Init, NoRow, ClarifyingRow, NoSession, NothingHappened, Idle, Budget, Latest,
     Saving, Counted, UnderReview
<1>2. SerialInv /\ SerialInv' /\ Budget /\ Latest /\ [Next]_vars => Budget' /\ Latest'
  BY BudgetStep, LatestStep DEF SerialInv, IInv
<1> QED BY <1>1, <1>2, SerialInvariance, PTL DEF Spec

\* With one actor at a time a maintainer is shown at most MaxRoundTrips documents,
\* and one more for each failed call.
THEOREM ResearchBudgeted == Serial => (Spec => []ResearchWithinBudget)
<1>1. Budget => ResearchWithinBudget
  BY DEF Budget, ResearchWithinBudget
<1> QED BY <1>1, DocumentInvariance, PTL

\* With one actor at a time and no failure, the pull request holds the newest
\* document, the one that the maintainer approved.
THEOREM PullRequestLatest == Serial => (Spec => []PullRequestIsLatest)
<1>1. Latest => PullRequestIsLatest
  BY DEF Latest, PullRequestIsLatest
<1> QED BY <1>1, DocumentInvariance, PTL
=============================================================================
