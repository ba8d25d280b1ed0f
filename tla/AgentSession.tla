---------------------------- MODULE AgentSession ----------------------------
(***************************************************************************)
(* The enhancement-research agent: one agent session, the comments on its  *)
(* shadow issue, the store rows and GitHub objects they change, and the    *)
(* stale-session cleanup.  Sources: internal/agent/handler.go,             *)
(* internal/agent/orchestrator.go, internal/store/agent.go and the         *)
(* /cleanup handler of cmd/server/main.go.                                 *)
(*                                                                         *)
(* Every webhook delivery runs in a goroutine of its own, so HandleComment *)
(* may run several times at once for the same session.  A handler reads    *)
(* the session row once and acts on that snapshot; every later store or    *)
(* GitHub call is a step of its own here, and steps of different handlers  *)
(* interleave.  UpdateSessionStage overwrites stage, context and round     *)
(* trips without looking at what the row holds.                            *)
(*                                                                         *)
(* Abstractions.  A comment is the signal ParseApprovalSignal finds in it. *)
(* The session context is the number of the research document it holds     *)
(* (0: none; documents are numbered in the order they are posted) and      *)
(* whether it holds the project's name and description.  Error comments,   *)
(* the audit log, the searchable copy of the research document and the     *)
(* wording of comments are left out: nothing here reads them back.         *)
(***************************************************************************)
EXTENDS Naturals, Sequences

CONSTANTS
  Comments,       \* the signals that comments carry, a subset of Signals
  Handlers,       \* goroutines that may handle the session at the same time
  MaxRoundTrips,  \* the code's MaxRoundTrips (4)
  MaxResearch,    \* bound: research documents posted in a behaviour
  MaxFaults,      \* bound: failed calls and crashes in a behaviour
  Serial          \* TRUE: an actor starts only when no other one is running

VARIABLES
  sess,      \* the agent_sessions row: stage, round trips, context
  gates,     \* the session's approval_gates rows, oldest first: their status
  research,  \* research documents posted on the shadow issue
  branch,    \* the branch research/<slug> exists in the shadow repository
  prDoc,     \* the research document committed on the branch (0: none)
  prs,       \* pull requests opened from the branch
  public,    \* comments posted on the public issue
  acked,     \* "No further research will be generated" has been posted
  faults,    \* failed calls and crashes so far
  task,      \* task[h]: what handler h is doing, and with which snapshot
  reaper     \* the /cleanup request: idle, listed (has its list), done

vars == <<sess, gates, research, branch, prDoc, prs, public, acked,
          faults, task, reaper>>

github == <<research, branch, prDoc, prs, public, acked>>

Stages == {"none", "new", "context_brief", "clarifying", "review_pending",
           "revision", "approved", "complete"}

\* The stages in which a research document is under review.
UnderReview == {"review_pending", "revision"}

GateStatuses == {"pending", "approved", "rejected", "revision_requested"}

Signals == {"none", "approved", "revise", "reject", "promote", "research",
            "use_as_context", "dismiss"}

Closing == {"reject", "dismiss"}

ASSUME BoundsAssumption ==
  /\ MaxRoundTrips \in Nat \ {0}
  /\ MaxResearch \in Nat
  /\ MaxFaults \in Nat
  /\ Serial \in BOOLEAN
ASSUME CommentsAssumption == Comments \subseteq Signals

\* Where a handler is: the call it makes next.
Steps == {"idle", "brief", "save_brief", "lookup", "resolve", "close", "ack",
          "use_context", "escalate", "revise", "research", "save_research",
          "open_gate", "branch", "commit", "open_pr", "approve", "promote",
          "finish"}

Session == [stage : Stages, rt : Nat, doc : Nat, project : BOOLEAN]

NoSession == [stage |-> "none", rt |-> 0, doc |-> 0, project |-> FALSE]

Idle == [pc |-> "idle", snap |-> NoSession, sig |-> "none", gate |-> 0,
         doc |-> 0]

Task == [pc : Steps, snap : Session, sig : Signals, gate : Nat, doc : Nat]

Quiescent == /\ \A h \in Handlers : task[h].pc = "idle"
             /\ reaper # "listed"

\* A new actor may start: always, or in the serial regime once all is quiet.
MayStart == Serial => Quiescent

PendingGates == {i \in DOMAIN gates : gates[i] = "pending"}

\* Mutant of IsOldestPending: the query forgets the status filter.
OldestOfAnyStatus(g) == g = IF gates = <<>> THEN 0 ELSE 1

\* GetPendingGate: the oldest pending gate of the session, 0 when there is none.
IsOldestPending(g) ==
  \/ g = 0 /\ PendingGates = {}
  \/ g \in PendingGates /\ \A i \in PendingGates : g <= i

-----------------------------------------------------------------------------
(* What a comment leads to.                                                *)

\* Mutants of Dispatch: a reject skips the pending gate, a complete session can
\* still be promoted.
CloseLeavesGate(stage, s) ==
  CASE s \in Closing                                  -> "close"
    [] s \notin Closing /\ stage = "new"              -> "brief"
    [] s \notin Closing /\ stage \in UnderReview \cup {"clarifying"} -> "lookup"
    [] s \notin Closing /\ stage = "context_brief"    -> "research"
    [] OTHER                                          -> "idle"

PromoteWhenComplete(stage, s) ==
  CASE s \in Closing                                  -> "lookup"
    [] s \notin Closing /\ stage = "new"              -> "brief"
    [] s \notin Closing /\ stage \in UnderReview \cup {"clarifying"} -> "lookup"
    [] s \notin Closing /\ stage = "context_brief"    -> "research"
    [] s = "promote" /\ stage \in {"approved", "complete"} -> "promote"
    [] OTHER                                          -> "idle"

\* HandleComment's dispatch on the snapshot's stage and the signal: the first
\* call of the branch it takes, or "idle" when it ignores the comment.
Dispatch(stage, s) ==
  CASE s \in Closing                                  -> "lookup"
    [] s \notin Closing /\ stage = "new"              -> "brief"
    [] s \notin Closing /\ stage \in UnderReview \cup {"clarifying"} -> "lookup"
    [] s = "use_as_context" /\ stage = "context_brief" -> "use_context"
    [] s \notin Closing \cup {"use_as_context"} /\ stage = "context_brief"
                                                      -> "research"
    [] s = "promote" /\ stage = "approved"            -> "promote"
    [] OTHER                                          -> "idle"

\* The status the handler writes to the pending gate it found.
Verdict(t) ==
  IF t.sig \in Closing THEN "rejected"
  ELSE IF t.snap.stage = "clarifying" \/ t.sig \in {"approved", "promote"}
       THEN "approved" ELSE "revision_requested"

\* The round-trip count that escalation, revision and research write: a review
\* response adds one, research on a context brief starts over from 0.
RoundTrips(t) ==
  IF t.snap.stage \in UnderReview THEN t.snap.rt + 1
  ELSE IF t.snap.stage = "clarifying" THEN t.snap.rt ELSE 0

\* Mutants of AfterGate: the round limit is off by one, a publish signal skips
\* the pull request.
EscalateTooLate(t) ==
  IF t.sig \in Closing THEN "close"
  ELSE IF t.snap.stage # "clarifying" /\ t.sig \in {"approved", "promote"}
       THEN "branch"
  ELSE IF RoundTrips(t) > MaxRoundTrips THEN "escalate"
  ELSE IF t.snap.stage # "clarifying" /\ t.sig = "revise" THEN "revise"
  ELSE "research"

PublishUnreviewed(t) ==
  IF t.sig \in Closing THEN "close"
  ELSE IF t.snap.stage # "clarifying" /\ t.sig = "promote" THEN "promote"
  ELSE IF t.snap.stage # "clarifying" /\ t.sig = "approved" THEN "branch"
  ELSE IF RoundTrips(t) >= MaxRoundTrips THEN "escalate"
  ELSE "research"

\* The call that follows the handling of the pending gate.
AfterGate(t) ==
  IF t.sig \in Closing THEN "close"
  ELSE IF t.snap.stage # "clarifying" /\ t.sig \in {"approved", "promote"}
       THEN "branch"
  ELSE IF RoundTrips(t) >= MaxRoundTrips THEN "escalate"
  ELSE IF t.snap.stage # "clarifying" /\ t.sig = "revise" THEN "revise"
  ELSE "research"

-----------------------------------------------------------------------------

\* Handler h is about to make call p.
At(h, p) == task[h].pc = p

Goto(h, p) == task' = [task EXCEPT ![h].pc = p]

\* The handler returns.
Return(h) == task' = [task EXCEPT ![h] = Idle]

\* UpdateSessionStage: a blind overwrite of the whole row.
UpdateSessionStage(stage, doc, project, rt) ==
  sess' = [stage |-> stage, rt |-> rt, doc |-> doc, project |-> project]

\* The database holds no row for the issue yet.
NoRow == sess = NoSession /\ gates = <<>>

\* The database holds a row of the earlier release that asked clarifying
\* questions, with or without its pending gate.
ClarifyingRow ==
  /\ \E rt \in 0..MaxRoundTrips :
       sess = [stage |-> "clarifying", rt |-> rt, doc |-> 0, project |-> FALSE]
  /\ gates \in {<<>>, <<"pending">>}

NothingHappened ==
  /\ research = 0
  /\ branch = FALSE /\ prDoc = 0 /\ prs = 0 /\ public = 0
  /\ acked = FALSE /\ faults = 0
  /\ task = [h \in Handlers |-> Idle]
  /\ reaper = "idle"

Init == (NoRow \/ ClarifyingRow) /\ NothingHappened

\* StartSession: create the shadow issue, then the row (its unique key refuses
\* a second one), then go on to the context brief.
StartSession(h) ==
  /\ MayStart /\ At(h, "idle") /\ sess.stage = "none"
  /\ UpdateSessionStage("new", 0, TRUE, 0)
  /\ task' = [task EXCEPT ![h] = [Idle EXCEPT !.pc = "brief", !.snap = sess']]
  /\ UNCHANGED <<gates, github, faults, reaper>>

\* A comment with signal s arrives: read the row, keep the snapshot, dispatch.
Receive(h, s) ==
  /\ MayStart /\ At(h, "idle") /\ sess.stage # "none"
  /\ Dispatch(sess.stage, s) # "idle"
  /\ task' = [task EXCEPT ![h] = [Idle EXCEPT !.pc = Dispatch(sess.stage, s),
                                              !.snap = sess, !.sig = s]]
  /\ UNCHANGED <<sess, gates, github, faults, reaper>>

\* The context brief passes its checks and is posted on the shadow issue.
PostBrief(h) ==
  /\ At(h, "brief")
  /\ Goto(h, "save_brief")
  /\ UNCHANGED <<sess, gates, github, faults, reaper>>

SaveBrief(h) ==
  /\ At(h, "save_brief")
  /\ UpdateSessionStage("context_brief", 0, FALSE, 0)
  /\ Return(h)
  /\ UNCHANGED <<gates, github, faults, reaper>>

LookupGate(h) ==
  /\ At(h, "lookup")
  /\ \E g \in 0..Len(gates) :
       /\ IsOldestPending(g)
       /\ task' = [task EXCEPT
                     ![h].gate = g,
                     ![h].pc = IF g = 0 THEN AfterGate(task[h]) ELSE "resolve"]
  /\ UNCHANGED <<sess, gates, github, faults, reaper>>

\* ResolveApprovalGate writes by id, whatever the status has become meanwhile.
ResolveGate(h) ==
  /\ At(h, "resolve")
  /\ gates' = [gates EXCEPT ![task[h].gate] = Verdict(task[h])]
  /\ Goto(h, AfterGate(task[h]))
  /\ UNCHANGED <<sess, github, faults, reaper>>

\* Its error is ignored or only logged: the handler goes on.
ResolveGateFails(h) ==
  /\ At(h, "resolve") /\ faults < MaxFaults
  /\ faults' = faults + 1
  /\ Goto(h, AfterGate(task[h]))
  /\ UNCHANGED <<sess, gates, github, reaper>>

CloseSession(h) ==
  /\ At(h, "close")
  /\ UpdateSessionStage("complete", task[h].snap.doc, task[h].snap.project,
                        task[h].snap.rt)
  /\ Goto(h, "ack")
  /\ UNCHANGED <<gates, github, faults, reaper>>

Acknowledge(h) ==
  /\ At(h, "ack")
  /\ acked' = (acked \/ task[h].sig = "dismiss")
  /\ Return(h)
  /\ UNCHANGED <<sess, gates, research, branch, prDoc, prs, public,
                 faults, reaper>>

UseAsContext(h) ==
  /\ At(h, "use_context")
  /\ UpdateSessionStage("complete", task[h].snap.doc, task[h].snap.project,
                        task[h].snap.rt)
  /\ Return(h)
  /\ UNCHANGED <<gates, github, faults, reaper>>

\* Mutant of Escalate: the maintainer is told, the session is left open.
EscalateLeavesOpen(h) ==
  /\ At(h, "escalate")
  /\ Return(h)
  /\ UNCHANGED <<sess, gates, github, faults, reaper>>

\* Too many rounds: tell the maintainer and give up.
Escalate(h) ==
  /\ At(h, "escalate")
  /\ UpdateSessionStage("complete", task[h].snap.doc, task[h].snap.project,
                        RoundTrips(task[h]))
  /\ Return(h)
  /\ UNCHANGED <<gates, github, faults, reaper>>

\* Only an explicit revise signal records the round before the research.
MarkRevision(h) ==
  /\ At(h, "revise")
  /\ UpdateSessionStage("revision", task[h].snap.doc, task[h].snap.project,
                        RoundTrips(task[h]))
  /\ Goto(h, "research")
  /\ UNCHANGED <<gates, github, faults, reaper>>

\* startResearch, first half: the document passes both quality layers and is
\* posted on the shadow issue.
PostResearch(h) ==
  /\ At(h, "research") /\ research < MaxResearch
  /\ research' = research + 1
  /\ task' = [task EXCEPT ![h].pc = "save_research", ![h].doc = research + 1]
  /\ UNCHANGED <<sess, gates, branch, prDoc, prs, public, acked, faults, reaper>>

\* Mutants of SaveResearch: a stage nobody handles, a count that starts over, the
\* context of the previous document.
SavesUnknownStage(h) ==
  /\ At(h, "save_research")
  /\ UpdateSessionStage("researching", task[h].doc, FALSE, RoundTrips(task[h]))
  /\ Goto(h, "open_gate")
  /\ UNCHANGED <<gates, github, faults, reaper>>

SaveForgetsRounds(h) ==
  /\ At(h, "save_research")
  /\ UpdateSessionStage("review_pending", task[h].doc, FALSE, 0)
  /\ Goto(h, "open_gate")
  /\ UNCHANGED <<gates, github, faults, reaper>>

SaveKeepsOldDocument(h) ==
  /\ At(h, "save_research")
  /\ UpdateSessionStage("review_pending", task[h].snap.doc, task[h].snap.project,
                        RoundTrips(task[h]))
  /\ Goto(h, "open_gate")
  /\ UNCHANGED <<gates, github, faults, reaper>>

\* startResearch, second half: the row, then the approval gate.
SaveResearch(h) ==
  /\ At(h, "save_research")
  /\ UpdateSessionStage("review_pending", task[h].doc, FALSE, RoundTrips(task[h]))
  /\ Goto(h, "open_gate")
  /\ UNCHANGED <<gates, github, faults, reaper>>

OpenGate(h) ==
  /\ At(h, "open_gate")
  /\ gates' = Append(gates, "pending")
  /\ Return(h)
  /\ UNCHANGED <<sess, github, faults, reaper>>

\* createResearchPR: branch, file, pull request, row.  GitHub refuses to create
\* a ref that exists, and the handler gives up on that error.
CreateBranch(h) ==
  /\ At(h, "branch") /\ ~branch
  /\ branch' = TRUE
  /\ Goto(h, "commit")
  /\ UNCHANGED <<sess, gates, research, prDoc, prs, public, acked,
                 faults, reaper>>

\* Mutant of BranchRefused: "reference already exists" is taken for success.
ReuseBranch(h) ==
  /\ At(h, "branch") /\ branch
  /\ Goto(h, "commit")
  /\ UNCHANGED <<sess, gates, github, faults, reaper>>

BranchRefused(h) ==
  /\ At(h, "branch") /\ branch
  /\ Return(h)
  /\ UNCHANGED <<sess, gates, github, faults, reaper>>

CommitFile(h) ==
  /\ At(h, "commit")
  /\ prDoc' = task[h].snap.doc
  /\ Goto(h, "open_pr")
  /\ UNCHANGED <<sess, gates, research, branch, prs, public, acked,
                 faults, reaper>>

OpenPR(h) ==
  /\ At(h, "open_pr")
  /\ prs' = prs + 1
  /\ Goto(h, "approve")
  /\ UNCHANGED <<sess, gates, research, branch, prDoc, public, acked,
                 faults, reaper>>

\* A publish signal during review goes on to the promotion.
SaveApproved(h) ==
  /\ At(h, "approve")
  /\ UpdateSessionStage("approved", task[h].snap.doc, task[h].snap.project,
                        task[h].snap.rt)
  /\ IF task[h].sig = "promote" THEN Goto(h, "promote") ELSE Return(h)
  /\ UNCHANGED <<gates, github, faults, reaper>>

\* handlePromote: the summary passes both quality layers and is posted on the
\* public issue; then the row.
PostPublic(h) ==
  /\ At(h, "promote")
  /\ public' = public + 1
  /\ Goto(h, "finish")
  /\ UNCHANGED <<sess, gates, research, branch, prDoc, prs, acked,
                 faults, reaper>>

FinishPromotion(h) ==
  /\ At(h, "finish")
  /\ UpdateSessionStage("complete", task[h].snap.doc, task[h].snap.project,
                        task[h].snap.rt)
  /\ Return(h)
  /\ UNCHANGED <<gates, github, faults, reaper>>

\* A quality layer turns the output down (or the model returns none): nothing
\* is posted, the handler reports an error and the row keeps its stage.
QualityReject(h) ==
  /\ task[h].pc \in {"brief", "research", "promote"}
  /\ Return(h)
  /\ UNCHANGED <<sess, gates, github, faults, reaper>>

\* The next call fails, the 5-minute deadline passes or the process dies: the
\* handler stops here.  A call that takes effect but whose reply is lost is the
\* call's own step followed by this one.
Abandon(h) ==
  /\ ~At(h, "idle") /\ faults < MaxFaults
  /\ faults' = faults + 1
  /\ Return(h)
  /\ UNCHANGED <<sess, gates, github, reaper>>

\* POST /cleanup: list the sessions older than 14 days that are not complete,
\* then mark each complete.  Age counts from creation, so any session may be
\* on the list.  One request per behaviour.
ListStale ==
  /\ MayStart /\ reaper = "idle"
  /\ sess.stage \notin {"none", "complete"}
  /\ reaper' = "listed"
  /\ UNCHANGED <<sess, gates, github, faults, task>>

MarkSessionComplete ==
  /\ reaper = "listed"
  /\ sess' = [sess EXCEPT !.stage = "complete"]
  /\ reaper' = "done"
  /\ UNCHANGED <<gates, github, faults, task>>

\* The steps of a handler that is running.
Advance(h) ==
  \/ PostBrief(h) \/ SaveBrief(h)
  \/ LookupGate(h) \/ ResolveGate(h)
  \/ CloseSession(h) \/ Acknowledge(h) \/ UseAsContext(h) \/ Escalate(h)
  \/ MarkRevision(h) \/ PostResearch(h) \/ SaveResearch(h) \/ OpenGate(h)
  \/ CreateBranch(h) \/ BranchRefused(h) \/ CommitFile(h) \/ OpenPR(h)
  \/ SaveApproved(h) \/ PostPublic(h) \/ FinishPromotion(h)
  \/ QualityReject(h)

Next ==
  \/ \E h \in Handlers :
       \/ StartSession(h)
       \/ \E s \in Comments : Receive(h, s)
       \/ Advance(h)
       \/ ResolveGateFails(h)
       \/ Abandon(h)
  \/ ListStale
  \/ MarkSessionComplete

Spec == Init /\ [][Next]_vars

-----------------------------------------------------------------------------
(* Properties that hold however the actors interleave.                     *)

\* Every variable keeps its type.
TypeOK ==
  /\ sess \in Session
  /\ gates \in Seq(GateStatuses)
  /\ research \in Nat
  /\ branch \in BOOLEAN /\ prDoc \in Nat /\ prs \in Nat /\ public \in Nat
  /\ acked \in BOOLEAN /\ faults \in Nat
  /\ task \in [Handlers -> Task]
  /\ reaper \in {"idle", "listed", "done"}

\* The stored round-trip count never exceeds MaxRoundTrips, although each
\* handler computes it from a snapshot that others may have made stale.
RoundTripBound == sess.rt <= MaxRoundTrips

\* A session gets at most one pull request, however many approvals are handled
\* at once: the branch is the lock, and the pull request needs the branch.
OnePullRequest == prs <= 1 /\ (prs = 1 => branch)

\* A session counts as approved, and the public issue is written to, only when
\* the pull request is open with a document that was posted for review.
PublishedWasReviewed ==
  sess.stage = "approved" \/ public > 0 => prs = 1 /\ prDoc \in 1..research

\* A session under review or approved holds a document that was posted, so
\* createResearchPR never falls back to a document nobody has read.
ReviewHasDocument ==
  sess.stage \in UnderReview \cup {"approved"} => sess.doc \in 1..research

-----------------------------------------------------------------------------
(* Properties of the serial regime.                                        *)

Lifecycle == INSTANCE SessionLifecycle WITH
  stage <- sess.stage, rounds <- sess.rt, drafts <- research,
  prOpen <- prs > 0, published <- public

\* One actor at a time, the agent keeps the promise of SessionLifecycle.
ImplementsLifecycle == Lifecycle!Spec

\* A maintainer sees at most MaxRoundTrips documents, and one more for each
\* failed call: a round whose save fails is not counted, any other one is.
ResearchWithinBudget == research <= MaxRoundTrips + faults

\* Without failures the pull request holds the newest document posted, the one
\* the maintainer approved.
PullRequestIsLatest == faults = 0 /\ prs = 1 => prDoc = research

\* A decision on a gate is final: a resolved gate is never decided again.
GateDecidedOnce ==
  [][\A i \in DOMAIN gates : gates[i] # "pending" => gates'[i] = gates[i]]_vars

\* Without failures and between comments, at most one gate waits, and only for
\* a session a comment can still decide (or one the cleanup closed).
PendingGateIsLive ==
  Quiescent /\ faults = 0 =>
    /\ \A i, j \in PendingGates : i = j
    /\ PendingGates # {} =>
         sess.stage \in {"review_pending", "clarifying"} \/ reaper = "done"

-----------------------------------------------------------------------------
(* What the code's messages and the README say.                            *)

\* "Session closed. No further research will be generated."
NoResearchAfterClose == [][acked => research' = research]_vars

-----------------------------------------------------------------------------
(* Liveness.  A handler that runs is scheduled until it returns; comments   *)
(* keep coming, as a maintainer who wants an outcome repeats them.          *)

\* Every handler and a cleanup keep running, and signal s is sent, and heard,
\* again and again for as long as the session keeps coming back to a state that
\* reacts to it.
Persistent(s) ==
  /\ \A h \in Handlers : WF_vars(Advance(h))
  /\ WF_vars(MarkSessionComplete)
  /\ SF_vars(\E h \in Handlers : Receive(h, s))

ReviseSpec == Spec /\ Persistent("revise")

\* A maintainer who keeps answering "revise" reaches the escalation (or another
\* outcome) even if the quality layers turn down every further document.
ReviseReachesOutcome ==
  sess.stage \in UnderReview ~> sess.stage \in {"approved", "complete"}

ApproveSpec == Spec /\ Persistent("approved")

\* "Something went wrong processing your signal. Please try again.": repeating
\* the approval of a document under review leads to an outcome.
ApproveReachesOutcome ==
  sess.stage \in UnderReview ~> sess.stage \in {"approved", "complete"}
=============================================================================
