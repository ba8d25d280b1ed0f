-------------------------- MODULE SessionLifecycle --------------------------
(***************************************************************************)
(* What the research agent promises a maintainer about one session, with   *)
(* no handler, snapshot, gate or failed call in sight: the stages a        *)
(* session goes through, what may be posted in which of them, and that a   *)
(* complete session stays as it is.  AgentSession implements this when     *)
(* its actors run one at a time.                                           *)
(***************************************************************************)
EXTENDS Naturals

CONSTANT MaxRoundTrips

VARIABLES
  stage,      \* where the session is
  rounds,     \* review rounds used
  drafts,     \* research documents posted for review
  prOpen,     \* the research document is in a pull request
  published   \* comments posted on the public issue

vars == <<stage, rounds, drafts, prOpen, published>>

Init ==
  /\ \/ stage = "none" /\ rounds = 0
     \/ stage = "clarifying" /\ rounds \in 0..MaxRoundTrips
  /\ drafts = 0 /\ prOpen = FALSE /\ published = 0

\* The session moves to stage s having used r rounds; nothing is posted.
Move(s, r) ==
  /\ stage' = s /\ rounds' = r
  /\ UNCHANGED <<drafts, prOpen, published>>

Open == stage = "none" /\ Move("new", 0)

Brief == stage = "new" /\ Move("context_brief", 0)

\* A document is only posted while somebody is there to review it.
Draft ==
  /\ stage \in {"context_brief", "clarifying", "review_pending", "revision"}
  /\ rounds < MaxRoundTrips
  /\ drafts' = drafts + 1
  /\ UNCHANGED <<stage, rounds, prOpen, published>>

\* The first document uses no round; each later one uses one, which a revision
\* may have counted already.
Submit ==
  /\ drafts > 0
  /\ \/ stage \in {"context_brief", "clarifying"} /\ Move("review_pending", rounds)
     \/ /\ stage \in {"review_pending", "revision"}
        /\ rounds + 1 < MaxRoundTrips
        /\ Move("review_pending", rounds + 1)
     \/ stage = "revision" /\ Move("review_pending", rounds)

Revise ==
  /\ stage \in {"review_pending", "revision"}
  /\ rounds + 1 < MaxRoundTrips
  /\ Move("revision", rounds + 1)

OpenPR ==
  /\ stage \in {"review_pending", "revision"}
  /\ ~prOpen /\ prOpen' = TRUE
  /\ UNCHANGED <<stage, rounds, drafts, published>>

Approve ==
  /\ stage \in {"review_pending", "revision"} /\ prOpen
  /\ Move("approved", rounds)

\* Only an approved session reaches the public issue.
Publish ==
  /\ stage = "approved"
  /\ published' = published + 1
  /\ UNCHANGED <<stage, rounds, drafts, prOpen>>

\* Any session may be closed; escalation does so by using up the last round.
Close ==
  /\ stage \notin {"none", "complete"}
  /\ \/ Move("complete", rounds)
     \/ /\ stage \in {"review_pending", "revision"}
        /\ rounds + 1 = MaxRoundTrips
        /\ Move("complete", rounds + 1)

Next == \/ Open \/ Brief \/ Draft \/ Submit \/ Revise \/ OpenPR \/ Approve
        \/ Publish \/ Close

Spec == Init /\ [][Next]_vars
=============================================================================
