------------------------------ MODULE Analysis -------------------------------
(***************************************************************************)
(* The pure algorithms, each asked about every input of a bounded set.     *)
(* Clustering goes pair by pair; the others answer in one step.            *)
(***************************************************************************)
EXTENDS IssueClusters, Reranking, UpstreamRefs, Functions

CONSTANTS
  Graphs,    \* <<n, similar pairs, referenced issues>>
  Answers,   \* sequences of results of the store
  Targets,   \* Electron majors an issue may name
  Texts,     \* sequences of tokens
  Numbers,   \* the numbers of references
  Upstream,  \* those an upstream reference has
  Hints      \* those known to be local

\* Pairs are of two issues of the window: the second loop starts after the first.
ASSUME GraphsAssumption ==
  \A g \in Graphs :
    /\ g[1] \in Nat
    /\ \A p \in g[2] : \E i, j \in 1..g[1] : i < j /\ p = {i, j}

\* The store returns the results in the order of their distances.
ASSUME AnswersAssumption ==
  \A d \in Answers :
    /\ d \in Seq([rank : Nat, distance : Nat, keyword : BOOLEAN, version : Int, age : Nat])
    /\ \A k \in DOMAIN d : d[k].rank = k
    /\ \A i, j \in DOMAIN d : i < j => d[i].distance =< d[j].distance

ASSUME TargetsAssumption == Targets \subseteq Int

ASSUME TextsAssumption ==
  Texts \subseteq Seq(Symbols \cup Numbers) /\ Numbers \cap Symbols = {}

MinSize == 3

VARIABLES question, answer

vars == <<question, answer>>

NoAnswer == [kind |-> "none"]

Init ==
  /\ answer = NoAnswer
  /\ \/ \E g \in Graphs : question = [kind |-> "clusters", graph |-> g]
     \/ \E d \in Answers, h \in BOOLEAN, t \in Targets :
          question = [kind |-> "docs", results |-> d, hat |-> h, target |-> t]
     \/ \E d \in Answers : question = [kind |-> "issues", results |-> d]
     \/ \E t \in Texts : question = [kind |-> "text", text |-> t]

Asked(kind) == question.kind = kind /\ answer = NoAnswer /\ UNCHANGED question

\* Below MinSize issues no pair is looked at.
Collect ==
  /\ Asked("clusters")
  /\ answer' = LET n == question.graph[1]
               IN IF n < MinSize THEN [kind |-> "clusters", findings |-> {}]
                  ELSE [kind |-> "forest", parent |-> Singletons(n), left |-> question.graph[2]]

Unite ==
  /\ answer.kind = "forest"
  /\ answer.left # {}
  /\ LET p == FirstPair(answer.left)
         a == CHOOSE i \in p : \A j \in p : i =< j
         b == CHOOSE i \in p : i # a
     IN answer' = [answer EXCEPT !.left = @ \ {p}, !.parent = Union(@, a, b)]
  /\ UNCHANGED question

Cluster ==
  /\ answer.kind = "forest"
  /\ answer.left = {}
  /\ answer' = [kind |-> "clusters",
                findings |-> Findings(answer.parent, MinSize, question.graph[3])]
  /\ UNCHANGED question

RankDocs ==
  /\ Asked("docs")
  /\ answer' = [kind |-> "results", results |->
       PreviewDocs(question.results, question.hat, question.target)]

RankIssues ==
  /\ Asked("issues")
  /\ answer' = [kind |-> "results", results |-> PreviewIssues(question.results)]

Rewrite ==
  /\ Asked("text")
  /\ answer' = [kind |-> "text", text |->
       RewriteBareUpstreamRefs(question.text, Numbers, Upstream, Hints)]

Next == Collect \/ Unite \/ Cluster \/ RankDocs \/ RankIssues \/ Rewrite

Spec == Init /\ [][Next]_vars
-----------------------------------------------------------------------------
\* groupBySimilarity: the clusters reported are the components of the similarity graph that have
\* three issues or more, whatever the order in which pairs are united.
ClustersAreComponents ==
  answer.kind = "clusters" =>
    {f.issues : f \in answer.findings}
      = {g \in Components(question.graph[1], question.graph[2]) : Cardinality(g) >= MinSize}

\* r is boosted at least as much as s by each reranking it goes through.
BoostedAsMuch(r, s) ==
  IF question.kind = "issues" THEN RecencyBoost(r, 5, 2) >= RecencyBoost(s, 5, 2)
  ELSE /\ VersionBoost(r, question.target, 5, 2) >= VersionBoost(s, question.target, 5, 2)
       /\ question.hat => HatBoost(r, 5) >= HatBoost(s, 5)

\* No result is lost, and one that was ahead of another and that every reranking
\* boosts as much or more stays ahead, also when the boosts run into 0.
BoostNeverSetsBack ==
  answer.kind = "results" =>
    LET before == question.results
        After(r) == CHOOSE k \in DOMAIN answer.results : answer.results[k].rank = r.rank
    IN /\ {r.rank : r \in Range(answer.results)} = {r.rank : r \in Range(before)}
       /\ \A i, j \in DOMAIN before :
            i < j /\ BoostedAsMuch(before[i], before[j])
              => After(before[i]) < After(before[j])

\* Rewriting a text again changes nothing, as the comment of
\* RewriteBareUpstreamRefs says.
RewriteIsIdempotent ==
  answer.kind = "text" =>
    RewriteBareUpstreamRefs(answer.text, Numbers, Upstream, Hints) = answer.text
=============================================================================
