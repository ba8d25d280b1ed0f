------------------------------ MODULE Reranking ------------------------------
(***************************************************************************)
(* The soft reranking of retrieved documents and issues (store/rerank.go)  *)
(* as /brief-preview chains it: a boost makes a result closer, never       *)
(* closer than 0, and a stable sort puts the results in order again.       *)
(*                                                                         *)
(* A result is a record with its distance, its rank in the answer of the   *)
(* store, whether a keyword of the hat occurs in it, its Electron major    *)
(* and its age in months; distances are in hundredths.                     *)
(***************************************************************************)
EXTENDS Integers, FiniteSets

\* Mutant: an adjusted distance below 0 is left at the original one.
AdjustedOrSame(distance, boost) == IF distance < boost THEN distance ELSE distance - boost

Adjusted(distance, boost) == IF distance < boost THEN 0 ELSE distance - boost

\* sort.SliceStable: a result comes after those that are closer and, of those at
\* its distance, after the ones that were before it.
Place(results, i) ==
  Cardinality({j \in DOMAIN results :
                 \/ results[j].distance < results[i].distance
                 \/ results[j].distance = results[i].distance /\ j =< i})

InOrder(results) ==
  [k \in DOMAIN results |-> results[CHOOSE i \in DOMAIN results : Place(results, i) = k]]

\* Each result adjusted by its boost.
Rescale(results, boosts) ==
  InOrder([i \in DOMAIN results |->
    [results[i] EXCEPT !.distance = Adjusted(@, boosts[i])]])

\* A document with several keywords is boosted once.
HatBoost(d, boost) == IF d.keyword THEN boost ELSE 0

ApplyHatBoost(docs, keywords, boost) ==
  IF ~keywords \/ boost =< 0 THEN docs
  ELSE Rescale(docs, [i \in DOMAIN docs |-> HatBoost(docs[i], boost)])

\* The target's documents, and those of the majors before and after it.
VersionBoost(d, target, exact, adjacent) ==
  IF d.version = target THEN exact
  ELSE IF d.version \in {target - 1, target + 1} THEN adjacent ELSE 0

ApplyVersionBoost(docs, target, exact, adjacent) ==
  IF exact =< 0 /\ adjacent =< 0 THEN docs
  ELSE Rescale(docs, [i \in DOMAIN docs |->
                        VersionBoost(docs[i], target, exact, adjacent)])

\* RecencyRecentMonths and RecencyMidMonths.
RecencyBoost(i, recent, mid) ==
  IF i.age < 6 THEN recent ELSE IF i.age < 12 THEN mid ELSE 0

ApplyRecencyBoost(issues, recent, mid) ==
  IF recent =< 0 /\ mid =< 0 THEN issues
  ELSE Rescale(issues, [i \in DOMAIN issues |-> RecencyBoost(issues[i], recent, mid)])

\* briefPreviewHandler: the hat's keywords, then the version the issue names.
PreviewDocs(docs, hat, target) ==
  ApplyVersionBoost(ApplyHatBoost(docs, hat, 5), target, 5, 2)

PreviewIssues(issues) == ApplyRecencyBoost(issues, 5, 2)
=============================================================================
