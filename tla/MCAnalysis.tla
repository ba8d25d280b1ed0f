------------------------------ MODULE MCAnalysis -----------------------------
(* TLC instance of Analysis. *)
EXTENDS Analysis

PairsUpTo(n) == {{i, j} : i, j \in 1..n} \ {{i} : i \in 1..n}

\* Every similarity graph of up to five issues.
MCGraphs ==
  UNION {{<<n, s, r>> : s \in SUBSET PairsUpTo(n), r \in {{}, {1}}} : n \in 0..5}

\* Up to three results in the order of their distances, at distances around the
\* boosts: with and without a keyword, of the version, next to it and neither,
\* on both sides of both ages.
Distances == {0, 2, 4, 7, 11}
Classes == {<<TRUE, 40, 5>>, <<FALSE, 40, 6>>, <<FALSE, 41, 11>>, <<TRUE, 38, 12>>}

Sorted(ds) == \A k \in 1..(Len(ds) - 1) : ds[k] =< ds[k + 1]

MCAnswers ==
  UNION {{[k \in 1..n |-> [rank |-> k, distance |-> ds[k], keyword |-> c[k][1],
                            version |-> c[k][2], age |-> c[k][3]]] :
            ds \in {s \in [1..n -> Distances] : Sorted(s)}, c \in [1..n -> Classes]} :
         n \in 0..3}

\* "#1" has an upstream reference, "#2" one and a local hint, "#3" none.
MCNumbers == {"#1", "#2", "#3"}

MCTexts == (UNION {[1..n -> Symbols \cup {"#1", "#2"}] : n \in 0..4})
             \cup [1..6 -> {"[", "]", "(", ")", "tick", "https://", "#1"}]
=============================================================================
