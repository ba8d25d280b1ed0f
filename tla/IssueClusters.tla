---------------------------- MODULE IssueClusters ----------------------------
(***************************************************************************)
(* The clusters of similar issues (synthesis/clusters.go): union-find with *)
(* path compression over the issues of a window, 1 to n in the order in    *)
(* which the store returns them.  Similarity is a set of pairs {i, j}: the *)
(* cosine distance is the same in both directions.                         *)
(***************************************************************************)
EXTENDS Naturals, FiniteSets

\* find: the root of x's tree.
Root(parent, x) ==
  LET root[y \in DOMAIN parent] == IF parent[y] = y THEN y ELSE root[parent[y]]
  IN root[x]

\* What find walks over on its way from x to the root.
PathTo(parent, x) ==
  LET path[y \in DOMAIN parent] ==
        {y} \cup IF parent[y] = y THEN {} ELSE path[parent[y]]
  IN path[x]

\* find leaves everything it walked over directly below the root.
Find(parent, x) ==
  [y \in DOMAIN parent |->
     IF y \in PathTo(parent, x) THEN Root(parent, x) ELSE parent[y]]

\* Mutant: b's root is put below a, and not the other way round below a root.
UnionBelow(parent, a, b) ==
  LET found == Find(Find(parent, a), b) IN [found EXCEPT ![Root(found, b)] = a, ![a] = a]

\* The root of a is put below the root of b.
Union(parent, a, b) ==
  LET found == Find(Find(parent, a), b)
  IN [found EXCEPT ![Root(found, a)] = Root(found, b)]

\* The pair the two loops come to first, of the similar pairs they have not seen.
FirstPair(pairs) ==
  LET Low(p) == CHOOSE i \in p : \A j \in p : i =< j
      High(p) == CHOOSE i \in p : \A j \in p : j =< i
  IN CHOOSE p \in pairs : \A q \in pairs :
       Low(p) < Low(q) \/ (Low(p) = Low(q) /\ High(p) =< High(q))

Singletons(n) == [i \in 1..n |-> i]

Groups(parent) ==
  {{i \in DOMAIN parent : Root(parent, i) = r} : r \in {Root(parent, i) : i \in DOMAIN parent}}

\* Analyze: the groups that are large enough.  Whether a decision covers one is
\* asked of its first issue only.
Findings(parent, minSize, referenced) ==
  LET First(g) == CHOOSE i \in g : \A j \in g : i =< j
  IN {[issues |-> g,
       severity |-> IF First(g) \in referenced THEN "warning" ELSE "action_needed"] :
        g \in {h \in Groups(parent) : Cardinality(h) >= minSize}}
-----------------------------------------------------------------------------
\* The components of the similarity graph: no pair leaves one, and none is made
\* of smaller ones.
Closed(n, similar, g) ==
  \A i \in g, j \in 1..n : {i, j} \in similar => j \in g

Components(n, similar) ==
  LET closed == {g \in SUBSET (1..n) : g # {} /\ Closed(n, similar, g)}
  IN {g \in closed : \A h \in closed : h \subseteq g => h = g}
=============================================================================
