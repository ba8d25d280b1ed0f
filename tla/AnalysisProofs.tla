--------------------------- MODULE AnalysisProofs ----------------------------
(***************************************************************************)
(* The pure algorithms are right for every input: any similarity graph,    *)
(* any answer of the store, any text.                                      *)
(*                                                                         *)
(* Clustering is a state machine, and its inductive invariant says what    *)
(* the forest is worth after any pairs seen so far.  Reranking answers in  *)
(* one step; its lemmas follow a result to its new place.  Rewriting is a  *)
(* recursive scan: its lemmas find the function that satisfies its         *)
(* equation, and then compare the scan of the text with that of what it    *)
(* wrote, from the end to the start.                                       *)
(*                                                                         *)
(* Recursive functions and loops are reasoned about by the first position  *)
(* that goes wrong: a nonempty set of naturals has a least element, and a  *)
(* set of nodes of a forest one whose parent is not in it.                 *)
(***************************************************************************)
EXTENDS Analysis, WellFoundedInduction, FiniteSetTheorems, SequenceTheorems, TLAPS

\* The naturals are well ordered: what replaces induction in this module.
LEMMA LeastElement ==
  ASSUME NEW T \in SUBSET Nat, T # {}
  PROVE  \E x \in T : \A y \in T : x =< y
<1> DEFINE Less == OpToRel(<, Nat)
<1>1. IsWellFoundedOn(Less, Nat)
  BY NatLessThanWellFounded
<1>2. PICK x \in T : \A y \in T : <<y, x>> \notin Less
  BY <1>1, WFMin
<1>3. \A y \in T : x =< y
  <2>1. Less = {ss \in Nat \X Nat : ss[1] < ss[2]}
    BY DEF OpToRel
  <2> HIDE DEF Less
  <2> TAKE y \in T
  <2>2. ~ (y < x)
    <3>1. <<y, x>> \in Nat \X Nat
      OBVIOUS
    <3> QED BY <1>2, <2>1, <3>1
  <2> QED BY <2>2
<1> QED BY <1>3

\* A set of positions has a last one.
LEMMA GreatestElement ==
  ASSUME NEW n \in Nat, NEW S \in SUBSET (1..n), S # {}
  PROVE  \E x \in S : \A y \in S : y =< x
<1> DEFINE T == {n - y : y \in S}
<1>1. T \in SUBSET Nat /\ T # {}
  <2>1. \A y \in S : y \in 1..n /\ n - y \in Nat
    OBVIOUS
  <2> QED BY <2>1
<1>2. PICK t \in T : \A u \in T : t =< u
  <2> HIDE DEF T
  <2> QED BY <1>1, LeastElement
<1>3. PICK x \in S : t = n - x
  OBVIOUS
<1>4. \A y \in S : n - x =< n - y
  <2> TAKE y \in S
  <2>1. n - y \in T
    OBVIOUS
  <2> HIDE DEF T
  <2> QED BY <1>2, <1>3, <2>1
<1> QED
  <2> SUFFICES \A y \in S : y =< x
    OBVIOUS
  <2> TAKE y \in S
  <2>1. x \in 1..n /\ y \in 1..n
    OBVIOUS
  <2> QED BY <1>4, <2>1
-----------------------------------------------------------------------------
\* Clusters.

\* parent is a forest on D and r the root of each node's tree; no set of nodes is
\* closed under going up without holding a root.
Forest(D, parent, r) ==
  /\ parent \in [D -> D]
  /\ r \in [D -> D]
  /\ \A y \in D : parent[y] = y => r[y] = y
  /\ \A y \in D : parent[r[y]] = r[y]
  /\ \A y \in D : r[parent[y]] = r[y]
  /\ \A S \in SUBSET D : S # {} => \E y \in S : parent[y] = y \/ parent[y] \notin S

\* find returns the root: its recursion is well-founded in a forest.
LEMMA RootOfTree ==
  ASSUME NEW D, NEW parent, NEW r, Forest(D, parent, r), NEW x \in D
  PROVE  Root(parent, x) = r[x]
<1> USE DEF Forest
<1> DEFINE F(f) == [y \in D |-> IF parent[y] = y THEN y ELSE f[parent[y]]]
           root == CHOOSE f : f = F(f)
<1>0. DOMAIN parent = D
  OBVIOUS
<1>1. Root(parent, x) = root[x]
  BY <1>0 DEF Root
<1>2. r = F(r)
  OBVIOUS
<1>3. root = F(root)
  BY <1>2
<1> HIDE DEF root
<1> DEFINE S == {y \in D : root[y] # r[y]}
<1>4. ASSUME NEW y \in D, parent[y] = y \/ parent[y] \notin S PROVE y \notin S
  <2>1. CASE parent[y] = y
    BY <1>3, <2>1
  <2>2. CASE parent[y] # y /\ parent[y] \notin S
    BY <1>3, <2>2
  <2> QED BY <1>4, <2>1, <2>2
<1>5. S = {}
  <2> HIDE DEF S
  <2>1. S \in SUBSET D
    BY DEF S
  <2> QED BY <1>4, <2>1
<1> QED BY <1>1, <1>5

\* find stays in the tree it starts in.
LEMMA PathInTree ==
  ASSUME NEW D, NEW parent, NEW r, Forest(D, parent, r), NEW x \in D
  PROVE  PathTo(parent, x) \subseteq {y \in D : r[y] = r[x]}
<1> USE DEF Forest
<1> DEFINE F(f) == [y \in D |-> {y} \cup IF parent[y] = y THEN {} ELSE f[parent[y]]]
           path == CHOOSE f : f = F(f)
           Up(C) == \A c \in C : parent[c] \in C
           Above(y) == {z \in D : \A C \in SUBSET D : y \in C /\ Up(C) => z \in C}
           above == [y \in D |-> Above(y)]
<1>0. DOMAIN parent = D
  OBVIOUS
<1>1. PathTo(parent, x) = path[x]
  BY <1>0 DEF PathTo
<1>2. ASSUME NEW y \in D
      PROVE  Above(y) = {y} \cup IF parent[y] = y THEN {} ELSE Above(parent[y])
  <2>1. y \in Above(y)
    OBVIOUS
  <2>2. Above(parent[y]) \subseteq Above(y)
    OBVIOUS
  <2>3. CASE parent[y] = y
    <3>1. {y} \in SUBSET D /\ Up({y})
      BY <2>3
    <3>2. Above(y) \subseteq {y}
      BY <3>1
    <3> QED BY <2>1, <2>3, <3>2
  <2>4. CASE parent[y] # y
    <3> DEFINE C == {y} \cup Above(parent[y])
    <3>1. Up(Above(parent[y]))
      OBVIOUS
    <3>2. parent[y] \in Above(parent[y])
      OBVIOUS
    <3>3. C \in SUBSET D /\ y \in C /\ Up(C)
      BY <3>1, <3>2
    <3>4. Above(y) \subseteq C
      <4> HIDE DEF C
      <4> QED BY <3>3
    <3> QED BY <2>1, <2>2, <2>4, <3>4
  <2> QED BY <2>3, <2>4
<1>3. above = F(above)
  <2> HIDE DEF Above
  <2> QED BY <1>2
<1>4. path = F(path)
  <2> HIDE DEF above
  <2> QED BY <1>3
<1> HIDE DEF path
<1> DEFINE S == {y \in D : ~ (path[y] \subseteq {z \in D : r[z] = r[y]})}
<1>5. ASSUME NEW y \in D, parent[y] = y \/ parent[y] \notin S PROVE y \notin S
  <2>0. path[y] = {y} \cup IF parent[y] = y THEN {} ELSE path[parent[y]]
    BY <1>4
  <2>1. CASE parent[y] = y
    BY <2>0, <2>1
  <2>2. CASE parent[y] # y /\ parent[y] \notin S
    BY <2>0, <2>2
  <2> QED BY <1>5, <2>1, <2>2
<1>6. S = {}
  <2> HIDE DEF S
  <2>1. S \in SUBSET D
    BY DEF S
  <2> QED BY <1>5, <2>1
<1> QED BY <1>1, <1>6

\* Path compression changes no tree's nodes and no root.
LEMMA FindKeepsTrees ==
  ASSUME NEW D, NEW parent, NEW r, Forest(D, parent, r), NEW x \in D
  PROVE  Forest(D, Find(parent, x), r)
<1> DEFINE found == Find(parent, x)
<1>1. parent \in [D -> D] /\ r \in [D -> D]
  BY DEF Forest
<1>2. DOMAIN found = D /\ \A y \in D : found[y] = parent[y] \/ found[y] = r[y]
  <2>1. \A y \in PathTo(parent, x) : r[y] = r[x]
    BY PathInTree
  <2>2. Root(parent, x) = r[x]
    BY RootOfTree
  <2> QED BY <1>1, <2>1, <2>2 DEF Find
<1>3. found \in [D -> D]
  <2>1. found = [y \in DOMAIN parent |->
                   IF y \in PathTo(parent, x) THEN Root(parent, x) ELSE parent[y]]
    BY DEF Find
  <2> HIDE DEF found
  <2> QED BY <1>1, <1>2, <2>1
<1> HIDE DEF found
<1>4. \A y \in D : r[r[y]] = r[y]
  BY DEF Forest
<1>5. \A y \in D : found[r[y]] = r[y]
  BY <1>1, <1>2, <1>4 DEF Forest
<1>6. \A y \in D : found[y] = y => r[y] = y
  BY <1>1, <1>2, <1>4 DEF Forest
<1>7. \A y \in D : r[found[y]] = r[y]
  BY <1>1, <1>2, <1>4 DEF Forest
<1>8. ASSUME NEW S \in SUBSET D, S # {}
      PROVE  \E y \in S : found[y] = y \/ found[y] \notin S
  <2>1. PICK y \in S : parent[y] = y \/ parent[y] \notin S
    BY <1>8 DEF Forest
  <2>2. CASE found[y] = y \/ found[y] \notin S
    BY <2>2
  <2>3. CASE found[y] # y /\ found[y] \in S
    <3>1. found[y] = r[y]
      BY <1>2, <2>1, <2>3 DEF Forest
    <3> QED BY <1>5, <2>3, <3>1
  <2> QED BY <2>2, <2>3
<1> QED BY <1>1, <1>3, <1>5, <1>6, <1>7, <1>8 DEF Forest, found

\* The roots once a's tree is put below the root of b's.
Joined(D, r, a, b) == [y \in D |-> IF r[y] = r[a] THEN r[b] ELSE r[y]]

\* union joins the trees of a and b and keeps the others.
LEMMA UnionJoinsTrees ==
  ASSUME NEW D, NEW parent, NEW r, Forest(D, parent, r), NEW a \in D, NEW b \in D
  PROVE  Forest(D, Union(parent, a, b), Joined(D, r, a, b))
<1> DEFINE found == Find(Find(parent, a), b)
           u == Union(parent, a, b)
           s == Joined(D, r, a, b)
<1>1. Forest(D, found, r)
  BY FindKeepsTrees
<1>2. u = [found EXCEPT ![r[a]] = r[b]]
  BY <1>1, RootOfTree DEF Union
<1> HIDE DEF found, u
<1>3. /\ found \in [D -> D]
      /\ r \in [D -> D]
      /\ \A y \in D : found[y] = y => r[y] = y
      /\ \A y \in D : found[r[y]] = r[y]
      /\ \A y \in D : r[found[y]] = r[y]
  BY <1>1 DEF Forest
<1>4. \A y \in D : r[r[y]] = r[y]
  BY <1>3
<1>5. u \in [D -> D] /\ \A y \in D : u[y] = IF y = r[a] THEN r[b] ELSE found[y]
  BY <1>2, <1>3
<1>6. s \in [D -> D] /\ \A y \in D : s[y] = IF r[y] = r[a] THEN r[b] ELSE r[y]
  BY <1>3 DEF Joined
<1> HIDE DEF s
<1>7. \A y \in D : u[y] = y => s[y] = y
  BY <1>3, <1>4, <1>5, <1>6
<1>8. \A y \in D : u[s[y]] = s[y]
  BY <1>3, <1>4, <1>5, <1>6
<1>9. \A y \in D : s[u[y]] = s[y]
  BY <1>3, <1>4, <1>5, <1>6
<1>10. ASSUME NEW S \in SUBSET D, S # {}
       PROVE  \E y \in S : u[y] = y \/ u[y] \notin S
  <2> DEFINE T == {y \in S : r[y] = r[b]}
  <2>1. CASE T # {}
    <3>1. PICK y \in T : found[y] = y \/ found[y] \notin T
      BY <1>1, <2>1 DEF Forest
    <3>2. found[y] \notin T => found[y] \notin S
      BY <1>3, <3>1
    <3>3. u[y] = y \/ u[y] = found[y]
      BY <1>3, <1>5, <3>1, <1>4
    <3> QED BY <3>1, <3>2, <3>3
  <2>2. CASE T = {}
    <3>1. PICK y \in S : found[y] = y \/ found[y] \notin S
      BY <1>1, <1>10 DEF Forest
    <3>2. r[b] \notin S
      BY <1>3, <1>4, <2>2
    <3> QED BY <1>5, <3>1, <3>2
  <2> QED BY <2>1, <2>2
<1> QED BY <1>5, <1>6, <1>7, <1>8, <1>9, <1>10 DEF Forest, u, s
-----------------------------------------------------------------------------
\* The pairs the two loops look at.
Pairs(n) == {{q[1], q[2]} : q \in {q \in (1..n) \X (1..n) : q[1] < q[2]}}

\* While a pair is left, the loops come to one of those left.
LEMMA FirstPairOccurs ==
  ASSUME NEW n \in Nat, NEW left \in SUBSET Pairs(n), left # {}
  PROVE  FirstPair(left) \in left
<1> DEFINE Low(p) == CHOOSE i \in p : \A j \in p : i =< j
           High(p) == CHOOSE i \in p : \A j \in p : j =< i
           Least(p) == \A q \in left :
             Low(p) < Low(q) \/ (Low(p) = Low(q) /\ High(p) =< High(q))
<1>1. ASSUME NEW p \in left PROVE Low(p) \in Nat /\ High(p) \in Nat
  <2>1. PICK i \in 1..n, j \in 1..n : i < j /\ p = {i, j}
    BY DEF Pairs
  <2>2. Low(p) = i /\ High(p) = j
    BY <2>1
  <2> QED BY <2>1, <2>2
<1> HIDE DEF Low, High
<1>2. PICK p \in left : \A q \in left : Low(p) =< Low(q)
  <2> DEFINE T == {Low(q) : q \in left}
  <2>1. T \in SUBSET Nat /\ T # {}
    BY <1>1
  <2>2. PICK l \in T : \A k \in T : l =< k
    <3> HIDE DEF T
    <3> QED BY <2>1, LeastElement
  <2>3. PICK p \in left : l = Low(p)
    OBVIOUS
  <2> QED BY <2>2, <2>3
<1>3. PICK s \in {q \in left : Low(q) = Low(p)} :
        \A q \in left : Low(q) = Low(p) => High(s) =< High(q)
  <2> DEFINE T == {High(q) : q \in {q \in left : Low(q) = Low(p)}}
  <2>1. T \in SUBSET Nat /\ T # {}
    BY <1>1
  <2>2. PICK l \in T : \A k \in T : l =< k
    <3> HIDE DEF T
    <3> QED BY <2>1, LeastElement
  <2> QED BY <2>2
<1>4. Least(s)
  BY <1>1, <1>2, <1>3
<1>5. FirstPair(left) = CHOOSE q \in left : Least(q)
  BY DEF FirstPair, Low, High
<1> HIDE DEF Least
<1> QED BY <1>3, <1>4, <1>5

\* The two issues of a pair, as Unite takes them.
LEMMA PairOfTwo ==
  ASSUME NEW n \in Nat, NEW p \in Pairs(n),
         NEW a, a = CHOOSE i \in p : \A j \in p : i =< j,
         NEW b, b = CHOOSE i \in p : i # a
  PROVE  a \in 1..n /\ b \in 1..n /\ p = {a, b}
<1>1. PICK i \in 1..n, j \in 1..n : i < j /\ p = {i, j}
  BY DEF Pairs
<1>2. a = i
  BY <1>1
<1>3. b = j
  BY <1>1, <1>2
<1> QED BY <1>1, <1>2, <1>3
-----------------------------------------------------------------------------
\* The trees are exactly the components of the pairs seen.
TreesAreComponents(n, seen, r) ==
  /\ \A i, j \in 1..n : {i, j} \in seen => r[i] = r[j]
  /\ \A h \in SUBSET (1..n) : Closed(n, seen, h) =>
       \A i \in h, j \in 1..n : r[i] = r[j] => j \in h

\* Before the first pair every issue is a tree and a component of its own.
LEMMA SingletonsStart ==
  ASSUME NEW n \in Nat
  PROVE  /\ Forest(1..n, Singletons(n), Singletons(n))
         /\ TreesAreComponents(n, {}, Singletons(n))
BY DEF Forest, Singletons, TreesAreComponents

\* Joining the trees of a similar pair keeps trees components.
LEMMA JoinedIsNext ==
  ASSUME NEW n \in Nat, NEW seen, NEW r \in [1..n -> 1..n],
         TreesAreComponents(n, seen, r), NEW a \in 1..n, NEW b \in 1..n
  PROVE  TreesAreComponents(n, seen \cup {{a, b}}, Joined(1..n, r, a, b))
<1> DEFINE s == Joined(1..n, r, a, b)
<1>1. \A y \in 1..n : s[y] = IF r[y] = r[a] THEN r[b] ELSE r[y]
  BY DEF Joined
<1> HIDE DEF s
<1>2. ASSUME NEW i \in 1..n, NEW j \in 1..n, {i, j} \in seen \cup {{a, b}}
      PROVE  s[i] = s[j]
  <2>1. CASE {i, j} \in seen
    BY <1>1, <2>1 DEF TreesAreComponents
  <2>2. CASE {i, j} = {a, b}
    <3>1. (i = a /\ j = b) \/ (i = b /\ j = a)
      BY <2>2
    <3> QED BY <1>1, <3>1
  <2> QED BY <1>2, <2>1, <2>2
<1>3. ASSUME NEW h \in SUBSET (1..n), Closed(n, seen \cup {{a, b}}, h),
             NEW i \in h, NEW j \in 1..n, s[i] = s[j]
      PROVE  j \in h
  <2>1. Closed(n, seen, h)
    BY <1>3 DEF Closed
  <2>2. \A k \in h, l \in 1..n : r[k] = r[l] => l \in h
    BY <2>1 DEF TreesAreComponents
  <2>3. a \in h <=> b \in h
    BY <1>3 DEF Closed
  <2>4. CASE r[i] = r[j]
    BY <2>2, <2>4
  <2>5. CASE r[i] = r[a] /\ r[j] = r[b]
    BY <2>2, <2>3, <2>5
  <2>6. CASE r[i] = r[b] /\ r[j] = r[a]
    BY <2>2, <2>3, <2>6
  <2> QED BY <1>1, <1>3, <2>4, <2>5, <2>6
<1> QED BY <1>2, <1>3 DEF TreesAreComponents, s

\* Once every pair is seen, the groups are the components.
LEMMA GroupsAreComponents ==
  ASSUME NEW n \in Nat, NEW similar, NEW parent, NEW r,
         Forest(1..n, parent, r), TreesAreComponents(n, similar, r)
  PROVE  Groups(parent) = Components(n, similar)
<1> DEFINE Tree(i) == {j \in 1..n : r[j] = r[i]}
<1>1. r \in [1..n -> 1..n] /\ parent \in [1..n -> 1..n]
  BY DEF Forest
<1>2. Groups(parent) = {Tree(i) : i \in 1..n}
  <2>1. DOMAIN parent = 1..n
    BY <1>1
  <2>2. \A i \in 1..n : Root(parent, i) = r[i]
    BY RootOfTree
  <2> DEFINE OfRoot(q) == {j \in 1..n : Root(parent, j) = q}
  <2>3. Groups(parent) = {OfRoot(q) : q \in {Root(parent, i) : i \in 1..n}}
    BY <2>1 DEF Groups
  <2>4. \A i \in 1..n : OfRoot(Root(parent, i)) = Tree(i)
    BY <2>2
  <2> HIDE DEF OfRoot, Tree
  <2> QED BY <2>3, <2>4
<1> DEFINE closed == {g \in SUBSET (1..n) : g # {} /\ Closed(n, similar, g)}
<1>3. Components(n, similar) = {g \in closed : \A h \in closed : h \subseteq g => h = g}
  BY DEF Components
<1>4. \A i \in 1..n : Tree(i) \in closed
  BY DEF TreesAreComponents, Closed
<1>5. ASSUME NEW h \in closed, NEW i \in h PROVE Tree(i) \subseteq h
  <2> SUFFICES ASSUME NEW j \in Tree(i) PROVE j \in h
    OBVIOUS
  <2>1. h \in SUBSET (1..n) /\ Closed(n, similar, h)
    OBVIOUS
  <2>2. j \in 1..n /\ r[i] = r[j]
    OBVIOUS
  <2> QED BY <2>1, <2>2 DEF TreesAreComponents
<1>6. \A h \in closed : h # {} /\ h \subseteq 1..n
  OBVIOUS
<1>7. \A i \in 1..n : \A j \in Tree(i) : Tree(j) = Tree(i)
  OBVIOUS
<1>8. \A i \in 1..n : i \in Tree(i)
  OBVIOUS
<1> HIDE DEF closed, Tree
<1>9. ASSUME NEW i \in 1..n PROVE Tree(i) \in Components(n, similar)
  <2> SUFFICES ASSUME NEW h \in closed, h \subseteq Tree(i) PROVE h = Tree(i)
    BY <1>3, <1>4
  <2>1. PICK j \in h : TRUE
    BY <1>6
  <2> QED BY <1>5, <1>7, <2>1
<1>10. ASSUME NEW g \in Components(n, similar) PROVE \E i \in 1..n : g = Tree(i)
  <2>1. PICK i \in g : TRUE
    BY <1>3, <1>6
  <2>2. i \in 1..n /\ Tree(i) \subseteq g
    BY <1>3, <1>5, <1>6
  <2> QED BY <1>3, <1>4, <2>2
<1> QED BY <1>2, <1>9, <1>10

\* Every group that is large enough becomes a finding.
LEMMA FindingsAreLarge ==
  ASSUME NEW parent, NEW minSize, NEW referenced
  PROVE  {f.issues : f \in Findings(parent, minSize, referenced)}
           = {h \in Groups(parent) : Cardinality(h) >= minSize}
<1> DEFINE First(g) == CHOOSE i \in g : \A j \in g : i =< j
           Finding(g) == [issues |-> g,
             severity |-> IF First(g) \in referenced THEN "warning" ELSE "action_needed"]
           large == {h \in Groups(parent) : Cardinality(h) >= minSize}
<1>1. Findings(parent, minSize, referenced) = {Finding(g) : g \in large}
  BY DEF Findings
<1>2. \A g \in large : Finding(g).issues = g
  OBVIOUS
<1> HIDE DEF Finding, large
<1>3. {f.issues : f \in {Finding(g) : g \in large}} = large
  BY <1>2
<1> QED BY <1>1, <1>3 DEF large
-----------------------------------------------------------------------------
\* The inductive invariant: while pairs are left, some assignment of roots fits the
\* forest and its trees are the components of the pairs seen.
Issues == question.graph[1]
Similar == question.graph[2]
Seen == Similar \ answer.left

Clustering ==
  /\ question.kind = "clusters" => question.graph \in Graphs
  /\ answer # NoAnswer => answer.kind # "none"
  /\ answer.kind = "forest" =>
       /\ question.kind = "clusters"
       /\ answer = [kind |-> "forest", parent |-> answer.parent, left |-> answer.left]
       /\ answer.left \subseteq Similar
       /\ \E r : /\ Forest(1..Issues, answer.parent, r)
                /\ TreesAreComponents(Issues, Seen, r)

ClusterInv == Clustering /\ ClustersAreComponents

\* What GraphsAssumption says of the graph asked about.
LEMMA GraphOfPairs ==
  ASSUME question.kind = "clusters", question.graph \in Graphs
  PROVE  Issues \in Nat /\ Similar \subseteq Pairs(Issues)
<1>1. Issues \in Nat /\ \A p \in Similar : \E i, j \in 1..Issues : i < j /\ p = {i, j}
  BY GraphsAssumption DEF Issues, Similar
<1>2. ASSUME NEW p \in Similar PROVE p \in Pairs(Issues)
  <2>1. PICK i \in 1..Issues, j \in 1..Issues : i < j /\ p = {i, j}
    BY <1>1
  <2>2. <<i, j>> \in {q \in (1..Issues) \X (1..Issues) : q[1] < q[2]}
    BY <2>1
  <2>3. p = {<<i, j>>[1], <<i, j>>[2]}
    BY <2>1
  <2> QED BY <2>2, <2>3 DEF Pairs
<1> QED BY <1>1, <1>2

\* Collect starts the forest, or rightly finds nothing below MinSize issues.
LEMMA CollectStarts ==
  ASSUME ClusterInv, Collect
  PROVE  ClusterInv'
<1> DEFINE n == question.graph[1]
<1>1. question' = question /\ question.kind = "clusters" /\ question.graph \in Graphs
  BY DEF Collect, Asked, ClusterInv, Clustering
<1>2. n \in Nat
  BY <1>1, GraphOfPairs DEF Issues
<1>3. CASE n < MinSize
  <2>1. answer' = [kind |-> "clusters", findings |-> {}]
    BY <1>3 DEF Collect
  <2>2. ASSUME NEW g \in Components(n, question.graph[2]) PROVE ~ (Cardinality(g) >= MinSize)
    <3>1. g \subseteq 1..n
      BY DEF Components
    <3>2. IsFiniteSet(1..n) /\ Cardinality(1..n) = n
      <4>1. 1 \in Int /\ n \in Int /\ (n = 0 <=> 1 > n) /\ n - 1 + 1 = n
        BY <1>2
      <4> QED BY <4>1, FS_Interval
    <3>3. Cardinality(g) \in Nat /\ Cardinality(g) =< n
      <4>1. IsFiniteSet(g) /\ Cardinality(g) =< Cardinality(1..n)
        BY <3>1, <3>2, FS_Subset
      <4>2. Cardinality(g) \in Nat
        BY <4>1, FS_CardinalityType
      <4> QED BY <3>2, <4>1, <4>2
    <3> QED BY <1>2, <1>3, <3>3 DEF MinSize
  <2>3. ClustersAreComponents'
    BY <1>1, <2>1, <2>2 DEF ClustersAreComponents
  <2>4. Clustering'
    BY <1>1, <2>1 DEF Clustering
  <2> QED BY <2>3, <2>4 DEF ClusterInv
<1>4. CASE ~ (n < MinSize)
  <2>1. answer' = [kind |-> "forest", parent |-> Singletons(n), left |-> question.graph[2]]
    BY <1>4 DEF Collect
  <2>2. ClustersAreComponents'
    BY <2>1 DEF ClustersAreComponents
  <2>3. Seen' = {} /\ Issues' = n
    BY <1>1, <2>1 DEF Seen, Similar, Issues
  <2>4. /\ Forest(1..Issues', answer'.parent, Singletons(n))
        /\ TreesAreComponents(Issues', Seen', Singletons(n))
    BY <1>2, <2>1, <2>3, SingletonsStart
  <2>5. Clustering'
    BY <1>1, <2>1, <2>4 DEF Clustering, Similar
  <2> QED BY <2>2, <2>5 DEF ClusterInv
<1> QED BY <1>3, <1>4

\* Unite takes one pair from those left and joins its trees.
LEMMA UniteStep ==
  ASSUME ClusterInv, Unite
  PROVE  ClusterInv'
<1> DEFINE p == FirstPair(answer.left)
           a == CHOOSE i \in p : \A j \in p : i =< j
           b == CHOOSE i \in p : i # a
           left == answer.left \ {p}
           u == Union(answer.parent, a, b)
<1>1. /\ question.kind = "clusters" /\ question.graph \in Graphs
      /\ question' = question
      /\ answer = [kind |-> "forest", parent |-> answer.parent, left |-> answer.left]
      /\ answer.left \subseteq Similar
      /\ answer.left # {}
  BY DEF Unite, ClusterInv, Clustering
<1>2. PICK r : /\ Forest(1..Issues, answer.parent, r)
               /\ TreesAreComponents(Issues, Seen, r)
  BY DEF Unite, ClusterInv, Clustering
<1>3. Issues \in Nat /\ Similar \subseteq Pairs(Issues)
  BY <1>1, GraphOfPairs
<1>4. p \in answer.left
  BY <1>1, <1>3, FirstPairOccurs
<1>5. a \in 1..Issues /\ b \in 1..Issues /\ p = {a, b}
  <2>1. p \in Pairs(Issues)
    BY <1>1, <1>3, <1>4
  <2> HIDE DEF p
  <2> QED BY <1>3, <2>1, PairOfTwo
<1>6. answer' = [answer EXCEPT !.left = left, !.parent = u]
  BY DEF Unite
<1> HIDE DEF a, b, p, left, u
<1>7. answer' = [kind |-> "forest", parent |-> u, left |-> left]
  <2> DEFINE oldParent == answer.parent
             oldLeft == answer.left
  <2>1. answer = [kind |-> "forest", parent |-> oldParent, left |-> oldLeft]
    BY <1>1
  <2> HIDE DEF oldParent, oldLeft
  <2> QED BY <1>6, <2>1
<1>8. Issues' = Issues /\ Similar' = Similar /\ Seen' = Seen \cup {{a, b}}
  BY <1>1, <1>4, <1>5, <1>7 DEF Issues, Similar, Seen, left
<1>9. r \in [1..Issues -> 1..Issues]
  BY <1>2 DEF Forest
<1>10. Forest(1..Issues, u, Joined(1..Issues, r, a, b))
  BY <1>2, <1>5, UnionJoinsTrees DEF u
<1>11. TreesAreComponents(Issues, Seen \cup {{a, b}}, Joined(1..Issues, r, a, b))
  BY <1>2, <1>3, <1>5, <1>9, JoinedIsNext
<1>12. Clustering'
  <2>1. /\ Forest(1..Issues', answer'.parent, Joined(1..Issues, r, a, b))
        /\ TreesAreComponents(Issues', Seen', Joined(1..Issues, r, a, b))
    BY <1>7, <1>8, <1>10, <1>11
  <2>2. answer'.left \subseteq Similar'
    BY <1>1, <1>7, <1>8 DEF left
  <2> QED BY <1>1, <1>7, <2>1, <2>2 DEF Clustering
<1>13. ClustersAreComponents'
  BY <1>7 DEF ClustersAreComponents
<1> QED BY <1>12, <1>13 DEF ClusterInv

\* Cluster reports the components.
LEMMA ClusterAnswers ==
  ASSUME ClusterInv, Cluster
  PROVE  ClusterInv'
<1>1. /\ question.kind = "clusters" /\ question.graph \in Graphs
      /\ question' = question
      /\ answer.left = {}
  BY DEF Cluster, ClusterInv, Clustering
<1>2. PICK r : /\ Forest(1..Issues, answer.parent, r)
               /\ TreesAreComponents(Issues, Seen, r)
  BY DEF Cluster, ClusterInv, Clustering
<1>3. Issues \in Nat /\ Seen = Similar
  BY <1>1, GraphOfPairs DEF Seen
<1>4. Groups(answer.parent) = Components(Issues, Similar)
  BY <1>2, <1>3, GroupsAreComponents
<1>5. answer' = [kind |-> "clusters",
                 findings |-> Findings(answer.parent, MinSize, question.graph[3])]
  BY DEF Cluster
<1>6. {f.issues : f \in Findings(answer.parent, MinSize, question.graph[3])}
        = {h \in Groups(answer.parent) : Cardinality(h) >= MinSize}
  BY FindingsAreLarge
<1>7. ClustersAreComponents'
  BY <1>1, <1>4, <1>5, <1>6 DEF ClustersAreComponents, Issues, Similar
<1>8. Clustering'
  BY <1>1, <1>5 DEF Clustering
<1> QED BY <1>7, <1>8 DEF ClusterInv

\* groupBySimilarity and Analyze (clusters.go): for every number of issues and every
\* similarity, what is reported are the components of three issues or more.
THEOREM ClustersCorrect == Spec => []ClustersAreComponents
<1>1. Init => ClusterInv
  BY DEF Init, NoAnswer, ClusterInv, Clustering, ClustersAreComponents
<1>2. ASSUME ClusterInv, [Next]_vars PROVE ClusterInv'
  <2>1. CASE RankDocs \/ RankIssues \/ Rewrite
    <3>1. question' = question
      BY <2>1 DEF RankDocs, RankIssues, Rewrite, Asked
    <3>2. answer'.kind = "results" \/ answer'.kind = "text"
      BY <2>1 DEF RankDocs, RankIssues, Rewrite
    <3> QED BY <1>2, <3>1, <3>2 DEF ClusterInv, Clustering, ClustersAreComponents, NoAnswer
  <2>2. CASE UNCHANGED vars
    BY <1>2, <2>2 DEF vars, ClusterInv, Clustering, ClustersAreComponents, Issues, Similar, Seen
  <2> QED BY <1>2, <2>1, <2>2, CollectStarts, UniteStep, ClusterAnswers DEF Next
<1>3. ClusterInv => ClustersAreComponents
  BY DEF ClusterInv
<1> QED BY <1>1, <1>2, <1>3, PTL DEF Spec
-----------------------------------------------------------------------------
\* Reranking.

Result == [rank : Nat, distance : Nat, keyword : BOOLEAN, version : Int, age : Nat]

\* The stable sort gives each result a place of its own, in the order it promises.
LEMMA PlaceIsBijection ==
  ASSUME NEW n \in Nat, NEW results \in [1..n -> Result]
  PROVE  /\ \A i \in 1..n : Place(results, i) \in 1..n
         /\ \A i, j \in 1..n :
              \/ results[i].distance < results[j].distance
              \/ results[i].distance = results[j].distance /\ i < j
              => Place(results, i) < Place(results, j)
         /\ \A i, j \in 1..n : Place(results, i) = Place(results, j) => i = j
         /\ \A k \in 1..n : \E i \in 1..n : Place(results, i) = k
<1> DEFINE d(i) == results[i].distance
           Ahead(i) == {j \in 1..n : d(j) < d(i) \/ (d(j) = d(i) /\ j =< i)}
           place == [i \in 1..n |-> Cardinality(Ahead(i))]
<1>1. \A i \in 1..n : d(i) \in Nat
  BY DEF Result
<1>2. \A i \in 1..n : Place(results, i) = Cardinality(Ahead(i))
  BY DEF Place
<1> HIDE DEF d
<1>3. IsFiniteSet(1..n) /\ Cardinality(1..n) = n
  <2>1. 1 \in Int /\ n \in Int /\ (n = 0 <=> 1 > n) /\ n - 1 + 1 = n
    OBVIOUS
  <2> QED BY <2>1, FS_Interval
<1>4. ASSUME NEW i \in 1..n
      PROVE  /\ i \in Ahead(i)
             /\ Ahead(i) \subseteq 1..n
             /\ IsFiniteSet(Ahead(i))
             /\ Cardinality(Ahead(i)) \in 1..n
  <2>1. i \in Ahead(i) /\ Ahead(i) \subseteq 1..n
    BY <1>1
  <2> HIDE DEF Ahead
  <2>2. IsFiniteSet(Ahead(i)) /\ Cardinality(Ahead(i)) =< n /\ Cardinality(Ahead(i)) \in Nat
    BY <1>3, <2>1, FS_Subset, FS_CardinalityType
  <2>3. Cardinality(Ahead(i)) # 0
    BY <2>1, <2>2, FS_EmptySet
  <2> QED BY <2>1, <2>2, <2>3
<1>5. ASSUME NEW i \in 1..n, NEW j \in 1..n, d(i) < d(j) \/ (d(i) = d(j) /\ i < j)
      PROVE  Cardinality(Ahead(i)) < Cardinality(Ahead(j))
  <2>1. Ahead(i) \subseteq Ahead(j) /\ j \notin Ahead(i)
    BY <1>1, <1>5
  <2> HIDE DEF Ahead
  <2>2. j \in Ahead(j) /\ IsFiniteSet(Ahead(i)) /\ IsFiniteSet(Ahead(j))
    BY <1>4
  <2>3. Cardinality(Ahead(i)) \in Nat /\ Cardinality(Ahead(j)) \in Nat
    BY <1>4
  <2>4. /\ Cardinality(Ahead(i)) =< Cardinality(Ahead(j))
        /\ Cardinality(Ahead(j)) = Cardinality(Ahead(i)) => Ahead(j) = Ahead(i)
    BY <2>1, <2>2, FS_Subset
  <2> QED BY <2>1, <2>2, <2>3, <2>4
<1> HIDE DEF Ahead
<1>6. \A i \in 1..n : Cardinality(Ahead(i)) \in Nat
  BY <1>4
<1>7. ASSUME NEW i \in 1..n, NEW j \in 1..n, Cardinality(Ahead(i)) = Cardinality(Ahead(j))
      PROVE  i = j
  <2>1. ~ (d(i) < d(j) \/ (d(i) = d(j) /\ i < j)) /\ ~ (d(j) < d(i) \/ (d(j) = d(i) /\ j < i))
    BY <1>5, <1>6, <1>7
  <2> QED BY <1>1, <2>1
<1>8. \A k \in 1..n : \E i \in 1..n : Cardinality(Ahead(i)) = k
  <2>1. place \in Injection(1..n, 1..n)
    BY <1>4, <1>7 DEF Injection, IsInjective
  <2>2. place \in Surjection(1..n, 1..n)
    BY <1>3, <2>1, FS_Injection
  <2> QED BY <2>2 DEF Surjection
<1>9. \A i, j \in 1..n :
        \/ results[i].distance < results[j].distance
        \/ results[i].distance = results[j].distance /\ i < j
        => Place(results, i) < Place(results, j)
  BY <1>2, <1>5 DEF d
<1>10. /\ \A i \in 1..n : Place(results, i) \in 1..n
       /\ \A i, j \in 1..n : Place(results, i) = Place(results, j) => i = j
       /\ \A k \in 1..n : \E i \in 1..n : Place(results, i) = k
  BY <1>2, <1>4, <1>7, <1>8
<1> QED BY <1>9, <1>10

\* Where pos puts each result of before, it differs from what it was at most in its distance.
Rearranged(n, before, after, pos) ==
  /\ after \in [1..n -> Result]
  /\ pos \in [1..n -> 1..n]
  /\ \A i, j \in 1..n : pos[i] = pos[j] => i = j
  /\ \A k \in 1..n : \E i \in 1..n : pos[i] = k
  /\ \A i \in 1..n : after[pos[i]] = [before[i] EXCEPT !.distance = after[pos[i]].distance]

\* i's result is before j's, and as close or closer.
Leads(results, i, j) == i < j /\ results[i].distance =< results[j].distance

\* sort.SliceStable permutes the results and keeps those that lead ahead.
LEMMA SortedStably ==
  ASSUME NEW n \in Nat, NEW results \in [1..n -> Result]
  PROVE  \E pos :
           /\ Rearranged(n, results, InOrder(results), pos)
           /\ \A i \in 1..n : InOrder(results)[pos[i]] = results[i]
           /\ \A i, j \in 1..n : Leads(results, i, j) => pos[i] < pos[j]
<1> DEFINE pos == [i \in 1..n |-> Place(results, i)]
           At(k) == CHOOSE i \in 1..n : Place(results, i) = k
           sorted == InOrder(results)
<1>1. /\ \A i \in 1..n : Place(results, i) \in 1..n
      /\ \A i, j \in 1..n : Place(results, i) = Place(results, j) => i = j
      /\ \A k \in 1..n : \E i \in 1..n : Place(results, i) = k
  BY PlaceIsBijection
<1>2. \A k \in 1..n : At(k) \in 1..n /\ Place(results, At(k)) = k
  BY <1>1
<1>3. sorted = [k \in 1..n |-> results[At(k)]]
  BY DEF InOrder
<1> HIDE DEF At, sorted
<1>4. \A i \in 1..n : At(Place(results, i)) = i
  BY <1>1, <1>2
<1>5. sorted \in [1..n -> Result] /\ \A i \in 1..n : sorted[pos[i]] = results[i]
  BY <1>1, <1>2, <1>3, <1>4
<1>6. \A i \in 1..n : sorted[pos[i]] = [results[i] EXCEPT !.distance = sorted[pos[i]].distance]
  BY <1>5 DEF Result
<1>7. Rearranged(n, results, sorted, pos)
  BY <1>1, <1>5, <1>6 DEF Rearranged
<1>8. ASSUME NEW i \in 1..n, NEW j \in 1..n, Leads(results, i, j)
      PROVE  pos[i] < pos[j]
  <2>1. results[i].distance \in Nat /\ results[j].distance \in Nat
    BY DEF Result
  <2>2. \/ results[i].distance < results[j].distance
        \/ results[i].distance = results[j].distance /\ i < j
    BY <1>8, <2>1 DEF Leads
  <2>3. Place(results, i) < Place(results, j)
    BY <2>2, PlaceIsBijection
  <2> QED BY <2>3
<1> HIDE DEF pos
<1> QED BY <1>5, <1>7, <1>8 DEF sorted

\* Clamped at 0, a result boosted as much or more still leads.
LEMMA RescaledInOrder ==
  ASSUME NEW n \in Nat, NEW results \in [1..n -> Result], NEW boosts \in [1..n -> Nat]
  PROVE  \E pos :
           /\ Rearranged(n, results, Rescale(results, boosts), pos)
           /\ \A i, j \in 1..n :
                Leads(results, i, j) /\ boosts[i] >= boosts[j]
                  => Leads(Rescale(results, boosts), pos[i], pos[j])
<1> DEFINE closer == [i \in 1..n |->
             [results[i] EXCEPT !.distance = Adjusted(@, boosts[i])]]
           after == Rescale(results, boosts)
<1>1. after = InOrder(closer)
  BY DEF Rescale
<1>2. \A i \in 1..n : results[i].distance \in Nat /\ boosts[i] \in Nat
  BY DEF Result
<1>3. \A i \in 1..n : Adjusted(results[i].distance, boosts[i]) \in Nat
  BY <1>2 DEF Adjusted
<1>4. \A i \in 1..n :
        /\ closer[i] \in Result
        /\ closer[i].distance = Adjusted(results[i].distance, boosts[i])
        /\ closer[i] = [results[i] EXCEPT !.distance = closer[i].distance]
  BY <1>3 DEF Result
<1>5. closer \in [1..n -> Result]
  BY <1>4
<1> HIDE DEF closer
<1> HIDE DEF after
<1>6. PICK pos :
        /\ Rearranged(n, closer, after, pos)
        /\ \A i \in 1..n : after[pos[i]] = closer[i]
        /\ \A i, j \in 1..n : Leads(closer, i, j) => pos[i] < pos[j]
  <2>1. \E pos :
          /\ Rearranged(n, closer, InOrder(closer), pos)
          /\ \A i \in 1..n : InOrder(closer)[pos[i]] = closer[i]
          /\ \A i, j \in 1..n : Leads(closer, i, j) => pos[i] < pos[j]
    BY <1>5, SortedStably
  <2> QED BY <1>1, <2>1
<1>7. Rearranged(n, results, after, pos)
  <2>1. \A i \in 1..n : after[pos[i]] = [results[i] EXCEPT !.distance = after[pos[i]].distance]
    BY <1>4, <1>6
  <2> QED BY <1>6, <2>1 DEF Rearranged
<1>8. ASSUME NEW i \in 1..n, NEW j \in 1..n,
             Leads(results, i, j), boosts[i] >= boosts[j]
      PROVE  Leads(after, pos[i], pos[j])
  <2>1. Leads(closer, i, j)
    <3>1. /\ i < j
          /\ results[i].distance =< results[j].distance
      BY <1>8 DEF Leads
    <3>2. Adjusted(results[i].distance, boosts[i]) =< Adjusted(results[j].distance, boosts[j])
      <4> DEFINE di == results[i].distance
                 dj == results[j].distance
      <4>1. di \in Nat /\ dj \in Nat /\ boosts[i] \in Nat /\ boosts[j] \in Nat
        BY <1>2
      <4> HIDE DEF di, dj
      <4>2. di =< dj => Adjusted(di, boosts[i]) =< Adjusted(dj, boosts[j])
        BY <1>8, <4>1 DEF Adjusted
      <4> QED BY <3>1, <4>2 DEF di, dj
    <3> QED BY <1>4, <3>1, <3>2 DEF Leads
  <2> QED BY <1>6, <2>1 DEF Leads
<1> QED BY <1>7, <1>8 DEF after

\* Two rearrangements make one.
LEMMA RearrangedTwice ==
  ASSUME NEW n \in Nat, NEW a \in [1..n -> Result], NEW b, NEW c, NEW p, NEW q,
         Rearranged(n, a, b, p), Rearranged(n, b, c, q)
  PROVE  Rearranged(n, a, c, [i \in 1..n |-> q[p[i]]])
<1> DEFINE pq == [i \in 1..n |-> q[p[i]]]
<1>1. /\ p \in [1..n -> 1..n] /\ q \in [1..n -> 1..n]
      /\ b \in [1..n -> Result] /\ c \in [1..n -> Result]
  BY DEF Rearranged
<1>2. pq \in [1..n -> 1..n] /\ \A i \in 1..n : pq[i] = q[p[i]]
  BY <1>1
<1> HIDE DEF pq
<1>3. \A i, j \in 1..n : pq[i] = pq[j] => i = j
  <2>1. \A i, j \in 1..n : p[i] = p[j] => i = j
    BY DEF Rearranged
  <2>2. \A i, j \in 1..n : q[i] = q[j] => i = j
    BY DEF Rearranged
  <2> QED BY <1>1, <1>2, <2>1, <2>2
<1>4. \A k \in 1..n : \E i \in 1..n : pq[i] = k
  BY <1>2 DEF Rearranged
<1>5. ASSUME NEW i \in 1..n PROVE c[pq[i]] = [a[i] EXCEPT !.distance = c[pq[i]].distance]
  <2>1. b[p[i]] = [a[i] EXCEPT !.distance = b[p[i]].distance]
    BY DEF Rearranged
  <2>2. c[pq[i]] = [b[p[i]] EXCEPT !.distance = c[pq[i]].distance]
    <3>1. \A k \in 1..n : c[q[k]] = [b[k] EXCEPT !.distance = c[q[k]].distance]
      BY DEF Rearranged
    <3>2. p[i] \in 1..n /\ pq[i] = q[p[i]]
      BY <1>1, <1>2
    <3> QED BY <3>1, <3>2
  <2>3. a[i] \in Result /\ c[pq[i]] \in Result
    BY <1>1, <1>2
  <2> QED BY <2>1, <2>2, <2>3 DEF Result
<1> QED BY <1>1, <1>2, <1>3, <1>4, <1>5 DEF Rearranged, pq

\* A reranking that returns its argument moves nothing.
LEMMA NothingMoved ==
  ASSUME NEW n \in Nat, NEW a \in [1..n -> Result]
  PROVE  Rearranged(n, a, a, [i \in 1..n |-> i])
BY DEF Rearranged, Result

\* The hat boost and then the version boost, as /brief-preview chains them.
LEMMA DocsReranked ==
  ASSUME NEW n \in Nat, NEW docs \in [1..n -> Result], NEW hat \in BOOLEAN, NEW target \in Int
  PROVE  \E pos :
           /\ Rearranged(n, docs, PreviewDocs(docs, hat, target), pos)
           /\ \A i, j \in 1..n :
                /\ Leads(docs, i, j)
                /\ VersionBoost(docs[i], target, 5, 2) >= VersionBoost(docs[j], target, 5, 2)
                /\ hat => HatBoost(docs[i], 5) >= HatBoost(docs[j], 5)
                => Leads(PreviewDocs(docs, hat, target), pos[i], pos[j])
<1> DEFINE first == ApplyHatBoost(docs, hat, 5)
           hats == [i \in 1..n |-> HatBoost(docs[i], 5)]
           versions == [i \in 1..n |-> VersionBoost(first[i], target, 5, 2)]
           second == PreviewDocs(docs, hat, target)
<1>1. PICK p :
        /\ Rearranged(n, docs, first, p)
        /\ \A i, j \in 1..n :
             Leads(docs, i, j) /\ (hat => HatBoost(docs[i], 5) >= HatBoost(docs[j], 5))
               => Leads(first, p[i], p[j])
  <2>1. CASE ~ hat
    <3>1. first = docs
      BY <2>1 DEF ApplyHatBoost
    <3> DEFINE same == [i \in 1..n |-> i]
    <3>2. Rearranged(n, docs, docs, same) /\ \A i \in 1..n : same[i] = i
      BY NothingMoved
    <3> HIDE DEF same, first
    <3> QED BY <3>1, <3>2
  <2>2. CASE hat
    <3>1. hats \in [1..n -> Nat]
      BY DEF HatBoost
    <3>2. first = Rescale(docs, hats)
      BY <2>2 DEF ApplyHatBoost
    <3>3. \A i \in 1..n : hats[i] = HatBoost(docs[i], 5)
      OBVIOUS
    <3> HIDE DEF hats, first
    <3> QED BY SMTT(30), <2>2, <3>1, <3>2, <3>3, RescaledInOrder
  <2> QED BY <2>1, <2>2
<1> HIDE DEF first
<1>2. first \in [1..n -> Result] /\ p \in [1..n -> 1..n]
  BY <1>1 DEF Rearranged
<1>3. versions \in [1..n -> Nat]
  BY DEF VersionBoost
<1>4. second = Rescale(first, versions)
  <2>1. second = ApplyVersionBoost(first, target, 5, 2)
    BY DEF PreviewDocs, first
  <2>2. DOMAIN first = 1..n
    BY <1>2
  <2> HIDE DEF second
  <2> QED BY <2>1, <2>2 DEF ApplyVersionBoost
<1>5. \A i \in 1..n : versions[i] = VersionBoost(first[i], target, 5, 2)
  OBVIOUS
<1> HIDE DEF versions, second
<1>6. PICK q :
        /\ Rearranged(n, first, second, q)
        /\ \A i, j \in 1..n : Leads(first, i, j) /\ versions[i] >= versions[j]
              => Leads(second, q[i], q[j])
  BY <1>2, <1>3, <1>4, RescaledInOrder
<1>7. \A i \in 1..n : versions[p[i]] = VersionBoost(docs[i], target, 5, 2)
  <2> TAKE i \in 1..n
  <2>1. first[p[i]] = [docs[i] EXCEPT !.distance = first[p[i]].distance]
    BY <1>1 DEF Rearranged
  <2>2. first[p[i]].version = docs[i].version
    BY <2>1 DEF Result
  <2> QED BY <1>2, <1>5, <2>2 DEF VersionBoost
<1> DEFINE pq == [i \in 1..n |-> q[p[i]]]
<1>8. Rearranged(n, docs, second, pq)
  BY <1>1, <1>6, RearrangedTwice
<1>9. ASSUME NEW i \in 1..n, NEW j \in 1..n,
             Leads(docs, i, j),
             VersionBoost(docs[i], target, 5, 2) >= VersionBoost(docs[j], target, 5, 2),
             hat => HatBoost(docs[i], 5) >= HatBoost(docs[j], 5)
      PROVE  Leads(second, pq[i], pq[j])
  <2>1. Leads(first, p[i], p[j])
    BY <1>1, <1>9
  <2>2. versions[p[i]] >= versions[p[j]]
    BY <1>7, <1>9
  <2>3. p[i] \in 1..n /\ p[j] \in 1..n
    BY <1>2
  <2> QED BY <1>6, <2>1, <2>2, <2>3
<1> QED BY <1>8, <1>9 DEF second

\* The recency boost of issues.
LEMMA IssuesReranked ==
  ASSUME NEW n \in Nat, NEW issues \in [1..n -> Result]
  PROVE  \E pos :
           /\ Rearranged(n, issues, PreviewIssues(issues), pos)
           /\ \A i, j \in 1..n :
                /\ Leads(issues, i, j)
                /\ RecencyBoost(issues[i], 5, 2) >= RecencyBoost(issues[j], 5, 2)
                => Leads(PreviewIssues(issues), pos[i], pos[j])
<1> DEFINE boosts == [i \in 1..n |-> RecencyBoost(issues[i], 5, 2)]
<1>1. boosts \in [1..n -> Nat] /\ \A i \in 1..n : boosts[i] = RecencyBoost(issues[i], 5, 2)
  BY DEF RecencyBoost
<1>2. PreviewIssues(issues) = Rescale(issues, boosts)
  BY DEF PreviewIssues, ApplyRecencyBoost
<1> DEFINE after == PreviewIssues(issues)
<1> HIDE DEF boosts, after
<1>3. PICK pos :
        /\ Rearranged(n, issues, after, pos)
        /\ \A i, j \in 1..n : Leads(issues, i, j) /\ boosts[i] >= boosts[j]
              => Leads(after, pos[i], pos[j])
  BY SMTT(30), <1>1, <1>2, RescaledInOrder DEF after
<1>4. \A i, j \in 1..n :
        Leads(issues, i, j) /\ RecencyBoost(issues[i], 5, 2) >= RecencyBoost(issues[j], 5, 2)
          => Leads(after, pos[i], pos[j])
  BY <1>1, <1>3
<1> QED BY <1>3, <1>4 DEF after
-----------------------------------------------------------------------------
\* The question about results is one of the store's answers.
Asking ==
  /\ question.kind \in {"docs", "issues"} => question.results \in Answers
  /\ question.kind = "docs" => question.hat \in BOOLEAN /\ question.target \in Targets
  /\ answer.kind = "results" => question.kind \in {"docs", "issues"}

RerankInv == Asking /\ BoostNeverSetsBack

\* What AnswersAssumption says of an answer of the store.
LEMMA StoreAnswers ==
  ASSUME NEW d \in Answers
  PROVE  /\ Len(d) \in Nat /\ d \in [1..Len(d) -> Result]
         /\ \A k \in 1..Len(d) : d[k].rank = k
         /\ \A i, j \in 1..Len(d) : i < j => Leads(d, i, j)
<1>1. d \in Seq(Result)
  BY AnswersAssumption DEF Result
<1>2. Len(d) \in Nat /\ d \in [1..Len(d) -> Result] /\ DOMAIN d = 1..Len(d)
  BY <1>1
<1> QED BY <1>2, AnswersAssumption DEF Leads

\* From where each result went to what BoostNeverSetsBack says.
LEMMA RankedAnswers ==
  ASSUME question.results \in Answers,
         NEW results, answer' = [kind |-> "results", results |-> results],
         question' = question,
         NEW pos, Rearranged(Len(question.results), question.results, results, pos),
         \A i, j \in 1..Len(question.results) :
           /\ Leads(question.results, i, j)
           /\ BoostedAsMuch(question.results[i], question.results[j])
           => Leads(results, pos[i], pos[j])
  PROVE  BoostNeverSetsBack'
<1> DEFINE before == question.results
           n == Len(before)
           After(r) == CHOOSE k \in DOMAIN results : results[k].rank = r.rank
<1>1. /\ n \in Nat /\ before \in [1..n -> Result]
      /\ \A k \in 1..n : before[k].rank = k
      /\ \A i, j \in 1..n : i < j => Leads(before, i, j)
  BY StoreAnswers
<1>2. /\ results \in [1..n -> Result]
      /\ pos \in [1..n -> 1..n]
      /\ \A i, j \in 1..n : pos[i] = pos[j] => i = j
      /\ \A k \in 1..n : \E i \in 1..n : pos[i] = k
  BY DEF Rearranged
<1>3. \A i \in 1..n : results[pos[i]].rank = i
  <2> TAKE i \in 1..n
  <2>1. results[pos[i]] = [before[i] EXCEPT !.distance = results[pos[i]].distance]
    BY DEF Rearranged
  <2> QED BY <1>1, <2>1 DEF Result
<1>4. \A i, j \in 1..n : i < j /\ BoostedAsMuch(before[i], before[j]) => pos[i] < pos[j]
  BY <1>1 DEF Leads
<1> HIDE DEF before, n
<1>5. \A i \in 1..n : After(before[i]) = pos[i]
  <2> TAKE i \in 1..n
  <2>1. before[i].rank = i /\ DOMAIN results = 1..n
    BY <1>1, <1>2
  <2>2. \A k \in 1..n : results[k].rank = i <=> k = pos[i]
    BY <1>2, <1>3
  <2>3. After(before[i]) = CHOOSE k \in 1..n : results[k].rank = i
    BY <2>1
  <2> QED BY <1>2, <2>2, <2>3
<1>6. {r.rank : r \in Range(results)} = 1..n /\ {r.rank : r \in Range(before)} = 1..n
  <2>1. Range(before) = {before[k] : k \in 1..n} /\ Range(results) = {results[k] : k \in 1..n}
    BY <1>1, <1>2 DEF Range
  <2>2. {r.rank : r \in {before[k] : k \in 1..n}} = 1..n
    BY <1>1
  <2>3. {r.rank : r \in {results[k] : k \in 1..n}} = 1..n
    <3>1. \A k \in 1..n : results[k].rank \in 1..n
      BY <1>2, <1>3
    <3>2. \A i \in 1..n : \E k \in 1..n : results[k].rank = i
      BY <1>2, <1>3
    <3> QED BY <3>1, <3>2
  <2> QED BY <2>1, <2>2, <2>3
<1>7. \A i, j \in DOMAIN before : i < j /\ BoostedAsMuch(before[i], before[j])
        => After(before[i]) < After(before[j])
  <2> HIDE DEF After
  <2>1. DOMAIN before = 1..n
    BY <1>1
  <2> QED BY <1>4, <1>5, <2>1
<1>8. before' = before /\ answer'.results = results /\ DOMAIN before = 1..n
  BY <1>1 DEF before
<1>9. \A r, s : BoostedAsMuch(r, s)' <=> BoostedAsMuch(r, s)
  BY DEF BoostedAsMuch
<1> QED BY <1>6, <1>7, <1>8, <1>9 DEF BoostNeverSetsBack, before

\* rerank.go: for every answer of the store in the order of its distances, however
\* long, no result is lost or set back behind one that no step boosts more.
THEOREM RerankingCorrect == Spec => []BoostNeverSetsBack
<1>1. Init => RerankInv
  BY DEF Init, NoAnswer, RerankInv, Asking, BoostNeverSetsBack
<1>2. ASSUME RerankInv, RankDocs PROVE RerankInv'
  <2> DEFINE docs == question.results
             after == PreviewDocs(docs, question.hat, question.target)
  <2>1. /\ question' = question /\ question.kind = "docs"
        /\ docs \in Answers /\ question.hat \in BOOLEAN /\ question.target \in Int
    BY <1>2, TargetsAssumption DEF RankDocs, Asked, RerankInv, Asking
  <2>2. answer' = [kind |-> "results", results |-> after]
    BY <1>2 DEF RankDocs
  <2>3. PICK pos :
          /\ Rearranged(Len(docs), docs, after, pos)
          /\ \A i, j \in 1..Len(docs) :
               /\ Leads(docs, i, j)
               /\ VersionBoost(docs[i], question.target, 5, 2)
                    >= VersionBoost(docs[j], question.target, 5, 2)
               /\ question.hat => HatBoost(docs[i], 5) >= HatBoost(docs[j], 5)
               => Leads(after, pos[i], pos[j])
    <3> DEFINE n == Len(docs)
    <3>1. n \in Nat /\ docs \in [1..n -> Result]
      BY <2>1, StoreAnswers
    <3> HIDE DEF n, docs
    <3>2. \E pos :
            /\ Rearranged(n, docs, after, pos)
            /\ \A i, j \in 1..n :
                 /\ Leads(docs, i, j)
                 /\ VersionBoost(docs[i], question.target, 5, 2)
                      >= VersionBoost(docs[j], question.target, 5, 2)
                 /\ question.hat => HatBoost(docs[i], 5) >= HatBoost(docs[j], 5)
                 => Leads(after, pos[i], pos[j])
      BY <2>1, <3>1, DocsReranked
    <3> QED BY <3>2 DEF n
  <2> HIDE DEF after
  <2>4. \A i, j \in 1..Len(docs) : Leads(docs, i, j) /\ BoostedAsMuch(docs[i], docs[j])
          => Leads(after, pos[i], pos[j])
    BY <2>1, <2>3 DEF BoostedAsMuch
  <2>5. BoostNeverSetsBack'
    BY <2>1, <2>2, <2>3, <2>4, RankedAnswers
  <2>6. Asking'
    BY <1>2, <2>1, <2>2 DEF RerankInv, Asking
  <2> QED BY <2>5, <2>6 DEF RerankInv
<1>3. ASSUME RerankInv, RankIssues PROVE RerankInv'
  <2> DEFINE issues == question.results
             after == PreviewIssues(issues)
  <2>1. question' = question /\ question.kind = "issues" /\ issues \in Answers
    BY <1>3 DEF RankIssues, Asked, RerankInv, Asking
  <2>2. answer' = [kind |-> "results", results |-> after]
    BY <1>3 DEF RankIssues
  <2>3. PICK pos :
          /\ Rearranged(Len(issues), issues, after, pos)
          /\ \A i, j \in 1..Len(issues) :
               /\ Leads(issues, i, j)
               /\ RecencyBoost(issues[i], 5, 2) >= RecencyBoost(issues[j], 5, 2)
               => Leads(after, pos[i], pos[j])
    BY <2>1, StoreAnswers, IssuesReranked
  <2> HIDE DEF after
  <2>4. \A i, j \in 1..Len(issues) : Leads(issues, i, j) /\ BoostedAsMuch(issues[i], issues[j])
          => Leads(after, pos[i], pos[j])
    BY <2>1, <2>3 DEF BoostedAsMuch
  <2>5. BoostNeverSetsBack'
    BY <2>1, <2>2, <2>3, <2>4, RankedAnswers
  <2>6. Asking'
    BY <1>3, <2>1, <2>2 DEF RerankInv, Asking
  <2> QED BY <2>5, <2>6 DEF RerankInv
<1>4. ASSUME RerankInv, Collect \/ Unite \/ Cluster \/ Rewrite PROVE RerankInv'
  <2>1. question' = question
    BY <1>4 DEF Collect, Unite, Cluster, Rewrite, Asked
  <2>2. answer'.kind # "results"
    <3>1. CASE Collect \/ Cluster \/ Rewrite
      BY <3>1 DEF Collect, Cluster, Rewrite
    <3>2. CASE Unite
      BY <3>2 DEF Unite
    <3> QED BY <1>4, <3>1, <3>2
  <2> QED BY <1>4, <2>1, <2>2 DEF RerankInv, Asking, BoostNeverSetsBack
<1>5. ASSUME RerankInv, UNCHANGED vars PROVE RerankInv'
  BY <1>5 DEF vars, RerankInv, Asking, BoostNeverSetsBack, BoostedAsMuch
<1>6. RerankInv /\ [Next]_vars => RerankInv'
  BY <1>2, <1>3, <1>4, <1>5 DEF Next
<1>7. RerankInv => BoostNeverSetsBack
  BY DEF RerankInv
<1> QED BY <1>1, <1>6, <1>7, PTL DEF Spec
-----------------------------------------------------------------------------
\* Rewriting.

\* What a text is made of.
Token == Symbols \cup Numbers

\* What the CHOOSE of a least position returns.
LEMMA LeastOf ==
  ASSUME NEW S \in SUBSET Nat, S # {},
         NEW x, x = CHOOSE j \in S : \A k \in S : j =< k
  PROVE  x \in S /\ \A k \in S : x =< k
BY LeastElement

\* p is the first position of ts at or after i.
FirstAt(text, ts, i, p) ==
  p \in i..Len(text) /\ text[p] \in ts /\ \A k \in i..(p - 1) : text[k] \notin ts

\* IndexOf returns the first position, or 0 if there is none.
LEMMA IndexFound ==
  ASSUME NEW text \in Seq(Token), NEW ts, NEW i \in Nat
  PROVE  \/ IndexOf(text, ts, i) = 0 /\ \A k \in i..Len(text) : text[k] \notin ts
         \/ FirstAt(text, ts, i, IndexOf(text, ts, i))
<1> DEFINE found == {j \in i..Len(text) : text[j] \in ts}
<1>1. CASE found = {}
  BY <1>1 DEF IndexOf
<1>2. CASE found # {}
  <2>1. found \in SUBSET Nat
    OBVIOUS
  <2>2. IndexOf(text, ts, i) = CHOOSE j \in found : \A k \in found : j =< k
    BY <1>2 DEF IndexOf
  <2> DEFINE x == IndexOf(text, ts, i)
  <2>3. x \in found /\ \A k \in found : x =< k
    <3> HIDE DEF found
    <3> QED BY <1>2, <2>1, <2>2, LeastOf
  <2> HIDE DEF x
  <2>4. FirstAt(text, ts, i, x)
    BY <2>3 DEF FirstAt
  <2> QED BY <2>4 DEF x
<1> QED BY <1>1, <1>2

\* No other position is the first.
LEMMA IndexIs ==
  ASSUME NEW text \in Seq(Token), NEW ts, NEW i \in Nat, NEW p, FirstAt(text, ts, i, p)
  PROVE  IndexOf(text, ts, i) = p
<1>1. p \in i..Len(text) /\ text[p] \in ts /\ \A k \in i..(p - 1) : text[k] \notin ts
  BY DEF FirstAt
<1>2. FirstAt(text, ts, i, IndexOf(text, ts, i))
  BY <1>1, IndexFound
<1> DEFINE x == IndexOf(text, ts, i)
<1>3. x \in i..Len(text) /\ text[x] \in ts /\ \A k \in i..(x - 1) : text[k] \notin ts
  BY <1>2 DEF FirstAt
<1> HIDE DEF x
<1>4. x \in Nat /\ p \in Nat /\ ~ (x < p) /\ ~ (p < x)
  BY <1>1, <1>3
<1> QED BY <1>4 DEF x

\* Without a token of ts there is no index.
LEMMA NoIndex ==
  ASSUME NEW text \in Seq(Token), NEW ts, NEW i \in Nat,
         \A k \in i..Len(text) : text[k] \notin ts
  PROVE  IndexOf(text, ts, i) = 0
BY DEF IndexOf

\* r is where the backticks from i on end.
TicksEnd(text, i, r) ==
  /\ r \in i..(Len(text) + 1)
  /\ \A k \in i..(r - 1) : text[k] = "tick"
  /\ r =< Len(text) => text[r] # "tick"

\* RunEnd returns the end of the backticks at i.
LEMMA RunEnds ==
  ASSUME NEW text \in Seq(Token), NEW i \in 1..(Len(text) + 1)
  PROVE  TicksEnd(text, i, RunEnd(text, i))
<1> DEFINE others == {j \in i..Len(text) : text[j] # "tick"}
           x == RunEnd(text, i)
<1>1. CASE others = {}
  BY <1>1 DEF RunEnd, TicksEnd
<1>2. CASE others # {}
  <2>1. others \in SUBSET Nat
    OBVIOUS
  <2>2. x = CHOOSE j \in others : \A k \in others : j =< k
    BY <1>2 DEF RunEnd
  <2> HIDE DEF x
  <2>3. x \in others /\ \A k \in others : x =< k
    <3> HIDE DEF others
    <3> QED BY <1>2, <2>1, <2>2, LeastOf
  <2>4. TicksEnd(text, i, x)
    BY <2>3 DEF TicksEnd
  <2> QED BY <2>4 DEF x
<1> QED BY <1>1, <1>2

\* No other position is the end of the run.
LEMMA RunEndIs ==
  ASSUME NEW text \in Seq(Token), NEW i \in 1..(Len(text) + 1), NEW r, TicksEnd(text, i, r)
  PROVE  RunEnd(text, i) = r
<1> DEFINE x == RunEnd(text, i)
<1>1. TicksEnd(text, i, x)
  BY RunEnds
<1> HIDE DEF x
<1>2. x \in Nat /\ r \in Nat /\ ~ (x < r) /\ ~ (r < x)
  BY <1>1 DEF TicksEnd
<1> QED BY <1>2 DEF x

\* A run of backticks as long as the one at i starts at j, after it.
Closes(text, i, j) ==
  /\ j \in (RunEnd(text, i) + 1)..Len(text)
  /\ text[j] = "tick"
  /\ text[j - 1] # "tick"
  /\ RunEnd(text, j) - j = RunEnd(text, i) - i

\* findCodeSpanEnd returns the end of the first run that closes, or i if none does.
LEMMA SpanEnds ==
  ASSUME NEW text \in Seq(Token), NEW i \in 1..Len(text)
  PROVE  \/ CodeSpanEnd(text, i) = i /\ \A j : ~ Closes(text, i, j)
         \/ \E j : /\ Closes(text, i, j)
                  /\ \A k : Closes(text, i, k) => j =< k
                  /\ CodeSpanEnd(text, i) = RunEnd(text, j)
<1> DEFINE start == RunEnd(text, i)
           runs == {j \in (start + 1)..Len(text) :
                      text[j] = "tick" /\ text[j - 1] # "tick" /\ RunEnd(text, j) - j = start - i}
<1>1. CodeSpanEnd(text, i) = IF runs = {} THEN i
                             ELSE RunEnd(text, CHOOSE j \in runs : \A k \in runs : j =< k)
  BY DEF CodeSpanEnd
<1>2. \A j : j \in runs <=> Closes(text, i, j)
  BY DEF Closes
<1>3. runs \in SUBSET Nat
  <2>1. start \in Nat
    BY RunEnds DEF TicksEnd
  <2> HIDE DEF start
  <2> QED BY <2>1
<1> HIDE DEF runs
<1>4. CASE runs = {}
  BY <1>1, <1>2, <1>4
<1>5. CASE runs # {}
  <2> DEFINE x == CHOOSE j \in runs : \A k \in runs : j =< k
  <2>1. x \in runs /\ \A k \in runs : x =< k
    BY <1>3, <1>5, LeastOf
  <2> HIDE DEF x
  <2>2. CodeSpanEnd(text, i) = RunEnd(text, x)
    BY <1>1, <1>5 DEF x
  <2> QED BY <1>2, <2>1, <2>2
<1> QED BY <1>4, <1>5

\* An opaque span ends in the text and never before it starts.
LEMMA OpaqueEndRange ==
  ASSUME NEW text \in Seq(Token), NEW i \in 1..Len(text)
  PROVE  OpaqueEnd(text, i) \in i..(Len(text) + 1)
<1>1. MarkdownLinkEnd(text, i) \in i..(Len(text) + 1)
  <2> DEFINE bracket == IndexOf(text, {"]"}, i + 1)
             paren == IF bracket = 0 THEN 0 ELSE IndexOf(text, {")"}, bracket + 2)
  <2>1. MarkdownLinkEnd(text, i) =
          IF bracket > 0 /\ bracket < Len(text) /\ text[bracket + 1] = "(" /\ paren > 0
          THEN paren + 1 ELSE i
    BY DEF MarkdownLinkEnd
  <2>2. bracket = 0 \/ bracket \in (i + 1)..Len(text)
    BY IndexFound DEF FirstAt
  <2> HIDE DEF bracket
  <2>3. paren = 0 \/ paren \in (bracket + 2)..Len(text)
    BY <2>2, IndexFound DEF FirstAt
  <2> HIDE DEF paren
  <2> QED BY <2>1, <2>2, <2>3
<1>2. CodeSpanEnd(text, i) \in i..(Len(text) + 1)
  <2>1. RunEnd(text, i) \in i..(Len(text) + 1)
    BY RunEnds DEF TicksEnd
  <2>2. \A j : Closes(text, i, j) => RunEnd(text, j) \in j..(Len(text) + 1) /\ j > i
    BY <2>1, RunEnds DEF TicksEnd, Closes
  <2>3. CASE CodeSpanEnd(text, i) = i
    BY <2>3
  <2>4. CASE \E j : Closes(text, i, j) /\ CodeSpanEnd(text, i) = RunEnd(text, j)
    <3>1. PICK j : Closes(text, i, j) /\ CodeSpanEnd(text, i) = RunEnd(text, j)
      BY <2>4
    <3>2. RunEnd(text, j) \in j..(Len(text) + 1) /\ j > i /\ j \in Nat
      BY <2>1, <2>2, <3>1 DEF Closes
    <3> QED BY <3>1, <3>2
  <2> QED BY <2>3, <2>4, SpanEnds
<1>3. URLEnd(text, i) \in i..(Len(text) + 1)
  <2> DEFINE stops == {" ", ")", "]"}
             stop == IndexOf(text, stops, i)
  <2>1. URLEnd(text, i) = IF stop = 0 THEN Len(text) + 1 ELSE stop
    BY DEF URLEnd
  <2> HIDE DEF stops
  <2>2. stop = 0 \/ stop \in i..Len(text)
    BY IndexFound DEF FirstAt
  <2> HIDE DEF stop
  <2> QED BY <2>1, <2>2
<1> QED BY <1>1, <1>2, <1>3 DEF OpaqueEnd
-----------------------------------------------------------------------------
\* The references that are rewritten, the position the scan reads next, and whether
\* it rewrites what it reads.
Rewritable == Upstream \ Hints

NextAt(text, i) == IF OpaqueEnd(text, i) > i THEN OpaqueEnd(text, i) ELSE i + 1

Rewrites(text, i) ==
  OpaqueEnd(text, i) = i /\ BareRef(text, i, Numbers) /\ text[i] \in Rewritable

\* What the scan of text writes for what it reads at i.
Piece(text, i) ==
  IF Rewrites(text, i) THEN <<"up", text[i]>> ELSE SubSeq(text, i, NextAt(text, i) - 1)

\* out holds what the scan writes from each position on.
Scan(text, out) ==
  /\ DOMAIN out = 1..(Len(text) + 1)
  /\ out[Len(text) + 1] = <<>>
  /\ \A i \in 1..Len(text) : out[i] = Piece(text, i) \o out[NextAt(text, i)]

\* The scan always moves on.
LEMMA NextAtRange ==
  ASSUME NEW text \in Seq(Token), NEW i \in 1..Len(text)
  PROVE  NextAt(text, i) \in (i + 1)..(Len(text) + 1)
BY OpaqueEndRange DEF NextAt

\* A span of one position is its token.
LEMMA OneToken ==
  ASSUME NEW text \in Seq(Token), NEW i \in 1..Len(text)
  PROVE  SubSeq(text, i, i) = <<text[i]>>
<1>1. i \in i..Len(text) /\ i + 1 \in Int /\ i < i + 1 /\ text[i] \in Token
  OBVIOUS
<1>2. SubSeq(text, i, i) = <<text[i]>> \o SubSeq(text, i + 1, i)
  BY <1>1, SubSeqRecursiveFirst
<1>3. SubSeq(text, i + 1, i) = <<>>
  BY <1>1, SubSeqEmpty
<1>4. <<text[i]>> \in Seq(Token)
  BY <1>1
<1> QED BY <1>2, <1>3, <1>4, ConcatEmptySeq

\* The scan's recursive definition has a solution, built from the end of the text,
\* and RewriteBareUpstreamRefs is one.
LEMMA ScanDefined ==
  ASSUME NEW text \in Seq(Token), Upstream # {}
  PROVE  \E out : /\ Scan(text, out)
                 /\ RewriteBareUpstreamRefs(text, Numbers, Upstream, Hints) = out[1]
<1> DEFINE n == Len(text)
           D == 1..(n + 1)
           Step(f, i) ==
             IF i > Len(text) THEN <<>>
             ELSE IF OpaqueEnd(text, i) > i
             THEN SubSeq(text, i, OpaqueEnd(text, i) - 1) \o f[OpaqueEnd(text, i)]
             ELSE IF BareRef(text, i, Numbers) /\ text[i] \in Upstream \ Hints
             THEN <<"up", text[i]>> \o f[i + 1]
             ELSE <<text[i]>> \o f[i + 1]
           F(f) == [i \in D |-> Step(f, i)]
           out == CHOOSE f : f = F(f)
<1>1. n \in Nat
  OBVIOUS
<1>2. RewriteBareUpstreamRefs(text, Numbers, Upstream, Hints) = out[1]
  BY DEF RewriteBareUpstreamRefs
<1>3. ASSUME NEW f, NEW g, NEW i \in D, \A k \in (i + 1)..(n + 1) : f[k] = g[k]
      PROVE  Step(f, i) = Step(g, i)
  <2>1. CASE i = n + 1
    BY <2>1
  <2>2. CASE i \in 1..n
    <3>1. OpaqueEnd(text, i) \in i..(n + 1)
      BY <2>2, OpaqueEndRange
    <3>2. OpaqueEnd(text, i) > i => f[OpaqueEnd(text, i)] = g[OpaqueEnd(text, i)]
      BY <1>3, <3>1
    <3>3. f[i + 1] = g[i + 1]
      BY <1>3, <2>2
    <3> QED BY <3>2, <3>3
  <2> QED BY <2>1, <2>2
<1> HIDE DEF Step
<1> DEFINE Partial(f, k) == DOMAIN f = D /\ \A i \in k..(n + 1) : f[i] = Step(f, i)
           bad == {k \in D : ~ \E f : Partial(f, k)}
<1>4. bad = {}
  <2> SUFFICES ASSUME bad # {} PROVE FALSE
    OBVIOUS
  <2>1. PICK k \in bad : \A j \in bad : j =< k
    <3>1. bad \in SUBSET (1..(n + 1)) /\ n + 1 \in Nat
      OBVIOUS
    <3> HIDE DEF bad
    <3> QED BY <3>1, GreatestElement
  <2>2. PICK f : DOMAIN f = D /\ \A i \in (k + 1)..(n + 1) : f[i] = Step(f, i)
    <3>1. CASE k = n + 1
      <4>1. DOMAIN [i \in D |-> i] = D /\ (k + 1)..(n + 1) = {}
        BY <3>1
      <4> QED BY <4>1
    <3>2. CASE k # n + 1
      <4>1. k \in D /\ k + 1 \in D
        BY <3>2
      <4>2. k + 1 \notin bad
        <5> HIDE DEF bad
        <5> QED BY <2>1, <4>1
      <4>3. \E f : Partial(f, k + 1)
        BY <4>1, <4>2
      <4> QED BY <4>3
    <3> QED BY <3>1, <3>2
  <2> DEFINE g == [i \in D |-> IF i = k THEN Step(f, k) ELSE f[i]]
  <2>3. \A i \in (k + 1)..(n + 1) : g[i] = f[i] /\ Step(g, i) = Step(f, i)
    <3> TAKE i \in (k + 1)..(n + 1)
    <3>1. i \in D /\ \A l \in i..(n + 1) : g[l] = f[l]
      OBVIOUS
    <3> HIDE DEF g
    <3> QED BY <1>3, <3>1
  <2>4. g[k] = Step(f, k) /\ Step(g, k) = Step(f, k)
    <3>1. k \in D /\ g[k] = Step(f, k) /\ \A l \in (k + 1)..(n + 1) : g[l] = f[l]
      OBVIOUS
    <3> HIDE DEF g
    <3> QED BY <1>3, <3>1
  <2>5. DOMAIN g = D
    OBVIOUS
  <2> HIDE DEF g
  <2>6. Partial(g, k)
    <3> SUFFICES ASSUME NEW i \in k..(n + 1) PROVE g[i] = Step(g, i)
      BY <2>5
    <3>1. i = k \/ i \in (k + 1)..(n + 1)
      OBVIOUS
    <3> QED BY <2>2, <2>3, <2>4, <3>1
  <2> QED BY <2>1, <2>6
<1>5. PICK f : DOMAIN f = D /\ \A i \in D : f[i] = Step(f, i)
  <2>1. 1 \in D
    BY <1>1
  <2>2. 1 \notin bad
    <3> HIDE DEF bad
    <3> QED BY <1>4
  <2>3. \E f : Partial(f, 1)
    BY <2>1, <2>2
  <2> QED BY <2>3
<1>6. \E g : g = F(g)
  <2> DEFINE g == [i \in D |-> f[i]]
  <2>1. ASSUME NEW i \in D PROVE g[i] = Step(g, i)
    <3>1. g[i] = f[i] /\ \A k \in (i + 1)..(n + 1) : f[k] = g[k]
      OBVIOUS
    <3> HIDE DEF g
    <3> QED BY <1>3, <1>5, <3>1
  <2>2. g = F(g)
    <3>1. g = [i \in D |-> g[i]]
      OBVIOUS
    <3> HIDE DEF g
    <3> QED BY <2>1, <3>1
  <2> QED BY <2>2
<1>7. out = F(out)
  <2> HIDE DEF F
  <2> QED BY <1>6
<1> HIDE DEF out
<1>8. DOMAIN out = D /\ \A i \in D : out[i] = Step(out, i)
  BY <1>7
<1>9. out[n + 1] = <<>>
  <2>1. n + 1 \in D /\ n + 1 > Len(text)
    BY <1>1
  <2>2. Step(out, n + 1) = <<>>
    BY <2>1 DEF Step
  <2> QED BY <1>8, <2>1, <2>2
<1>10. ASSUME NEW i \in 1..n PROVE out[i] = Piece(text, i) \o out[NextAt(text, i)]
  <2>1. OpaqueEnd(text, i) \in i..(n + 1)
    BY OpaqueEndRange
  <2>2. SubSeq(text, i, i) = <<text[i]>>
    BY OneToken
  <2>3. i \in D /\ ~ (i > n) /\ (i + 1) - 1 = i
    OBVIOUS
  <2>4. CASE OpaqueEnd(text, i) > i
    <3>1. NextAt(text, i) = OpaqueEnd(text, i) /\ ~ Rewrites(text, i)
      BY <2>1, <2>4 DEF NextAt, Rewrites
    <3> QED BY <1>8, <2>3, <2>4, <3>1 DEF Step, Piece
  <2>5. CASE OpaqueEnd(text, i) = i
    <3>1. /\ NextAt(text, i) = i + 1
          /\ Rewrites(text, i) <=> BareRef(text, i, Numbers) /\ text[i] \in Upstream \ Hints
      BY <2>5 DEF NextAt, Rewrites, Rewritable
    <3>2. CASE Rewrites(text, i)
      <4>1. Piece(text, i) = <<"up", text[i]>>
        BY <3>2 DEF Piece
      <4>2. Step(out, i) = <<"up", text[i]>> \o out[i + 1]
        BY <2>3, <2>5, <3>1, <3>2 DEF Step
      <4> QED BY <1>8, <2>3, <3>1, <4>1, <4>2
    <3>3. CASE ~ Rewrites(text, i)
      <4>1. Piece(text, i) = <<text[i]>>
        BY <2>2, <2>3, <3>1, <3>3 DEF Piece
      <4>2. Step(out, i) = <<text[i]>> \o out[i + 1]
        BY <2>3, <2>5, <3>1, <3>3 DEF Step
      <4> QED BY <1>8, <2>3, <3>1, <4>1, <4>2
    <3> QED BY <3>2, <3>3
  <2> QED BY <2>1, <2>4, <2>5
<1> QED BY <1>2, <1>8, <1>9, <1>10 DEF Scan
-----------------------------------------------------------------------------
\* Where the scan of text from i on puts what it writes: at[j] is the position in
\* out of the first token written for the one at j, read are the positions the scan
\* looks at.
Written(text, i, out, at, read) ==
  /\ out \in Seq(Token)
  /\ at \in [i..(Len(text) + 1) -> 1..(Len(out) + 1)]
  /\ at[i] = 1
  /\ at[Len(text) + 1] = Len(out) + 1
  /\ \A j \in i..Len(text) :
       \/ at[j + 1] = at[j] + 1 /\ out[at[j]] = text[j]
       \/ /\ at[j + 1] = at[j] + 2
          /\ out[at[j]] = "up" /\ out[at[j] + 1] = text[j]
          /\ text[j] \in Numbers
  /\ read \subseteq i..(Len(text) + 1) /\ i \in read
  /\ \A j \in read : j =< Len(text) =>
       NextAt(text, j) \in read /\ (Rewrites(text, j) <=> at[j + 1] = at[j] + 2)

\* One step of the scan, in front of what the rest of it writes.
LEMMA PieceWritten ==
  ASSUME NEW text \in Seq(Token), NEW i \in 1..Len(text), NEW rest, NEW at, NEW read,
         Written(text, NextAt(text, i), rest, at, read)
  PROVE  \E at2, read2 : Written(text, i, Piece(text, i) \o rest, at2, read2)
<1> DEFINE n == Len(text)
           e == NextAt(text, i)
           piece == Piece(text, i)
           l == Len(piece)
           out == piece \o rest
           at2 == [j \in i..(n + 1) |-> IF j < e THEN j - i + 1 ELSE at[j] + l]
           read2 == {i} \cup read
<1>1. n \in Nat /\ i \in 1..n /\ e \in (i + 1)..(n + 1)
  BY NextAtRange
<1>2. \A j \in 1..n : text[j] \in Token
  OBVIOUS
<1>3. Rewrites(text, i) => e = i + 1 /\ text[i] \in Numbers
  BY <1>1 DEF Rewrites, NextAt, BareRef
<1>4. /\ piece \in Seq(Token)
      /\ \/ /\ Rewrites(text, i)
            /\ l = 2 /\ piece[1] = "up" /\ piece[2] = text[i]
         \/ /\ ~ Rewrites(text, i)
            /\ l = e - i /\ \A k \in 1..l : piece[k] = text[i + k - 1]
  <2>1. CASE Rewrites(text, i)
    <3>1. piece = <<"up", text[i]>>
      BY <2>1 DEF Piece
    <3>2. "up" \in Token /\ text[i] \in Token
      BY <1>2 DEF Token, Symbols
    <3> QED BY <2>1, <3>1, <3>2
  <2>2. CASE ~ Rewrites(text, i)
    <3>1. piece = SubSeq(text, i, e - 1)
      BY <2>2 DEF Piece
    <3>2. e - 1 \in Int /\ i \in Int /\ \A k \in i..(e - 1) : text[k] \in Token
      BY <1>1, <1>2
    <3>3. /\ piece \in Seq(Token)
          /\ l = IF i =< e - 1 THEN e - 1 - i + 1 ELSE 0
          /\ \A k \in 1..(e - 1 - i + 1) : piece[k] = text[i + k - 1]
      <4> HIDE DEF e, piece
      <4> QED BY <3>1, <3>2, SubSeqProperties
    <3> HIDE DEF e, piece
    <3> QED BY <1>1, <2>2, <3>3
  <2> QED BY <2>1, <2>2
<1>5. /\ rest \in Seq(Token)
      /\ at \in [e..(n + 1) -> 1..(Len(rest) + 1)]
      /\ at[e] = 1
      /\ at[n + 1] = Len(rest) + 1
      /\ \A j \in e..n :
           \/ at[j + 1] = at[j] + 1 /\ rest[at[j]] = text[j]
           \/ /\ at[j + 1] = at[j] + 2
              /\ rest[at[j]] = "up" /\ rest[at[j] + 1] = text[j]
              /\ text[j] \in Numbers
      /\ read \subseteq e..(n + 1) /\ e \in read
      /\ \A j \in read : j =< n =>
           NextAt(text, j) \in read /\ (Rewrites(text, j) <=> at[j + 1] = at[j] + 2)
  BY DEF Written
<1> HIDE DEF piece, n
<1>6. /\ out \in Seq(Token)
      /\ Len(out) = l + Len(rest)
      /\ \A k \in 1..(l + Len(rest)) : out[k] = IF k =< l THEN piece[k] ELSE rest[k - l]
  BY <1>4, <1>5, ConcatProperties
<1>7. l \in Nat /\ Len(rest) \in Nat
  BY <1>4, <1>5
<1> HIDE DEF out, l, e
<1>8. \A j \in i..(n + 1) : at2[j] = IF j < e THEN j - i + 1 ELSE at[j] + l
  OBVIOUS
<1>9. at2 \in [i..(n + 1) -> 1..(Len(out) + 1)]
  <2>1. ASSUME NEW j \in i..(n + 1) PROVE at2[j] \in 1..(Len(out) + 1)
    <3>1. CASE j < e
      BY <1>1, <1>3, <1>4, <1>6, <1>7, <1>8, <3>1
    <3>2. CASE ~ (j < e)
      <4>1. at[j] \in 1..(Len(rest) + 1)
        BY <1>1, <1>5, <3>2
      <4> QED BY <1>6, <1>7, <1>8, <3>2, <4>1
    <3> QED BY <3>1, <3>2
  <2> QED BY <2>1
<1> HIDE DEF at2
<1>10. at2[i] = 1 /\ at2[n + 1] = Len(out) + 1
  BY <1>1, <1>5, <1>6, <1>7, <1>8
<1>11. ASSUME NEW j \in i..n
       PROVE  \/ at2[j + 1] = at2[j] + 1 /\ out[at2[j]] = text[j]
              \/ /\ at2[j + 1] = at2[j] + 2
                 /\ out[at2[j]] = "up" /\ out[at2[j] + 1] = text[j]
                 /\ text[j] \in Numbers
  <2>1. CASE j < e /\ Rewrites(text, i)
    <3>1. j = i /\ e = i + 1 /\ l = 2
      BY <1>1, <1>3, <1>4, <2>1
    <3>2. at2[j] = 1 /\ at2[j + 1] = 3
      BY <1>1, <1>5, <1>8, <3>1
    <3>3. out[1] = "up" /\ out[2] = text[i]
      BY <1>4, <1>6, <1>7, <2>1, <3>1
    <3> QED BY <1>3, <2>1, <3>1, <3>2, <3>3
  <2>2. CASE j < e /\ ~ Rewrites(text, i)
    <3>1. l = e - i
      BY <1>4, <2>2
    <3>2. at2[j] = j - i + 1 /\ at2[j] \in 1..l
      BY <1>1, <1>8, <2>2, <3>1
    <3>3. at2[j + 1] = at2[j] + 1
      <4>1. j + 1 \in i..(n + 1)
        BY <1>1
      <4>2. CASE j + 1 < e
        BY <1>1, <1>8, <2>2, <4>1, <4>2
      <4>3. CASE j + 1 = e
        <5>1. at2[j + 1] = 1 + (e - i)
          <6>1. ~ (j + 1 < e)
            BY <1>1, <4>3
          <6>2. at2[j + 1] = at[j + 1] + l /\ at[j + 1] = 1
            BY <1>5, <1>8, <4>1, <4>3, <6>1
          <6> QED BY <3>1, <6>2
        <5>2. j \in Int /\ i \in Int /\ e \in Int
          BY <1>1
        <5> QED BY <3>2, <4>3, <5>1, <5>2
      <4> QED BY <1>1, <2>2, <4>2, <4>3
    <3>4. out[at2[j]] = piece[at2[j]]
      BY <1>6, <1>7, <3>2
    <3>5. piece[at2[j]] = text[i + at2[j] - 1] /\ i + at2[j] - 1 = j
      BY <1>1, <1>4, <2>2, <3>2
    <3> QED BY <3>3, <3>4, <3>5
  <2>3. CASE ~ (j < e)
    <3>1. j \in e..n /\ at2[j] = at[j] + l /\ at2[j + 1] = at[j + 1] + l
      BY <1>1, <1>8, <2>3
    <3>2. at[j] \in 1..(Len(rest) + 1) /\ at[j + 1] \in 1..(Len(rest) + 1)
      BY <1>1, <1>5, <3>1
    <3>3. \A k \in 1..Len(rest) : out[k + l] = rest[k]
      <4> TAKE k \in 1..Len(rest)
      <4>1. k + l \in 1..(l + Len(rest)) /\ ~ (k + l =< l) /\ (k + l) - l = k
        BY <1>7
      <4> QED BY <1>6, <4>1
    <3>4. CASE at[j + 1] = at[j] + 1 /\ rest[at[j]] = text[j]
      <4>1. at[j] \in 1..Len(rest)
        BY <1>7, <3>2, <3>4
      <4> QED BY SMTT(30), <1>7, <3>1, <3>2, <3>3, <3>4, <4>1
    <3>5. CASE /\ at[j + 1] = at[j] + 2
               /\ rest[at[j]] = "up" /\ rest[at[j] + 1] = text[j]
               /\ text[j] \in Numbers
      <4>1. at[j] \in 1..Len(rest) /\ at[j] + 1 \in 1..Len(rest)
        BY SMTT(30), <1>7, <3>2, <3>5
      <4>2. out[at[j] + l] = "up" /\ out[(at[j] + 1) + l] = text[j]
        BY <3>3, <3>5, <4>1
      <4>3. (at[j] + 1) + l = at2[j] + 1 /\ at2[j + 1] = at2[j] + 2
        <5>1. at[j] \in Nat /\ at[j + 1] \in Nat
          BY <1>7, <3>2
        <5>2. at2[j] = at[j] + l /\ at2[j + 1] = at[j + 1] + l /\ at[j + 1] = at[j] + 2
          BY <3>1, <3>5
        <5> QED BY <1>7, <5>1, <5>2
      <4> QED BY <3>1, <3>5, <4>2, <4>3
    <3> QED BY <1>5, <3>1, <3>4, <3>5
  <2> QED BY <2>1, <2>2, <2>3
<1>12. read2 \subseteq i..(n + 1) /\ i \in read2
  BY <1>1, <1>5
<1>13. ASSUME NEW j \in read2, j =< n
       PROVE  NextAt(text, j) \in read2 /\ (Rewrites(text, j) <=> at2[j + 1] = at2[j] + 2)
  <2>1. CASE j = i
    <3>1. NextAt(text, j) \in read2
      BY <1>5, <2>1 DEF e
    <3>2. CASE Rewrites(text, i)
      <4>1. at2[i + 1] = 3 /\ at2[i] = 1
        BY <1>1, <1>3, <1>4, <1>5, <1>8, <3>2
      <4> QED BY <2>1, <3>1, <3>2, <4>1
    <3>3. CASE ~ Rewrites(text, i)
      <4>1. l = e - i /\ i + 1 \in i..(n + 1)
        BY <1>1, <1>4, <3>3
      <4>2. at2[i + 1] = 2
        <5>1. CASE i + 1 < e
          BY <1>1, <1>8, <4>1, <5>1
        <5>2. CASE i + 1 = e
          <6>1. at2[i + 1] = at[i + 1] + l /\ at[i + 1] = 1
            BY <1>1, <1>5, <1>8, <4>1, <5>2
          <6> QED BY <1>1, <4>1, <5>2, <6>1
        <5> QED BY <1>1, <5>1, <5>2
      <4> QED BY <1>10, <2>1, <3>1, <3>3, <4>2
    <3> QED BY <3>2, <3>3
  <2>2. CASE j \in read
    <3>1. j \in e..n /\ at2[j] = at[j] + l /\ at2[j + 1] = at[j + 1] + l
      BY <1>1, <1>5, <1>8, <1>13, <2>2
    <3>2. at[j] \in Nat /\ at[j + 1] \in Nat
      BY SMTT(30), <1>1, <1>5, <1>7, <3>1
    <3>3. at2[j + 1] = at2[j] + 2 <=> at[j + 1] = at[j] + 2
      <4>1. at2[j] = at[j] + l /\ at2[j + 1] = at[j + 1] + l
        BY <3>1
      <4> QED BY SMTT(30), <1>7, <3>2, <4>1
    <3> QED BY <1>5, <1>13, <2>2, <3>3
  <2> QED BY <2>1, <2>2
<1> HIDE DEF read2
<1>14. Written(text, i, out, at2, read2)
  BY <1>6, <1>9, <1>10, <1>11, <1>12, <1>13 DEF Written, n
<1> QED BY <1>14 DEF out, piece

\* The whole scan, from any position on.
LEMMA ScanWritten ==
  ASSUME NEW text \in Seq(Token), NEW out, Scan(text, out)
  PROVE  \A i \in 1..(Len(text) + 1) : \E at, read : Written(text, i, out[i], at, read)
<1> DEFINE n == Len(text)
           bad == {i \in 1..(n + 1) : ~ \E at, read : Written(text, i, out[i], at, read)}
<1>1. n \in Nat
  OBVIOUS
<1>2. n + 1 \notin bad
  <2> DEFINE at == [j \in (n + 1)..(n + 1) |-> 1]
  <2>1. Written(text, n + 1, <<>>, at, {n + 1})
    <3>1. (n + 1)..n = {} /\ <<>> \in Seq(Token) /\ Len(<<>>) = 0
      OBVIOUS
    <3>2. at \in [(n + 1)..(n + 1) -> 1..(0 + 1)] /\ at[n + 1] = 1
      OBVIOUS
    <3>3. \A j \in {n + 1} : ~ (j =< n)
      OBVIOUS
    <3> HIDE DEF at
    <3> QED BY <3>1, <3>2, <3>3 DEF Written
  <2>2. out[n + 1] = <<>>
    BY DEF Scan
  <2> QED BY <2>1, <2>2
<1>3. bad = {}
  <2> SUFFICES ASSUME bad # {} PROVE FALSE
    OBVIOUS
  <2>1. PICK i \in bad : \A j \in bad : j =< i
    <3>1. bad \in SUBSET (1..(n + 1)) /\ n + 1 \in Nat
      OBVIOUS
    <3> HIDE DEF bad
    <3> QED BY <3>1, GreatestElement
  <2>2. i \in 1..n
    <3>1. i \in 1..(n + 1)
      OBVIOUS
    <3> HIDE DEF bad
    <3> QED BY <1>1, <1>2, <3>1
  <2>3. NextAt(text, i) \in (i + 1)..(n + 1)
    BY <2>2, NextAtRange
  <2>4. NextAt(text, i) \notin bad
    <3> HIDE DEF bad
    <3> QED BY <2>1, <2>2, <2>3
  <2>5. \E at, read : Written(text, NextAt(text, i), out[NextAt(text, i)], at, read)
    BY <2>2, <2>3, <2>4
  <2>6. \E at, read : Written(text, i, Piece(text, i) \o out[NextAt(text, i)], at, read)
    BY <2>2, <2>5, PieceWritten
  <2>7. out[i] = Piece(text, i) \o out[NextAt(text, i)]
    BY <2>2 DEF Scan
  <2> QED BY <2>6, <2>7
<1> QED BY <1>3
-----------------------------------------------------------------------------
\* The whole of text was written to out.
Rewritten(text, out, at, read) ==
  text \in Seq(Token) /\ Written(text, 1, out, at, read)

\* What Rewritten says token by token.
LEMMA InWhole ==
  ASSUME NEW text, NEW out, NEW at, NEW read, Rewritten(text, out, at, read)
  PROVE  /\ Len(text) \in Nat /\ Len(out) \in Nat
         /\ text \in Seq(Token) /\ out \in Seq(Token)
         /\ at \in [1..(Len(text) + 1) -> 1..(Len(out) + 1)]
         /\ at[1] = 1 /\ at[Len(text) + 1] = Len(out) + 1
         /\ \A j \in 1..Len(text) :
              /\ at[j + 1] = at[j] + 1 \/ at[j + 1] = at[j] + 2
              /\ at[j + 1] = at[j] + 1 => out[at[j]] = text[j]
              /\ at[j + 1] = at[j] + 2 => /\ out[at[j]] = "up"
                                         /\ out[at[j] + 1] = text[j]
                                         /\ text[j] \in Numbers
<1>1. /\ text \in Seq(Token) /\ out \in Seq(Token)
      /\ at \in [1..(Len(text) + 1) -> 1..(Len(out) + 1)]
      /\ at[1] = 1 /\ at[Len(text) + 1] = Len(out) + 1
  BY DEF Rewritten, Written
<1>2. Len(text) \in Nat /\ Len(out) \in Nat
  BY <1>1
<1>3. ASSUME NEW j \in 1..Len(text)
      PROVE  /\ at[j + 1] = at[j] + 1 \/ at[j + 1] = at[j] + 2
             /\ at[j + 1] = at[j] + 1 => out[at[j]] = text[j]
             /\ at[j + 1] = at[j] + 2 => /\ out[at[j]] = "up"
                                        /\ out[at[j] + 1] = text[j]
                                        /\ text[j] \in Numbers
  <2>1. at[j] \in Nat /\ at[j + 1] \in Nat
    BY <1>1, <1>2
  <2>2. \/ at[j + 1] = at[j] + 1 /\ out[at[j]] = text[j]
        \/ /\ at[j + 1] = at[j] + 2
           /\ out[at[j]] = "up" /\ out[at[j] + 1] = text[j]
           /\ text[j] \in Numbers
    BY DEF Rewritten, Written
  <2> QED BY <2>1, <2>2
<1> QED BY <1>1, <1>2, <1>3

\* Later tokens are written later.
LEMMA AtIncreases ==
  ASSUME NEW text, NEW out, NEW at, NEW read, Rewritten(text, out, at, read),
         NEW j \in 1..(Len(text) + 1), NEW k \in 1..(Len(text) + 1)
  PROVE  /\ at[j] \in 1..(Len(out) + 1)
         /\ j < k <=> at[j] < at[k]
         /\ j = k <=> at[j] = at[k]
<1> DEFINE n == Len(text)
<1>1. /\ n \in Nat /\ Len(out) \in Nat
      /\ at \in [1..(n + 1) -> 1..(Len(out) + 1)]
      /\ \A a \in 1..n : at[a + 1] = at[a] + 1 \/ at[a + 1] = at[a] + 2
  BY InWhole
<1> HIDE DEF n
<1>2. \A a \in 1..(n + 1) : at[a] \in Nat
  BY <1>1
<1>3. ASSUME NEW a \in 1..(n + 1) PROVE \A b \in (a + 1)..(n + 1) : at[a] < at[b]
  <2> DEFINE bad == {b \in (a + 1)..(n + 1) : ~ (at[a] < at[b])}
  <2> SUFFICES ASSUME bad # {} PROVE FALSE
    OBVIOUS
  <2>1. bad \in SUBSET Nat
    BY <1>1
  <2>2. PICK b \in bad : \A c \in bad : b =< c
    <3> HIDE DEF bad
    <3> QED BY <2>1, LeastElement
  <2>3. b \in (a + 1)..(n + 1) /\ ~ (at[a] < at[b])
    OBVIOUS
  <2>4. b - 1 \in a..n /\ b - 1 \notin bad
    <3>1. b - 1 \in a..n /\ ~ (b =< b - 1)
      BY <1>1, <2>3
    <3> HIDE DEF bad
    <3> QED BY <2>2, <3>1
  <2>5. at[a] =< at[b - 1]
    <3>1. at[a] \in Nat
      BY <1>2
    <3>2. CASE b - 1 = a
      BY <3>1, <3>2
    <3>3. CASE b - 1 # a
      <4>1. b - 1 \in (a + 1)..(n + 1)
        BY <1>1, <2>4, <3>3
      <4>2. at[a] < at[b - 1]
        BY <2>4, <4>1
      <4>3. at[b - 1] \in Nat
        BY <1>2, <4>1
      <4> HIDE DEF bad
      <4> QED BY <3>1, <4>2, <4>3
    <3> QED BY <3>2, <3>3
  <2>6. at[b] > at[b - 1]
    <3>1. (b - 1) + 1 = b /\ b - 1 \in 1..n
      BY <1>1, <2>4
    <3>2. at[b - 1] \in Nat /\ at[b] \in Nat
      BY <1>1, <1>2, <3>1
    <3>3. at[b] = at[b - 1] + 1 \/ at[b] = at[b - 1] + 2
      BY <1>1, <3>1
    <3> HIDE DEF bad
    <3> QED BY <3>2, <3>3
  <2>7. at[b - 1] \in Nat /\ at[b] \in Nat /\ at[a] \in Nat
    BY SMTT(30), <1>1, <1>2, <2>3, <2>4
  <2> HIDE DEF bad
  <2> QED BY <2>3, <2>5, <2>6, <2>7
<1>4. j \in 1..(n + 1) /\ k \in 1..(n + 1)
  BY DEF n
<1>5. (j < k => at[j] < at[k]) /\ (k < j => at[k] < at[j]) /\ (j = k => at[j] = at[k])
  BY <1>1, <1>3, <1>4
<1>6. at[j] \in Nat /\ at[k] \in Nat /\ j \in Nat /\ k \in Nat
  BY <1>1, <1>2, <1>4
<1> QED BY <1>1, <1>4, <1>5, <1>6

\* Every token of out was written for one of text, as it is or after an "up".
LEMMA WrittenFor ==
  ASSUME NEW text, NEW out, NEW at, NEW read, Rewritten(text, out, at, read),
         NEW p \in 1..Len(out)
  PROVE  \E j \in 1..Len(text) :
           p = at[j] \/ (p = at[j] + 1 /\ at[j + 1] = at[j] + 2)
<1> DEFINE n == Len(text)
           below == {j \in 1..(n + 1) : at[j] =< p}
<1>1. /\ n \in Nat /\ Len(out) \in Nat
      /\ at \in [1..(n + 1) -> 1..(Len(out) + 1)]
      /\ at[1] = 1 /\ at[n + 1] = Len(out) + 1
      /\ \A a \in 1..n : at[a + 1] = at[a] + 1 \/ at[a + 1] = at[a] + 2
  BY InWhole
<1> HIDE DEF n
<1>2. 1 \in below /\ n + 1 \notin below
  BY <1>1
<1>3. PICK j \in below : \A k \in below : k =< j
  <2>1. below \in SUBSET (1..(n + 1)) /\ n + 1 \in Nat
    BY <1>1
  <2> HIDE DEF below
  <2> QED BY <1>2, <2>1, GreatestElement
<1>4. j \in 1..n /\ at[j] =< p
  <2>1. j \in 1..(n + 1) /\ at[j] =< p /\ j # n + 1
    <3>1. j \in 1..(n + 1) /\ at[j] =< p
      OBVIOUS
    <3> HIDE DEF below
    <3> QED BY <1>2, <3>1
  <2> QED BY <1>1, <2>1
<1>5. at[j + 1] > p
  <2>1. j + 1 \in 1..(n + 1) /\ ~ (j + 1 =< j)
    BY <1>1, <1>4
  <2>2. j + 1 \notin below
    <3> HIDE DEF below
    <3> QED BY <1>3, <2>1
  <2>3. at[j + 1] \in Nat /\ p \in Nat
    BY <1>1, <2>1
  <2> QED BY <2>1, <2>2, <2>3
<1>6. at[j] \in Nat /\ at[j + 1] \in Nat
  BY <1>1, <1>4
<1>7. p = at[j] \/ (p = at[j] + 1 /\ at[j + 1] = at[j] + 2)
  <2>1. at[j + 1] = at[j] + 1 \/ at[j + 1] = at[j] + 2
    BY <1>1, <1>4
  <2>2. at[j] =< p /\ p < at[j + 1] /\ p \in Nat
    BY <1>1, <1>4, <1>5, <1>6
  <2> HIDE DEF below
  <2> QED BY <1>6, <2>1, <2>2
<1> QED BY <1>4, <1>7 DEF n

\* A token other than those of Numbers and "up" is in out where it was written for one of text.
Kept == Symbols \ {"up"}

\* Tokens of Kept are where they were written, and no other becomes one.
LEMMA KeptWhere ==
  ASSUME NEW text, NEW out, NEW at, NEW read, Rewritten(text, out, at, read)
  PROVE  /\ \A j \in 1..Len(text) : text[j] \in Kept =>
              at[j + 1] = at[j] + 1 /\ out[at[j]] = text[j]
         /\ \A p \in 1..Len(out) : out[p] \in Kept =>
              \E j \in 1..Len(text) : p = at[j] /\ text[j] = out[p]
         /\ \A j \in 1..Len(text) : text[j] \notin Kept => out[at[j]] \notin Kept
<1>1. \A j \in 1..Len(text) :
        /\ at[j + 1] = at[j] + 1 \/ at[j + 1] = at[j] + 2
        /\ at[j + 1] = at[j] + 1 => out[at[j]] = text[j]
        /\ at[j + 1] = at[j] + 2 => /\ out[at[j]] = "up"
                                   /\ out[at[j] + 1] = text[j]
                                   /\ text[j] \in Numbers
  BY InWhole
<1>2. "up" \notin Kept /\ \A t \in Numbers : t \notin Kept
  <2>1. \A t \in Numbers : t \notin Symbols
    BY TextsAssumption
  <2> QED BY <2>1 DEF Kept
<1>3. ASSUME NEW p \in 1..Len(out), out[p] \in Kept
      PROVE  \E j \in 1..Len(text) : p = at[j] /\ text[j] = out[p]
  <2>1. PICK j \in 1..Len(text) : p = at[j] \/ (p = at[j] + 1 /\ at[j + 1] = at[j] + 2)
    BY WrittenFor
  <2>2. ~ (p = at[j] + 1 /\ at[j + 1] = at[j] + 2)
    BY <1>1, <1>2, <1>3
  <2>3. p = at[j] /\ at[j + 1] = at[j] + 1
    BY <1>1, <1>2, <1>3, <2>1, <2>2
  <2> QED BY <1>1, <2>3
<1>4. ASSUME NEW j \in 1..Len(text), text[j] \in Kept
      PROVE  at[j + 1] = at[j] + 1 /\ out[at[j]] = text[j]
  <2>1. at[j + 1] # at[j] + 2
    BY <1>1, <1>2, <1>4
  <2> QED BY <1>1, <2>1
<1>5. ASSUME NEW j \in 1..Len(text), text[j] \notin Kept
      PROVE  out[at[j]] \notin Kept
  <2>1. out[at[j]] = text[j] \/ out[at[j]] = "up"
    BY <1>1
  <2> QED BY <1>2, <1>5, <2>1
<1> QED BY <1>3, <1>4, <1>5

\* The last token written for the one before j is that token.
LEMMA TokenBefore ==
  ASSUME NEW text, NEW out, NEW at, NEW read, Rewritten(text, out, at, read),
         NEW j \in 2..(Len(text) + 1)
  PROVE  out[at[j] - 1] = text[j - 1]
<1>1. /\ Len(text) \in Nat /\ Len(out) \in Nat
      /\ at \in [1..(Len(text) + 1) -> 1..(Len(out) + 1)]
      /\ \A k \in 1..Len(text) :
              /\ at[k + 1] = at[k] + 1 \/ at[k + 1] = at[k] + 2
              /\ at[k + 1] = at[k] + 1 => out[at[k]] = text[k]
              /\ at[k + 1] = at[k] + 2 => out[at[k] + 1] = text[k]
  BY InWhole
<1>2. j - 1 \in 1..Len(text) /\ (j - 1) + 1 = j
  BY <1>1
<1>3. at[j - 1] \in Nat
  <2>1. j - 1 \in 1..(Len(text) + 1) /\ \A p \in 1..(Len(out) + 1) : p \in Nat
    BY <1>1
  <2> QED BY <1>1, <2>1
<1>4. CASE at[j] = at[j - 1] + 1 /\ out[at[j - 1]] = text[j - 1]
  <2>1. at[j] - 1 = at[j - 1]
    BY <1>3, <1>4
  <2> QED BY <1>4, <2>1
<1>5. CASE at[j] = at[j - 1] + 2 /\ out[at[j - 1] + 1] = text[j - 1]
  <2>1. at[j] - 1 = at[j - 1] + 1
    BY <1>3, <1>5
  <2> QED BY <1>5, <2>1
<1> QED BY <1>1, <1>2, <1>4, <1>5

\* Tokens are found again where they were written.
LEMMA IndexMoves ==
  ASSUME NEW text, NEW out, NEW at, NEW read, Rewritten(text, out, at, read),
         NEW ts, ts \subseteq Kept, NEW i \in 1..(Len(text) + 1)
  PROVE  IndexOf(out, ts, at[i])
           = IF IndexOf(text, ts, i) = 0 THEN 0 ELSE at[IndexOf(text, ts, i)]
<1> DEFINE n == Len(text)
           x == IndexOf(text, ts, i)
<1>1. /\ n \in Nat /\ Len(out) \in Nat /\ text \in Seq(Token) /\ out \in Seq(Token)
      /\ at \in [1..(n + 1) -> 1..(Len(out) + 1)] /\ at[n + 1] = Len(out) + 1
  BY InWhole
<1>2. \A j, k \in 1..(n + 1) : j < k <=> at[j] < at[k]
  BY AtIncreases
<1>3. at[i] \in Nat /\ i \in Nat
  BY <1>1
<1>4. \/ x = 0 /\ \A k \in i..n : text[k] \notin ts
      \/ FirstAt(text, ts, i, x)
  BY <1>1, <1>3, IndexFound
<1>5. ASSUME NEW p \in at[i]..Len(out), out[p] \in ts
      PROVE  \E j \in i..n : p = at[j] /\ text[j] \in ts
  <2>1. p \in 1..Len(out)
    BY <1>1
  <2>2. PICK j \in 1..n : p = at[j] /\ text[j] = out[p]
    BY <1>5, <2>1, KeptWhere
  <2>3. ~ (at[j] < at[i])
    BY <1>1, <2>1, <2>2
  <2>4. j \in i..n
    BY <1>1, <1>2, <2>2, <2>3
  <2> QED BY <1>5, <2>2, <2>4
<1> HIDE DEF x
<1>6. CASE x = 0 /\ \A k \in i..n : text[k] \notin ts
  <2>1. \A p \in at[i]..Len(out) : out[p] \notin ts
    BY <1>5, <1>6
  <2>2. IndexOf(out, ts, at[i]) = 0
    BY <1>1, <1>3, <2>1, NoIndex
  <2> QED BY <1>6, <2>2 DEF x
<1>7. CASE FirstAt(text, ts, i, x)
  <2>1. x \in i..n /\ text[x] \in ts /\ \A k \in i..(x - 1) : text[k] \notin ts
    BY <1>7 DEF FirstAt
  <2>2. x \in 1..n /\ out[at[x]] \in ts
    BY <1>1, <2>1, KeptWhere
  <2>3. at[x] \in at[i]..Len(out)
    <3>1. at[i] =< at[x] /\ at[x] < at[n + 1]
      <4>1. x \in 1..(n + 1) /\ n + 1 \in 1..(n + 1) /\ x < n + 1 /\ (i = x \/ i < x)
        BY <1>1, <2>1, <2>2
      <4>2. at[x] \in Nat
        BY SMTT(30), <1>1, <4>1
      <4> QED BY <1>2, <1>3, <4>1, <4>2
    <3>2. at[x] \in Nat
      BY <1>1, <2>2
    <3> QED BY <1>1, <1>3, <3>1, <3>2
  <2>4. ASSUME NEW p \in at[i]..(at[x] - 1) PROVE out[p] \notin ts
    <3> SUFFICES ASSUME out[p] \in ts PROVE FALSE
      OBVIOUS
    <3>1. p \in at[i]..Len(out) /\ p < at[x]
      BY <1>1, <1>3, <2>3
    <3>2. PICK j \in i..n : p = at[j] /\ text[j] \in ts
      BY <1>5, <3>1
    <3>3. j < x
      BY <1>1, <1>2, <2>2, <3>1, <3>2
    <3> QED BY <1>1, <2>1, <3>2, <3>3
  <2>5. FirstAt(out, ts, at[i], at[x])
    BY <2>2, <2>3, <2>4 DEF FirstAt
  <2>6. IndexOf(out, ts, at[i]) = at[x]
    BY <1>1, <1>3, <2>5, IndexIs
  <2>7. x # 0
    BY <2>1
  <2> QED BY <2>6, <2>7 DEF x
<1> QED BY <1>4, <1>6, <1>7

\* A run of backticks is copied as it is.
LEMMA RunMoves ==
  ASSUME NEW text, NEW out, NEW at, NEW read, Rewritten(text, out, at, read),
         NEW i \in 1..(Len(text) + 1)
  PROVE  /\ RunEnd(text, i) \in i..(Len(text) + 1)
         /\ RunEnd(out, at[i]) = at[RunEnd(text, i)]
         /\ at[RunEnd(text, i)] - at[i] = RunEnd(text, i) - i
<1> DEFINE n == Len(text)
           r == RunEnd(text, i)
<1>1. /\ n \in Nat /\ Len(out) \in Nat /\ text \in Seq(Token) /\ out \in Seq(Token)
      /\ at \in [1..(n + 1) -> 1..(Len(out) + 1)] /\ at[n + 1] = Len(out) + 1
  BY InWhole
<1>2. \A j, k \in 1..(n + 1) : j < k <=> at[j] < at[k]
  BY AtIncreases
<1>3. at[i] \in Nat /\ i \in Nat /\ at[i] \in 1..(Len(out) + 1)
  BY <1>1
<1>4. /\ r \in i..(n + 1)
      /\ \A k \in i..(r - 1) : text[k] = "tick"
      /\ r =< n => text[r] # "tick"
  BY <1>1, RunEnds DEF TicksEnd
<1> HIDE DEF r, n
<1>5. "tick" \in Kept
  BY DEF Kept, Symbols
<1>6. \A k \in i..(r - 1) : at[k + 1] = at[k] + 1 /\ out[at[k]] = "tick"
  <2> TAKE k \in i..(r - 1)
  <2>1. k \in 1..n /\ text[k] = "tick"
    BY <1>1, <1>3, <1>4
  <2> QED BY <1>5, <2>1, KeptWhere DEF n
<1>7. \A k \in i..r : at[k] = at[i] + (k - i)
  <2> DEFINE bad == {k \in i..r : at[k] # at[i] + (k - i)}
  <2> SUFFICES ASSUME bad # {} PROVE FALSE
    OBVIOUS
  <2>1. bad \in SUBSET Nat
    BY <1>3
  <2>2. PICK k \in bad : \A l \in bad : k =< l
    <3> HIDE DEF bad
    <3> QED BY <2>1, LeastElement
  <2>3. k \in i..r /\ at[k] # at[i] + (k - i)
    OBVIOUS
  <2>4. k # i
    BY <1>3, <2>3
  <2>5. k - 1 \in i..(r - 1) /\ (k - 1) + 1 = k /\ k - 1 \in i..r /\ ~ (k =< k - 1)
    BY <1>3, <1>4, <2>3, <2>4
  <2>6. k - 1 \notin bad
    <3> HIDE DEF bad
    <3> QED BY <2>2, <2>5
  <2>7. at[k - 1] = at[i] + ((k - 1) - i)
    BY <2>5, <2>6
  <2>8. at[k] = at[k - 1] + 1
    BY <1>6, <2>5
  <2>9. k \in Int
    BY <2>3
  <2> HIDE DEF bad
  <2> QED BY <1>3, <2>3, <2>7, <2>8, <2>9
<1>8. at[r] = at[i] + (r - i) /\ r \in Nat /\ at[r] \in 1..(Len(out) + 1)
  BY <1>1, <1>3, <1>4, <1>7
<1>9. TicksEnd(out, at[i], at[r])
  <2>1. at[r] \in at[i]..(Len(out) + 1)
    BY <1>1, <1>3, <1>4, <1>8
  <2>2. ASSUME NEW p \in at[i]..(at[r] - 1) PROVE out[p] = "tick"
    <3> DEFINE k == i + (p - at[i])
    <3>1. k \in i..(r - 1) /\ k \in i..r /\ p = at[i] + (k - i)
      BY <1>3, <1>4, <1>8
    <3> HIDE DEF k
    <3>2. at[k] = p
      BY <1>7, <3>1
    <3> QED BY <1>6, <3>1, <3>2
  <2>3. ASSUME at[r] =< Len(out) PROVE out[at[r]] # "tick"
    <3>1. r \in 1..n
      <4>1. r # n + 1
        BY <1>1, <2>3
      <4> QED BY <1>1, <1>3, <1>4, <4>1
    <3>2. text[r] # "tick"
      BY <1>1, <1>4, <3>1
    <3>3. CASE text[r] \in Kept
      BY <3>1, <3>2, <3>3, KeptWhere DEF n
    <3>4. CASE text[r] \notin Kept
      BY <1>5, <3>1, <3>4, KeptWhere DEF n
    <3> QED BY <3>3, <3>4
  <2> QED BY <2>1, <2>2, <2>3 DEF TicksEnd
<1>10. RunEnd(out, at[i]) = at[r]
  BY <1>1, <1>3, <1>9, RunEndIs
<1>11. at[r] - at[i] = r - i
  BY <1>3, <1>8
<1> QED BY <1>4, <1>10, <1>11 DEF r, n

\* A markdown link ends where its end was written, and none appears.
LEMMA LinkEndMoves ==
  ASSUME NEW text, NEW out, NEW at, NEW read, Rewritten(text, out, at, read),
         NEW i \in 1..Len(text), text[i] = "["
  PROVE  MarkdownLinkEnd(out, at[i]) = at[MarkdownLinkEnd(text, i)]
<1> DEFINE n == Len(text)
           IsLink(t, b, p) == b > 0 /\ b < Len(t) /\ t[b + 1] = "(" /\ p > 0
           b == IndexOf(text, {"]"}, i + 1)
           p == IF b = 0 THEN 0 ELSE IndexOf(text, {")"}, b + 2)
           c == IndexOf(out, {"]"}, at[i] + 1)
           q == IF c = 0 THEN 0 ELSE IndexOf(out, {")"}, c + 2)
<1>1. /\ n \in Nat /\ Len(out) \in Nat /\ text \in Seq(Token) /\ out \in Seq(Token)
      /\ at \in [1..(n + 1) -> 1..(Len(out) + 1)] /\ at[n + 1] = Len(out) + 1
  BY InWhole
<1>2. MarkdownLinkEnd(text, i) = IF IsLink(text, b, p) THEN p + 1 ELSE i
  BY DEF MarkdownLinkEnd
<1>3. MarkdownLinkEnd(out, at[i]) = IF IsLink(out, c, q) THEN q + 1 ELSE at[i]
  BY DEF MarkdownLinkEnd
<1>4. /\ "[" \in Kept /\ "]" \in Kept /\ "(" \in Kept /\ ")" \in Kept
      /\ {"]"} \subseteq Kept /\ {")"} \subseteq Kept
  BY DEF Kept, Symbols
<1>5. at[i + 1] = at[i] + 1 /\ i + 1 \in 1..(n + 1) /\ i + 1 \in Nat
  BY <1>1, <1>4, KeptWhere
<1>6. c = IF b = 0 THEN 0 ELSE at[b]
  BY <1>4, <1>5, IndexMoves
<1>7. b = 0 \/ (b \in 2..n /\ text[b] = "]")
  <2>1. b = 0 \/ FirstAt(text, {"]"}, i + 1, b)
    BY <1>1, <1>5, IndexFound
  <2> HIDE DEF b
  <2> QED BY <1>1, <2>1 DEF FirstAt
<1> HIDE DEF b, c
<1>8. CASE b = 0
  <2>1. c = 0
    BY <1>6, <1>8
  <2> QED BY <1>2, <1>3, <1>8, <2>1
<1>9. CASE b \in 2..n /\ text[b] = "]"
  <2>1. c = at[b] /\ b # 0
    BY <1>6, <1>9
  <2>2. at[b + 1] = at[b] + 1 /\ at[b] \in 1..(Len(out) + 1) /\ b \in 1..n
    <3>1. b \in 1..n /\ b \in 1..(n + 1) /\ text[b] \in Kept
      BY <1>1, <1>4, <1>9
    <3>2. at[b + 1] = at[b] + 1
      BY <3>1, KeptWhere
    <3> QED BY <1>1, <3>1, <3>2
  <2>3. b < n <=> c < Len(out)
    <3>1. at[b + 1] \in 1..(Len(out) + 1) /\ b + 1 \in 1..(n + 1) /\ n + 1 \in 1..(n + 1)
      BY <1>1, <2>2
    <3>2. b + 1 < n + 1 <=> at[b + 1] < at[n + 1]
      BY <3>1, AtIncreases
    <3> QED BY <1>1, <2>1, <2>2, <3>1, <3>2
  <2>4. b < n => (text[b + 1] = "(" <=> out[c + 1] = "(")
    <3> SUFFICES ASSUME b < n PROVE text[b + 1] = "(" <=> out[at[b + 1]] = "("
      BY <2>1, <2>2
    <3>1. b + 1 \in 1..n
      BY <1>1, <2>2
    <3>2. CASE text[b + 1] \in Kept
      BY <3>1, <3>2, KeptWhere
    <3>3. CASE text[b + 1] \notin Kept
      BY <1>4, <3>1, <3>3, KeptWhere
    <3> QED BY <3>2, <3>3
  <2>5. CASE ~ (b < n /\ text[b + 1] = "(")
    BY <1>2, <1>3, <2>3, <2>4, <2>5
  <2>6. CASE b < n /\ text[b + 1] = "("
    <3>1. b + 1 \in 1..n /\ b + 2 \in 1..(n + 1) /\ (b + 1) + 1 = b + 2 /\ b + 2 \in Nat
      BY <1>1, <2>2, <2>6
    <3>2. at[b + 2] = at[b + 1] + 1
      BY <1>4, <2>6, <3>1, KeptWhere
    <3>3. at[b + 2] = c + 2 /\ c \in Nat /\ c > 0
      BY <2>1, <2>2, <3>2
    <3>4. p = IndexOf(text, {")"}, b + 2) /\ q = IndexOf(out, {")"}, at[b + 2])
      BY <2>1, <3>3
    <3>5. q = IF p = 0 THEN 0 ELSE at[p]
      BY <1>4, <3>1, <3>4, IndexMoves
    <3>6. p = 0 \/ (p \in 1..n /\ text[p] = ")")
      <4>1. p = 0 \/ FirstAt(text, {")"}, b + 2, p)
        BY <1>1, <3>1, <3>4, IndexFound
      <4> HIDE DEF p
      <4> QED BY <1>1, <3>1, <4>1 DEF FirstAt
    <3> HIDE DEF p, q
    <3>7. CASE p = 0
      BY <1>2, <1>3, <3>5, <3>7
    <3>8. CASE p \in 1..n /\ text[p] = ")"
      <4>1. at[p + 1] = at[p] + 1 /\ q = at[p] /\ at[p] \in 1..(Len(out) + 1)
        <5>1. p \in 1..n /\ p \in 1..(n + 1) /\ text[p] \in Kept /\ p # 0
          BY <1>1, <1>4, <3>8
        <5>2. at[p + 1] = at[p] + 1
          BY <5>1, KeptWhere
        <5> QED BY <1>1, <3>5, <5>1, <5>2
      <4>2. p > 0 /\ q > 0 /\ b > 0
        BY <1>1, <2>2, <3>8, <4>1
      <4>3. IsLink(text, b, p) /\ IsLink(out, c, q)
        BY <2>3, <2>4, <2>6, <3>3, <4>2
      <4> QED BY <1>2, <1>3, <4>1, <4>3
    <3> QED BY <3>6, <3>7, <3>8
  <2> QED BY <2>5, <2>6
<1> QED BY <1>7, <1>8, <1>9

\* So does a URL.
LEMMA URLEndMoves ==
  ASSUME NEW text, NEW out, NEW at, NEW read, Rewritten(text, out, at, read),
         NEW i \in 1..Len(text)
  PROVE  URLEnd(out, at[i]) = at[URLEnd(text, i)]
<1> DEFINE stops == {" ", ")", "]"}
           x == IndexOf(text, stops, i)
           y == IndexOf(out, stops, at[i])
<1>1. stops \subseteq Kept
  BY DEF Kept, Symbols
<1>2. /\ URLEnd(text, i) = IF x = 0 THEN Len(text) + 1 ELSE x
      /\ URLEnd(out, at[i]) = IF y = 0 THEN Len(out) + 1 ELSE y
  BY DEF URLEnd
<1> HIDE DEF stops
<1>3. /\ Len(text) \in Nat /\ Len(out) \in Nat /\ text \in Seq(Token)
      /\ at \in [1..(Len(text) + 1) -> 1..(Len(out) + 1)] /\ at[Len(text) + 1] = Len(out) + 1
  BY InWhole
<1>4. i \in Nat /\ i \in 1..(Len(text) + 1)
  BY <1>3
<1>5. y = IF x = 0 THEN 0 ELSE at[x]
  BY <1>1, <1>4, IndexMoves
<1>6. x = 0 \/ x \in 1..Len(text)
  <2>1. x = 0 \/ FirstAt(text, stops, i, x)
    BY <1>3, <1>4, IndexFound
  <2> HIDE DEF x
  <2> QED BY <1>3, <1>4, <2>1 DEF FirstAt
<1> HIDE DEF x, y
<1>7. x # 0 => at[x] # 0
  BY <1>3, <1>6
<1> QED BY <1>2, <1>3, <1>5, <1>7

\* So does a code span: the runs of backticks keep their lengths.
LEMMA SpanEndMoves ==
  ASSUME NEW text, NEW out, NEW at, NEW read, Rewritten(text, out, at, read),
         NEW i \in 1..Len(text), text[i] = "tick"
  PROVE  CodeSpanEnd(out, at[i]) = at[CodeSpanEnd(text, i)]
<1> DEFINE n == Len(text)
<1>1. /\ n \in Nat /\ Len(out) \in Nat /\ text \in Seq(Token) /\ out \in Seq(Token)
      /\ at \in [1..(n + 1) -> 1..(Len(out) + 1)] /\ at[n + 1] = Len(out) + 1
  BY InWhole
<1>2. \A j, k \in 1..(n + 1) : (j < k <=> at[j] < at[k]) /\ (j = k <=> at[j] = at[k])
  BY AtIncreases
<1>3. "tick" \in Kept
  BY DEF Kept, Symbols
<1> HIDE DEF n
<1>4. i \in 1..n /\ i \in 1..(n + 1) /\ at[i] \in 1..Len(out)
  <2>1. i \in 1..n /\ i \in 1..(n + 1) /\ n + 1 \in 1..(n + 1) /\ i < n + 1
    BY <1>1 DEF n
  <2>2. at[i] < at[n + 1]
    BY <1>2, <2>1
  <2> QED BY <1>1, <2>1, <2>2
<1>5. \A j \in 1..(n + 1) :
        /\ RunEnd(text, j) \in j..(n + 1)
        /\ RunEnd(out, at[j]) = at[RunEnd(text, j)]
        /\ at[RunEnd(text, j)] - at[j] = RunEnd(text, j) - j
  BY RunMoves DEF n
<1> DEFINE start == RunEnd(text, i)
<1>6. start \in i..(n + 1) /\ RunEnd(out, at[i]) = at[start]
  BY <1>4, <1>5
<1>7. ASSUME NEW j, Closes(text, i, j)
      PROVE  j \in 1..n /\ Closes(out, at[i], at[j])
  <2>1. /\ j \in (start + 1)..n /\ text[j] = "tick" /\ text[j - 1] # "tick"
        /\ RunEnd(text, j) - j = start - i
    BY <1>7 DEF Closes, n
  <2>2. j \in 2..n /\ j \in 1..n /\ j \in 1..(n + 1) /\ j \in 2..(n + 1) /\ start \in 1..(n + 1)
        /\ n + 1 \in 1..(n + 1) /\ start < j /\ j < n + 1
    BY SMTT(30), <1>1, <1>4, <1>6, <2>1
  <2>3. at[start] < at[j] /\ at[j] < at[n + 1]
    BY <1>2, <2>2
  <2>4. at[start] \in Nat /\ at[j] \in Nat
    BY <1>1, <2>2
  <2>5. at[j] \in (at[start] + 1)..Len(out)
    BY <1>1, <2>3, <2>4
  <2>6. out[at[j]] = "tick"
    BY <1>3, <2>1, <2>2, KeptWhere DEF n
  <2>7. out[at[j] - 1] # "tick"
    BY <2>1, <2>2, TokenBefore DEF n
  <2>8. RunEnd(out, at[j]) - at[j] = RunEnd(out, at[i]) - at[i]
    BY <1>4, <1>5, <2>1, <2>2
  <2>9. Closes(out, at[i], at[j])
    BY <1>6, <2>5, <2>6, <2>7, <2>8 DEF Closes
  <2> QED BY <2>2, <2>9
<1>8. ASSUME NEW p, Closes(out, at[i], p)
      PROVE  \E j \in 1..n : p = at[j] /\ Closes(text, i, j)
  <2>1. /\ p \in (at[start] + 1)..Len(out) /\ out[p] = "tick" /\ out[p - 1] # "tick"
        /\ RunEnd(out, p) - p = RunEnd(out, at[i]) - at[i]
    BY <1>6, <1>8 DEF Closes
  <2>2. start \in 1..(n + 1) /\ at[start] \in Nat /\ at[start] > 0
    BY <1>1, <1>4, <1>6
  <2>3. p \in 1..Len(out)
    BY <1>1, <2>1, <2>2
  <2>4. PICK j \in 1..n : p = at[j] /\ text[j] = "tick"
    BY <1>3, <2>1, <2>3, KeptWhere DEF n
  <2>5. at[start] < at[j] /\ j \in 1..(n + 1)
    BY <1>1, <2>1, <2>2, <2>4
  <2>6. start < j
    BY <1>2, <2>2, <2>5
  <2>7. j \in (start + 1)..n /\ j \in 2..(n + 1)
    BY <1>1, <2>2, <2>4, <2>6
  <2>8. text[j - 1] # "tick"
    BY <2>1, <2>4, <2>7, TokenBefore DEF n
  <2>9. RunEnd(text, j) - j = start - i
    BY <1>4, <1>5, <2>1, <2>4, <2>5
  <2>10. Closes(text, i, j)
    BY <2>4, <2>7, <2>8, <2>9 DEF Closes, n
  <2> QED BY <2>4, <2>10
<1> HIDE DEF start
<1>9. CASE CodeSpanEnd(text, i) = i /\ \A j : ~ Closes(text, i, j)
  <2>1. \A p : ~ Closes(out, at[i], p)
    BY <1>8, <1>9
  <2>2. CodeSpanEnd(out, at[i]) = at[i]
    BY <1>1, <1>4, <2>1, SpanEnds
  <2> QED BY <1>9, <2>2
<1>10. CASE \E j : /\ Closes(text, i, j)
                  /\ \A k : Closes(text, i, k) => j =< k
                  /\ CodeSpanEnd(text, i) = RunEnd(text, j)
  <2>1. PICK j : /\ Closes(text, i, j)
                 /\ \A k : Closes(text, i, k) => j =< k
                 /\ CodeSpanEnd(text, i) = RunEnd(text, j)
    BY <1>10
  <2>2. j \in 1..n /\ j \in 1..(n + 1) /\ Closes(out, at[i], at[j])
    BY <1>1, <1>7, <2>1
  <2>3. PICK p : /\ Closes(out, at[i], p)
                 /\ \A k : Closes(out, at[i], k) => p =< k
                 /\ CodeSpanEnd(out, at[i]) = RunEnd(out, p)
    BY <1>1, <1>4, <2>2, SpanEnds
  <2>4. PICK k \in 1..n : p = at[k] /\ Closes(text, i, k)
    BY <1>8, <2>3
  <2>5. j =< k /\ at[k] =< at[j] /\ k \in 1..(n + 1) /\ at[k] \in Nat /\ at[j] \in Nat
    BY <1>1, <2>1, <2>2, <2>3, <2>4
  <2>6. k = j
    BY <1>2, <2>2, <2>4, <2>5
  <2> QED BY <1>5, <2>1, <2>2, <2>3, <2>4, <2>6
<1> QED BY <1>1, <1>4, <1>9, <1>10, SpanEnds DEF n

\* What is copied unread is copied unread again.
LEMMA OpaqueEndMoves ==
  ASSUME NEW text, NEW out, NEW at, NEW read, Rewritten(text, out, at, read),
         NEW i \in 1..Len(text), at[i + 1] = at[i] + 1
  PROVE  OpaqueEnd(out, at[i]) = at[OpaqueEnd(text, i)]
<1>1. out[at[i]] = text[i]
  BY InWhole
<1>2. text[i] = "[" => MarkdownLinkEnd(out, at[i]) = at[MarkdownLinkEnd(text, i)]
  BY LinkEndMoves
<1>3. text[i] = "tick" => CodeSpanEnd(out, at[i]) = at[CodeSpanEnd(text, i)]
  BY SpanEndMoves
<1>4. URLEnd(out, at[i]) = at[URLEnd(text, i)]
  BY URLEndMoves
<1>5. CASE text[i] = "["
  BY <1>1, <1>2, <1>5 DEF OpaqueEnd
<1>6. CASE text[i] = "tick"
  BY <1>1, <1>3, <1>6 DEF OpaqueEnd
<1>7. CASE text[i] = "https://"
  BY <1>1, <1>4, <1>7 DEF OpaqueEnd
<1>8. CASE text[i] \notin {"[", "tick", "https://"}
  BY <1>1, <1>8 DEF OpaqueEnd
<1> QED BY <1>5, <1>6, <1>7, <1>8

\* The second scan, from the end: from the place of each token the first one looked
\* at, it writes what is there.
LEMMA WrittenAgain ==
  ASSUME NEW text, NEW out, NEW at, NEW read, Rewritten(text, out, at, read),
         NEW again, Scan(out, again)
  PROVE  again[1] = out
<1> DEFINE n == Len(text)
           l == Len(out)
           bad == {j \in read : again[at[j]] # SubSeq(out, at[j], l)}
<1>1. /\ n \in Nat /\ l \in Nat /\ text \in Seq(Token) /\ out \in Seq(Token)
      /\ at \in [1..(n + 1) -> 1..(l + 1)] /\ at[1] = 1 /\ at[n + 1] = l + 1
  BY InWhole
<1>2. /\ read \subseteq 1..(n + 1) /\ 1 \in read
      /\ \A j \in read : j =< n =>
           NextAt(text, j) \in read /\ (Rewrites(text, j) <=> at[j + 1] = at[j] + 2)
  BY DEF Rewritten, Written
<1>3. \A j, k \in 1..(n + 1) : (j < k <=> at[j] < at[k]) /\ (j = k <=> at[j] = at[k])
  BY AtIncreases
<1>4. again[l + 1] = <<>> /\ \A p \in 1..l : again[p] = Piece(out, p) \o again[NextAt(out, p)]
  BY DEF Scan
<1>5. \A j \in 1..n :
        /\ at[j + 1] = at[j] + 1 \/ at[j + 1] = at[j] + 2
        /\ at[j + 1] = at[j] + 1 => out[at[j]] = text[j]
        /\ at[j + 1] = at[j] + 2 => /\ out[at[j]] = "up"
                                   /\ out[at[j] + 1] = text[j]
                                   /\ text[j] \in Numbers
  BY InWhole
<1> HIDE DEF l
<1>6. ASSUME NEW p \in 1..l, NEW q \in (p + 1)..(l + 1),
             NextAt(out, p) = q, ~ Rewrites(out, p), again[q] = SubSeq(out, q, l)
      PROVE  again[p] = SubSeq(out, p, l)
  <2>1. again[p] = SubSeq(out, p, q - 1) \o SubSeq(out, q, l)
    BY <1>4, <1>6 DEF Piece
  <2>2. p \in 1..(Len(out) + 1) /\ q - 1 \in (p - 1)..Len(out) /\ l \in (q - 1)..Len(out)
        /\ (q - 1) + 1 = q
    BY <1>1 DEF l
  <2>3. SubSeq(out, p, q - 1) \o SubSeq(out, (q - 1) + 1, l) = SubSeq(out, p, l)
    BY <1>1, <2>2, ConcatAdjacentSubSeq
  <2> QED BY <2>1, <2>2, <2>3
<1>7. ASSUME NEW j \in read, j = n + 1
      PROVE  again[at[j]] = SubSeq(out, at[j], l)
  <2>1. SubSeq(out, l + 1, l) = <<>>
    <3>1. l + 1 \in Int /\ l \in Int /\ l < l + 1
      BY <1>1
    <3> QED BY <3>1, SubSeqEmpty
  <2> QED BY <1>1, <1>4, <1>7, <2>1
<1>8. ASSUME NEW j \in read, j \in 1..n, Rewrites(text, j),
             again[at[j + 1]] = SubSeq(out, at[j + 1], l)
      PROVE  again[at[j]] = SubSeq(out, at[j], l)
  <2> DEFINE p == at[j]
  <2>1. at[j + 1] = p + 2 /\ out[p] = "up" /\ out[p + 1] \in Numbers
    BY <1>2, <1>5, <1>8
  <2>2. p \in 1..(l + 1) /\ p \in Nat /\ at[j + 1] \in 1..(l + 1)
    <3>1. j \in 1..(n + 1) /\ j + 1 \in 1..(n + 1) /\ \A q \in 1..(l + 1) : q \in Nat
      BY <1>1, <1>8
    <3> HIDE DEF n
    <3> QED BY <1>1, <3>1
  <2>3. p \in 1..l /\ p + 1 \in 1..l /\ p + 1 \in (p + 1)..(l + 1) /\ p + 2 \in (p + 2)..(l + 1)
    <3> HIDE DEF p
    <3> QED BY <1>1, <2>1, <2>2
  <2> HIDE DEF p
  <2>4. \A t \in Numbers : t \notin {"[", "tick", "https://", "up"}
    BY TextsAssumption DEF Symbols
  <2>5. NextAt(out, p) = p + 1 /\ ~ Rewrites(out, p)
    BY <2>1, <2>2, <2>4 DEF NextAt, OpaqueEnd, Rewrites, BareRef
  <2>6. NextAt(out, p + 1) = p + 2 /\ ~ Rewrites(out, p + 1)
    <3>1. OpaqueEnd(out, p + 1) = p + 1
      BY <2>1, <2>4 DEF OpaqueEnd
    <3>2. ~ BareRef(out, p + 1, Numbers)
      <4>1. p + 1 > 1 /\ (p + 1) - 1 = p
        BY <2>2, <2>3
      <4> QED BY <2>1, <4>1 DEF BareRef, Qualifying
    <3> QED BY <2>2, <3>1, <3>2 DEF NextAt, Rewrites
  <2>7. again[p + 1] = SubSeq(out, p + 1, l)
    <3>1. p + 2 \in ((p + 1) + 1)..(l + 1)
      BY <1>1, <2>2, <2>3
    <3> QED BY <1>6, <1>8, <2>1, <2>3, <2>6, <3>1
  <2>8. again[p] = SubSeq(out, p, l)
    BY <1>6, <2>3, <2>5, <2>7
  <2> QED BY <2>8 DEF p
<1>9. ASSUME NEW j \in read, j \in 1..n, ~ Rewrites(text, j),
             again[at[NextAt(text, j)]] = SubSeq(out, at[NextAt(text, j)], l)
      PROVE  again[at[j]] = SubSeq(out, at[j], l)
  <2> DEFINE e == NextAt(text, j)
             o == OpaqueEnd(text, j)
  <2>1. at[j + 1] = at[j] + 1 /\ out[at[j]] = text[j]
    BY <1>2, <1>5, <1>9
  <2>2. OpaqueEnd(out, at[j]) = at[o]
    BY <1>9, <2>1, OpaqueEndMoves
  <2>3. o \in j..(n + 1)
    BY <1>1, <1>9, OpaqueEndRange
  <2>4. e = IF o > j THEN o ELSE j + 1
    BY DEF NextAt
  <2> HIDE DEF o, n
  <2>5. /\ j \in 1..(n + 1) /\ o \in 1..(n + 1) /\ j + 1 \in 1..(n + 1) /\ n + 1 \in 1..(n + 1)
        /\ j < n + 1 /\ (o > j \/ o = j)
    BY <1>1, <1>9, <2>3
  <2>6. at[j] \in Nat /\ at[o] \in Nat /\ at[j] < l + 1 /\ at[j] > 0
    BY <1>1, <1>3, <2>5
  <2>7. NextAt(out, at[j]) = at[e]
    <3>1. CASE o > j
      <4>1. at[o] > at[j]
        BY <1>3, <2>5, <2>6, <3>1
      <4> QED BY <2>2, <2>4, <3>1, <4>1 DEF NextAt
    <3>2. CASE o = j
      <4>1. ~ (at[o] > at[j]) /\ e = j + 1
        BY <1>9, <2>4, <2>6, <3>2
      <4> QED BY <2>1, <2>2, <4>1 DEF NextAt
    <3> QED BY <2>5, <3>1, <3>2
  <2>8. ~ Rewrites(out, at[j])
    <3> SUFFICES ASSUME Rewrites(out, at[j]) PROVE Rewrites(text, j)
      BY <1>9
    <3>1. /\ at[o] = at[j] /\ out[at[j]] \in Numbers /\ out[at[j]] \in Rewritable
          /\ at[j] > 1 => out[at[j] - 1] \notin Qualifying(Numbers)
      BY <2>2 DEF Rewrites, BareRef
    <3>2. o = j
      BY <1>3, <2>5, <3>1
    <3>3. ASSUME j > 1 PROVE text[j - 1] \notin Qualifying(Numbers)
      <4>1. j \in 2..(Len(text) + 1) /\ 1 \in 1..(n + 1) /\ 1 < j
        BY <1>1, <2>5, <3>3 DEF n
      <4>2. at[j] > 1
        BY <1>1, <1>3, <2>5, <2>6, <4>1
      <4>3. out[at[j] - 1] = text[j - 1]
        BY <4>1, TokenBefore
      <4> QED BY <3>1, <4>2, <4>3
    <3> QED BY <2>1, <3>1, <3>2, <3>3 DEF Rewrites, BareRef, o
  <2>9. at[j] \in 1..l /\ at[e] \in (at[j] + 1)..(l + 1)
    <3>1. e \in 1..(n + 1) /\ j < e
      BY <1>9, <2>4, <2>5
    <3>2. at[j] < at[e] /\ at[e] \in 1..(l + 1)
      BY <1>1, <1>3, <2>5, <3>1
    <3> HIDE DEF e
    <3> QED BY <1>1, <2>6, <3>2
  <2> HIDE DEF e
  <2> QED BY <1>6, <1>9, <2>7, <2>8, <2>9 DEF e
<1>10. bad = {}
  <2> SUFFICES ASSUME bad # {} PROVE FALSE
    OBVIOUS
  <2>1. PICK j \in bad : \A k \in bad : k =< j
    <3>1. n + 1 \in Nat
      BY <1>1
    <3>2. bad \subseteq read
      OBVIOUS
    <3> HIDE DEF bad, n
    <3>3. bad \in SUBSET (1..(n + 1))
      BY <1>2, <3>2
    <3> QED BY <3>1, <3>3, GreatestElement
  <2>2. j \in read /\ again[at[j]] # SubSeq(out, at[j], l) /\ j \in 1..(n + 1)
    BY <1>2
  <2>3. j \in 1..n
    BY <1>1, <1>7, <2>2
  <2>4. NextAt(text, j) \in read /\ NextAt(text, j) > j
    <3>1. NextAt(text, j) \in (j + 1)..(n + 1)
      BY <1>1, <2>3, NextAtRange
    <3>2. NextAt(text, j) \in read
      BY <1>2, <2>2, <2>3
    <3> QED BY <2>3, <3>1, <3>2
  <2>5. NextAt(text, j) \notin bad
    <3>1. NextAt(text, j) \in Nat /\ j \in Nat
      <4>1. \A q \in 1..(n + 1) : q \in Nat
        BY <1>1
      <4> HIDE DEF n, bad
      <4> QED BY <1>2, <2>2, <2>4, <4>1
    <3> HIDE DEF bad
    <3> QED BY <2>1, <2>4, <3>1
  <2>6. again[at[NextAt(text, j)]] = SubSeq(out, at[NextAt(text, j)], l)
    BY <2>4, <2>5
  <2>7. CASE Rewrites(text, j)
    <3>1. NextAt(text, j) = j + 1
      BY <2>3, <2>7 DEF NextAt, Rewrites
    <3> QED BY <1>8, <2>2, <2>3, <2>6, <2>7, <3>1
  <2>8. CASE ~ Rewrites(text, j)
    BY <1>9, <2>2, <2>3, <2>6, <2>8
  <2> QED BY <2>7, <2>8
<1>11. again[1] = SubSeq(out, 1, l)
  BY <1>1, <1>2, <1>10
<1> QED BY <1>1, <1>11, SubSeqFull DEF l

\* RewriteBareUpstreamRefs of what it returned is what it returned.
LEMMA RewrittenOnce ==
  ASSUME NEW text \in Seq(Token)
  PROVE  LET once == RewriteBareUpstreamRefs(text, Numbers, Upstream, Hints)
         IN RewriteBareUpstreamRefs(once, Numbers, Upstream, Hints) = once
<1> DEFINE once == RewriteBareUpstreamRefs(text, Numbers, Upstream, Hints)
<1>1. CASE Upstream = {}
  <2>1. \A t : RewriteBareUpstreamRefs(t, Numbers, Upstream, Hints) = t
    BY <1>1 DEF RewriteBareUpstreamRefs
  <2> QED BY <2>1
<1>2. CASE Upstream # {}
  <2>1. PICK out : Scan(text, out) /\ once = out[1]
    BY <1>2, ScanDefined
  <2>2. 1 \in 1..(Len(text) + 1)
    OBVIOUS
  <2>3. PICK at, read : Written(text, 1, once, at, read)
    BY <2>1, <2>2, ScanWritten
  <2>4. Rewritten(text, once, at, read) /\ once \in Seq(Token)
    BY <2>3 DEF Rewritten, Written
  <2> HIDE DEF once
  <2>5. PICK again :
          /\ Scan(once, again)
          /\ RewriteBareUpstreamRefs(once, Numbers, Upstream, Hints) = again[1]
    BY <1>2, <2>4, ScanDefined
  <2>6. again[1] = once
    BY <2>4, <2>5, WrittenAgain
  <2> QED BY <2>5, <2>6 DEF once
<1> QED BY <1>1, <1>2

\* The text asked about is one of Texts.
TextInv ==
  /\ question.kind = "text" => question.text \in Texts
  /\ RewriteIsIdempotent

\* RewriteBareUpstreamRefs (sanitize.go): for every text and every set of numbers,
\* upstream references and hints, rewriting again changes nothing.
THEOREM RewritingIdempotent == Spec => []RewriteIsIdempotent
<1>1. Init => TextInv
  BY DEF Init, NoAnswer, TextInv, RewriteIsIdempotent
<1>2. ASSUME TextInv, Rewrite PROVE TextInv'
  <2>1. question' = question /\ question.text \in Texts
    BY <1>2 DEF Rewrite, Asked, TextInv
  <2>2. question.text \in Seq(Token)
    BY <2>1, TextsAssumption DEF Token
  <2>3. answer'.text = RewriteBareUpstreamRefs(question.text, Numbers, Upstream, Hints)
    BY <1>2 DEF Rewrite
  <2>4. RewriteIsIdempotent'
    BY <2>2, <2>3, RewrittenOnce DEF RewriteIsIdempotent
  <2> QED BY <1>2, <2>1, <2>4 DEF TextInv
<1>3. ASSUME TextInv, Collect \/ Unite \/ Cluster \/ RankDocs \/ RankIssues PROVE TextInv'
  <2>1. question' = question
    BY <1>3 DEF Collect, Unite, Cluster, RankDocs, RankIssues, Asked
  <2>2. answer'.kind # "text"
    <3>1. CASE Collect \/ Cluster \/ RankDocs \/ RankIssues
      BY <3>1 DEF Collect, Cluster, RankDocs, RankIssues
    <3>2. CASE Unite
      BY <3>2 DEF Unite
    <3> QED BY <1>3, <3>1, <3>2
  <2> QED BY <1>3, <2>1, <2>2 DEF TextInv, RewriteIsIdempotent
<1>4. ASSUME TextInv, UNCHANGED vars PROVE TextInv'
  BY <1>4 DEF vars, TextInv, RewriteIsIdempotent
<1>5. TextInv /\ [Next]_vars => TextInv'
  BY <1>2, <1>3, <1>4 DEF Next
<1>6. TextInv => RewriteIsIdempotent
  BY DEF TextInv
<1> QED BY <1>1, <1>5, <1>6, PTL DEF Spec
=============================================================================
