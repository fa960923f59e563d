------------------------------ MODULE Hzip_proofs ------------------------------
(***************************************************************************)
(* Proofs about the Huffman tree and the two programs that use it.  The    *)
(* queue the tree is built with is never full, the trees in it are a       *)
(* forest of all nodes, and no tree codes the characters in fewer bits;    *)
(* the file huffc writes is the code of its input, and huffd decodes that  *)
(* input from it; the programs crash on two kinds of files and on a tree   *)
(* that was cut only; for every file, every width of a byte, whatever      *)
(* ties qsort breaks and whatever fails.                                   *)
(***************************************************************************)
EXTENDS Hzip, Sums_proofs, FiniteSetTheorems, TLAPS

-------------------------------------------------------------------------------
(* The trees below the nodes.                                              *)

\* Children have smaller ids than their parent, and there are two or none.
Grown(forest) ==
  \A n \in DOMAIN forest :
    /\ forest[n].left \in 0 .. n - 1 /\ forest[n].right \in 0 .. n - 1
    /\ forest[n].left = NULL <=> forest[n].right = NULL
    /\ forest[n].left = NULL <=> forest[n].type = "LEAF"

\* A function with the trees below the first n nodes.
Trees(f, forest, n) ==
  f = [m \in 0 .. n |-> IF m = NULL THEN {}
                        ELSE {m} \cup f[forest[m].left] \cup f[forest[m].right]]

\* There is one: the recursion of Below ends.
LEMMA TreesExist ==
  ASSUME NEW forest, NEW N \in Nat, DOMAIN forest = 1 .. N, Grown(forest)
  PROVE  \E f : Trees(f, forest, N)
<1> DEFINE S == {n \in Nat : n <= N => \E f : Trees(f, forest, n)}
<1>1. 0 \in S
  <2>1. Trees([m \in 0 .. 0 |-> {}], forest, 0)
    BY DEF Trees, NULL
  <2> QED
    BY <2>1
<1>2. ASSUME NEW n \in Nat, n \in S
      PROVE  n + 1 \in S
  <2> SUFFICES ASSUME n + 1 <= N PROVE \E f : Trees(f, forest, n + 1)
    OBVIOUS
  <2>1. PICK f : Trees(f, forest, n)
    BY <1>2
  <2> DEFINE new == {n + 1} \cup f[forest[n + 1].left] \cup f[forest[n + 1].right]
             g == [m \in 0 .. n + 1 |-> IF m = n + 1 THEN new ELSE f[m]]
  <2>2. \A m \in 0 .. n : f[m] = IF m = NULL THEN {}
                                 ELSE {m} \cup f[forest[m].left] \cup f[forest[m].right]
    BY <2>1 DEF Trees
  <2>3. \A m \in 1 .. n + 1 : forest[m].left \in 0 .. m - 1 /\ forest[m].right \in 0 .. m - 1
    BY DEF Grown
  <2>4. ASSUME NEW m \in 0 .. n + 1
        PROVE  g[m] = IF m = NULL THEN {}
                      ELSE {m} \cup g[forest[m].left] \cup g[forest[m].right]
    <3>1. CASE m = NULL
      <4>1. m \in 0 .. n /\ m # n + 1
        BY <3>1 DEF NULL
      <4> QED
        BY <2>2, <3>1, <4>1
    <3>2. CASE m # NULL
      <4>1. m \in 1 .. n + 1
        BY <3>2 DEF NULL
      <4>2. /\ forest[m].left \in 0 .. n + 1 /\ forest[m].left # n + 1
            /\ forest[m].right \in 0 .. n + 1 /\ forest[m].right # n + 1
        BY <2>3, <4>1
      <4>3. g[forest[m].left] = f[forest[m].left] /\ g[forest[m].right] = f[forest[m].right]
        BY <4>2
      <4>4. CASE m = n + 1
        BY <3>2, <4>3, <4>4
      <4>5. CASE m # n + 1
        <5>1. m \in 0 .. n /\ g[m] = f[m]
          BY <4>5
        <5> QED
          BY <2>2, <3>2, <4>3, <5>1
      <4> QED
        BY <4>4, <4>5
    <3> QED
      BY <3>1, <3>2
  <2>5. g = [m \in 0 .. n + 1 |-> g[m]]
    OBVIOUS
  <2> HIDE DEF g
  <2>6. Trees(g, forest, n + 1)
    BY <2>4, <2>5 DEF Trees
  <2> QED
    BY <2>6
<1> HIDE DEF S
<1>3. N \in S
  BY <1>1, <1>2, NatInductionOnSets
<1> QED
  BY <1>3 DEF S

\* What Below is.
LEMMA BelowIs ==
  ASSUME NEW forest, NEW N \in Nat, DOMAIN forest = 1 .. N, Len(forest) = N, Grown(forest)
  PROVE  /\ Below(NULL, forest) = {}
         /\ \A n \in 1 .. N :
              Below(n, forest) = {n} \cup Below(forest[n].left, forest)
                                     \cup Below(forest[n].right, forest)
<1> DEFINE f == CHOOSE x : Trees(x, forest, N)
<1>1. Trees(f, forest, N)
  BY TreesExist
<1>2. \A n : Below(n, forest) = f[n]
  BY DEF Below, Trees
<1> HIDE DEF f
<1>3. \A n \in 0 .. N : f[n] = IF n = NULL THEN {}
                               ELSE {n} \cup f[forest[n].left] \cup f[forest[n].right]
  BY <1>1 DEF Trees
<1>4. Below(NULL, forest) = {}
  <2>1. NULL \in 0 .. N
    BY DEF NULL
  <2>2. f[NULL] = {}
    BY ONLY <1>3, <2>1
  <2> QED
    BY <1>2, <2>2
<1>5. ASSUME NEW n \in 1 .. N
      PROVE  Below(n, forest) = {n} \cup Below(forest[n].left, forest)
                                    \cup Below(forest[n].right, forest)
  <2>1. n \in 0 .. N /\ n # NULL
    BY DEF NULL
  <2>2. f[n] = {n} \cup f[forest[n].left] \cup f[forest[n].right]
    BY <1>3, <2>1
  <2> QED
    BY ONLY <1>2, <2>2
<1> QED
  BY <1>4, <1>5

\* A tree has its root, and no node with a higher id.
LEMMA BelowBound ==
  ASSUME NEW forest, NEW N \in Nat, DOMAIN forest = 1 .. N, Len(forest) = N, Grown(forest)
  PROVE  \A n \in 0 .. N : Below(n, forest) \subseteq 1 .. n
<1> DEFINE S == {n \in Nat : \A m \in 0 .. n : m <= N => Below(m, forest) \subseteq 1 .. m}
<1>1. 0 \in S
  <2>1. Below(0, forest) = {}
    BY BelowIs DEF NULL
  <2> QED
    BY <2>1
<1>2. ASSUME NEW n \in Nat, n \in S
      PROVE  n + 1 \in S
  <2>1. ASSUME NEW m \in 0 .. n + 1, m <= N
        PROVE  Below(m, forest) \subseteq 1 .. m
    <3>1. CASE m <= n
      BY <1>2, <2>1, <3>1
    <3>2. CASE m = n + 1
      <4>1. /\ forest[m].left \in 0 .. m - 1 /\ forest[m].right \in 0 .. m - 1
            /\ m \in 1 .. N
        BY <2>1, <3>2 DEF Grown
      <4>2. Below(m, forest) = {m} \cup Below(forest[m].left, forest)
                                   \cup Below(forest[m].right, forest)
        BY <4>1, BelowIs
      <4>3. /\ Below(forest[m].left, forest) \subseteq 1 .. forest[m].left
            /\ Below(forest[m].right, forest) \subseteq 1 .. forest[m].right
        BY <1>2, <2>1, <3>2, <4>1
      <4> QED
        BY <4>1, <4>2, <4>3
    <3> QED
      BY <3>1, <3>2
  <2> QED
    BY <2>1
<1> HIDE DEF S
<1>3. Nat \subseteq S
  BY <1>1, <1>2, NatInductionOnSets
<1> QED
  BY <1>3 DEF S

\* A node more changes no tree of the nodes before it.
LEMMA BelowAgree ==
  ASSUME NEW f, NEW g, NEW N \in Nat, NEW M \in Nat, N <= M,
         DOMAIN f = 1 .. N, Len(f) = N, Grown(f),
         DOMAIN g = 1 .. M, Len(g) = M, Grown(g),
         \A n \in 1 .. N : f[n] = g[n]
  PROVE  \A n \in 0 .. N : Below(n, f) = Below(n, g)
<1> DEFINE S == {n \in Nat : \A m \in 0 .. n : m <= N => Below(m, f) = Below(m, g)}
<1>1. 0 \in S
  <2>1. Below(0, f) = {}
    BY BelowIs DEF NULL
  <2>2. Below(0, g) = {}
    BY BelowIs DEF NULL
  <2> QED
    BY <2>1, <2>2
<1>2. ASSUME NEW n \in Nat, n \in S
      PROVE  n + 1 \in S
  <2>1. ASSUME NEW m \in 0 .. n + 1, m <= N
        PROVE  Below(m, f) = Below(m, g)
    <3>1. CASE m <= n
      BY <1>2, <2>1, <3>1
    <3>2. CASE m = n + 1
      <4>1. /\ f[m].left \in 0 .. m - 1 /\ f[m].right \in 0 .. m - 1
            /\ m \in 1 .. N /\ m \in 1 .. M /\ f[m] = g[m]
        BY <2>1, <3>2 DEF Grown
      <4>2. Below(m, f) = {m} \cup Below(f[m].left, f) \cup Below(f[m].right, f)
        BY <4>1, BelowIs
      <4>3. Below(m, g) = {m} \cup Below(g[m].left, g) \cup Below(g[m].right, g)
        BY <4>1, BelowIs
      <4>4. /\ Below(f[m].left, f) = Below(f[m].left, g)
            /\ Below(f[m].right, f) = Below(f[m].right, g)
        BY <1>2, <2>1, <3>2, <4>1
      <4> QED
        BY <4>1, <4>2, <4>3, <4>4
    <3> QED
      BY <3>1, <3>2
  <2> QED
    BY <2>1
<1> HIDE DEF S
<1>3. Nat \subseteq S
  BY <1>1, <1>2, NatInductionOnSets
<1> QED
  BY <1>3 DEF S
-------------------------------------------------------------------------------
(* The frequencies of sets of nodes.                                       *)

\* A sequence of n nodes.
Forest(forest, n) ==
  /\ n \in Nat /\ DOMAIN forest = 1 .. n /\ Len(forest) = n
  /\ Grown(forest)
  /\ \A k \in 1 .. n : forest[k].v \in Int

\* The nodes of f and one more.
OneMore(f, g, n) == Forest(f, n) /\ Forest(g, n + 1) /\ \A k \in 1 .. n : f[k] = g[k]

\* The weight of a sequence of trees with one more.
LEMMA WeightPlus ==
  ASSUME NEW f, NEW n, Forest(f, n), NEW S, NEW T, S \cap T = {}
  PROVE  Weight(S \cup T, f) = Weight(S, f) + Weight(T, f)
<1> DEFINE s == [k \in DOMAIN f |-> IF k \in S THEN f[k].v ELSE 0]
           t == [k \in DOMAIN f |-> IF k \in T THEN f[k].v ELSE 0]
           u == [k \in DOMAIN f |-> IF k \in S \cup T THEN f[k].v ELSE 0]
<1>1. n \in Nat /\ DOMAIN f = 1 .. n /\ Len(f) = n /\ \A k \in 1 .. n : f[k].v \in Int
  BY DEF Forest
<1>2. \A k \in 1 .. n : s[k] \in Int /\ t[k] \in Int /\ u[k] = s[k] + t[k]
  BY <1>1
<1>3. Weight(S, f) = SumTo(s, n) /\ Weight(T, f) = SumTo(t, n) /\ Weight(S \cup T, f) = SumTo(u, n)
  BY <1>1 DEF Weight
<1> HIDE DEF s, t, u
<1> QED
  BY <1>1, <1>2, <1>3, SumToPlus

\* Nodes weigh what they weighed, and the new node weighs its frequency.
LEMMA WeightOfOneMore ==
  ASSUME NEW f, NEW g, NEW n, OneMore(f, g, n)
  PROVE  /\ \A S : S \subseteq 1 .. n => Weight(S, g) = Weight(S, f)
         /\ Weight({n + 1}, g) = g[n + 1].v
<1>1. /\ n \in Nat /\ DOMAIN f = 1 .. n /\ Len(f) = n
      /\ n + 1 \in Nat /\ DOMAIN g = 1 .. n + 1 /\ Len(g) = n + 1
      /\ \A k \in 1 .. n : f[k] = g[k] /\ f[k].v \in Int
      /\ g[n + 1].v \in Int
  BY DEF OneMore, Forest
<1>2. ASSUME NEW S, S \subseteq 1 .. n
      PROVE  Weight(S, g) = Weight(S, f)
  <2> DEFINE a == [k \in DOMAIN f |-> IF k \in S THEN f[k].v ELSE 0]
             b == [k \in DOMAIN g |-> IF k \in S THEN g[k].v ELSE 0]
  <2>1. \A k \in 1 .. n : a[k] = b[k] /\ b[k] \in Int
    BY <1>1
  <2>2. b[n + 1] = 0
    BY <1>1, <1>2
  <2>3. Weight(S, f) = SumTo(a, n) /\ Weight(S, g) = SumTo(b, n + 1)
    BY <1>1 DEF Weight
  <2> HIDE DEF a, b
  <2>4. SumTo(a, n) = SumTo(b, n)
    BY <1>1, <2>1, SumToAgree
  <2>5. SumTo(b, n + 1) = SumTo(b, n) + b[n + 1] /\ SumTo(b, n) \in Int
    BY <1>1, <2>1, SumToNext, SumToInt
  <2> QED
    BY <2>2, <2>3, <2>4, <2>5
<1>3. Weight({n + 1}, g) = g[n + 1].v
  <2> DEFINE b == [k \in DOMAIN g |-> IF k \in {n + 1} THEN g[k].v ELSE 0]
  <2>1. \A k \in 1 .. n : b[k] \in Int /\ b[k] = b[k] + b[k]
    BY <1>1
  <2>2. b[n + 1] = g[n + 1].v
    BY <1>1
  <2>3. Weight({n + 1}, g) = SumTo(b, n + 1)
    BY <1>1 DEF Weight
  <2> HIDE DEF b
  <2>4. SumTo(b, n) = SumTo(b, n) + SumTo(b, n)
    BY <1>1, <2>1, SumToPlus
  <2>5. SumTo(b, n + 1) = SumTo(b, n) + b[n + 1] /\ SumTo(b, n) \in Int
    BY <1>1, <2>1, SumToNext, SumToInt
  <2> DEFINE sum == SumTo(b, n)
  <2>6. sum = 0
    <3>1. sum \in Int /\ sum = sum + sum
      BY <2>4, <2>5
    <3> HIDE DEF sum
    <3> QED
      BY <3>1
  <2> QED
    BY <1>1, <2>2, <2>3, <2>5, <2>6
<1> QED
  BY <1>2, <1>3

-------------------------------------------------------------------------------
(* The trees of a set of roots.                                            *)

\* What ForestOfAllNodes says of the roots.
ForestOf(roots, forest) ==
  /\ UNION {Below(n, forest) : n \in roots} = DOMAIN forest
  /\ \A m, n \in roots : m # n => Below(m, forest) \cap Below(n, forest) = {}
  /\ \A n \in roots :
       forest[n].v = Weight(Below(n, forest) \cap LeavesOf(forest), forest)
  /\ \A n \in DOMAIN forest : forest[n].left # NULL =>
       Below(forest[n].left, forest) \cap Below(forest[n].right, forest) = {}

\* The tree of k and what it weighs in f and in g, and it is one of n nodes.
SameTree(k, f, g, n) ==
  /\ Below(k, g) = Below(k, f)
  /\ Below(k, f) \subseteq 1 .. n
  /\ Below(k, g) \cap LeavesOf(g) = Below(k, f) \cap LeavesOf(f)
  /\ Weight(Below(k, g) \cap LeavesOf(g), g) = Weight(Below(k, f) \cap LeavesOf(f), f)

\* With one more node the trees of the others, and what they weigh, stay.
LEMMA OldTrees ==
  ASSUME NEW f, NEW g, NEW n, OneMore(f, g, n)
  PROVE  \A k \in 0 .. n : SameTree(k, f, g, n)
<1>1. /\ n \in Nat /\ DOMAIN f = 1 .. n /\ Len(f) = n /\ Grown(f)
      /\ n + 1 \in Nat /\ DOMAIN g = 1 .. n + 1 /\ Len(g) = n + 1 /\ Grown(g)
      /\ \A k \in 1 .. n : f[k] = g[k]
  BY DEF OneMore, Forest
<1>2. n <= n + 1
  BY <1>1
<1>3. \A k \in 0 .. n : Below(k, f) = Below(k, g)
  BY <1>1, <1>2, BelowAgree
<1>4. \A k \in 0 .. n : Below(k, f) \subseteq 1 .. n
  <2>1. \A k \in 0 .. n : Below(k, f) \subseteq 1 .. k
    BY <1>1, BelowBound
  <2> QED
    BY <1>1, <2>1
<1>5. \A k \in 1 .. n : k \in LeavesOf(f) <=> k \in LeavesOf(g)
  BY <1>1 DEF LeavesOf
<1>6. \A k \in 0 .. n : Below(k, g) \cap LeavesOf(g) = Below(k, f) \cap LeavesOf(f)
  BY <1>3, <1>4, <1>5
<1>7. \A k \in 0 .. n : Below(k, f) \cap LeavesOf(f) \subseteq 1 .. n
  BY <1>4
<1>8. \A S : S \subseteq 1 .. n => Weight(S, g) = Weight(S, f)
  BY WeightOfOneMore
<1>9. \A k \in 0 .. n : Weight(Below(k, g) \cap LeavesOf(g), g)
                          = Weight(Below(k, f) \cap LeavesOf(f), f)
  BY ONLY <1>6, <1>7, <1>8
<1> QED
  BY ONLY <1>3, <1>4, <1>6, <1>9 DEF SameTree

\* A leaf is a tree of its own.
LEMMA LeafAdded ==
  ASSUME NEW f, NEW g, NEW n, OneMore(f, g, n), NEW roots, roots \subseteq 1 .. n,
         ForestOf(roots, f), g[n + 1].left = NULL
  PROVE  ForestOf(roots \cup {n + 1}, g)
<1>1. /\ n \in Nat /\ DOMAIN f = 1 .. n /\ DOMAIN g = 1 .. n + 1
      /\ Len(g) = n + 1 /\ Grown(g) /\ \A k \in 1 .. n : f[k] = g[k]
  BY DEF OneMore, Forest
<1>2. n + 1 \in Nat /\ n + 1 \in 1 .. n + 1 /\ n + 1 \notin 1 .. n
      /\ 1 .. n + 1 = (1 .. n) \cup {n + 1}
  BY <1>1
<1>3. g[n + 1].right = NULL /\ g[n + 1].type = "LEAF"
  BY <1>1, <1>2 DEF Grown
<1>4. Below(n + 1, g) = {n + 1}
  BY <1>1, <1>2, <1>3, BelowIs
<1>5. \A k \in 0 .. n : SameTree(k, f, g, n)
  BY OldTrees
<1>6. \A k \in roots : k \in 0 .. n /\ Below(k, g) = Below(k, f) /\ Below(k, f) \subseteq 1 .. n
  <2>1. \A k \in roots : k \in 0 .. n
    BY <1>1
  <2> QED
    BY <1>5, <2>1 DEF SameTree
<1>7. UNION {Below(k, g) : k \in roots \cup {n + 1}} = DOMAIN g
  <2>1. UNION {Below(k, f) : k \in roots} = 1 .. n
    BY <1>1 DEF ForestOf
  <2> QED
    BY <1>1, <1>2, <1>4, <1>6, <2>1
<1>8. ASSUME NEW l \in roots \cup {n + 1}, NEW k \in roots \cup {n + 1}, l # k
      PROVE  Below(l, g) \cap Below(k, g) = {}
  <2>1. CASE l \in roots /\ k \in roots
    BY <1>6, <1>8, <2>1 DEF ForestOf
  <2>2. CASE l = n + 1
    BY <1>2, <1>4, <1>6, <1>8, <2>2
  <2>3. CASE k = n + 1
    BY <1>2, <1>4, <1>6, <1>8, <2>3
  <2> QED
    BY <2>1, <2>2, <2>3
<1>9. ASSUME NEW k \in roots \cup {n + 1}
      PROVE  g[k].v = Weight(Below(k, g) \cap LeavesOf(g), g)
  <2>1. CASE k \in roots
    <3>1. SameTree(k, f, g, n) /\ f[k] = g[k]
      BY <1>1, <1>6, <1>5, <2>1
    <3>2. f[k].v = Weight(Below(k, f) \cap LeavesOf(f), f)
      BY <2>1 DEF ForestOf
    <3> QED
      BY <3>1, <3>2 DEF SameTree
  <2>2. CASE k = n + 1
    <3>1. Below(k, g) \cap LeavesOf(g) = {n + 1}
      BY <1>1, <1>2, <1>3, <1>4, <2>2 DEF LeavesOf
    <3> QED
      BY <2>2, <3>1, WeightOfOneMore
  <2> QED
    BY <2>1, <2>2
<1>10. ASSUME NEW k \in DOMAIN g, g[k].left # NULL
      PROVE  Below(g[k].left, g) \cap Below(g[k].right, g) = {}
  <2>1. k \in 1 .. n /\ f[k] = g[k]
    BY <1>1, <1>2, <1>10
  <2>2. g[k].left \in 0 .. n /\ g[k].right \in 0 .. n
    BY <1>1, <2>1 DEF Grown
  <2>3. Below(f[k].left, f) \cap Below(f[k].right, f) = {}
    BY <1>1, <1>10, <2>1 DEF ForestOf
  <2>4. SameTree(g[k].left, f, g, n) /\ SameTree(g[k].right, f, g, n)
    BY <1>5, <2>2
  <2> QED
    BY <2>1, <2>3, <2>4 DEF SameTree
<1> QED
  BY <1>7, <1>8, <1>9, <1>10 DEF ForestOf
\* Two trees become one under a new node, and the others stay.
LEMMA NodeJoined ==
  ASSUME NEW f, NEW g, NEW n, OneMore(f, g, n), NEW roots, roots \subseteq 1 .. n,
         ForestOf(roots, f),
         NEW L \in roots, NEW R \in roots, L # R,
         g[n + 1].left = L, g[n + 1].right = R, g[n + 1].v = f[L].v + f[R].v
  PROVE  ForestOf((roots \ {L, R}) \cup {n + 1}, g)
<1> DEFINE others == roots \ {L, R}
<1>1. /\ n \in Nat /\ DOMAIN f = 1 .. n /\ DOMAIN g = 1 .. n + 1
      /\ Len(g) = n + 1 /\ Grown(g) /\ \A k \in 1 .. n : f[k] = g[k]
  BY DEF OneMore, Forest
<1>2. n + 1 \in Nat /\ n + 1 \in 1 .. n + 1 /\ n + 1 \notin 1 .. n
      /\ 1 .. n + 1 = (1 .. n) \cup {n + 1}
  BY <1>1
<1>3. L \in 1 .. n /\ R \in 1 .. n /\ L # NULL
  BY DEF NULL
<1>4. n + 1 \notin LeavesOf(g)
  BY <1>1, <1>2, <1>3 DEF Grown, LeavesOf
<1>5. \A k \in 0 .. n : SameTree(k, f, g, n)
  BY OldTrees
<1>6. \A k \in roots : k \in 0 .. n
  BY <1>1
<1>7. \A k \in roots : Below(k, g) = Below(k, f) /\ Below(k, f) \subseteq 1 .. n
  BY <1>5, <1>6 DEF SameTree
<1>8. Below(n + 1, g) = {n + 1} \cup Below(L, f) \cup Below(R, f)
  BY <1>1, <1>2, <1>7, BelowIs
<1>9. \A l, k \in roots : l # k => Below(l, f) \cap Below(k, f) = {}
  BY DEF ForestOf
<1>10. UNION {Below(k, g) : k \in others \cup {n + 1}} = DOMAIN g
  <2>1. UNION {Below(k, f) : k \in roots} = 1 .. n
    BY <1>1 DEF ForestOf
  <2>2. ASSUME NEW x \in DOMAIN g
        PROVE  \E k \in others \cup {n + 1} : x \in Below(k, g)
    <3>1. CASE x = n + 1
      BY <1>8, <3>1
    <3>2. CASE x \in 1 .. n
      <4>1. PICK k \in roots : x \in Below(k, f)
        BY <2>1, <3>2
      <4>2. CASE k \in {L, R}
        BY <1>8, <4>1, <4>2
      <4>3. CASE k \in others
        BY <1>7, <4>1, <4>3
      <4> QED
        BY <4>2, <4>3
    <3> QED
      BY <1>1, <1>2, <3>1, <3>2
  <2>3. ASSUME NEW k \in others \cup {n + 1}
        PROVE  Below(k, g) \subseteq DOMAIN g
    BY <1>1, <1>2, <1>7, <1>8
  <2> HIDE DEF others
  <2> QED
    BY <2>2, <2>3
<1>11. ASSUME NEW l \in others \cup {n + 1}, NEW k \in others \cup {n + 1}, l # k
       PROVE  Below(l, g) \cap Below(k, g) = {}
  <2>1. \A j \in others : Below(j, g) \cap Below(n + 1, g) = {}
    <3>1. ASSUME NEW j \in others
          PROVE  Below(j, g) \cap Below(n + 1, g) = {}
      <4>1. j # L /\ j # R /\ j \in roots
        OBVIOUS
      <4>2. Below(j, f) \cap Below(L, f) = {} /\ Below(j, f) \cap Below(R, f) = {}
        BY <1>9, <4>1
      <4>3. n + 1 \notin Below(j, f) /\ Below(j, g) = Below(j, f)
        BY <1>2, <1>7, <4>1
      <4> QED
        BY <1>8, <4>2, <4>3
    <3> QED
      BY <3>1
  <2>2. CASE l \in others /\ k \in others
    BY <1>7, <1>9, <1>11, <2>2
  <2>3. CASE l = n + 1
    BY <1>11, <2>1, <2>3
  <2>4. CASE k = n + 1
    BY <1>11, <2>1, <2>4
  <2> QED
    BY <2>2, <2>3, <2>4
<1>12. ASSUME NEW k \in others \cup {n + 1}
       PROVE  g[k].v = Weight(Below(k, g) \cap LeavesOf(g), g)
  <2>1. \A j \in roots : f[j].v = Weight(Below(j, g) \cap LeavesOf(g), g)
    <3>1. ASSUME NEW j \in roots
          PROVE  f[j].v = Weight(Below(j, g) \cap LeavesOf(g), g)
      <4>1. SameTree(j, f, g, n)
        BY <1>5, <1>6
      <4>2. f[j].v = Weight(Below(j, f) \cap LeavesOf(f), f)
        BY DEF ForestOf
      <4> QED
        BY <4>1, <4>2 DEF SameTree
    <3> QED
      BY <3>1
  <2>2. CASE k \in others
    BY <1>1, <2>1, <2>2
  <2>3. CASE k = n + 1
    <3> DEFINE S == Below(L, g) \cap LeavesOf(g)
               T == Below(R, g) \cap LeavesOf(g)
    <3>1. Below(k, g) \cap LeavesOf(g) = S \cup T
      BY <1>4, <1>7, <1>8, <2>3
    <3>2. S \cap T = {}
      BY <1>7, <1>9
    <3>3. Forest(g, n + 1)
      BY DEF OneMore
    <3>4. f[L].v = Weight(S, g) /\ f[R].v = Weight(T, g)
      BY <2>1
    <3> HIDE DEF S, T
    <3>5. Weight(S \cup T, g) = Weight(S, g) + Weight(T, g)
      BY <3>2, <3>3, WeightPlus
    <3> QED
      BY <2>3, <3>1, <3>4, <3>5
  <2> QED
    BY <2>2, <2>3
<1>13. ASSUME NEW k \in DOMAIN g, g[k].left # NULL
       PROVE  Below(g[k].left, g) \cap Below(g[k].right, g) = {}
  <2>1. CASE k \in 1 .. n
    <3>1. f[k] = g[k]
      BY <1>1, <2>1
    <3>2. g[k].left \in 0 .. n /\ g[k].right \in 0 .. n
      BY <1>1, <2>1 DEF Grown
    <3>3. Below(f[k].left, f) \cap Below(f[k].right, f) = {}
      BY <1>1, <1>13, <2>1, <3>1 DEF ForestOf
    <3>4. SameTree(g[k].left, f, g, n) /\ SameTree(g[k].right, f, g, n)
      BY <1>5, <3>2
    <3> QED
      BY <3>1, <3>3, <3>4 DEF SameTree
  <2>2. CASE k = n + 1
    BY <1>7, <1>9, <2>2
  <2> QED
    BY <1>1, <1>2, <2>1, <2>2
<1> QED
  BY <1>10, <1>11, <1>12, <1>13 DEF ForestOf

\* The children of a node.
Kids(n, forest) == {forest[n].left, forest[n].right} \ {NULL}

\* No node is the child of two, or twice of one, and no root is a child.
OneParent(roots, forest) ==
  /\ \A n \in DOMAIN forest : forest[n].left # NULL => forest[n].left # forest[n].right
  /\ \A m, n \in DOMAIN forest : m # n => Kids(m, forest) \cap Kids(n, forest) = {}
  /\ \A n \in DOMAIN forest : Kids(n, forest) \cap roots = {}

\* A node whose children were roots, or that has none, is the next root.
LEMMA ParentAdded ==
  ASSUME NEW f, NEW g, NEW n, OneMore(f, g, n), NEW roots, roots \subseteq 1 .. n,
         OneParent(roots, f), Kids(n + 1, g) \subseteq roots,
         g[n + 1].left # NULL => g[n + 1].left # g[n + 1].right
  PROVE  OneParent((roots \ Kids(n + 1, g)) \cup {n + 1}, g)
<1> DEFINE new == (roots \ Kids(n + 1, g)) \cup {n + 1}
<1>1. /\ n \in Nat /\ DOMAIN f = 1 .. n /\ DOMAIN g = 1 .. n + 1 /\ Grown(f)
      /\ \A k \in 1 .. n : f[k] = g[k]
  BY DEF OneMore, Forest
<1>2. n + 1 \notin 1 .. n /\ 1 .. n + 1 = (1 .. n) \cup {n + 1}
  BY <1>1
<1>3. \A k \in 1 .. n : Kids(k, g) = Kids(k, f) /\ Kids(k, g) \cap roots = {}
  BY <1>1 DEF Kids, OneParent
<1>4. \A k \in 1 .. n : n + 1 \notin Kids(k, g)
  <2>1. ASSUME NEW k \in 1 .. n
        PROVE  f[k].left # n + 1 /\ f[k].right # n + 1
    <3>1. f[k].left \in 0 .. k - 1 /\ f[k].right \in 0 .. k - 1
      BY <1>1 DEF Grown
    <3> QED
      BY <1>1, <3>1
  <2> QED
    BY <1>1, <2>1 DEF Kids
<1>5. ASSUME NEW k \in 1 .. n + 1, g[k].left # NULL
      PROVE  g[k].left # g[k].right
  BY <1>1, <1>2, <1>5 DEF OneParent
<1>6. ASSUME NEW k \in 1 .. n + 1, NEW l \in 1 .. n + 1, k # l
      PROVE  Kids(k, g) \cap Kids(l, g) = {}
  <2>1. CASE k \in 1 .. n /\ l \in 1 .. n
    BY <1>1, <1>3, <1>6, <2>1 DEF OneParent
  <2>2. CASE k = n + 1 /\ l \in 1 .. n
    BY <1>3, <2>2
  <2>3. CASE l = n + 1 /\ k \in 1 .. n
    BY <1>3, <2>3
  <2> QED
    BY <1>2, <1>6, <2>1, <2>2, <2>3
<1>7. ASSUME NEW k \in 1 .. n + 1
      PROVE  Kids(k, g) \cap new = {}
  <2>1. CASE k \in 1 .. n
    BY <1>3, <1>4, <2>1
  <2>2. CASE k = n + 1
    <3>1. n + 1 \notin roots
      BY <1>2
    <3> QED
      BY <2>2, <3>1
  <2> QED
    BY <1>2, <2>1, <2>2
<1> QED
  BY <1>1, <1>5, <1>6, <1>7 DEF OneParent

-------------------------------------------------------------------------------
(* The queue.                                                              *)

\* No node is twice in the queue.
Distinct(q) == \A i, j \in DOMAIN q : i # j => q[i] # q[j]

\* With room in the array the queue gets the node and drops none, in any order
\* the sort may choose.
LEMMA Enqueued ==
  ASSUME NEW S, NEW q \in Seq(S), Distinct(q), Len(q) < MAXSIZE,
         NEW n \in S, n \notin ToSet(q), NEW forest, NEW t \in pqueue_enqueue(q, n, forest)
  PROVE  /\ t \in Seq(S) /\ Len(t) = Len(q) + 1
         /\ ToSet(t) = ToSet(q) \cup {n}
         /\ Distinct(t)
<1> DEFINE a == Append(q, n)
           N == Len(q) + 1
<1>1. a \in Seq(S) /\ Len(a) = N /\ N \in Nat /\ DOMAIN a = 1 .. N
      /\ a[N] = n /\ \A i \in 1 .. Len(q) : a[i] = q[i]
  OBVIOUS
<1>2. DOMAIN q = 1 .. Len(q) /\ \A i \in 1 .. N : i = N \/ i \in 1 .. Len(q)
  OBVIOUS
<1>3. \A i \in 1 .. Len(q) : q[i] # n
  BY <1>2 DEF ToSet
<1>4. \A i, j \in 1 .. N : i # j => a[i] # a[j]
  BY <1>1, <1>2, <1>3 DEF Distinct
<1>5. ToSet(a) = ToSet(q) \cup {n}
  <2>1. ASSUME NEW x \in ToSet(a)
        PROVE  x \in ToSet(q) \cup {n}
    BY <1>1, <1>2 DEF ToSet
  <2>2. ASSUME NEW x \in ToSet(q) \cup {n}
        PROVE  x \in ToSet(a)
    <3>1. PICK i \in 1 .. N : a[i] = x
      BY <1>1, <1>2 DEF ToSet
    <3> QED
      BY <1>1, <3>1 DEF ToSet
  <2> QED
    BY <2>1, <2>2
<1>6. t \in Sortings(a, forest)
  BY SizesAssumption DEF pqueue_enqueue
<1> HIDE DEF a, N
<1>7. t \in [1 .. N -> ToSet(a)] /\ ToSet(t) = ToSet(a)
  BY <1>1, <1>6 DEF Sortings
<1>8. ToSet(a) \subseteq S
  BY <1>1 DEF ToSet
<1>9. t \in Seq(S) /\ Len(t) = N /\ DOMAIN t = 1 .. N
  BY <1>1, <1>7, <1>8
<1>10. IsFiniteSet(1 .. N) /\ Cardinality(1 .. N) = N
  BY <1>1, FS_Interval
<1>11. a \in Surjection(1 .. N, ToSet(a)) /\ a \in Injection(1 .. N, ToSet(a))
  <2>1. a \in [1 .. N -> ToSet(a)]
    BY <1>1 DEF ToSet
  <2>2. \A x \in ToSet(a) : \E i \in 1 .. N : a[i] = x
    BY <1>1 DEF ToSet
  <2> QED
    BY <1>4, <2>1, <2>2 DEF Surjection, Injection, IsInjective
<1>12. Cardinality(ToSet(a)) = N
  BY <1>10, <1>11, FS_Surjection
<1>13. t \in Surjection(1 .. N, ToSet(a))
  <2>1. \A x \in ToSet(a) : \E i \in 1 .. N : t[i] = x
    BY <1>7, <1>9 DEF ToSet
  <2> QED
    BY <1>7, <2>1 DEF Surjection
<1>14. t \in Injection(1 .. N, ToSet(a))
  BY <1>10, <1>12, <1>13, FS_Surjection
<1>15. Distinct(t)
  BY <1>9, <1>14 DEF Injection, IsInjective, Distinct
<1> QED
  BY <1>5, <1>7, <1>9, <1>15 DEF N
-------------------------------------------------------------------------------
(* The invariant.                                                          *)

Node == [type : {"LEAF", "INTERNAL"}, c : Chars, v : Nat, left : Nat, right : Nat]

HuffTypeOK ==
  /\ input \in Seq(Chars)
  /\ phase \in {"count", "nodes", "build", "built"}
  /\ at \in Nat
  /\ table \in [Chars -> Nat]
  /\ nodes \in Seq(Node)
  /\ queue \in Seq(DOMAIN nodes)
  /\ root \in Nat

\* Byte 255 ends the counting, so it is never counted: at most NUMBER_OF_CHARS
\* - 1 leaves are made, one entry less than the array has.
QueueInv ==
  /\ table[CharEOF] = 0
  /\ phase = "count" => queue = <<>>
  /\ phase = "nodes" => at <= NUMBER_OF_CHARS /\ Len(queue) <= at /\ Len(queue) <= CharEOF
  /\ phase = "build" => Len(queue) <= CharEOF
  /\ phase = "built" => queue = <<>>

\* The root is there when the tree is.
RootInv == IF phase = "built" THEN root \in 0 .. Len(nodes) ELSE root = NULL

\* The invariant of the tree and the queue.
HuffInv ==
  /\ HuffTypeOK /\ QueueInv /\ RootInv
  /\ Grown(nodes) /\ Distinct(queue)
  /\ ForestOf(Roots, nodes) /\ OneParent(Roots, nodes)
\* A node behind the others, with children before it.
LEMMA NodeAppended ==
  ASSUME NEW f \in Seq(Node), Grown(f), NEW x \in Node,
         x.left \in 0 .. Len(f), x.right \in 0 .. Len(f),
         x.left = NULL <=> x.right = NULL, x.left = NULL <=> x.type = "LEAF",
         NEW g, g = Append(f, x)
  PROVE  /\ g \in Seq(Node) /\ DOMAIN f = 1 .. Len(f) /\ DOMAIN g = 1 .. Len(f) + 1
         /\ Len(g) = Len(f) + 1 /\ g[Len(f) + 1] = x
         /\ OneMore(f, g, Len(f))
<1> DEFINE n == Len(f)
<1>1. /\ n \in Nat /\ DOMAIN f = 1 .. n
      /\ g \in Seq(Node) /\ DOMAIN g = 1 .. n + 1 /\ Len(g) = n + 1
      /\ g[n + 1] = x /\ \A k \in 1 .. n : g[k] = f[k]
  OBVIOUS
<1>2. \A k \in 1 .. n + 1 : k = n + 1 \/ k \in 1 .. n
  BY <1>1
<1>3. Grown(g)
  <2>1. ASSUME NEW k \in 1 .. n + 1
        PROVE  /\ g[k].left \in 0 .. k - 1 /\ g[k].right \in 0 .. k - 1
               /\ g[k].left = NULL <=> g[k].right = NULL
               /\ g[k].left = NULL <=> g[k].type = "LEAF"
    <3>1. CASE k = n + 1
      BY <1>1, <3>1
    <3>2. CASE k \in 1 .. n
      BY <1>1, <3>2 DEF Grown
    <3> QED
      BY <1>2, <3>1, <3>2
  <2> QED
    BY <1>1, <2>1 DEF Grown
<1>4. (\A k \in 1 .. n : f[k].v \in Int) /\ \A k \in 1 .. n + 1 : g[k].v \in Int
  <2>1. (\A k \in 1 .. n : f[k] \in Node) /\ \A k \in 1 .. n + 1 : g[k] \in Node
    BY <1>1
  <2>2. \A y \in Node : y.v \in Int
    BY DEF Node
  <2> QED
    BY ONLY <2>1, <2>2
<1>5. n + 1 \in Nat
  BY <1>1
<1> QED
  BY <1>1, <1>3, <1>4, <1>5 DEF OneMore, Forest

\* The queue behind its first two nodes.
LEMMA TwoTaken ==
  ASSUME NEW S, NEW q \in Seq(S), Len(q) > 1, Distinct(q)
  PROVE  /\ q[1] \in S /\ q[2] \in S /\ q[1] # q[2]
         /\ q[1] \in ToSet(q) /\ q[2] \in ToSet(q)
         /\ TakenTwo(q) \in Seq(S) /\ Len(TakenTwo(q)) = Len(q) - 2
         /\ ToSet(TakenTwo(q)) = ToSet(q) \ {q[1], q[2]}
         /\ Distinct(TakenTwo(q))
<1> DEFINE r == TakenTwo(q)
           N == Len(q)
<1>1. /\ N \in Nat /\ N > 1 /\ DOMAIN q = 1 .. N
      /\ r \in Seq(S) /\ Len(r) = N - 2 /\ DOMAIN r = 1 .. N - 2
      /\ \A i \in 1 .. N - 2 : r[i] = q[i + 2]
  BY DEF TakenTwo
<1>2. \A i, j \in 1 .. N : i # j => q[i] # q[j]
  BY <1>1 DEF Distinct
<1> HIDE DEF r
<1>3. 1 \in 1 .. N /\ 2 \in 1 .. N /\ \A i \in 1 .. N - 2 : i + 2 \in 1 .. N
  BY <1>1
<1>4. Distinct(r)
  <2>1. ASSUME NEW i \in 1 .. N - 2, NEW j \in 1 .. N - 2, i # j
        PROVE  r[i] # r[j]
    <3>1. i + 2 # j + 2
      BY <1>1, <2>1
    <3> QED
      BY <1>1, <1>2, <1>3, <3>1
  <2> QED
    BY <1>1, <2>1 DEF Distinct
<1>5. ToSet(r) = ToSet(q) \ {q[1], q[2]}
  <2>1. ASSUME NEW x \in ToSet(r)
        PROVE  x \in ToSet(q) \ {q[1], q[2]}
    <3>1. PICK i \in 1 .. N - 2 : x = r[i]
      BY <1>1, <2>1 DEF ToSet
    <3>2. i + 2 \in 1 .. N /\ i + 2 # 1 /\ i + 2 # 2 /\ x = q[i + 2]
      BY <1>1, <1>3, <3>1
    <3> QED
      BY <1>1, <1>2, <1>3, <3>2 DEF ToSet
  <2>2. ASSUME NEW x \in ToSet(q) \ {q[1], q[2]}
        PROVE  x \in ToSet(r)
    <3>1. PICK i \in 1 .. N : x = q[i]
      BY <1>1, <2>2 DEF ToSet
    <3>2. i # 1 /\ i # 2
      BY <2>2, <3>1
    <3>3. i - 2 \in 1 .. N - 2 /\ (i - 2) + 2 = i
      BY <1>1, <3>2
    <3>4. x = r[i - 2]
      BY <1>1, <3>1, <3>3
    <3> QED
      BY <1>1, <3>3, <3>4 DEF ToSet
  <2> QED
    BY <2>1, <2>2
<1>6. q[1] \in S /\ q[2] \in S /\ q[1] # q[2] /\ q[1] \in ToSet(q) /\ q[2] \in ToSet(q)
  BY <1>1, <1>2, <1>3 DEF ToSet
<1> QED
  BY <1>1, <1>4, <1>5, <1>6 DEF r

-------------------------------------------------------------------------------
\* The invariant holds at first.
LEMMA HuffInitInv == HuffInit => HuffInv
<1> SUFFICES ASSUME HuffInit PROVE HuffInv
  OBVIOUS
<1> USE DEF HuffInit
<1>1. input \in Seq(Chars)
  BY InputsAssumption
<1>2. CharEOF \in Chars /\ 0 \in Nat
  BY SizesAssumption DEF CharEOF, Chars
<1>3. HuffTypeOK
  <2>1. nodes \in Seq(Node) /\ queue \in Seq(DOMAIN nodes)
    OBVIOUS
  <2> QED
    BY <1>1, <1>2, <2>1 DEF HuffTypeOK, NULL
<1>4. QueueInv /\ RootInv
  BY <1>2 DEF QueueInv, RootInv
<1>5. DOMAIN nodes = {} /\ ToSet(queue) = {}
  BY DEF ToSet
<1>6. Grown(nodes) /\ Distinct(queue)
  BY <1>5 DEF Grown, Distinct
<1>7. Roots = {}
  BY <1>5 DEF Roots
<1>8. ForestOf({}, nodes) /\ OneParent({}, nodes)
  BY <1>5 DEF ForestOf, OneParent
<1> QED
  BY <1>3, <1>4, <1>6, <1>7, <1>8 DEF HuffInv
\* The steps that make no node and leave the queue and the root.
LEMMA ForestStays ==
  ASSUME HuffInv, UNCHANGED <<nodes, queue, root>>
  PROVE  (/\ Grown(nodes) /\ Distinct(queue)
          /\ ForestOf(Roots, nodes) /\ OneParent(Roots, nodes))'
<1>1. Roots' = Roots
  BY DEF Roots
<1> QED
  BY <1>1 DEF HuffInv

\* A leaf for a character of the file joins the roots.
LEMMA LeafKeepsInv ==
  ASSUME HuffInv, create_tree_nodes, table[at] > 0
  PROVE  HuffInv'
<1> DEFINE n == Len(nodes)
           x == [type |-> "LEAF", c |-> at, v |-> table[at], left |-> NULL, right |-> NULL]
<1>1. /\ phase = "nodes" /\ at \in Chars
      /\ nodes' = Append(nodes, x)
      /\ queue' \in pqueue_enqueue(queue, Len(nodes'), nodes')
      /\ at' = at + 1
      /\ UNCHANGED <<input, phase, table, root>>
  BY DEF create_tree_nodes
<1>2. HuffTypeOK /\ QueueInv /\ RootInv /\ Grown(nodes) /\ Distinct(queue)
      /\ ForestOf(Roots, nodes) /\ OneParent(Roots, nodes)
  BY DEF HuffInv
<1>3. n \in Nat /\ nodes \in Seq(Node) /\ table \in [Chars -> Nat] /\ root = NULL
  BY <1>1, <1>2 DEF HuffTypeOK, RootInv
<1>4. x \in Node
  BY <1>1, <1>3 DEF Node, NULL
<1>5. x.left = NULL /\ x.right = NULL /\ x.type = "LEAF" /\ NULL \in 0 .. n
  BY <1>3 DEF NULL
<1> HIDE DEF x
<1>6. /\ nodes' \in Seq(Node) /\ DOMAIN nodes = 1 .. n /\ DOMAIN nodes' = 1 .. n + 1
      /\ Len(nodes') = n + 1 /\ nodes'[n + 1] = x
      /\ OneMore(nodes, nodes', n)
  <2>1. Grown(nodes)
    BY <1>2
  <2>2. nodes \in Seq(Node) /\ nodes' = Append(nodes, x)
    BY <1>1, <1>3
  <2>3. x.left \in 0 .. Len(nodes) /\ x.right \in 0 .. Len(nodes)
    BY <1>5
  <2>4. (x.left = NULL <=> x.right = NULL) /\ (x.left = NULL <=> x.type = "LEAF")
    BY <1>5
  <2> QED
    BY ONLY <1>4, <2>1, <2>2, <2>3, <2>4, NodeAppended
<1>7. queue \in Seq(1 .. n)
  BY <1>2, <1>6 DEF HuffTypeOK
<1>8. ToSet(queue) \subseteq 1 .. n
  BY <1>7 DEF ToSet
<1>9. Roots = ToSet(queue)
  BY <1>3 DEF Roots
<1>10. at \in 0 .. CharEOF - 1 /\ CharEOF \in Nat /\ CharEOF < MAXSIZE /\ CharEOF < NUMBER_OF_CHARS
  <2>1. at # CharEOF
    BY <1>2 DEF QueueInv
  <2> QED
    BY <1>1, <2>1, SizesAssumption DEF Chars, CharEOF
<1>11. Len(queue) <= at /\ Len(queue) \in Nat
  BY <1>1, <1>2, <1>7 DEF QueueInv
<1>12. queue \in Seq(1 .. n + 1) /\ n + 1 \in 1 .. n + 1 /\ n + 1 \notin 1 .. n
  BY <1>3, <1>7
<1>13. Len(queue) < MAXSIZE
  BY <1>10, <1>11, SizesAssumption
<1>14. /\ queue' \in Seq(1 .. n + 1) /\ Len(queue') = Len(queue) + 1
       /\ ToSet(queue') = ToSet(queue) \cup {n + 1} /\ Distinct(queue')
  BY <1>1, <1>2, <1>6, <1>8, <1>12, <1>13, Enqueued
<1>15. Roots' = Roots \cup {n + 1}
  BY <1>1, <1>3, <1>9, <1>14 DEF Roots
<1>16. ForestOf(Roots', nodes') /\ OneParent(Roots', nodes')
  <2>1. ForestOf(Roots', nodes')
    BY <1>2, <1>5, <1>6, <1>8, <1>9, <1>15, LeafAdded
  <2>2. Kids(n + 1, nodes') = {}
    BY <1>5, <1>6 DEF Kids
  <2>3. OneParent((Roots \ Kids(n + 1, nodes')) \cup {n + 1}, nodes')
    <3>1. OneParent(Roots, nodes) /\ Roots \subseteq 1 .. n /\ nodes'[n + 1].left = NULL
      BY <1>2, <1>5, <1>6, <1>8, <1>9
    <3>2. OneMore(nodes, nodes', n) /\ Kids(n + 1, nodes') \subseteq Roots
      BY <1>6, <2>2
    <3> HIDE DEF n
    <3> QED
      BY ONLY <3>1, <3>2, ParentAdded
  <2> QED
    BY <1>15, <2>1, <2>2, <2>3
<1>17. Grown(nodes')
  BY <1>6 DEF OneMore, Forest
<1>18. HuffTypeOK'
  BY <1>1, <1>2, <1>6, <1>10, <1>14 DEF HuffTypeOK
<1>19. QueueInv'
  <2>1. Len(queue') <= at' /\ Len(queue') <= CharEOF /\ at' <= NUMBER_OF_CHARS
    BY <1>1, <1>10, <1>11, <1>14, SizesAssumption
  <2> QED
    BY <1>1, <1>2, <2>1 DEF QueueInv
<1>20. RootInv'
  BY <1>1, <1>3 DEF RootInv
<1> QED
  BY <1>14, <1>16, <1>17, <1>18, <1>19, <1>20 DEF HuffInv

\* Two roots become one.
LEMMA MergeKeepsInv ==
  ASSUME HuffInv, build_tree
  PROVE  HuffInv'
<1> DEFINE n == Len(nodes)
           L == queue[1]
           R == queue[2]
           x == Internal(L, R)
           q == TakenTwo(queue)
<1>1. /\ phase = "build" /\ Len(queue) > 1
      /\ nodes' = Append(nodes, x)
      /\ queue' \in pqueue_enqueue(q, Len(nodes'), nodes')
      /\ UNCHANGED <<input, phase, at, table, root>>
  BY DEF build_tree
<1>2. HuffTypeOK /\ QueueInv /\ RootInv /\ Grown(nodes) /\ Distinct(queue)
      /\ ForestOf(Roots, nodes) /\ OneParent(Roots, nodes)
  BY DEF HuffInv
<1>3. n \in Nat /\ nodes \in Seq(Node) /\ DOMAIN nodes = 1 .. n /\ root = NULL
  BY <1>1, <1>2 DEF HuffTypeOK, RootInv
<1>4. queue \in Seq(1 .. n)
  BY <1>2, <1>3 DEF HuffTypeOK
<1>5. /\ L \in 1 .. n /\ R \in 1 .. n /\ L # R /\ L \in ToSet(queue) /\ R \in ToSet(queue)
      /\ q \in Seq(1 .. n) /\ Len(q) = Len(queue) - 2
      /\ ToSet(q) = ToSet(queue) \ {L, R}
      /\ Distinct(q)
  BY <1>1, <1>2, <1>4, TwoTaken
<1> HIDE DEF q, L, R
<1>6. /\ x \in Node
      /\ x.left = L /\ x.right = R /\ x.type = "INTERNAL"
      /\ x.v = nodes[L].v + nodes[R].v
  <2>1. nodes[L] \in Node /\ nodes[R] \in Node
    BY <1>3, <1>5
  <2>2. nodes[L].v \in Nat /\ nodes[R].v \in Nat
    BY <2>1 DEF Node
  <2>3. 0 \in Chars
    BY SizesAssumption DEF Chars
  <2>4. nodes[L].v + nodes[R].v \in Nat /\ L \in Nat /\ R \in Nat
    BY <1>3, <1>5, <2>2
  <2> QED
    BY <2>3, <2>4 DEF Internal, Node
<1>7. L # NULL /\ R # NULL /\ L \in 0 .. n /\ R \in 0 .. n
  BY <1>3, <1>5 DEF NULL
<1> HIDE DEF x
<1>8. /\ nodes' \in Seq(Node) /\ DOMAIN nodes' = 1 .. n + 1
      /\ Len(nodes') = n + 1 /\ nodes'[n + 1] = x
      /\ OneMore(nodes, nodes', n)
  BY <1>1, <1>2, <1>3, <1>6, <1>7, NodeAppended
<1>9. ToSet(queue) \subseteq 1 .. n /\ ToSet(q) \subseteq 1 .. n
  <2>1. ToSet(queue) \subseteq 1 .. n
    BY <1>4 DEF ToSet
  <2> QED
    BY <1>5, <2>1
<1>10. Roots = ToSet(queue)
  BY <1>3 DEF Roots
<1>11. CharEOF \in Nat /\ CharEOF < MAXSIZE /\ Len(queue) <= CharEOF /\ Len(queue) \in Nat
  BY <1>1, <1>2, <1>4, SizesAssumption DEF QueueInv, CharEOF
<1>12. q \in Seq(1 .. n + 1) /\ n + 1 \in 1 .. n + 1 /\ n + 1 \notin 1 .. n
  BY <1>3, <1>5
<1>13. Len(q) < MAXSIZE
  BY <1>5, <1>11, SizesAssumption
<1>14. /\ queue' \in Seq(1 .. n + 1) /\ Len(queue') = Len(q) + 1
       /\ ToSet(queue') = ToSet(q) \cup {n + 1} /\ Distinct(queue')
  <2>1. n + 1 \notin ToSet(q) /\ queue' \in pqueue_enqueue(q, n + 1, nodes')
    BY <1>1, <1>8, <1>9, <1>12
  <2> QED
    BY ONLY <1>5, <1>12, <1>13, <2>1, Enqueued, SMTT(30)
<1>15. Roots' = (Roots \ {L, R}) \cup {n + 1}
  BY <1>1, <1>3, <1>5, <1>10, <1>14 DEF Roots
<1>16. ForestOf(Roots', nodes') /\ OneParent(Roots', nodes')
  <2>1. ForestOf(Roots', nodes')
    BY <1>2, <1>5, <1>6, <1>8, <1>9, <1>10, <1>15, NodeJoined
  <2>2. Kids(n + 1, nodes') = {L, R}
    BY <1>6, <1>7, <1>8 DEF Kids
  <2>3. OneParent((Roots \ Kids(n + 1, nodes')) \cup {n + 1}, nodes')
    <3>1. OneParent(Roots, nodes) /\ Roots \subseteq 1 .. n
          /\ nodes'[n + 1].left # nodes'[n + 1].right
      BY <1>2, <1>5, <1>6, <1>8, <1>9, <1>10
    <3>2. OneMore(nodes, nodes', n) /\ Kids(n + 1, nodes') \subseteq Roots
      BY <1>5, <1>8, <1>10, <2>2
    <3> HIDE DEF n
    <3> QED
      BY ONLY <3>1, <3>2, ParentAdded
  <2> QED
    BY <1>15, <2>1, <2>2, <2>3
<1>17. Grown(nodes')
  BY <1>8 DEF OneMore, Forest
<1>18. HuffTypeOK'
  BY <1>1, <1>2, <1>8, <1>14 DEF HuffTypeOK
<1>19. QueueInv'
  BY <1>1, <1>2, <1>5, <1>11, <1>14 DEF QueueInv
<1>20. RootInv'
  BY <1>1, <1>3 DEF RootInv
<1> QED
  BY <1>14, <1>16, <1>17, <1>18, <1>19, <1>20 DEF HuffInv
\* Every step of the building keeps the invariant.
LEMMA HuffStepInv == HuffInv /\ [HuffNext]_huffVars => HuffInv'
<1> SUFFICES ASSUME HuffInv, [HuffNext]_huffVars
             PROVE  HuffInv'
  OBVIOUS
<1>1. HuffTypeOK /\ QueueInv /\ RootInv /\ ForestOf(Roots, nodes) /\ OneParent(Roots, nodes)
  BY DEF HuffInv
<1>2. CharEOF \in Nat /\ NUMBER_OF_CHARS = CharEOF + 1 /\ NUMBER_OF_CHARS \in Nat
  BY SizesAssumption DEF CharEOF
<1>3. CASE UNCHANGED <<nodes, queue, root>> /\ HuffTypeOK' /\ QueueInv' /\ RootInv'
  BY <1>3, ForestStays DEF HuffInv
<1>4. CASE CountChar
  <2>1. /\ phase = "count" /\ UNCHANGED <<input, phase, nodes, queue, root>>
        /\ at' = at + 1 /\ table' = [table EXCEPT ![input[at + 1]] = @ + 1]
        /\ at < Len(input) /\ input[at + 1] # CharEOF
    BY <1>4 DEF CountChar, MoreInput
  <2>2. input[at + 1] \in Chars
    BY <1>1, <2>1 DEF HuffTypeOK
  <2>3. table' \in [Chars -> Nat] /\ table'[CharEOF] = table[CharEOF]
    <3>1. table \in [Chars -> Nat] /\ CharEOF \in Chars
      BY <1>1, <1>2 DEF HuffTypeOK, Chars
    <3> QED
      BY <2>1, <2>2, <3>1
  <2>4. HuffTypeOK'
    BY <1>1, <2>1, <2>3 DEF HuffTypeOK
  <2>5. QueueInv' /\ RootInv'
    BY <1>1, <2>1, <2>3 DEF QueueInv, RootInv
  <2> QED
    BY <1>3, <2>1, <2>4, <2>5
<1>5. CASE InputEnds
  <2>1. /\ phase = "count" /\ phase' = "nodes" /\ at' = 0
        /\ UNCHANGED <<input, table, nodes, queue, root>>
    BY <1>5 DEF InputEnds
  <2>2. HuffTypeOK'
    BY <1>1, <2>1 DEF HuffTypeOK
  <2>3. Len(queue) = 0
    BY <1>1, <2>1 DEF QueueInv
  <2>4. QueueInv' /\ RootInv'
    BY <1>1, <1>2, <2>1, <2>3 DEF QueueInv, RootInv
  <2> QED
    BY <1>3, <2>1, <2>2, <2>4
<1>6. CASE create_tree_nodes
  <2>1. CASE table[at] > 0
    BY <1>6, <2>1, LeafKeepsInv
  <2>2. CASE ~ (table[at] > 0)
    <3>1. /\ phase = "nodes" /\ at \in Chars /\ at' = at + 1
          /\ UNCHANGED <<input, phase, table, root, nodes, queue>>
      BY <1>6, <2>2 DEF create_tree_nodes
    <3>2. at \in Nat /\ at + 1 <= NUMBER_OF_CHARS /\ Len(queue) \in Nat
      BY <1>1, <1>2, <3>1 DEF Chars, HuffTypeOK
    <3>3. HuffTypeOK'
      BY <1>1, <3>1, <3>2 DEF HuffTypeOK
    <3>4. QueueInv' /\ RootInv'
      BY <1>1, <3>1, <3>2 DEF QueueInv, RootInv
    <3> QED
      BY <1>3, <3>1, <3>3, <3>4
  <2> QED
    BY <2>1, <2>2
<1>7. CASE NodesDone
  <2>1. /\ phase = "nodes" /\ phase' = "build"
        /\ UNCHANGED <<input, at, table, nodes, queue, root>>
    BY <1>7 DEF NodesDone
  <2>2. HuffTypeOK'
    BY <1>1, <2>1 DEF HuffTypeOK
  <2>3. QueueInv' /\ RootInv'
    BY <1>1, <2>1 DEF QueueInv, RootInv
  <2> QED
    BY <1>3, <2>1, <2>2, <2>3
<1>8. CASE build_tree
  BY <1>8, MergeKeepsInv
<1>9. CASE BuildDone
  <2>1. /\ phase = "build" /\ Len(queue) <= 1 /\ phase' = "built" /\ queue' = <<>>
        /\ root' = IF queue = <<>> THEN NULL ELSE queue[1]
        /\ UNCHANGED <<input, at, table, nodes>>
    BY <1>9 DEF BuildDone
  <2>2. /\ nodes \in Seq(Node) /\ DOMAIN nodes = 1 .. Len(nodes) /\ Len(nodes) \in Nat
        /\ queue \in Seq(1 .. Len(nodes)) /\ root = NULL
    BY <1>1, <2>1 DEF HuffTypeOK, RootInv
  <2>3. root' \in 0 .. Len(nodes)
    BY <2>1, <2>2 DEF NULL
  <2>4. HuffTypeOK'
    BY <1>1, <2>1, <2>3 DEF HuffTypeOK
  <2>5. QueueInv' /\ RootInv'
    BY <1>1, <2>1, <2>3 DEF QueueInv, RootInv
  <2>6. Roots' = Roots
    <3>1. ToSet(queue') = {}
      BY <2>1 DEF ToSet
    <3>2. CASE queue = <<>>
      <4>1. ToSet(queue) = {} /\ root' = NULL
        BY <2>1, <3>2 DEF ToSet
      <4> QED
        BY <2>2, <3>1, <4>1 DEF Roots
    <3>3. CASE queue # <<>>
      <4>1. Len(queue) = 1 /\ DOMAIN queue = {1} /\ queue[1] \in 1 .. Len(nodes)
        <5>1. Len(queue) \in Nat /\ Len(queue) # 0 /\ DOMAIN queue = 1 .. Len(queue)
          BY <2>2, <3>3, EmptySeq
        <5>2. Len(queue) = 1
          BY <2>1, <5>1
        <5>3. 1 .. 1 = {1}
          OBVIOUS
        <5>4. queue[1] \in 1 .. Len(nodes)
          <6>1. 1 \in 1 .. Len(queue)
            BY <5>2
          <6> DEFINE S == 1 .. Len(nodes)
          <6>2. queue \in Seq(S)
            BY <2>2
          <6> HIDE DEF S
          <6>3. queue[1] \in S
            BY ONLY <6>1, <6>2, ElementOfSeq
          <6> QED
            BY <6>3 DEF S
        <5> QED
          BY ONLY <5>1, <5>2, <5>3, <5>4
      <4>2. ToSet(queue) = {queue[1]}
        BY <4>1 DEF ToSet
      <4>3. root' = queue[1] /\ root' # NULL
        BY <2>1, <3>3, <4>1 DEF NULL
      <4> QED
        BY <2>2, <3>1, <4>2, <4>3 DEF Roots
    <3> QED
      BY <3>2, <3>3
  <2>7. Distinct(queue')
    BY <2>1 DEF Distinct
  <2> QED
    BY <1>1, <2>1, <2>4, <2>5, <2>6, <2>7 DEF HuffInv
<1>10. CASE UNCHANGED huffVars
  <2>1. UNCHANGED <<input, phase, at, table, nodes, queue, root>>
    BY <1>10 DEF huffVars
  <2>2. HuffTypeOK'
    BY <1>1, <2>1 DEF HuffTypeOK
  <2>3. QueueInv' /\ RootInv'
    BY <1>1, <2>1 DEF QueueInv, RootInv
  <2> QED
    BY <1>3, <2>1, <2>2, <2>3
<1> QED
  BY <1>4, <1>5, <1>6, <1>7, <1>8, <1>9, <1>10 DEF HuffNext

\* Every node is in one tree, and every tree weighs what its leaves do.
LEMMA InvHasForest == HuffInv => ForestOfAllNodes
BY DEF HuffInv, ForestOf, ForestOfAllNodes

\* At most one leaf for each character but the last, in an array with an entry
\* for every character.
LEMMA InvHasRoom == HuffInv => QueueHasRoom
<1> SUFFICES ASSUME HuffInv PROVE QueueHasRoom
  OBVIOUS
<1>1. HuffTypeOK /\ QueueInv
  BY DEF HuffInv
<1>2. CharEOF \in Nat /\ CharEOF < MAXSIZE /\ MAXSIZE \in Nat
  BY SizesAssumption DEF CharEOF
<1>3. Len(queue) \in Nat /\ Len(queue) <= CharEOF
  <2>1. CASE queue = <<>>
    BY <1>2, <2>1
  <2>2. CASE phase \in {"nodes", "build"}
    BY <1>1, <2>2 DEF HuffTypeOK, QueueInv
  <2> QED
    BY <1>1, <2>1, <2>2 DEF HuffTypeOK, QueueInv
<1> QED
  BY <1>2, <1>3 DEF QueueHasRoom

-------------------------------------------------------------------------------
\* The rest of huffc and huffd leaves the tree and the queue alone.
LEMMA HzipBuildsStep == [Next]_vars => [HuffNext]_huffVars
<1> SUFFICES ASSUME [Next]_vars PROVE [HuffNext]_huffVars
  OBVIOUS
<1>1. CASE UNCHANGED vars
  BY <1>1 DEF vars
<1>2. CASE Build
  BY <1>2 DEF Build
<1>3. CASE encoder_new \/ EncodeTree \/ EncodeChar \/ EncodeBit \/ encoder_free
  BY <1>3 DEF encoder_new, EncodeTree, EncodeChar, EncodeBit, encoder_free
<1>4. CASE decoder_new \/ ReadStart \/ ReadRecord \/ TreeIsRead \/ TreeIsCut
             \/ decode_one \/ decoder_free
  BY <1>4 DEF decoder_new, ReadStart, ReadRecord, TreeIsRead, TreeIsCut, decode_one, decoder_free
<1> QED
  BY <1>1, <1>2, <1>3, <1>4 DEF Next

\* The invariant of the tree, within the two programs.
LEMMA HzipInv == Spec => []HuffInv
<1>1. Init => HuffInv
  BY HuffInitInv DEF Init
<1>2. HuffInv /\ [Next]_vars => HuffInv'
  BY HuffStepInv, HzipBuildsStep
<1> QED
  BY <1>1, <1>2, PTL DEF Spec

\* In every behaviour of huffc and huffd, for every file and number of
\* characters: pqueue_enqueue drops no node, and pqueue_dequeue reads inside
\* the array (pqueue.c 94-142).
THEOREM QueueHasRoomHolds == Spec => []QueueHasRoom
BY HzipInv, InvHasRoom, PTL

\* In every behaviour of huffc and huffd, whatever order qsort leaves equal
\* frequencies in: no node is lost, none is in two trees, and the frequency of
\* each tree is that of its leaves (huffman.c 137-165, tree.c 24-34, 51-59).
THEOREM ForestOfAllNodesHolds == Spec => []ForestOfAllNodes
BY HzipInv, InvHasForest, PTL

-------------------------------------------------------------------------------
(* Powers of two and bytes.                                                *)

\* A function with the powers up to the n-th.
Powers(f, n) == f = [m \in 0 .. n |-> IF m = 0 THEN 1 ELSE 2 * f[m - 1]]

\* There is one: the recursion of Pow2 ends.
LEMMA PowersExist == \A n \in Nat : \E f : Powers(f, n)
<1> DEFINE S == {n \in Nat : \E f : Powers(f, n)}
<1>1. 0 \in S
  <2>1. Powers([m \in 0 .. 0 |-> 1], 0)
    BY DEF Powers
  <2> QED
    BY <2>1
<1>2. ASSUME NEW n \in Nat, n \in S
      PROVE  n + 1 \in S
  <2>1. PICK f : Powers(f, n)
    BY <1>2
  <2> DEFINE g == [m \in 0 .. n + 1 |-> IF m = n + 1 THEN 2 * f[n] ELSE f[m]]
  <2>2. \A m \in 0 .. n : f[m] = IF m = 0 THEN 1 ELSE 2 * f[m - 1]
    BY <2>1 DEF Powers
  <2>3. ASSUME NEW m \in 0 .. n + 1
        PROVE  g[m] = IF m = 0 THEN 1 ELSE 2 * g[m - 1]
    <3>1. CASE m = n + 1
      BY <3>1
    <3>2. CASE m # n + 1
      <4>1. m \in 0 .. n /\ g[m] = f[m] /\ (m # 0 => g[m - 1] = f[m - 1])
        BY <3>2
      <4> QED
        BY <2>2, <4>1
    <3> QED
      BY <3>1, <3>2
  <2>4. g = [m \in 0 .. n + 1 |-> g[m]]
    OBVIOUS
  <2> HIDE DEF g
  <2>5. Powers(g, n + 1)
    BY <2>3, <2>4 DEF Powers
  <2> QED
    BY <2>5
<1> HIDE DEF S
<1>3. Nat \subseteq S
  BY <1>1, <1>2, NatInductionOnSets
<1> QED
  BY <1>3 DEF S

\* What the powers are.
LEMMA PowIs ==
  /\ Pow2[0] = 1
  /\ \A n \in 0 .. ByteBits - 1 : Pow2[n + 1] = 2 * Pow2[n]
<1> DEFINE f == CHOOSE x : Powers(x, ByteBits)
<1>1. ByteBits \in Nat
  BY ByteAssumption
<1>2. Powers(f, ByteBits)
  BY <1>1, PowersExist
<1>3. Pow2 = f
  BY DEF Pow2, Powers
<1> HIDE DEF f
<1>4. \A m \in 0 .. ByteBits : Pow2[m] = IF m = 0 THEN 1 ELSE 2 * Pow2[m - 1]
  BY <1>2, <1>3 DEF Powers
<1>5. ASSUME NEW n \in 0 .. ByteBits - 1
      PROVE  Pow2[n + 1] = 2 * Pow2[n]
  <2>1. n + 1 \in 0 .. ByteBits /\ n + 1 # 0 /\ (n + 1) - 1 = n
    BY <1>1
  <2>2. Pow2[n + 1] = 2 * Pow2[(n + 1) - 1]
    BY <1>4, <2>1
  <2> QED
    BY <2>1, <2>2
<1> QED
  BY <1>1, <1>4, <1>5

\* No power is 0.
LEMMA PowPositive == \A n \in 0 .. ByteBits : Pow2[n] \in Nat /\ Pow2[n] > 0
<1> DEFINE S == {n \in Nat : n <= ByteBits => Pow2[n] \in Nat /\ Pow2[n] > 0}
<1>1. ByteBits \in Nat
  BY ByteAssumption
<1>2. 0 \in S
  BY PowIs
<1>3. ASSUME NEW n \in Nat, n \in S
      PROVE  n + 1 \in S
  BY <1>1, <1>3, PowIs
<1> HIDE DEF S
<1>4. Nat \subseteq S
  BY <1>2, <1>3, NatInductionOnSets
<1> QED
  BY <1>1, <1>4 DEF S

\* A higher place counts a multiple of a lower one.
LEMMA PowPlus ==
  \A m \in 0 .. ByteBits : \A n \in 0 .. ByteBits : m + n <= ByteBits =>
    Pow2[m + n] = Pow2[m] * Pow2[n]
<1> DEFINE S == {n \in Nat : \A m \in 0 .. ByteBits : m + n <= ByteBits =>
                               Pow2[m + n] = Pow2[m] * Pow2[n]}
<1>1. ByteBits \in Nat
  BY ByteAssumption
<1>2. 0 \in S
  BY <1>1, PowIs, PowPositive
<1>3. ASSUME NEW n \in Nat, n \in S
      PROVE  n + 1 \in S
  <2> SUFFICES ASSUME NEW m \in 0 .. ByteBits, m + (n + 1) <= ByteBits
               PROVE  Pow2[m + (n + 1)] = Pow2[m] * Pow2[n + 1]
    OBVIOUS
  <2>1. /\ m + n \in 0 .. ByteBits - 1 /\ n \in 0 .. ByteBits - 1 /\ n \in 0 .. ByteBits
        /\ m + n <= ByteBits /\ m + (n + 1) = (m + n) + 1
    BY <1>1
  <2>2. Pow2[m + (n + 1)] = 2 * Pow2[m + n] /\ Pow2[n + 1] = 2 * Pow2[n]
    BY <2>1, PowIs
  <2>3. Pow2[m + n] = Pow2[m] * Pow2[n]
    BY <1>3, <2>1
  <2>4. Pow2[m] \in Nat /\ Pow2[n] \in Nat
    BY <2>1, PowPositive
  <2> QED
    BY <2>2, <2>3, <2>4
<1> HIDE DEF S
<1>4. Nat \subseteq S
  BY <1>2, <1>3, NatInductionOnSets
<1> QED
  BY <1>1, <1>4 DEF S

\* A higher place counts more.
LEMMA PowGrows ==
  \A m \in 0 .. ByteBits : \A n \in 0 .. ByteBits : m <= n => Pow2[m] <= Pow2[n]
<1> SUFFICES ASSUME NEW m \in 0 .. ByteBits, NEW n \in 0 .. ByteBits, m <= n
             PROVE  Pow2[m] <= Pow2[n]
  OBVIOUS
<1>1. n - m \in 0 .. ByteBits /\ m + (n - m) = n
  BY ByteAssumption
<1>2. Pow2[n] = Pow2[m] * Pow2[n - m]
  BY <1>1, PowPlus
<1>3. Pow2[m] \in Nat /\ Pow2[n - m] \in Nat /\ Pow2[n - m] > 0
  BY <1>1, PowPositive
<1> QED
  BY <1>2, <1>3

\* Byte b holds n bits behind ones and a zero.
HasBits(b, n) ==
  /\ b \in Nat
  /\ Pow2[n] < Modulus - b /\ Modulus - b <= Pow2[n + 1]

\* A quotient with its remainder.
LEMMA Quotient ==
  ASSUME NEW q \in Int, NEW d \in Nat, NEW r \in Nat, r < d
  PROVE  (q * d + r) \div d = q
OBVIOUS

\* A number is its quotient and a remainder.
LEMMA Divided ==
  ASSUME NEW a \in Nat, NEW d \in Nat, d > 0
  PROVE  a \div d \in Nat /\ \E r \in 0 .. d - 1 : a = (a \div d) * d + r
<1>1. a \div d \in Nat
  OBVIOUS
<1>2. a % d \in 0 .. d - 1
  OBVIOUS
<1>3. a = (a \div d) * d + (a % d)
  OBVIOUS
<1> QED
  BY <1>1, <1>2, <1>3

\* A remainder of a number less than twice the divisor.
LEMMA OneOver ==
  ASSUME NEW a \in Nat, NEW d \in Nat, a >= d, a < 2 * d
  PROVE  a % d = a - d
OBVIOUS

\* A product with one factor smaller by two.
LEMMA TwoLess ==
  ASSUME NEW x \in Int, NEW y \in Int
  PROVE  (x - 2) * y = y * x - 2 * y
OBVIOUS

\* The number of bits of a byte can be read off its ones.
LEMMA LeadingOnesIs ==
  ASSUME NEW n \in 0 .. ByteBits - 1, NEW b, HasBits(b, n)
  PROVE  LeadingOnes(b) = ByteBits - 1 - n
<1> DEFINE k == ByteBits - 1 - n
           Right(i) == b \div Pow2[ByteBits - 1 - i] = Pow2[i + 1] - 2
<1>1. ByteBits \in Nat /\ n + 1 \in 0 .. ByteBits /\ k \in 0 .. ByteBits - 1
      /\ ByteBits - 1 - k = n /\ k + 1 \in 0 .. ByteBits /\ n \in 0 .. ByteBits
      /\ n + (k + 1) = ByteBits
  BY ByteAssumption
<1>2. Modulus = Pow2[n] * Pow2[k + 1] /\ Pow2[n + 1] = 2 * Pow2[n]
  BY <1>1, PowPlus, PowIs DEF Modulus
<1>3. b \in Nat /\ Pow2[n] < Modulus - b /\ Modulus - b <= Pow2[n + 1]
  BY DEF HasBits
<1>4. Pow2[n] \in Nat /\ Pow2[k + 1] \in Nat /\ Pow2[n] > 0
  BY <1>1, PowPositive
<1>5. Right(k)
  <2> DEFINE d == Pow2[n]
             q == Pow2[k + 1] - 2
             r == b - q * d
  <2>1. d \in Nat /\ q \in Int /\ q * d = Modulus - 2 * d
    <3>1. q * d = Pow2[n] * Pow2[k + 1] - 2 * Pow2[n]
      BY <1>4, TwoLess
    <3> QED
      BY <1>2, <1>4, <3>1
  <2>2. Modulus \in Int
    BY <1>2, <1>4
  <2>3. r \in Nat /\ r < d /\ b = q * d + r
    <3>1. r = b - (Modulus - 2 * d)
      BY <2>1
    <3> HIDE DEF r, q
    <3>2. r \in Nat /\ r < d
      BY <1>2, <1>3, <1>4, <2>2, <3>1
    <3> QED
      BY <1>3, <2>1, <2>2, <3>1, <3>2
  <2> HIDE DEF d, q, r
  <2>4. b \div d = q
    BY <2>1, <2>3, Quotient
  <2> QED
    BY <1>1, <2>4 DEF d, q
<1>6. ASSUME NEW i \in 0 .. ByteBits - 1, Right(i)
      PROVE  i = k
  <2> DEFINE m == ByteBits - 1 - i
  <2>1. m \in 0 .. ByteBits /\ m + 1 \in 0 .. ByteBits /\ i + 1 \in 0 .. ByteBits
        /\ m + (i + 1) = ByteBits /\ m \in 0 .. ByteBits - 1
    BY <1>1
  <2>2. Modulus = Pow2[m] * Pow2[i + 1] /\ Pow2[m + 1] = 2 * Pow2[m]
    BY <2>1, PowPlus, PowIs DEF Modulus
  <2>3. Pow2[m] \in Nat /\ Pow2[i + 1] \in Nat /\ Pow2[m] > 0
    BY <2>1, PowPositive
  <2>4. PICK r \in 0 .. Pow2[m] - 1 : b = (b \div Pow2[m]) * Pow2[m] + r
    BY <1>3, <2>3, Divided
  <2>5. (Pow2[i + 1] - 2) * Pow2[m] = Modulus - 2 * Pow2[m] /\ Modulus \in Int
    BY <2>2, <2>3, TwoLess
  <2>6. b = (Modulus - 2 * Pow2[m]) + r
    BY <1>6, <2>4, <2>5
  <2>7. Pow2[m] < Modulus - b /\ Modulus - b <= Pow2[m + 1]
    BY <2>2, <2>3, <2>4, <2>5, <2>6
  <2>8. CASE n < m
    <3>1. Pow2[n + 1] <= Pow2[m]
      BY <1>1, <2>1, <2>8, PowGrows
    <3> QED
      BY <1>2, <1>3, <1>4, <2>3, <2>5, <2>7, <3>1
  <2>9. CASE m < n
    <3>1. Pow2[m + 1] <= Pow2[n]
      BY <1>1, <2>1, <2>9, PowGrows
    <3> QED
      BY <1>3, <1>4, <2>2, <2>3, <2>5, <2>7, <3>1
  <2>10. CASE m = n
    BY <1>1, <2>10
  <2> QED
    BY <1>1, <2>1, <2>8, <2>9, <2>10
<1>7. LeadingOnes(b) = CHOOSE i \in 0 .. ByteBits - 1 : Right(i)
  BY DEF LeadingOnes
<1> HIDE DEF Right, k
<1>8. (CHOOSE i \in 0 .. ByteBits - 1 : Right(i)) = k
  BY <1>1, <1>5, <1>6
<1> QED
  BY <1>7, <1>8 DEF k

\* The bits of a byte.
LEMMA BitsInIs ==
  ASSUME NEW n \in 0 .. ByteBits - 1, NEW b, HasBits(b, n)
  PROVE  /\ BitsIn(b) = [j \in 1 .. n |-> (b \div Pow2[n - j]) % 2]
         /\ BitsIn(b) \in Seq({0, 1}) /\ Len(BitsIn(b)) = n
<1>1. ByteBits - 1 - LeadingOnes(b) = n
  BY ByteAssumption, LeadingOnesIs
<1>2. BitsIn(b) = [j \in 1 .. n |-> (b \div Pow2[n - j]) % 2]
  BY <1>1 DEF BitsIn
<1>3. \A j \in 1 .. n : (b \div Pow2[n - j]) % 2 \in {0, 1}
  <2> SUFFICES ASSUME NEW j \in 1 .. n PROVE (b \div Pow2[n - j]) % 2 \in {0, 1}
    OBVIOUS
  <2>1. n - j \in 0 .. ByteBits
    BY ByteAssumption
  <2>2. Pow2[n - j] \in Nat /\ Pow2[n - j] > 0 /\ b \in Nat
    BY <2>1, PowPositive DEF HasBits
  <2> DEFINE q == b \div Pow2[n - j]
  <2>3. q \in Nat
    BY <2>2, Divided
  <2> HIDE DEF q
  <2>4. q % 2 \in {0, 1}
    BY <2>3
  <2> QED
    BY <2>4 DEF q
<1>4. n \in Nat
  OBVIOUS
<1> QED
  BY <1>2, <1>3, <1>4

\* A byte has no bits to begin with.
LEMMA NewByte == HasBits(NO_BITS_WRITTEN, 0) /\ BitsIn(NO_BITS_WRITTEN) = <<>>
<1>1. 0 \in 0 .. ByteBits - 1 /\ 1 \in 0 .. ByteBits
  BY ByteAssumption
<1>2. Pow2[0] = 1 /\ Pow2[1] = 2
  BY <1>1, PowIs
<1>3. ByteBits \in 0 .. ByteBits /\ 2 <= ByteBits
  BY ByteAssumption
<1>4. Modulus \in Nat /\ Modulus >= 2
  BY <1>1, <1>2, <1>3, PowPositive, PowGrows DEF Modulus
<1>5. HasBits(NO_BITS_WRITTEN, 0)
  BY <1>2, <1>4 DEF HasBits, NO_BITS_WRITTEN
<1> QED
  BY <1>1, <1>5, BitsInIs

\* The quotient of a byte is that of the byte with a bit behind it, from one place
\* higher.
LEMMA DoubleQuotient ==
  ASSUME NEW b \in Nat, NEW bit \in {0, 1}, NEW d \in Nat, d > 0, NEW Q \in Int,
         2 * b + bit - (2 * d) * (2 * Q) \in Nat
  PROVE  ((2 * b + bit - (2 * d) * (2 * Q)) \div (2 * d)) % 2 = (b \div d) % 2
<1>1. PICK r \in 0 .. d - 1 : b = (b \div d) * d + r
  BY Divided
<1> DEFINE q == b \div d
           x == 2 * b + bit - (2 * d) * (2 * Q)
<1>2. q \in Nat
  BY Divided
<1>3. x = (q - 2 * Q) * (2 * d) + (2 * r + bit)
  <2>1. b = q * d + r
    BY <1>1
  <2> HIDE DEF q
  <2>2. 2 * b = q * (2 * d) + 2 * r
    BY <1>2, <2>1
  <2>3. (q - 2 * Q) * (2 * d) = q * (2 * d) - (2 * d) * (2 * Q)
    BY <1>2
  <2>4. q * (2 * d) \in Int /\ (2 * d) * (2 * Q) \in Int
    BY <1>2
  <2> QED
    BY <2>2, <2>3, <2>4
<1> HIDE DEF x, q
<1>4. q - 2 * Q \in Int /\ 2 * d \in Nat /\ 2 * r + bit \in Nat /\ 2 * r + bit < 2 * d
  BY <1>2
<1>5. x \div (2 * d) = q - 2 * Q
  BY <1>3, <1>4, Quotient
<1>6. (q - 2 * Q) % 2 = q % 2
  BY <1>2
<1> QED
  BY <1>5, <1>6 DEF x, q

\* A bit is shifted in behind those there are; the last place is the byte's
\* top bit, which is 0 in a full byte only.
LEMMA BitShiftedIn ==
  ASSUME NEW n \in 0 .. ByteBits - 2, NEW b, HasBits(b, n), NEW bit \in {0, 1}
  PROVE  /\ HasBits(Shift(b, bit), n + 1)
         /\ BitsIn(Shift(b, bit)) = BitsIn(b) \o <<bit>>
         /\ Shift(b, bit) < TopBit <=> n + 1 = ByteBits - 1
<1> DEFINE new == 2 * b + bit - Modulus
<1>1. /\ ByteBits \in Nat /\ n \in 0 .. ByteBits - 1 /\ n + 1 \in 0 .. ByteBits - 1
      /\ n + 1 \in 0 .. ByteBits /\ n + 2 \in 0 .. ByteBits /\ n \in 0 .. ByteBits
      /\ ByteBits - 1 \in 0 .. ByteBits - 1 /\ ByteBits - 1 \in 0 .. ByteBits
      /\ ByteBits \in 0 .. ByteBits
  BY ByteAssumption
<1>2. /\ b \in Nat /\ Pow2[n] < Modulus - b /\ Modulus - b <= Pow2[n + 1]
  BY DEF HasBits
<1>3. Pow2[n + 1] = 2 * Pow2[n] /\ Pow2[n + 2] = 2 * Pow2[n + 1] /\ Modulus = 2 * TopBit
  <2>1. (n + 1) + 1 = n + 2 /\ (ByteBits - 1) + 1 = ByteBits
    BY <1>1
  <2> QED
    BY <1>1, <2>1, PowIs DEF Modulus, TopBit
<1>4. /\ Pow2[n] \in Nat /\ Pow2[n + 1] \in Nat /\ Pow2[n + 2] \in Nat
      /\ TopBit \in Nat /\ Modulus \in Nat /\ TopBit > 0
  BY <1>1, PowPositive DEF TopBit, Modulus
<1>5. Pow2[n + 1] <= TopBit
  BY <1>1, PowGrows DEF TopBit
<1>6. Shift(b, bit) = new
  <2>1. 2 * b + bit >= Modulus /\ 2 * b + bit < 2 * Modulus /\ 2 * b + bit \in Nat
    BY <1>2, <1>3, <1>4, <1>5
  <2>2. PICK x \in Nat : x = 2 * b + bit
    BY <2>1
  <2>3. x % Modulus = x - Modulus
    BY <1>4, <2>1, <2>2, OneOver
  <2>4. Shift(b, bit) = x % Modulus
    BY <2>2, Zenon DEF Shift
  <2>5. new = x - Modulus
    BY <1>2, <1>4, <2>2
  <2> QED
    BY <2>3, <2>4, <2>5
<1>7. new \in Nat /\ Pow2[n + 1] < Modulus - new /\ Modulus - new <= Pow2[n + 2]
  BY <1>2, <1>3, <1>4, <1>5
<1>8. HasBits(new, n + 1)
  <2>1. (n + 1) + 1 = n + 2
    BY <1>1
  <2> QED
    BY <1>7, <2>1 DEF HasBits
<1>9. new < TopBit <=> n + 1 = ByteBits - 1
  <2>1. CASE n + 1 = ByteBits - 1
    BY <1>3, <1>4, <1>7, <2>1 DEF TopBit
  <2>2. CASE n + 1 # ByteBits - 1
    <3>1. n + 2 <= ByteBits - 1
      BY <1>1, <2>2
    <3>2. Pow2[n + 2] <= TopBit
      BY <1>1, <3>1, PowGrows DEF TopBit
    <3> QED
      BY <1>3, <1>4, <1>7, <2>2, <3>2
  <2> QED
    BY <2>1, <2>2
<1> DEFINE Bit(c, m) == [j \in 1 .. m |-> (c \div Pow2[m - j]) % 2]
<1>10. BitsIn(b) = Bit(b, n) /\ Len(BitsIn(b)) = n /\ BitsIn(b) \in Seq({0, 1})
  BY <1>1, BitsInIs
<1>11. BitsIn(new) = Bit(new, n + 1) /\ Len(BitsIn(new)) = n + 1 /\ BitsIn(new) \in Seq({0, 1})
  <2> HIDE DEF new
  <2> QED
    BY <1>1, <1>8, BitsInIs
<1>12. ASSUME NEW j \in 1 .. n
       PROVE  (new \div Pow2[(n + 1) - j]) % 2 = (b \div Pow2[n - j]) % 2
  <2> DEFINE d == Pow2[n - j]
             m == ByteBits - 2 - (n - j)
             Q == Pow2[m]
  <2>1. /\ n - j \in 0 .. ByteBits - 1 /\ n - j \in 0 .. ByteBits /\ (n + 1) - j = (n - j) + 1
        /\ (n + 1) - j \in 0 .. ByteBits
        /\ m \in 0 .. ByteBits - 1 /\ m \in 0 .. ByteBits /\ m + 1 \in 0 .. ByteBits
        /\ ((n + 1) - j) + (m + 1) = ByteBits
    BY <1>1
  <2>2. d \in Nat /\ d > 0 /\ Q \in Nat
    BY <2>1, PowPositive
  <2>3. Pow2[(n + 1) - j] = 2 * d /\ Pow2[m + 1] = 2 * Q
    BY <2>1, PowIs
  <2>4. Modulus = (2 * d) * (2 * Q)
    BY <2>1, <2>3, PowPlus DEF Modulus
  <2> HIDE DEF d, Q, m
  <2>5. 2 * b + bit - (2 * d) * (2 * Q) \in Nat /\ Q \in Int
    BY <1>7, <2>2, <2>4
  <2>6. ((2 * b + bit - (2 * d) * (2 * Q)) \div (2 * d)) % 2 = (b \div d) % 2
    BY <1>2, <2>2, <2>5, DoubleQuotient
  <2> QED
    BY <2>3, <2>4, <2>6 DEF d
<1>13. (new \div Pow2[0]) % 2 = bit
  <2>1. new = 2 * (b - TopBit) + bit /\ new \in Nat /\ b - TopBit \in Int
    BY <1>2, <1>3, <1>4, <1>7
  <2> HIDE DEF new
  <2>2. new \div 1 = new /\ new % 2 = bit
    BY <2>1
  <2> QED
    BY <2>2, PowIs
<1>14. BitsIn(new) = BitsIn(b) \o <<bit>>
  <2> DEFINE s == BitsIn(b) \o <<bit>>
  <2>1. s \in Seq({0, 1}) /\ Len(s) = n + 1 /\ s[n + 1] = bit
        /\ \A j \in 1 .. n : s[j] = BitsIn(b)[j]
    BY <1>10
  <2>2. ASSUME NEW j \in 1 .. n + 1
        PROVE  BitsIn(new)[j] = s[j]
    <3>1. BitsIn(new)[j] = (new \div Pow2[(n + 1) - j]) % 2
      BY <1>11
    <3>2. CASE j = n + 1
      BY <1>13, <2>1, <3>1, <3>2
    <3>3. CASE j \in 1 .. n
      BY <1>10, <1>12, <2>1, <3>1, <3>3
    <3>4. j = n + 1 \/ j \in 1 .. n
      BY <1>1
    <3> QED
      BY <3>2, <3>3, <3>4
  <2> HIDE DEF s, new
  <2>3. BitsIn(new) = s
    BY <1>11, <2>1, <2>2
  <2> QED
    BY <2>3 DEF s
<1> QED
  BY <1>6, <1>8, <1>9, <1>14

-------------------------------------------------------------------------------
(* Sequences put together.                                                 *)

\* A function with what the first sequences, up to the n-th, are together.
Together(f, seqs, n) ==
  f = [i \in 1 .. n |-> IF i = 1 THEN seqs[i] ELSE f[i - 1] \o seqs[i]]

\* There is one: the recursion of FlattenSeq ends.
LEMMA TogetherExists == ASSUME NEW seqs PROVE \A n \in Nat : \E f : Together(f, seqs, n)
<1> DEFINE S == {n \in Nat : \E f : Together(f, seqs, n)}
<1>1. 0 \in S
  <2>1. Together([i \in 1 .. 0 |-> <<>>], seqs, 0)
    BY DEF Together
  <2> QED
    BY <2>1
<1>2. ASSUME NEW n \in Nat, n \in S
      PROVE  n + 1 \in S
  <2>1. PICK f : Together(f, seqs, n)
    BY <1>2
  <2> DEFINE next == IF n = 0 THEN seqs[n + 1] ELSE f[n] \o seqs[n + 1]
             g == [i \in 1 .. n + 1 |-> IF i = n + 1 THEN next ELSE f[i]]
  <2>2. \A i \in 1 .. n : f[i] = IF i = 1 THEN seqs[i] ELSE f[i - 1] \o seqs[i]
    BY <2>1 DEF Together
  <2>3. ASSUME NEW i \in 1 .. n + 1
        PROVE  g[i] = IF i = 1 THEN seqs[i] ELSE g[i - 1] \o seqs[i]
    <3>1. CASE i = n + 1
      <4>1. i # 1 => g[i - 1] = f[n]
        BY <3>1
      <4>2. i = 1 <=> n = 0
        BY <3>1
      <4>3. g[i] = next
        BY <3>1
      <4> HIDE DEF g
      <4> QED
        BY <3>1, <4>1, <4>2, <4>3
    <3>2. CASE i # n + 1
      <4>1. i \in 1 .. n /\ g[i] = f[i] /\ (i # 1 => g[i - 1] = f[i - 1])
        BY <3>2
      <4> HIDE DEF g
      <4> QED
        BY <2>2, <4>1
    <3> QED
      BY <3>1, <3>2
  <2>4. g = [i \in 1 .. n + 1 |-> g[i]]
    OBVIOUS
  <2> HIDE DEF g
  <2>5. Together(g, seqs, n + 1)
    BY <2>3, <2>4 DEF Together
  <2> QED
    BY <2>5
<1> HIDE DEF S
<1>3. Nat \subseteq S
  BY <1>1, <1>2, NatInductionOnSets
<1> QED
  BY <1>3 DEF S

\* The first n values are the same.
SameUpTo(s, t, n) == \A i \in 1 .. n : s[i] = t[i]

\* The first sequences decide what they are together.
LEMMA TogetherAgree ==
  ASSUME NEW s, NEW t, NEW n \in Nat, NEW m \in Nat, n <= m,
         SameUpTo(s, t, n), NEW f, NEW g, Together(f, s, n), Together(g, t, m)
  PROVE  SameUpTo(f, g, n)
<1> DEFINE S == {k \in Nat : k = 0 \/ (k <= n => f[k] = g[k])}
<1>1. 0 \in S
  OBVIOUS
<1>2. ASSUME NEW k \in Nat, k \in S
      PROVE  k + 1 \in S
  <2> SUFFICES ASSUME k + 1 <= n PROVE f[k + 1] = g[k + 1]
    OBVIOUS
  <2>1. k + 1 \in 1 .. n /\ k + 1 \in 1 .. m /\ (k + 1) - 1 = k
    OBVIOUS
  <2>2. f[k + 1] = IF k + 1 = 1 THEN s[k + 1] ELSE f[k] \o s[k + 1]
    BY <2>1 DEF Together
  <2>3. g[k + 1] = IF k + 1 = 1 THEN t[k + 1] ELSE g[k] \o t[k + 1]
    BY <2>1 DEF Together
  <2>4. k + 1 = 1 \/ f[k] = g[k]
    BY <1>2
  <2>5. s[k + 1] = t[k + 1]
    BY <2>1 DEF SameUpTo
  <2> QED
    BY <2>2, <2>3, <2>4, <2>5
<1> HIDE DEF S
<1>3. Nat \subseteq S
  BY <1>1, <1>2, NatInductionOnSets
<1> QED
  BY <1>3 DEF S, SameUpTo

\* What FlattenSeq is.
LEMMA FlattenIs ==
  ASSUME NEW s
  PROVE  FlattenSeq(s) = IF Len(s) = 0 THEN s ELSE (CHOOSE h : Together(h, s, Len(s)))[Len(s)]
BY DEF FlattenSeq, Together

\* Together, one sequence more.
LEMMA FlattenOneMore ==
  ASSUME NEW S, NEW s \in Seq(Seq(S)), NEW x \in Seq(S), FlattenSeq(s) \in Seq(S)
  PROVE  /\ FlattenSeq(Append(s, x)) = FlattenSeq(s) \o x
         /\ FlattenSeq(Append(s, x)) \in Seq(S)
<1> DEFINE n == Len(s)
           t == Append(s, x)
           f == CHOOSE h : Together(h, s, n)
           g == CHOOSE h : Together(h, t, n + 1)
<1>1. n \in Nat /\ n + 1 \in Nat /\ Len(t) = n + 1 /\ t[n + 1] = x
      /\ \A i \in 1 .. n : s[i] = t[i]
  OBVIOUS
<1> HIDE DEF t
<1>2. FlattenSeq(s) = IF n = 0 THEN s ELSE f[n]
  BY FlattenIs
<1>3. FlattenSeq(t) = g[n + 1]
  <2>1. FlattenSeq(t) = IF n + 1 = 0 THEN t ELSE g[n + 1]
    BY <1>1, FlattenIs
  <2> QED
    BY <1>1, <2>1
<1>4. Together(f, s, n) /\ Together(g, t, n + 1)
  BY <1>1, TogetherExists
<1> HIDE DEF f, g, n
<1>5. SameUpTo(f, g, n)
  <2>1. n <= n + 1 /\ SameUpTo(s, t, n)
    BY <1>1 DEF SameUpTo
  <2> QED
    BY <1>1, <1>4, <2>1, TogetherAgree
<1>6. g[n + 1] = IF n + 1 = 1 THEN x ELSE g[n] \o x
  <2>1. n + 1 \in 1 .. n + 1 /\ (n + 1) - 1 = n
    BY <1>1
  <2> QED
    BY <1>1, <1>4, <2>1 DEF Together
<1>7. CASE n = 0
  <2>1. s = <<>> /\ FlattenSeq(s) = <<>> /\ <<>> \o x = x
    BY <1>2, <1>7 DEF n
  <2> QED
    BY <1>3, <1>6, <1>7, <2>1 DEF t
<1>8. CASE n # 0
  <2>1. FlattenSeq(s) = g[n]
    BY <1>1, <1>2, <1>5, <1>8 DEF SameUpTo
  <2>2. FlattenSeq(t) = FlattenSeq(s) \o x
    BY <1>1, <1>3, <1>6, <1>8, <2>1
  <2> QED
    BY <2>2 DEF t
<1> QED
  BY <1>7, <1>8

\* No sequences together.
LEMMA FlattenNone == FlattenSeq(<<>>) = <<>>
BY DEF FlattenSeq

\* The values of f for the elements of s, put together.
Strung(f, s) == FlattenSeq([k \in DOMAIN s |-> f[s[k]]])

\* No elements, nothing put together.
LEMMA StrungNone == ASSUME NEW f PROVE Strung(f, <<>>) = <<>>
<1>1. [k \in DOMAIN <<>> |-> f[<<>>[k]]] = <<>>
  OBVIOUS
<1> QED
  BY <1>1, FlattenNone DEF Strung

\* The first n elements of s.
First(s, n) == SubSeq(s, 1, n)

\* What is in the beginning of a sequence.
LEMMA FirstIs ==
  ASSUME NEW D, NEW s \in Seq(D), NEW n \in 0 .. Len(s)
  PROVE  /\ First(s, n) \in Seq(D) /\ Len(First(s, n)) = n
         /\ \A i \in 1 .. n : First(s, n)[i] = s[i]
         /\ n < Len(s) => First(s, n + 1) = Append(First(s, n), s[n + 1])
         /\ n = 0 => First(s, n) = <<>>
         /\ n = Len(s) => First(s, n) = s
<1> USE DEF First
<1>1. /\ First(s, n) \in Seq(D) /\ Len(First(s, n)) = n
      /\ \A i \in 1 .. n : First(s, n)[i] = s[i]
  OBVIOUS
<1>2. n < Len(s) => First(s, n + 1) = Append(First(s, n), s[n + 1])
  OBVIOUS
<1> QED
  BY <1>1, <1>2

\* The values of f for the elements of D are sequences over S.
Values(f, D, S) == \A x \in D : f[x] \in Seq(S)

\* One element more adds its value, if the values before are of the type.
LEMMA StrungStep ==
  ASSUME NEW D, NEW S, NEW f, Values(f, D, S), NEW s \in Seq(D), NEW x \in D,
         Strung(f, s) \in Seq(S)
  PROVE  /\ Strung(f, Append(s, x)) = Strung(f, s) \o f[x]
         /\ Strung(f, Append(s, x)) \in Seq(S)
<1> DEFINE n == Len(s)
           t == Append(s, x)
           u == [k \in DOMAIN s |-> f[s[k]]]
           v == [k \in DOMAIN t |-> f[t[k]]]
<1>1. n \in Nat /\ DOMAIN s = 1 .. n /\ DOMAIN t = 1 .. n + 1 /\ t[n + 1] = x
      /\ \A i \in 1 .. n : s[i] = t[i] /\ s[i] \in D
      /\ \A y \in D : f[y] \in Seq(S)
  <2>1. \A y \in D : f[y] \in Seq(S)
    BY DEF Values
  <2> QED
    BY <2>1
<1>2. u = [k \in 1 .. n |-> f[s[k]]] /\ v = [k \in 1 .. n + 1 |-> f[t[k]]]
  BY <1>1
<1>3. u \in Seq(Seq(S)) /\ Len(u) = n
  BY <1>1
<1>4. v = Append(u, f[x])
  <2> DEFINE w == Append(u, f[x])
  <2>1. w \in Seq(Seq(S)) /\ Len(w) = n + 1 /\ w[n + 1] = f[x]
        /\ \A i \in 1 .. n : w[i] = u[i]
    <3> DEFINE y == f[x]
    <3>1. y \in Seq(S) /\ w = Append(u, y)
      BY DEF Values
    <3> HIDE DEF u, w, y
    <3>2. w \in Seq(Seq(S)) /\ Len(w) = n + 1 /\ w[n + 1] = y
          /\ \A i \in 1 .. n : w[i] = u[i]
      BY <1>3, <3>1
    <3> QED
      BY <3>2 DEF y
  <2> HIDE DEF w
  <2>2. DOMAIN w = 1 .. n + 1 /\ w = [i \in 1 .. n + 1 |-> w[i]]
    BY <2>1
  <2>3. ASSUME NEW i \in 1 .. n + 1
        PROVE  v[i] = w[i]
    <3>1. CASE i = n + 1
      BY <1>1, <2>1, <3>1
    <3>2. CASE i \in 1 .. n
      <4>1. u[i] = f[s[i]] /\ v[i] = f[t[i]]
        BY <1>1, <3>2
      <4> QED
        BY <1>1, <2>1, <3>2, <4>1
    <3> QED
      BY <1>1, <3>1, <3>2
  <2> HIDE DEF v, u
  <2>4. v = [i \in 1 .. n + 1 |-> v[i]]
    BY <1>2
  <2>5. v = w
    BY <2>2, <2>3, <2>4
  <2> QED
    BY <2>5 DEF w
<1>5. Strung(f, s) = FlattenSeq(u) /\ Strung(f, t) = FlattenSeq(v)
  BY DEF Strung
<1>6. f[x] \in Seq(S)
  BY DEF Values
<1> HIDE DEF u, v
<1> DEFINE y == f[x]
<1>7. y \in Seq(S) /\ v = Append(u, y) /\ u \in Seq(Seq(S)) /\ FlattenSeq(u) \in Seq(S)
  BY <1>3, <1>4, <1>5, <1>6
<1>8. FlattenSeq(v) = FlattenSeq(u) \o y /\ FlattenSeq(v) \in Seq(S)
  <2> HIDE DEF y
  <2> QED
    BY <1>7, FlattenOneMore
<1> QED
  BY <1>5, <1>8

\* The values put together are a sequence.
LEMMA StrungTyped ==
  ASSUME NEW D, NEW S, NEW f, Values(f, D, S), NEW s \in Seq(D)
  PROVE  Strung(f, s) \in Seq(S)
<1> DEFINE T == {n \in Nat : n <= Len(s) => Strung(f, First(s, n)) \in Seq(S)}
<1>0. Len(s) \in Nat
  OBVIOUS
<1>1. 0 \in T
  <2>1. First(s, 0) = <<>>
    BY <1>0, FirstIs
  <2>2. Strung(f, First(s, 0)) = <<>>
    BY <2>1, StrungNone
  <2>3. <<>> \in Seq(S)
    OBVIOUS
  <2> QED
    BY <2>2, <2>3
<1>2. ASSUME NEW n \in Nat, n \in T
      PROVE  n + 1 \in T
  <2> SUFFICES ASSUME n + 1 <= Len(s) PROVE Strung(f, First(s, n + 1)) \in Seq(S)
    OBVIOUS
  <2>1. n \in 0 .. Len(s) /\ n < Len(s) /\ n + 1 \in 1 .. Len(s)
    BY <1>0
  <2>2. First(s, n + 1) = Append(First(s, n), s[n + 1]) /\ First(s, n) \in Seq(D)
    BY <2>1, FirstIs
  <2> DEFINE a == First(s, n)
             x == s[n + 1]
  <2>3. x \in D /\ Strung(f, a) \in Seq(S) /\ a \in Seq(D)
    BY <1>2, <2>1, <2>2
  <2>4. Strung(f, Append(a, x)) \in Seq(S)
    <3> HIDE DEF a, x
    <3> QED
      BY <2>3, StrungStep
  <2> QED
    BY <2>2, <2>4
<1> HIDE DEF T
<1>3. Nat \subseteq T
  BY <1>1, <1>2, NatInductionOnSets
<1>4. Strung(f, First(s, Len(s))) \in Seq(S)
  BY <1>0, <1>3 DEF T
<1> QED
  BY <1>0, <1>4, FirstIs

\* One element more adds its value.
LEMMA StrungOneMore ==
  ASSUME NEW D, NEW S, NEW f, Values(f, D, S), NEW s \in Seq(D), NEW x \in D
  PROVE  Strung(f, Append(s, x)) = Strung(f, s) \o f[x]
<1>1. Strung(f, s) \in Seq(S)
  BY StrungTyped
<1> QED
  BY <1>1, StrungStep

\* Sequence s is the beginning of t.
Begins(s, t) == Len(s) <= Len(t) /\ \A i \in 1 .. Len(s) : s[i] = t[i]

\* More elements change nothing at the beginning.
LEMMA StrungBegins ==
  ASSUME NEW D, NEW S, NEW f, Values(f, D, S), NEW s \in Seq(D),
         NEW n \in 0 .. Len(s)
  PROVE  \A m \in n .. Len(s) : Begins(Strung(f, First(s, n)), Strung(f, First(s, m)))
<1> DEFINE T == {m \in Nat : n <= m /\ m <= Len(s) =>
                               Begins(Strung(f, First(s, n)), Strung(f, First(s, m)))}
<1>0. Len(s) \in Nat /\ n \in Nat
  OBVIOUS
<1>1. \A m \in 0 .. Len(s) : First(s, m) \in Seq(D) /\ Strung(f, First(s, m)) \in Seq(S)
  <2>1. \A m \in 0 .. Len(s) : First(s, m) \in Seq(D)
    BY FirstIs
  <2> QED
    BY <2>1, StrungTyped
<1>2. Begins(Strung(f, First(s, n)), Strung(f, First(s, n)))
  BY <1>1 DEF Begins
<1>3. 0 \in T
  BY <1>0, <1>2
<1>4. ASSUME NEW m \in Nat, m \in T
      PROVE  m + 1 \in T
  <2> SUFFICES ASSUME n <= m + 1, m + 1 <= Len(s)
               PROVE  Begins(Strung(f, First(s, n)), Strung(f, First(s, m + 1)))
    OBVIOUS
  <2>1. CASE n = m + 1
    BY <1>2, <2>1
  <2>2. CASE n # m + 1
    <3>1. n <= m /\ m <= Len(s) /\ m \in 0 .. Len(s) /\ m < Len(s) /\ m + 1 \in 1 .. Len(s)
      BY <1>0, <2>2
    <3> DEFINE a == Strung(f, First(s, n))
               b == Strung(f, First(s, m))
               c == f[s[m + 1]]
    <3>2. Begins(a, b)
      BY <1>4, <3>1
    <3>3. First(s, m + 1) = Append(First(s, m), s[m + 1]) /\ s[m + 1] \in D
      BY <3>1, FirstIs
    <3>4. Strung(f, First(s, m + 1)) = b \o c
      <4> DEFINE u == First(s, m)
                 x == s[m + 1]
      <4>1. x \in D /\ u \in Seq(D)
        BY <1>1, <3>1, <3>3
      <4>2. Strung(f, Append(u, x)) = Strung(f, u) \o f[x]
        <5> HIDE DEF u, x
        <5> QED
          BY <4>1, StrungOneMore
      <4> QED
        BY <3>3, <4>2
    <3>5. a \in Seq(S) /\ b \in Seq(S) /\ c \in Seq(S)
      BY <1>1, <3>1, <3>3 DEF Values
    <3> HIDE DEF a, b, c
    <3>6. Len(b \o c) = Len(b) + Len(c) /\ Len(b) \in Nat /\ Len(c) \in Nat /\ Len(a) \in Nat
          /\ \A i \in 1 .. Len(b) : (b \o c)[i] = b[i]
      BY <3>5
    <3>7. Begins(a, b \o c)
      BY <3>2, <3>6 DEF Begins
    <3> QED
      BY <3>4, <3>7 DEF a
  <2> QED
    BY <2>1, <2>2
<1> HIDE DEF T
<1>5. Nat \subseteq T
  BY <1>3, <1>4, NatInductionOnSets
<1> QED
  BY <1>0, <1>5 DEF T

\* What is in the concatenation of two sequences.
Joined(s, t, S) ==
  /\ s \o t \in Seq(S) /\ Len(s \o t) = Len(s) + Len(t)
  /\ \A i \in 1 .. Len(s) + Len(t) : (s \o t)[i] = IF i <= Len(s) THEN s[i] ELSE t[i - Len(s)]

\* The elements of a concatenation.
LEMMA ConcatIs == ASSUME NEW S, NEW s \in Seq(S), NEW t \in Seq(S) PROVE Joined(s, t, S)
BY DEF Joined

\* Concatenation is associative.
Associated(x, y, z) == (x \o y) \o z = x \o (y \o z)

\* Parentheses do not matter.
LEMMA ConcatAssoc ==
  ASSUME NEW S, NEW x \in Seq(S), NEW y \in Seq(S), NEW z \in Seq(S)
  PROVE  Associated(x, y, z)
<1> DEFINE a == x \o y
           b == y \o z
           l == a \o z
           r == x \o b
           k == Len(x)
           m == Len(y)
           n == Len(z)
<1>0. x \in Seq(S) /\ z \in Seq(S) /\ k \in Nat /\ m \in Nat /\ n \in Nat
  OBVIOUS
<1>1. a \in Seq(S) /\ Len(a) = k + m
  OBVIOUS
<1>2. \A i \in 1 .. k + m : a[i] = IF i <= k THEN x[i] ELSE y[i - k]
  OBVIOUS
<1>3. b \in Seq(S) /\ Len(b) = m + n
  OBVIOUS
<1>4. \A i \in 1 .. m + n : b[i] = IF i <= m THEN y[i] ELSE z[i - m]
  OBVIOUS
<1> HIDE DEF a, b
<1>5. l \in Seq(S) /\ Len(l) = Len(a) + n
  <2>1. a \in Seq(S) /\ z \in Seq(S)
    BY ONLY <1>0, <1>1
  <2>2. a \o z \in Seq(S)
    BY ONLY <2>1
  <2>3. Len(a \o z) = Len(a) + Len(z)
    BY ONLY <2>1
  <2> QED
    BY ONLY <2>2, <2>3
<1>6. \A i \in 1 .. Len(a) + n : l[i] = IF i <= Len(a) THEN a[i] ELSE z[i - Len(a)]
  BY ONLY <1>0, <1>1
<1>7. r \in Seq(S) /\ Len(r) = k + Len(b)
  <2>1. x \in Seq(S) /\ b \in Seq(S)
    BY ONLY <1>0, <1>3
  <2>2. x \o b \in Seq(S)
    BY ONLY <2>1
  <2>3. Len(x \o b) = Len(x) + Len(b)
    BY ONLY <2>1
  <2> QED
    BY ONLY <2>2, <2>3
<1>8. \A i \in 1 .. k + Len(b) : r[i] = IF i <= k THEN x[i] ELSE b[i - k]
  BY ONLY <1>0, <1>3
<1> HIDE DEF l, r, k, m, n
<1>9. ASSUME NEW i \in 1 .. k + m + n PROVE l[i] = r[i]
  <2>1. l[i] = IF i <= k + m THEN a[i] ELSE z[i - (k + m)]
    BY ONLY <1>0, <1>1, <1>6, i \in 1 .. k + m + n
  <2>2. r[i] = IF i <= k THEN x[i] ELSE b[i - k]
    BY ONLY <1>0, <1>3, <1>8, i \in 1 .. k + m + n
  <2>3. i <= k + m => a[i] = IF i <= k THEN x[i] ELSE y[i - k]
    BY ONLY <1>0, <1>2, i \in 1 .. k + m + n
  <2>4. ~ (i <= k) => b[i - k] = IF i - k <= m THEN y[i - k] ELSE z[i - k - m]
    BY ONLY <1>0, <1>4, i \in 1 .. k + m + n
  <2>5. i \in Int /\ i - (k + m) = i - k - m /\ (i <= k + m <=> i - k <= m) /\ (i <= k => i <= k + m)
    BY ONLY <1>0, i \in 1 .. k + m + n
  <2> QED
    BY ONLY <2>1, <2>2, <2>3, <2>4, <2>5
<1>10. l = r
  <2>1. Len(l) = k + m + n /\ Len(r) = k + m + n
    BY ONLY <1>0, <1>1, <1>3, <1>5, <1>7
  <2>2. \A i \in 1 .. Len(l) : l[i] = r[i]
    BY ONLY <1>9, <2>1
  <2>3. l \in Seq(S) /\ r \in Seq(S) /\ Len(l) = Len(r)
    BY ONLY <1>5, <1>7, <2>1
  <2> QED
    BY ONLY <2>2, <2>3
<1> QED
  BY <1>10 DEF l, r, a, b, Associated

\* The empty sequence adds nothing.
LEMMA ConcatEmpty ==
  ASSUME NEW S, NEW x \in Seq(S)
  PROVE  x \o <<>> = x /\ <<>> \o x = x
OBVIOUS

\* The middle moved from the one side to the other.
Regrouped(t, x, y, z) == (t \o x) \o (y \o z) = (t \o (x \o y)) \o z

\* Nor do they for four sequences.
LEMMA Regroup ==
  ASSUME NEW S, NEW t \in Seq(S), NEW x \in Seq(S), NEW y \in Seq(S), NEW z \in Seq(S)
  PROVE  Regrouped(t, x, y, z)
<1>1. Associated(t, x, y)
  BY ConcatAssoc
<1> DEFINE u == t \o x
<1>2. u \in Seq(S)
  OBVIOUS
<1> HIDE DEF u
<1>3. Associated(u, y, z)
  BY <1>2, ConcatAssoc
<1> QED
  BY <1>1, <1>3 DEF u, Associated, Regrouped

-------------------------------------------------------------------------------
(* The codes.                                                              *)

\* The paths of a child, from its parent.
From(bit, paths) == {<<x[1], <<bit>> \o x[2]>> : x \in paths}

\* A function with the paths below the first n nodes.
Routes(f, forest, n) ==
  f = [m \in 1 .. n |-> IF forest[m].type = "LEAF" THEN {<<forest[m].c, <<>> >>}
                        ELSE From(1, f[forest[m].left]) \cup From(0, f[forest[m].right])]

\* What Paths is in a sequence of nodes.
PathsIn(forest, n) == (CHOOSE f : Routes(f, forest, Len(forest)))[n]

\* Paths, of the nodes of the state.
LEMMA PathsAreIn == ASSUME nodes \in Seq(Node) PROVE \A n : Paths(n) = PathsIn(nodes, n)
<1>1. DOMAIN nodes = 1 .. Len(nodes)
  OBVIOUS
<1> QED
  BY <1>1 DEF Paths, PathsIn, Routes, From

\* There is one: the recursion of Paths ends.
LEMMA RoutesExist ==
  ASSUME NEW forest, NEW N \in Nat, DOMAIN forest = 1 .. N, Grown(forest)
  PROVE  \E f : Routes(f, forest, N)
<1> DEFINE S == {n \in Nat : n <= N => \E f : Routes(f, forest, n)}
<1>1. 0 \in S
  <2>1. Routes([m \in 1 .. 0 |-> {}], forest, 0)
    BY DEF Routes
  <2> QED
    BY <2>1
<1>2. ASSUME NEW n \in Nat, n \in S
      PROVE  n + 1 \in S
  <2> SUFFICES ASSUME n + 1 <= N PROVE \E f : Routes(f, forest, n + 1)
    OBVIOUS
  <2>1. PICK f : Routes(f, forest, n)
    BY <1>2
  <2> DEFINE x == forest[n + 1]
             new == IF x.type = "LEAF" THEN {<<x.c, <<>> >>}
                    ELSE From(1, f[x.left]) \cup From(0, f[x.right])
             g == [m \in 1 .. n + 1 |-> IF m = n + 1 THEN new ELSE f[m]]
  <2>2. \A m \in 1 .. n : f[m] = IF forest[m].type = "LEAF" THEN {<<forest[m].c, <<>> >>}
                                 ELSE From(1, f[forest[m].left]) \cup From(0, f[forest[m].right])
    BY <2>1 DEF Routes
  <2>3. \A m \in 1 .. n + 1 : forest[m].type # "LEAF" =>
          forest[m].left \in 1 .. m - 1 /\ forest[m].right \in 1 .. m - 1
    BY DEF Grown, NULL
  <2>4. ASSUME NEW m \in 1 .. n + 1
        PROVE  g[m] = IF forest[m].type = "LEAF" THEN {<<forest[m].c, <<>> >>}
                      ELSE From(1, g[forest[m].left]) \cup From(0, g[forest[m].right])
    <3>1. CASE forest[m].type = "LEAF"
      <4>1. CASE m = n + 1
        BY <3>1, <4>1
      <4>2. CASE m # n + 1
        <5>1. m \in 1 .. n /\ g[m] = f[m]
          BY <4>2
        <5> QED
          BY <2>2, <3>1, <5>1
      <4> QED
        BY <4>1, <4>2
    <3>2. CASE forest[m].type # "LEAF"
      <4>1. /\ forest[m].left \in 1 .. n /\ forest[m].left # n + 1
            /\ forest[m].right \in 1 .. n /\ forest[m].right # n + 1
        BY <2>3, <3>2
      <4>2. g[forest[m].left] = f[forest[m].left] /\ g[forest[m].right] = f[forest[m].right]
        BY <4>1
      <4>3. CASE m = n + 1
        <5>1. g[m] = From(1, f[x.left]) \cup From(0, f[x.right])
          BY <3>2, <4>3
        <5> QED
          BY <3>2, <4>2, <4>3, <5>1
      <4>4. CASE m # n + 1
        <5>1. m \in 1 .. n /\ g[m] = f[m]
          BY <4>4
        <5>2. f[m] = From(1, f[forest[m].left]) \cup From(0, f[forest[m].right])
          BY <2>2, <3>2, <5>1
        <5> QED
          BY <3>2, <4>2, <5>1, <5>2
      <4> QED
        BY <4>3, <4>4
    <3> QED
      BY <3>1, <3>2
  <2>5. g = [m \in 1 .. n + 1 |-> g[m]]
    OBVIOUS
  <2> HIDE DEF g
  <2>6. Routes(g, forest, n + 1)
    BY <2>4, <2>5 DEF Routes
  <2> QED
    BY <2>6
<1> HIDE DEF S
<1>3. N \in S
  BY <1>1, <1>2, NatInductionOnSets
<1> QED
  BY <1>3 DEF S

\* A leaf has the empty path, and the paths below an inner node begin with the
\* way to its left or its right child.
LEMMA PathsAre ==
  ASSUME NEW forest, NEW N \in Nat, DOMAIN forest = 1 .. N, Len(forest) = N, Grown(forest)
  PROVE  \A n \in 1 .. N :
           PathsIn(forest, n) =
             IF forest[n].type = "LEAF" THEN {<<forest[n].c, <<>> >>}
             ELSE From(1, PathsIn(forest, forest[n].left))
                    \cup From(0, PathsIn(forest, forest[n].right))
<1> DEFINE f == CHOOSE x : Routes(x, forest, N)
<1>1. Routes(f, forest, N)
  BY RoutesExist
<1>2. \A n : PathsIn(forest, n) = f[n]
  BY DEF PathsIn
<1> HIDE DEF f
<1>3. \A n \in 1 .. N : f[n] = IF forest[n].type = "LEAF" THEN {<<forest[n].c, <<>> >>}
                               ELSE From(1, f[forest[n].left]) \cup From(0, f[forest[n].right])
  BY <1>1 DEF Routes
<1> QED
  BY ONLY <1>2, <1>3

\* Each path is that of a character of a leaf, a sequence of bits.
LEMMA PathsTyped ==
  ASSUME NEW forest \in Seq(Node), Grown(forest)
  PROVE  \A n \in 1 .. Len(forest) : PathsIn(forest, n) \subseteq Chars \X Seq({0, 1})
<1> DEFINE N == Len(forest)
           T == Chars \X Seq({0, 1})
           S == {n \in Nat : \A m \in 1 .. n : m <= N => PathsIn(forest, m) \subseteq T}
<1>0. N \in Nat /\ DOMAIN forest = 1 .. N
  OBVIOUS
<1>1. 0 \in S
  OBVIOUS
<1>2. ASSUME NEW n \in Nat, n \in S
      PROVE  n + 1 \in S
  <2>1. ASSUME NEW m \in 1 .. n + 1, m <= N
        PROVE  PathsIn(forest, m) \subseteq T
    <3>1. CASE m <= n
      BY <1>2, <2>1, <3>1
    <3>2. CASE m = n + 1
      <4>1. m \in 1 .. N /\ forest[m] \in Node
        BY <2>1
      <4>2. CASE forest[m].type = "LEAF"
        <5>1. PathsIn(forest, m) = {<<forest[m].c, <<>> >>}
          BY <1>0, <4>1, <4>2, PathsAre
        <5>2. forest[m].c \in Chars
          BY <4>1 DEF Node
        <5>3. <<>> \in Seq({0, 1})
          OBVIOUS
        <5>4. <<forest[m].c, <<>> >> \in T
          BY <5>2, <5>3
        <5> QED
          BY <5>1, <5>4
      <4>3. CASE forest[m].type # "LEAF"
        <5> DEFINE l == forest[m].left
                   r == forest[m].right
        <5>1. l \in 1 .. n /\ r \in 1 .. n /\ l <= N /\ r <= N
          BY <2>1, <3>2, <4>1, <4>3 DEF Grown, NULL
        <5>2. PathsIn(forest, l) \subseteq T /\ PathsIn(forest, r) \subseteq T
          BY <1>2, <5>1
        <5>3. PathsIn(forest, m) = From(1, PathsIn(forest, l)) \cup From(0, PathsIn(forest, r))
          BY <1>0, <4>1, <4>3, PathsAre
        <5>4. \A bit \in {0, 1} : \A P : P \subseteq T => From(bit, P) \subseteq T
          <6> SUFFICES ASSUME NEW bit \in {0, 1}, NEW P, P \subseteq T, NEW x \in P
                       PROVE  <<x[1], <<bit>> \o x[2]>> \in T
            BY DEF From
          <6>1. x[1] \in Chars /\ x[2] \in Seq({0, 1}) /\ <<bit>> \in Seq({0, 1})
            OBVIOUS
          <6>2. <<bit>> \o x[2] \in Seq({0, 1})
            BY <6>1
          <6> QED
            BY <6>1, <6>2
        <5> HIDE DEF l, r, T
        <5> QED
          BY <5>2, <5>3, <5>4
      <4> QED
        BY <4>2, <4>3
    <3> QED
      BY <3>1, <3>2
  <2> QED
    BY <2>1
<1> HIDE DEF S, T
<1>3. Nat \subseteq S
  BY <1>1, <1>2, NatInductionOnSets
<1> QED
  BY <1>0, <1>3 DEF S, T

\* The characters with a path are those of the leaves.
LEMMA PathsOfLeaves ==
  ASSUME NEW forest \in Seq(Node), Grown(forest)
  PROVE  \A n \in 1 .. Len(forest) : \A m \in Below(n, forest) \cap LeavesOf(forest) :
           \E x \in PathsIn(forest, n) : x[1] = forest[m].c
<1> DEFINE N == Len(forest)
           Has(n) == \A m \in Below(n, forest) \cap LeavesOf(forest) :
                       \E x \in PathsIn(forest, n) : x[1] = forest[m].c
           S == {n \in Nat : \A m \in 1 .. n : m <= N => Has(m)}
<1>0. N \in Nat /\ DOMAIN forest = 1 .. N
  OBVIOUS
<1>1. 0 \in S
  OBVIOUS
<1>2. ASSUME NEW n \in Nat, n \in S
      PROVE  n + 1 \in S
  <2>1. ASSUME NEW k \in 1 .. n + 1, k <= N
        PROVE  Has(k)
    <3>1. CASE k <= n
      BY <1>2, <2>1, <3>1
    <3>2. CASE k = n + 1
      <4>1. k \in 1 .. N
        BY <2>1
      <4>2. CASE forest[k].type = "LEAF"
        <5>1. forest[k].left = NULL /\ forest[k].right = NULL
          BY <1>0, <4>1, <4>2 DEF Grown
        <5>2. Below(k, forest) = {k}
          BY <1>0, <4>1, <5>1, BelowIs
        <5>3. PathsIn(forest, k) = {<<forest[k].c, <<>> >>}
          BY <1>0, <4>1, <4>2, PathsAre
        <5> QED
          BY <5>2, <5>3
      <4>3. CASE forest[k].type # "LEAF"
        <5> DEFINE l == forest[k].left
                   r == forest[k].right
        <5>1. l \in 1 .. n /\ r \in 1 .. n /\ l <= N /\ r <= N
          BY <2>1, <3>2, <4>1, <4>3 DEF Grown, NULL
        <5>2. Has(l) /\ Has(r)
          BY <1>2, <5>1
        <5>3. PathsIn(forest, k) = From(1, PathsIn(forest, l)) \cup From(0, PathsIn(forest, r))
          BY <1>0, <4>1, <4>3, PathsAre
        <5>4. Below(k, forest) = {k} \cup Below(l, forest) \cup Below(r, forest)
          BY <1>0, <4>1, BelowIs
        <5>5. k \notin LeavesOf(forest)
          BY <4>3 DEF LeavesOf
        <5> HIDE DEF l, r
        <5>6. \A bit, P : \A x \in P : \E y \in From(bit, P) : y[1] = x[1]
          <6> SUFFICES ASSUME NEW bit, NEW P, NEW x \in P
                       PROVE  \E y \in From(bit, P) : y[1] = x[1]
            OBVIOUS
          <6>1. <<x[1], <<bit>> \o x[2]>> \in From(bit, P)
            BY DEF From
          <6> QED
            BY <6>1
        <5> QED
          BY <5>2, <5>3, <5>4, <5>5, <5>6
      <4> QED
        BY <4>2, <4>3
    <3> QED
      BY <3>1, <3>2
  <2> QED
    BY <2>1
<1> HIDE DEF S, Has
<1>3. Nat \subseteq S
  BY <1>1, <1>2, NatInductionOnSets
<1>4. \A n \in 1 .. N : Has(n)
  BY <1>0, <1>3 DEF S
<1> QED
  BY <1>4 DEF Has

-------------------------------------------------------------------------------
(* The characters counted are those with a leaf.                           *)

\* Only characters of the file are counted, and up to a byte 255 all of them.
CountedInv ==
  /\ \A c \in Chars : table[c] > 0 => c \in ToSet(input)
  /\ phase = "count" => at <= Len(input) /\ \A i \in 1 .. at : table[input[i]] > 0
  /\ phase # "count" /\ CharEOF \notin ToSet(input) =>
       \A i \in 1 .. Len(input) : table[input[i]] > 0

\* There is a leaf with character c.
HasLeaf(c, forest) == \E m \in LeavesOf(forest) : forest[m].c = c

\* The characters counted have a leaf, once the table's index has passed them.
LeafInv ==
  /\ phase = "nodes" => \A c \in Chars : c < at /\ table[c] > 0 => HasLeaf(c, nodes)
  /\ phase \in {"build", "built"} => \A c \in Chars : table[c] > 0 => HasLeaf(c, nodes)
  /\ nodes # <<>> => input # <<>>

\* A character has a leaf when it was counted.
CharsInv == CountedInv /\ LeafInv

\* Before anything is read there is no leaf.
LEMMA CharsInit == HuffInit => CharsInv
<1> SUFFICES ASSUME HuffInit PROVE CharsInv
  OBVIOUS
<1> USE DEF HuffInit
<1>1. input \in Seq(Chars)
  BY InputsAssumption
<1>2. CountedInv
  BY <1>1 DEF CountedInv
<1>3. LeafInv
  BY DEF LeafInv
<1> QED
  BY <1>2, <1>3 DEF CharsInv

\* An element of a sequence is of its type.
LEMMA ElementIn == ASSUME NEW S, NEW s \in Seq(S), NEW i \in 1 .. Len(s)
                   PROVE  s[i] \in ToSet(s) /\ s[i] \in S
BY DEF ToSet

\* A node more leaves the others their characters.
LEMMA LeavesStay ==
  ASSUME NEW f, f \in Seq(Node), NEW x, NEW g, g = Append(f, x)
  PROVE  /\ \A c : HasLeaf(c, f) => HasLeaf(c, g)
         /\ x.type = "LEAF" => HasLeaf(x.c, g)
<1> DEFINE n == Len(f)
<1>1. n \in Nat /\ DOMAIN f = 1 .. n /\ DOMAIN g = 1 .. n + 1 /\ g[n + 1] = x
      /\ \A m \in 1 .. n : g[m] = f[m]
  OBVIOUS
<1>2. ASSUME NEW c, HasLeaf(c, f)
      PROVE  HasLeaf(c, g)
  <2>1. PICK m \in 1 .. n : f[m].type = "LEAF" /\ f[m].c = c
    BY <1>1, <1>2 DEF HasLeaf, LeavesOf
  <2>2. m \in 1 .. n + 1
    BY <1>1
  <2> QED
    BY <1>1, <2>1, <2>2 DEF HasLeaf, LeavesOf
<1>3. ASSUME x.type = "LEAF"
      PROVE  HasLeaf(x.c, g)
  <2>1. n + 1 \in DOMAIN g
    BY <1>1
  <2> QED
    BY <1>1, <1>3, <2>1 DEF HasLeaf, LeavesOf
<1> QED
  BY <1>2, <1>3

\* Every step of the building keeps the leaves those of the characters counted.
LEMMA CharsStep == HuffTypeOK /\ QueueInv /\ CharsInv /\ [HuffNext]_huffVars => CharsInv'
<1> SUFFICES ASSUME HuffTypeOK, QueueInv, CharsInv, [HuffNext]_huffVars
             PROVE  CharsInv'
  OBVIOUS
<1>1. /\ input \in Seq(Chars) /\ at \in Nat /\ table \in [Chars -> Nat]
      /\ nodes \in Seq(Node)
      /\ Len(input) \in Nat /\ DOMAIN input = 1 .. Len(input)
  BY DEF HuffTypeOK
<1>2. CountedInv /\ LeafInv
  BY DEF CharsInv
<1>3. CASE UNCHANGED huffVars
  <2>1. UNCHANGED <<input, phase, at, table, nodes>>
    BY <1>3 DEF huffVars
  <2> QED
    BY <1>2, <2>1 DEF CharsInv, CountedInv, LeafInv, HasLeaf
<1>4. CASE CountChar
  <2>1. /\ phase = "count" /\ UNCHANGED <<input, phase, nodes>>
        /\ at' = at + 1 /\ table' = [table EXCEPT ![input[at + 1]] = @ + 1]
        /\ at < Len(input)
    BY <1>4 DEF CountChar, MoreInput
  <2>2. at + 1 \in 1 .. Len(input) /\ input[at + 1] \in Chars /\ input[at + 1] \in ToSet(input)
    BY <1>1, <2>1, ElementIn
  <2>3. \A c \in Chars : IF c = input[at + 1] THEN table'[c] = table[c] + 1
                         ELSE table'[c] = table[c]
    BY <1>1, <2>1, <2>2
  <2>4. \A c \in Chars : table[c] \in Nat
    BY <1>1
  <2>5. \A c \in Chars : table'[c] > 0 => c \in ToSet(input)
    <3> SUFFICES ASSUME NEW c \in Chars, table'[c] > 0 PROVE c \in ToSet(input)
      OBVIOUS
    <3>1. CASE c = input[at + 1]
      BY <2>2, <3>1
    <3>2. CASE c # input[at + 1]
      BY <1>2, <2>3, <3>2 DEF CountedInv
    <3> QED
      BY <3>1, <3>2
  <2>6. ASSUME NEW i \in 1 .. at + 1
        PROVE  table'[input[i]] > 0
    <3>1. i \in 1 .. Len(input) /\ input[i] \in Chars
      BY <1>1, <2>1, <2>2
    <3>2. CASE i = at + 1
      BY <2>2, <2>3, <2>4, <3>2
    <3>3. CASE i \in 1 .. at
      <4>1. table[input[i]] > 0
        BY <1>2, <2>1, <3>3 DEF CountedInv
      <4> QED
        BY <2>3, <2>4, <3>1, <4>1
    <3> QED
      BY <1>1, <3>2, <3>3
  <2>7. CountedInv'
    BY <1>1, <2>1, <2>5, <2>6 DEF CountedInv
  <2>8. LeafInv'
    BY <1>2, <2>1 DEF LeafInv
  <2> QED
    BY <2>7, <2>8 DEF CharsInv
<1>5. CASE InputEnds
  <2>1. /\ phase = "count" /\ phase' = "nodes" /\ at' = 0
        /\ UNCHANGED <<input, table, nodes>>
        /\ at >= Len(input) \/ input[at + 1] = CharEOF
    BY <1>1, <1>5 DEF InputEnds, MoreInput
  <2>2. at <= Len(input) /\ \A i \in 1 .. at : table[input[i]] > 0
    BY <1>2, <2>1 DEF CountedInv
  <2>3. CharEOF \notin ToSet(input) => at = Len(input)
    <3> SUFFICES ASSUME at # Len(input)
                 PROVE  CharEOF \in ToSet(input)
      OBVIOUS
    <3> DEFINE n == Len(input)
    <3>1. at \in Nat /\ n \in Nat /\ at <= n /\ at # n
      BY <1>1, <2>2
    <3>2. (at >= n => FALSE) /\ at + 1 \in 1 .. n
      <4> HIDE DEF n
      <4> QED
        BY ONLY <3>1
    <3>3. input[at + 1] = CharEOF
      BY <2>1, <3>2
    <3>4. input[at + 1] \in ToSet(input)
      BY <1>1, <3>2, ElementIn
    <3> QED
      BY <3>3, <3>4
  <2>4. CountedInv'
    BY <1>2, <2>1, <2>2, <2>3 DEF CountedInv
  <2>5. LeafInv'
    BY <1>2, <2>1 DEF LeafInv, Chars
  <2> QED
    BY <2>4, <2>5 DEF CharsInv
<1>6. CASE create_tree_nodes
  <2> DEFINE x == [type |-> "LEAF", c |-> at, v |-> table[at], left |-> NULL, right |-> NULL]
  <2>1. /\ phase = "nodes" /\ at \in Chars /\ at' = at + 1
        /\ UNCHANGED <<input, phase, table>>
        /\ IF table[at] > 0 THEN nodes' = Append(nodes, x) ELSE UNCHANGED nodes
    BY <1>6 DEF create_tree_nodes
  <2>2. CountedInv'
    BY <1>2, <2>1 DEF CountedInv
  <2>3. \A c \in Chars : c < at /\ table[c] > 0 => HasLeaf(c, nodes)
    BY <1>2, <2>1 DEF LeafInv
  <2>4. \A c : HasLeaf(c, nodes) => HasLeaf(c, nodes')
    <3>1. CASE nodes' = Append(nodes, x)
      <4> HIDE DEF x
      <4> QED
        BY <1>1, <3>1, LeavesStay
    <3>2. CASE UNCHANGED nodes
      BY <3>2 DEF HasLeaf
    <3> QED
      BY <2>1, <3>1, <3>2
  <2>5. table[at] > 0 => HasLeaf(at, nodes')
    <3> SUFFICES ASSUME table[at] > 0 PROVE HasLeaf(at, nodes')
      OBVIOUS
    <3>1. nodes' = Append(nodes, x) /\ x.type = "LEAF" /\ x.c = at
      BY <2>1
    <3> HIDE DEF x
    <3>2. HasLeaf(x.c, nodes')
      BY <1>1, <3>1, LeavesStay
    <3> QED
      BY <3>1, <3>2 DEF HasLeaf
  <2>6. ASSUME NEW c \in Chars, c < at + 1, table[c] > 0
        PROVE  HasLeaf(c, nodes')
    <3>1. CASE c < at
      BY <2>3, <2>4, <2>6, <3>1
    <3>2. CASE c = at
      BY <2>5, <2>6, <3>2
    <3> QED
      BY <1>1, <2>6, <3>1, <3>2 DEF Chars
  <2>7. nodes' # <<>> => input # <<>>
    <3>1. CASE table[at] > 0
      <4>1. at \in ToSet(input)
        BY <1>2, <2>1, <3>1 DEF CountedInv
      <4> QED
        BY <4>1 DEF ToSet
    <3>2. CASE ~ (table[at] > 0)
      BY <1>2, <2>1, <3>2 DEF LeafInv
    <3> QED
      BY <3>1, <3>2
  <2>8. LeafInv'
    BY <2>1, <2>6, <2>7 DEF LeafInv
  <2> QED
    BY <2>2, <2>8 DEF CharsInv
<1>7. CASE NodesDone
  <2>1. /\ phase = "nodes" /\ phase' = "build" /\ at \notin Chars
        /\ UNCHANGED <<input, at, table, nodes>>
    BY <1>7 DEF NodesDone
  <2>2. \A c \in Chars : c < at
    BY <1>1, <2>1, SizesAssumption DEF Chars
  <2>3. \A c \in Chars : table[c] > 0 => HasLeaf(c, nodes)
    BY <1>2, <2>1, <2>2 DEF LeafInv
  <2> QED
    BY <1>2, <2>1, <2>3 DEF CharsInv, CountedInv, LeafInv, HasLeaf
<1>8. CASE build_tree
  <2>1. /\ phase = "build" /\ UNCHANGED <<input, phase, at, table>>
        /\ nodes' = Append(nodes, Internal(queue[1], queue[2]))
    BY <1>8 DEF build_tree
  <2>2. \A c : HasLeaf(c, nodes) => HasLeaf(c, nodes')
    <3> DEFINE x == Internal(queue[1], queue[2])
    <3>1. nodes' = Append(nodes, x)
      BY <2>1
    <3> HIDE DEF x
    <3> QED
      BY <1>1, <3>1, LeavesStay
  <2>3. nodes # <<>>
    <3>1. queue \in Seq(DOMAIN nodes) /\ Len(queue) > 1
      BY <1>8 DEF HuffTypeOK, build_tree
    <3>2. queue[1] \in DOMAIN nodes
      BY <3>1
    <3> QED
      BY <3>2
  <2> QED
    BY <1>2, <2>1, <2>2, <2>3 DEF CharsInv, CountedInv, LeafInv
<1>9. CASE BuildDone
  <2>1. /\ phase = "build" /\ phase' = "built" /\ UNCHANGED <<input, at, table, nodes>>
    BY <1>9 DEF BuildDone
  <2> QED
    BY <1>2, <2>1 DEF CharsInv, CountedInv, LeafInv, HasLeaf
<1> QED
  BY <1>3, <1>4, <1>5, <1>6, <1>7, <1>8, <1>9 DEF HuffNext

\* Every character that has a code has the bits of one of its paths.
LEMMA CodesAre ==
  ASSUME HuffInv, phase = "built", root # NULL
  PROVE  /\ root \in 1 .. Len(nodes)
         /\ Below(root, nodes) = 1 .. Len(nodes)
         /\ \A c \in Coded : /\ c \in Chars /\ table_bit_encode(c) \in Seq({0, 1})
                             /\ <<c, table_bit_encode(c)>> \in PathsIn(nodes, root)
<1> DEFINE N == Len(nodes)
<1>1. /\ nodes \in Seq(Node) /\ Grown(nodes) /\ ForestOf(Roots, nodes) /\ RootInv /\ queue = <<>>
      /\ N \in Nat /\ DOMAIN nodes = 1 .. N
  BY DEF HuffInv, HuffTypeOK, QueueInv
<1>2. root \in 1 .. N
  BY <1>1 DEF RootInv, NULL
<1>3. Roots = {root}
  BY <1>1 DEF Roots, ToSet
<1>4. Below(root, nodes) = 1 .. N
  BY <1>1, <1>3 DEF ForestOf
<1>5. Paths(root) = PathsIn(nodes, root)
  BY <1>1, PathsAreIn
<1>6. PathsIn(nodes, root) \subseteq Chars \X Seq({0, 1})
  BY <1>1, <1>2, PathsTyped
<1>7. ASSUME NEW c \in Coded
      PROVE  /\ c \in Chars /\ table_bit_encode(c) \in Seq({0, 1})
             /\ <<c, table_bit_encode(c)>> \in PathsIn(nodes, root)
  <2> DEFINE x == CHOOSE x \in Paths(root) : x[1] = c
  <2>1. \E y \in Paths(root) : y[1] = c
    BY DEF Coded
  <2>2. x \in Paths(root) /\ x[1] = c
    BY <2>1
  <2>3. table_bit_encode(c) = x[2]
    BY DEF table_bit_encode
  <2> HIDE DEF x
  <2>4. x \in Chars \X Seq({0, 1})
    BY <1>5, <1>6, <2>2
  <2>5. x = <<x[1], x[2]>> /\ x[1] \in Chars /\ x[2] \in Seq({0, 1})
    BY <2>4
  <2> QED
    BY <1>5, <2>2, <2>3, <2>5
<1> QED
  BY <1>2, <1>4, <1>7

\* The tree has a code for each character counted: for all of the file, if it
\* has no byte 255.
LEMMA CountedHaveCodes ==
  ASSUME HuffInv, CharsInv, phase = "built", root # NULL, CharEOF \notin ToSet(input)
  PROVE  \A i \in 1 .. Len(input) : input[i] \in Coded
<1> SUFFICES ASSUME NEW i \in 1 .. Len(input)
             PROVE  input[i] \in Coded
  OBVIOUS
<1> DEFINE c == input[i]
<1>1. /\ nodes \in Seq(Node) /\ Grown(nodes) /\ input \in Seq(Chars)
  BY DEF HuffInv, HuffTypeOK
<1>2. c \in Chars
  BY <1>1
<1>3. table[c] > 0
  BY DEF CharsInv, CountedInv
<1>4. HasLeaf(c, nodes)
  BY <1>2, <1>3 DEF CharsInv, LeafInv
<1> HIDE DEF c
<1>5. PICK m \in LeavesOf(nodes) : nodes[m].c = c
  BY <1>4 DEF HasLeaf
<1>6. root \in 1 .. Len(nodes) /\ m \in Below(root, nodes)
  BY <1>1, CodesAre DEF LeavesOf
<1>7. \E x \in PathsIn(nodes, root) : x[1] = c
  BY <1>1, <1>5, <1>6, PathsOfLeaves
<1>8. Paths(root) = PathsIn(nodes, root)
  BY <1>1, PathsAreIn
<1> QED
  BY <1>7, <1>8 DEF Coded, c

\* In a tree that is one leaf there is only one character.
LEMMA OneLeafOneChar ==
  ASSUME HuffInv, CharsInv, phase = "built", root # NULL, CharEOF \notin ToSet(input),
         nodes[root].type = "LEAF"
  PROVE  Cardinality(ToSet(input)) = 1
<1> DEFINE N == Len(nodes)
           c == nodes[root].c
<1>1. /\ nodes \in Seq(Node) /\ Grown(nodes) /\ input \in Seq(Chars)
      /\ N \in Nat /\ DOMAIN nodes = 1 .. N /\ table \in [Chars -> Nat]
      /\ root \in 1 .. N /\ Below(root, nodes) = 1 .. N
  BY CodesAre DEF HuffInv, HuffTypeOK
<1>2. 1 .. N = {root}
  <2>1. nodes[root].left = NULL /\ nodes[root].right = NULL
    BY <1>1 DEF Grown
  <2>2. Below(root, nodes) = {root} \cup Below(NULL, nodes) \cup Below(NULL, nodes)
    BY <1>1, <2>1, BelowIs
  <2>3. Below(NULL, nodes) = {}
    BY <1>1, BelowIs
  <2> QED
    BY <1>1, <2>2, <2>3
<1>3. \A x \in ToSet(input) : x = c
  <2> SUFFICES ASSUME NEW x \in ToSet(input) PROVE x = c
    OBVIOUS
  <2>1. PICK i \in 1 .. Len(input) : x = input[i]
    BY <1>1 DEF ToSet
  <2>2. table[x] > 0 /\ x \in Chars
    <3>1. \A j \in 1 .. Len(input) : table[input[j]] > 0
      BY DEF CharsInv, CountedInv
    <3> QED
      BY <1>1, <2>1, <3>1
  <2>3. HasLeaf(x, nodes)
    BY <2>2 DEF CharsInv, LeafInv
  <2> QED
    BY <1>1, <1>2, <2>3 DEF HasLeaf, LeavesOf
<1>4. ToSet(input) # {}
  <2>1. nodes # <<>>
    BY <1>1
  <2>2. input # <<>>
    BY <2>1 DEF CharsInv, LeafInv
  <2>3. 1 \in 1 .. Len(input)
    BY <1>1, <2>2
  <2> QED
    BY <1>1, <2>3, ElementIn
<1>5. ToSet(input) = {c}
  BY <1>3, <1>4
<1> QED
  BY <1>5, FS_Singleton

-------------------------------------------------------------------------------
(* What huffc writes.                                                      *)

\* The bytes a file may have: a marker and at least a bit.
Marked == {b \in Nat : \E n \in 1 .. ByteBits - 1 : HasBits(b, n)}

\* What the bytes of a file mean, as a function.
BitsFun == [b \in Nat |-> BitsIn(b)]

\* The bits of whole bytes, those of one not full and more.
Sent(s, b, more) == Strung(BitsFun, s) \o BitsIn(b) \o more

\* The codes of the characters, and the tree's text.
TheCodes == [c \in Chars |-> table_bit_encode(c)]
Serial == tree_serialize(root)

\* While huffc writes: the bits written are the code of the characters read.
Writing ==
  /\ text = Serial
  /\ read \in 0 .. Len(input) /\ \A i \in 1 .. read : input[i] \in Coded
  /\ code \in Seq({0, 1})
  /\ stdio \in Seq(Marked) /\ count = Len(stdio)
  /\ \E n \in 0 .. ByteBits - 2 : HasBits(byte, n)
  /\ Sent(stdio, byte, code) = Strung(TheCodes, First(input, read))

\* In the file huffc leaves, the code of all characters or, if bytes were lost,
\* its beginning; the tree may be cut.
Written ==
  /\ root # NULL /\ stdio = <<>>
  /\ \A i \in 1 .. Len(input) : input[i] \in Coded
  /\ disk \in Seq(Marked)
  /\ Begins(Strung(BitsFun, disk), Strung(TheCodes, input))
  /\ ~ lost => Strung(BitsFun, disk) = Strung(TheCodes, input)
  /\ text = Serial \/ text \in Shortened(Serial)

\* What the file holds at each stage of the programs.
FileInv ==
  /\ prog = "build" =>
       mode = "none" /\ stdio = <<>> /\ lost = FALSE /\ code = <<>> /\ read = 0
  /\ prog # "build" => phase = "built"
  /\ prog \in {"tree", "huffc"} => root # NULL /\ mode = "w" /\ disk = <<>> /\ lost = FALSE
  /\ prog = "tree" =>
       byte = NO_BITS_WRITTEN /\ count = 0 /\ stdio = <<>> /\ code = <<>> /\ read = 0
  /\ prog = "huffc" => Writing
  /\ prog = "huffd" => mode = "none"
  /\ prog \in {"read", "decode", "free"} => mode = "r"
  /\ prog \in {"huffd", "read", "decode", "free", "done", "endless"} => Written

-------------------------------------------------------------------------------
\* The bits of a byte of a file.
LEMMA MarkedBits ==
  /\ Marked \subseteq Nat
  /\ Values(BitsFun, Marked, {0, 1})
  /\ \A b \in Marked : BitsFun[b] = BitsIn(b)
<1>1. ASSUME NEW b \in Marked
      PROVE  BitsFun[b] = BitsIn(b) /\ BitsFun[b] \in Seq({0, 1}) /\ b \in Nat
  <2>1. PICK n \in 1 .. ByteBits - 1 : b \in Nat /\ HasBits(b, n)
    BY DEF Marked
  <2>2. n \in 0 .. ByteBits - 1
    OBVIOUS
  <2> QED
    BY <2>1, <2>2, BitsInIs DEF BitsFun
<1>2. Values(BitsFun, Marked, {0, 1})
  BY <1>1 DEF Values
<1>3. Marked \subseteq Nat
  BY <1>1
<1>4. \A b \in Marked : BitsFun[b] = BitsIn(b)
  BY <1>1
<1> QED
  BY ONLY <1>2, <1>3, <1>4

\* BitsOf, by the function.
LEMMA BitsOfIs == ASSUME NEW s \in Seq(Marked) PROVE BitsOf(s) = Strung(BitsFun, s)
<1>1. \A k \in DOMAIN s : BitsFun[s[k]] = BitsIn(s[k])
  <2>1. \A k \in DOMAIN s : s[k] \in Marked
    OBVIOUS
  <2>2. \A b \in Marked : BitsFun[b] = BitsIn(b)
    BY MarkedBits
  <2> QED
    BY ONLY <2>1, <2>2
<1>2. [k \in DOMAIN s |-> BitsIn(s[k])] = [k \in DOMAIN s |-> BitsFun[s[k]]]
  BY <1>1
<1> QED
  BY <1>2 DEF BitsOf, Strung

\* Coding, by the function.
LEMMA CodingIs == ASSUME NEW s \in Seq(Chars) PROVE Coding(s) = Strung(TheCodes, s)
<1>1. \A k \in DOMAIN s : TheCodes[s[k]] = table_bit_encode(s[k])
  BY DEF TheCodes
<1>2. [k \in DOMAIN s |-> table_bit_encode(s[k])] = [k \in DOMAIN s |-> TheCodes[s[k]]]
  BY <1>1
<1> QED
  BY <1>2 DEF Coding, Strung

\* The codes are bits.
LEMMA CodesTyped ==
  ASSUME HuffInv, phase = "built", root # NULL
  PROVE  Values(TheCodes, Coded, {0, 1}) /\ Coded \subseteq Chars
<1>1. \A c \in Coded : c \in Chars /\ table_bit_encode(c) \in Seq({0, 1})
  BY CodesAre
<1> QED
  BY <1>1 DEF Values, TheCodes

\* After the building, the tree's codes and its text stay what they are.
LEMMA TreeStays ==
  ASSUME UNCHANGED huffVars
  PROVE  /\ UNCHANGED <<input, phase, root, nodes>>
         /\ Coded' = Coded /\ TheCodes' = TheCodes /\ Serial' = Serial
<1>1. UNCHANGED <<input, phase, root, nodes>>
  BY DEF huffVars
<1>2. Paths(root)' = Paths(root)
  BY <1>1 DEF Paths
<1>3. Coded' = Coded
  BY <1>2 DEF Coded
<1>4. TheCodes' = TheCodes
  BY <1>2 DEF TheCodes, table_bit_encode
<1>5. Serial' = Serial
  BY <1>1 DEF Serial, tree_serialize, tree_serialize_rec
<1> QED
  BY <1>1, <1>3, <1>4, <1>5

\* Before huffc runs there is no file.
LEMMA FileInit == Init => FileInv
BY DEF Init, HuffInit, BitsInit, FileInv

\* huffc opens its file: a byte without bits, and nothing in the file.
LEMMA StageOpen ==
  ASSUME FileInv, encoder_new
  PROVE  FileInv'
<1>1. /\ prog = "build" /\ phase = "built" /\ prog' \in {"reported", "tree"}
      /\ UNCHANGED <<input, phase, root, nodes, read, code>>
      /\ prog' = "tree" => root # NULL /\ bits_io_open("w") /\ mode' = "w"
  BY DEF encoder_new, huffVars
<1>2. CASE prog' = "reported"
  BY <1>1, <1>2 DEF FileInv
<1>3. CASE prog' = "tree"
  <2>1. mode = "none" /\ stdio = <<>> /\ lost = FALSE /\ code = <<>> /\ read = 0
    BY <1>1 DEF FileInv
  <2>2. /\ byte' = NO_BITS_WRITTEN /\ count' = 0 /\ disk' = <<>> /\ UNCHANGED <<stdio, lost>>
    BY <1>1, <1>3, <2>1 DEF bits_io_open, bitsVars
  <2> QED
    BY <1>1, <1>3, <2>1, <2>2 DEF FileInv
<1> QED
  BY <1>1, <1>2, <1>3

\* The tree goes into the text, and no bit with it.
LEMMA StageTree ==
  ASSUME HuffInv, FileInv, EncodeTree
  PROVE  FileInv'
<1>1. /\ prog = "tree" /\ prog' = "huffc" /\ UNCHANGED huffVars /\ UNCHANGED <<read, code>>
      /\ mode = "w" /\ text' = Serial /\ UNCHANGED <<mode, byte, count, stdio, disk, lost>>
  BY DEF EncodeTree, bits_io_write_tree, Serial
<1>2. /\ phase = "built" /\ root # NULL /\ disk = <<>> /\ lost = FALSE
      /\ byte = NO_BITS_WRITTEN /\ count = 0 /\ stdio = <<>> /\ code = <<>> /\ read = 0
  BY <1>1 DEF FileInv
<1>3. /\ UNCHANGED <<input, phase, root, nodes>>
      /\ Coded' = Coded /\ TheCodes' = TheCodes /\ Serial' = Serial
  BY <1>1, TreeStays
<1>4. input \in Seq(Chars) /\ Len(input) \in Nat
  BY DEF HuffInv, HuffTypeOK
<1>5. Writing'
  <2>1. text' = Serial' /\ read' = 0 /\ code' = <<>> /\ stdio' = <<>> /\ count' = 0
        /\ byte' = NO_BITS_WRITTEN
    BY <1>1, <1>2, <1>3
  <2>2. HasBits(byte', 0) /\ 0 \in 0 .. ByteBits - 2 /\ BitsIn(byte') = <<>>
    BY <2>1, NewByte, ByteAssumption
  <2>3. First(input', 0) = <<>>
    BY <1>3, <1>4, FirstIs
  <2>4. Strung(BitsFun, <<>>) = <<>> /\ Strung(TheCodes', <<>>) = <<>>
    BY StrungNone
  <2>5. Strung(BitsFun, stdio') \o BitsIn(byte') \o code' = Strung(TheCodes', First(input', read'))
    BY <2>1, <2>2, <2>3, <2>4
  <2>6. stdio' \in Seq(Marked) /\ count' = Len(stdio') /\ code' \in Seq({0, 1})
        /\ read' \in 0 .. Len(input') /\ \A i \in 1 .. read' : input'[i] \in Coded'
    BY <1>3, <1>4, <2>1
  <2> QED
    BY <2>1, <2>2, <2>5, <2>6 DEF Writing, Sent
<1> QED
  BY <1>1, <1>2, <1>3, <1>5 DEF FileInv

\* The code of a character is added to the bits to be written.
LEMMA StageChar ==
  ASSUME HuffInv, FileInv, EncodeChar
  PROVE  FileInv'
<1>1. /\ prog = "huffc" /\ code = <<>> /\ read < Len(input) /\ read' = read + 1
      /\ UNCHANGED huffVars /\ UNCHANGED bitsVars
      /\ IF input[read + 1] \in Coded
         THEN code' = table_bit_encode(input[read + 1]) /\ UNCHANGED prog
         ELSE prog' = "crashed" /\ UNCHANGED code
  BY DEF EncodeChar
<1>2. /\ phase = "built" /\ root # NULL /\ mode = "w" /\ disk = <<>> /\ lost = FALSE /\ Writing
  BY <1>1 DEF FileInv
<1>3. /\ UNCHANGED <<input, phase, root, nodes>>
      /\ Coded' = Coded /\ TheCodes' = TheCodes /\ Serial' = Serial
  BY <1>1, TreeStays
<1>4. UNCHANGED <<mode, byte, count, stdio, text, disk, lost>>
  BY <1>1 DEF bitsVars
<1>5. CASE input[read + 1] \notin Coded
  BY <1>1, <1>2, <1>3, <1>5 DEF FileInv
<1>6. CASE input[read + 1] \in Coded
  <2> DEFINE c == input[read + 1]
  <2>1. prog' = "huffc" /\ code' = TheCodes[c] /\ c \in Chars /\ c \in Coded
    BY <1>1, <1>2, <1>6, CodesAre DEF TheCodes
  <2>2. /\ Values(TheCodes, Coded, {0, 1}) /\ input \in Seq(Chars) /\ Len(input) \in Nat
    BY <1>2, CodesTyped DEF HuffInv, HuffTypeOK
  <2>3. code' \in Seq({0, 1})
    BY <2>1, <2>2 DEF Values
  <2>4. /\ text = Serial /\ read \in 0 .. Len(input) /\ \A i \in 1 .. read : input[i] \in Coded
        /\ stdio \in Seq(Marked) /\ count = Len(stdio)
        /\ \E n \in 0 .. ByteBits - 2 : HasBits(byte, n)
        /\ Strung(BitsFun, stdio) \o BitsIn(byte) \o code = Strung(TheCodes, First(input, read))
    BY <1>2 DEF Writing, Sent
  <2>5. read' \in 0 .. Len(input') /\ \A i \in 1 .. read' : input'[i] \in Coded'
    <3>1. \A i \in 1 .. read + 1 : i = read + 1 \/ i \in 1 .. read
      BY <2>2, <2>4
    <3> QED
      BY <1>1, <1>3, <1>6, <2>2, <2>4, <3>1
  <2>6. First(input, read + 1) = Append(First(input, read), c)
        /\ First(input, read) \in Seq(Coded)
    <3>1. /\ First(input, read + 1) = Append(First(input, read), c)
          /\ First(input, read) \in Seq(Chars) /\ Len(First(input, read)) = read
          /\ \A i \in 1 .. read : First(input, read)[i] = input[i]
      BY <1>1, <2>2, <2>4, FirstIs
    <3>2. \A i \in 1 .. read : First(input, read)[i] \in Coded
      BY <2>4, <3>1
    <3> DEFINE s == First(input, read)
    <3>3. s \in Seq(Chars) /\ Len(s) = read /\ \A i \in 1 .. read : s[i] \in Coded
      BY <3>1, <3>2
    <3> HIDE DEF s
    <3>4. s \in Seq(Coded)
      BY <3>3
    <3> QED
      BY <3>1, <3>4 DEF s
  <2> HIDE DEF c
  <2>7. Strung(TheCodes, First(input, read + 1)) = Strung(TheCodes, First(input, read)) \o TheCodes[c]
    <3> DEFINE s == First(input, read)
    <3>1. Strung(TheCodes, Append(s, c)) = Strung(TheCodes, s) \o TheCodes[c]
      <4> HIDE DEF s
      <4>1. s \in Seq(Coded)
        BY <2>6 DEF s
      <4> QED
        BY <2>1, <2>2, <4>1, StrungOneMore
    <3> QED
      BY <2>6, <3>1
  <2>8. Strung(BitsFun, stdio') \o BitsIn(byte') \o code' = Strung(TheCodes', First(input', read'))
    <3>1. Strung(BitsFun, stdio) \in Seq({0, 1})
      BY <2>4, MarkedBits, StrungTyped
    <3>2. BitsIn(byte) \in Seq({0, 1})
      <4>1. PICK n \in 0 .. ByteBits - 2 : HasBits(byte, n)
        BY <2>4
      <4>2. n \in 0 .. ByteBits - 1
        BY ByteAssumption
      <4> QED
        BY <4>1, <4>2, BitsInIs
    <3>3. Strung(BitsFun, stdio) \o BitsIn(byte) \o <<>> = Strung(BitsFun, stdio) \o BitsIn(byte)
      BY <3>1, <3>2
    <3>4. Strung(BitsFun, stdio) \o BitsIn(byte) = Strung(TheCodes, First(input, read))
      BY <1>1, <2>4, <3>3
    <3> QED
      BY <1>1, <1>3, <1>4, <2>1, <2>7, <3>4
  <2>9. Writing'
    BY <1>3, <1>4, <2>3, <2>4, <2>5, <2>8 DEF Writing, Sent
  <2> QED
    BY <1>1, <1>2, <1>3, <1>4, <2>1, <2>9 DEF FileInv
<1> QED
  BY <1>5, <1>6

\* A bit that makes no byte full, and one that does.
LEMMA BitWritten ==
  ASSUME NEW s \in Seq(Marked), NEW b, NEW n \in 0 .. ByteBits - 2, HasBits(b, n),
         NEW bit \in {0, 1}, NEW rest \in Seq({0, 1}), NEW all,
         Sent(s, b, <<bit>> \o rest) = all
  PROVE  /\ Shift(b, bit) >= TopBit =>
              /\ \E m \in 0 .. ByteBits - 2 : HasBits(Shift(b, bit), m)
              /\ Sent(s, Shift(b, bit), rest) = all
         /\ Shift(b, bit) < TopBit =>
              /\ Append(s, Shift(b, bit)) \in Seq(Marked)
              /\ Sent(Append(s, Shift(b, bit)), NO_BITS_WRITTEN, rest) = all
<1> DEFINE new == Shift(b, bit)
           t == Strung(BitsFun, s)
<1>1. n \in 0 .. ByteBits - 1 /\ n + 1 \in 0 .. ByteBits - 1 /\ n + 1 \in 1 .. ByteBits - 1
  BY ByteAssumption
<1>2. /\ HasBits(new, n + 1) /\ BitsIn(new) = BitsIn(b) \o <<bit>>
      /\ (new < TopBit <=> n + 1 = ByteBits - 1)
  BY BitShiftedIn
<1> HIDE DEF new
<1>0. rest \in Seq({0, 1})
  OBVIOUS
<1>3. t \in Seq({0, 1})
  BY MarkedBits, StrungTyped
<1>4. BitsIn(b) \in Seq({0, 1})
  BY <1>1, BitsInIs
<1> HIDE DEF t
<1>5. t \o BitsIn(b) \o (<<bit>> \o rest) = (t \o (BitsIn(b) \o <<bit>>)) \o rest
  <2> DEFINE x == BitsIn(b)
             y == <<bit>>
  <2>1. x \in Seq({0, 1}) /\ y \in Seq({0, 1})
    BY <1>4
  <2> HIDE DEF x, y
  <2>2. Regrouped(t, x, y, rest)
    BY ONLY <1>0, <1>3, <2>1, Regroup
  <2> QED
    BY <2>2 DEF x, y, Regrouped
<1>6. (t \o BitsIn(new)) \o rest = all
  BY <1>2, <1>5 DEF t, Sent
<1>7. ASSUME new >= TopBit
      PROVE  \E m \in 0 .. ByteBits - 2 : HasBits(new, m)
  <2>1. TopBit \in Nat /\ new \in Nat
    BY <1>2, ByteAssumption, PowPositive DEF TopBit, HasBits
  <2>2. n + 1 # ByteBits - 1
    BY <1>2, <1>7, <2>1
  <2>3. n + 1 \in 0 .. ByteBits - 2
    BY ONLY <1>1, <2>2, ByteAssumption
  <2> QED
    BY <1>2, <2>3
<1>8. ASSUME new < TopBit
      PROVE  /\ Append(s, new) \in Seq(Marked)
             /\ Sent(Append(s, new), NO_BITS_WRITTEN, rest) = all
  <2>1. new \in Marked
    BY <1>1, <1>2 DEF Marked, HasBits
  <2>2. Append(s, new) \in Seq(Marked)
    BY <2>1
  <2>3. Strung(BitsFun, Append(s, new)) = t \o BitsIn(new)
    <3>1. Strung(BitsFun, Append(s, new)) = Strung(BitsFun, s) \o BitsFun[new]
      BY <2>1, MarkedBits, StrungOneMore
    <3> QED
      BY <2>1, <3>1, MarkedBits DEF t
  <2>4. BitsIn(new) \in Seq({0, 1})
    BY <1>1, <1>2, BitsInIs
  <2> DEFINE x == BitsIn(new)
  <2>5. t \o x \in Seq({0, 1})
    BY <1>3, <2>4
  <2>6. (t \o x) \o <<>> = t \o x
    <3> DEFINE y == t \o x
    <3>1. y \in Seq({0, 1})
      BY <2>5
    <3> HIDE DEF y
    <3>2. y \o <<>> = y
      BY <3>1
    <3> QED
      BY <3>2 DEF y
  <2> QED
    BY <1>6, <2>2, <2>3, <2>6, NewByte DEF Sent
<1> QED
  BY <1>6, <1>7, <1>8 DEF new, t, Sent

\* A bit goes from those to be written into the byte, or a full byte into the file.
LEMMA StageBit ==
  ASSUME HuffInv, FileInv, EncodeBit
  PROVE  FileInv'
<1>1. /\ prog = "huffc" /\ code # <<>> /\ code' = Tail(code) /\ UNCHANGED huffVars
      /\ bits_io_write_bit(Head(code)) /\ UNCHANGED read
      /\ prog' = IF ret' = EOF THEN "reported" ELSE prog
  BY DEF EncodeBit
<1>2. /\ phase = "built" /\ root # NULL /\ mode = "w" /\ disk = <<>> /\ lost = FALSE /\ Writing
  BY <1>1 DEF FileInv
<1>3. /\ UNCHANGED <<input, phase, root, nodes>>
      /\ Coded' = Coded /\ TheCodes' = TheCodes /\ Serial' = Serial
  BY <1>1, TreeStays
<1>4. UNCHANGED <<mode, text, disk, offset, lost>>
  BY <1>1 DEF bits_io_write_bit
<1>5. CASE ret' = EOF
  BY <1>1, <1>2, <1>3, <1>5 DEF FileInv
<1>6. CASE ret' # EOF
  <2> DEFINE bit == Head(code)
             rest == Tail(code)
             new == Shift(byte, bit)
  <2>1. /\ text = Serial /\ read \in 0 .. Len(input) /\ \A i \in 1 .. read : input[i] \in Coded
        /\ code \in Seq({0, 1}) /\ stdio \in Seq(Marked) /\ count = Len(stdio)
        /\ Sent(stdio, byte, code) = Strung(TheCodes, First(input, read))
    BY <1>2 DEF Writing
  <2>2. PICK n \in 0 .. ByteBits - 2 : HasBits(byte, n)
    BY <1>2 DEF Writing
  <2>3. bit \in {0, 1} /\ rest \in Seq({0, 1}) /\ code = <<bit>> \o rest
    BY <1>1, <2>1
  <2>4. \/ new >= TopBit /\ byte' = new /\ UNCHANGED <<stdio, count>>
        \/ new < TopBit /\ stdio' = Append(stdio, new) /\ byte' = NO_BITS_WRITTEN /\ count' = count + 1
    BY <1>1, <1>6 DEF bits_io_write_bit
  <2> DEFINE all == Strung(TheCodes, First(input, read))
  <2>9. Sent(stdio, byte, <<bit>> \o rest) = all
    BY <2>1, <2>3
  <2> HIDE DEF bit, rest, all
  <2>5. /\ new >= TopBit =>
              /\ \E m \in 0 .. ByteBits - 2 : HasBits(new, m)
              /\ Sent(stdio, new, rest) = all
        /\ new < TopBit =>
              /\ Append(stdio, new) \in Seq(Marked)
              /\ Sent(Append(stdio, new), NO_BITS_WRITTEN, rest) = all
    BY <2>1, <2>2, <2>3, <2>9, BitWritten
  <2>6. code' = rest
    BY <1>1 DEF rest
  <2>7. /\ stdio' \in Seq(Marked) /\ count' = Len(stdio')
        /\ \E m \in 0 .. ByteBits - 2 : HasBits(byte', m)
        /\ Sent(stdio', byte', code') = all
    <3>1. CASE new >= TopBit /\ byte' = new /\ UNCHANGED <<stdio, count>>
      BY <2>1, <2>5, <2>6, <3>1
    <3>2. CASE new < TopBit /\ stdio' = Append(stdio, new) /\ byte' = NO_BITS_WRITTEN /\ count' = count + 1
      <4>1. Len(stdio') = count + 1
        BY <2>1, <2>5, <3>2
      <4>2. HasBits(NO_BITS_WRITTEN, 0) /\ 0 \in 0 .. ByteBits - 2
        BY NewByte, ByteAssumption
      <4> QED
        BY <2>5, <2>6, <3>2, <4>1, <4>2
    <3> QED
      BY <2>4, <3>1, <3>2
  <2>8. Writing'
    BY <1>1, <1>3, <1>4, <2>1, <2>3, <2>6, <2>7 DEF Writing, all
  <2> QED
    BY <1>1, <1>2, <1>3, <1>4, <1>6, <2>8 DEF FileInv
<1> QED
  BY <1>5, <1>6

\* What a file gets when it is closed.
LEMMA FlushedWritten ==
  ASSUME NEW bytes \in Seq(Marked), Flushed(bytes), HuffInv, phase = "built", root # NULL,
         UNCHANGED huffVars, text = Serial, disk = <<>>, lost = FALSE,
         \A i \in 1 .. Len(input) : input[i] \in Coded,
         Strung(BitsFun, bytes) = Strung(TheCodes, input)
  PROVE  Written' /\ mode' = "none"
<1>1. /\ UNCHANGED <<input, phase, root, nodes>>
      /\ Coded' = Coded /\ TheCodes' = TheCodes /\ Serial' = Serial
  BY TreeStays
<1>2. mode' = "none" /\ stdio' = <<>>
  BY DEF Flushed
<1>3. <<>> \o bytes = bytes
  BY ConcatEmpty
<1>4. \/ text' = Serial /\ disk' = bytes
      \/ text' \in Shortened(Serial) /\ disk' = bytes
      \/ text' = Serial /\ disk' \in Shortened(bytes) /\ lost'
      \/ text' \in Shortened(Serial) /\ disk' = <<>> /\ lost'
  BY <1>3 DEF Flushed
<1>5. Strung(BitsFun, bytes) \in Seq({0, 1}) /\ Len(Strung(BitsFun, bytes)) \in Nat
  <2>1. Strung(BitsFun, bytes) \in Seq({0, 1})
    BY MarkedBits, StrungTyped
  <2> QED
    BY <2>1
<1>6. CASE disk' = bytes
  <2>1. Begins(Strung(BitsFun, disk'), Strung(BitsFun, bytes))
    BY <1>5, <1>6 DEF Begins
  <2>2. Written'
    BY <1>1, <1>2, <1>4, <1>6, <2>1 DEF Written
  <2> QED
    BY <1>2, <2>2
<1>7. CASE disk' = <<>> /\ lost'
  <2>1. Strung(BitsFun, disk') = <<>>
    BY <1>7, StrungNone
  <2>2. Begins(Strung(BitsFun, disk'), Strung(BitsFun, bytes))
    BY <1>5, <2>1 DEF Begins
  <2>3. disk' \in Seq(Marked) /\ (text' = Serial' \/ text' \in Shortened(Serial'))
    BY <1>1, <1>4, <1>7
  <2>4. Written'
    BY <1>1, <1>2, <1>7, <2>2, <2>3 DEF Written
  <2> QED
    BY <1>2, <2>4
<1>8. CASE text' = Serial /\ disk' \in Shortened(bytes) /\ lost'
  <2>1. PICK n \in 0 .. Len(bytes) - 1 : disk' = SubSeq(bytes, 1, n)
    BY <1>8 DEF Shortened
  <2>2. n \in 0 .. Len(bytes) /\ Len(bytes) \in n .. Len(bytes)
    OBVIOUS
  <2>3. First(bytes, n) \in Seq(Marked) /\ First(bytes, Len(bytes)) = bytes
    BY <2>2, FirstIs
  <2>4. Begins(Strung(BitsFun, First(bytes, n)), Strung(BitsFun, First(bytes, Len(bytes))))
    BY <2>2, MarkedBits, StrungBegins
  <2>5. disk' = First(bytes, n)
    BY <2>1 DEF First
  <2>6. Begins(Strung(BitsFun, disk'), Strung(TheCodes, input)) /\ disk' \in Seq(Marked)
    BY <2>3, <2>4, <2>5
  <2>7. Written'
    BY <1>1, <1>2, <1>8, <2>6 DEF Written
  <2> QED
    BY <1>2, <2>7
<1> QED
  BY <1>4, <1>6, <1>7, <1>8

\* The byte that is not full goes into the file, or its bits are none.
LEMMA StageClose ==
  ASSUME HuffInv, FileInv, encoder_free
  PROVE  FileInv'
<1>1. /\ prog = "huffc" /\ code = <<>> /\ read = Len(input) /\ UNCHANGED huffVars
      /\ bits_io_close /\ UNCHANGED <<read, code>>
      /\ prog' = IF ret' = EOF THEN "reported" ELSE "huffd"
  BY DEF encoder_free
<1>2. /\ phase = "built" /\ root # NULL /\ mode = "w" /\ disk = <<>> /\ lost = FALSE /\ Writing
  BY <1>1 DEF FileInv
<1>3. UNCHANGED <<input, phase, root, nodes>>
  BY <1>1, TreeStays
<1>4. CASE ret' = EOF
  BY <1>1, <1>2, <1>3, <1>4 DEF FileInv
<1>5. ASSUME ret' # EOF
      PROVE  FileInv'
  <2>1. /\ text = Serial /\ \A i \in 1 .. read : input[i] \in Coded
        /\ stdio \in Seq(Marked)
        /\ Sent(stdio, byte, code) = Strung(TheCodes, First(input, read))
    BY <1>2 DEF Writing
  <2>2. PICK n \in 0 .. ByteBits - 2 : HasBits(byte, n)
    BY <1>2 DEF Writing
  <2>3. First(input, Len(input)) = input
    <3>1. input \in Seq(Chars)
      BY DEF HuffInv, HuffTypeOK
    <3>2. Len(input) \in 0 .. Len(input)
      BY <3>1
    <3> QED
      BY <3>1, <3>2, FirstIs
  <2>4. Strung(BitsFun, stdio) \in Seq({0, 1}) /\ BitsIn(byte) \in Seq({0, 1})
    <3>1. n \in 0 .. ByteBits - 1
      BY ByteAssumption
    <3> QED
      BY <2>1, <2>2, <3>1, MarkedBits, StrungTyped, BitsInIs
  <2>5. Strung(BitsFun, stdio) \o BitsIn(byte) = Strung(TheCodes, input)
    <3> DEFINE x == Strung(BitsFun, stdio) \o BitsIn(byte)
    <3>1. x \in Seq({0, 1})
      BY <2>4
    <3>2. x \o <<>> = Strung(TheCodes, input)
      BY <1>1, <2>1, <2>3 DEF Sent
    <3> HIDE DEF x
    <3>3. x \o <<>> = x
      BY <3>1, ConcatEmpty
    <3> QED
      BY <3>2, <3>3 DEF x
  <2>6. CASE PartialByte /\ Flushed(Append(stdio, byte))
    <3>1. byte \in Marked
      <4>1. n # 0
        <5>1. Pow2[0] = 1 /\ Pow2[1] = 2 /\ Modulus \in Nat
          BY PowIs, PowPositive, ByteAssumption DEF Modulus
        <5>2. byte # Modulus - 2
          BY <2>6 DEF PartialByte, NO_BITS_WRITTEN
        <5> QED
          BY <2>2, <5>1, <5>2 DEF HasBits
      <4>2. n \in 1 .. ByteBits - 1
        BY <4>1, ByteAssumption
      <4> QED
        BY <2>2, <4>2 DEF Marked, HasBits
    <3>2. Append(stdio, byte) \in Seq(Marked)
      BY <2>1, <3>1
    <3>3. Strung(BitsFun, Append(stdio, byte)) = Strung(BitsFun, stdio) \o BitsFun[byte]
      BY <2>1, <3>1, MarkedBits, StrungOneMore
    <3>4. Strung(BitsFun, Append(stdio, byte)) = Strung(TheCodes, input)
      BY <2>5, <3>1, <3>3, MarkedBits
    <3> DEFINE bytes == Append(stdio, byte)
    <3>5. Flushed(bytes) /\ bytes \in Seq(Marked) /\ Strung(BitsFun, bytes) = Strung(TheCodes, input)
      BY <2>6, <3>2, <3>4
    <3> HIDE DEF bytes
    <3>6. Written' /\ mode' = "none"
      BY <1>1, <1>2, <2>1, <3>5, FlushedWritten
    <3> QED
      BY <1>1, <1>2, <1>3, <1>5, <3>6 DEF FileInv
  <2>7. CASE ~ PartialByte /\ Flushed(stdio)
    <3>1. byte = NO_BITS_WRITTEN
      BY <1>2, <2>7 DEF PartialByte
    <3>2. Strung(BitsFun, stdio) = Strung(TheCodes, input)
      <4> DEFINE x == Strung(BitsFun, stdio)
      <4>1. x \in Seq({0, 1}) /\ x \o <<>> = Strung(TheCodes, input)
        BY <2>4, <2>5, <3>1, NewByte
      <4> HIDE DEF x
      <4>2. x \o <<>> = x
        BY <4>1, ConcatEmpty
      <4> QED
        BY <4>1, <4>2 DEF x
    <3>3. Written' /\ mode' = "none"
      BY <1>1, <1>2, <2>1, <2>7, <3>2, FlushedWritten
    <3> QED
      BY <1>1, <1>2, <1>3, <1>5, <3>3 DEF FileInv
  <2>8. ~ (PartialByte /\ mode' = "failed" /\ ret' = EOF)
    BY <1>5
  <2> QED
    BY <1>1, <2>6, <2>7, <2>8 DEF bits_io_close
<1> QED
  BY <1>4, <1>5

\* The file stays what it is as long as nobody writes to it.
LEMMA WrittenStays ==
  ASSUME Written, UNCHANGED huffVars, UNCHANGED <<stdio, text, disk, lost>>
  PROVE  Written'
<1>1. /\ UNCHANGED <<input, phase, root, nodes>>
      /\ Coded' = Coded /\ TheCodes' = TheCodes /\ Serial' = Serial
  BY TreeStays
<1> QED
  BY <1>1 DEF Written

\* huffd opens the file, reads it and closes it, and changes nothing in it.
LEMMA StageRead ==
  ASSUME HuffInv, FileInv,
         decoder_new \/ ReadStart \/ ReadRecord \/ TreeIsRead \/ TreeIsCut \/ decode_one \/ decoder_free
  PROVE  FileInv'
<1>1. UNCHANGED huffVars /\ UNCHANGED phase
  BY DEF decoder_new, ReadStart, ReadRecord, TreeIsRead, TreeIsCut, decode_one, decoder_free, huffVars
<1>2. CASE decoder_new
  <2>1. /\ prog = "huffd" /\ bits_io_open("r") /\ prog' \in {"read", "reported"}
        /\ prog' = "read" => mode' = "r"
    BY <1>2 DEF decoder_new
  <2>2. UNCHANGED <<stdio, text, disk, lost>>
    BY <2>1 DEF bits_io_open, bitsVars
  <2>3. Written'
    BY <1>1, <2>1, <2>2, WrittenStays DEF FileInv
  <2> QED
    BY <1>1, <2>1, <2>3 DEF FileInv
<1>3. CASE ReadStart \/ ReadRecord
  <2>1. prog = "read" /\ prog' = prog /\ UNCHANGED <<mode, stdio, text, disk, lost>>
    BY <1>3 DEF ReadStart, ReadRecord, bitsVars
  <2>2. Written'
    BY <1>1, <2>1, WrittenStays DEF FileInv
  <2> QED
    BY <1>1, <2>1, <2>2 DEF FileInv
<1>4. CASE TreeIsRead
  <2>1. prog = "read" /\ prog' \in {"crashed", "endless", "decode"}
        /\ UNCHANGED <<mode, stdio, text, disk, lost>>
    BY <1>4 DEF TreeIsRead
  <2>2. Written'
    BY <1>1, <2>1, WrittenStays DEF FileInv
  <2> QED
    BY <1>1, <2>1, <2>2 DEF FileInv
<1>5. CASE TreeIsCut
  <2>1. prog = "read" /\ prog' = "reported"
    BY <1>5 DEF TreeIsCut
  <2> QED
    BY <1>1, <2>1 DEF FileInv
<1>6. CASE decode_one
  <2>1. prog = "decode" /\ prog' \in {"decode", "free"} /\ UNCHANGED <<mode, stdio, text, disk, lost>>
    BY <1>6 DEF decode_one, bits_io_read_bit
  <2>2. Written'
    BY <1>1, <2>1, WrittenStays DEF FileInv
  <2> QED
    BY <1>1, <2>1, <2>2 DEF FileInv
<1>7. CASE decoder_free
  <2>1. prog = "free" /\ prog' = "done" /\ bits_io_close
    BY <1>7 DEF decoder_free
  <2>2. mode = "r" /\ Written /\ stdio = <<>> /\ disk \in Seq(Marked)
    BY <2>1 DEF FileInv, Written
  <2>3. Flushed(<<>>)
    BY <2>1, <2>2 DEF bits_io_close, PartialByte
  <2>4. disk \o <<>> = disk
    BY <2>2, ConcatEmpty
  <2>5. UNCHANGED <<stdio, text, disk, lost>>
    BY <2>2, <2>3, <2>4 DEF Flushed
  <2>6. Written'
    BY <1>1, <2>2, <2>5, WrittenStays
  <2> QED
    BY <1>1, <2>1, <2>6 DEF FileInv
<1> QED
  BY <1>2, <1>3, <1>4, <1>5, <1>6, <1>7

\* Every step keeps what the file holds.
LEMMA FileStep == HuffInv /\ FileInv /\ [Next]_vars => FileInv'
<1> SUFFICES ASSUME HuffInv, FileInv, [Next]_vars PROVE FileInv'
  OBVIOUS
<1>1. CASE Build
  <2>1. prog = "build" /\ prog' = prog /\ UNCHANGED <<mode, stdio, lost, code, read>>
    BY <1>1 DEF Build, bitsVars, hzipVars
  <2> QED
    BY <2>1 DEF FileInv
<1>2. CASE UNCHANGED vars
  <2>1. UNCHANGED huffVars /\ UNCHANGED bitsVars /\ UNCHANGED hzipVars
    BY <1>2 DEF vars
  <2>2. /\ UNCHANGED <<input, phase, root, nodes>>
        /\ Coded' = Coded /\ TheCodes' = TheCodes /\ Serial' = Serial
    BY <2>1, TreeStays
  <2>3. UNCHANGED <<mode, byte, count, stdio, text, disk, lost, prog, read, code>>
    BY <2>1 DEF bitsVars, hzipVars
  <2>4. Writing => Writing'
    BY <2>2, <2>3 DEF Writing, Sent
  <2>5. Written => Written'
    BY <2>1, <2>3, WrittenStays
  <2> QED
    BY <2>2, <2>3, <2>4, <2>5 DEF FileInv
<1> QED
  BY <1>1, <1>2, StageOpen, StageTree, StageChar, StageBit, StageClose, StageRead DEF Next

\* The invariant of the file.
LEMMA HzipFileInv == Spec => [](HuffInv /\ FileInv)
<1>1. Init => HuffInv /\ FileInv
  BY HuffInitInv, FileInit DEF Init
<1>2. HuffInv /\ FileInv /\ [Next]_vars => FileInv'
  BY FileStep
<1>3. HuffInv /\ [Next]_vars => HuffInv'
  BY HuffStepInv, HzipBuildsStep
<1> QED
  BY <1>1, <1>2, <1>3, PTL DEF Spec

\* What is known of the file is its format.
LEMMA InvFormat == HuffInv /\ FileInv => FormatHolds
<1> SUFFICES ASSUME HuffInv, FileInv PROVE FormatHolds
  OBVIOUS
<1>1. input \in Seq(Chars)
  BY DEF HuffInv, HuffTypeOK
<1>2. ASSUME prog = "huffc"
      PROVE  /\ BitsOf(stdio) \o BitsIn(byte) \o code = Coding(SubSeq(input, 1, read))
             /\ count = Len(stdio)
  <2>1. Writing
    BY <1>2 DEF FileInv
  <2>2. /\ Sent(stdio, byte, code) = Strung(TheCodes, First(input, read))
        /\ stdio \in Seq(Marked) /\ read \in 0 .. Len(input) /\ count = Len(stdio)
    BY <2>1 DEF Writing
  <2>3. BitsOf(stdio) = Strung(BitsFun, stdio)
    BY <2>2, BitsOfIs
  <2>4. First(input, read) \in Seq(Chars)
    BY <1>1, <2>2, FirstIs
  <2>5. Coding(First(input, read)) = Strung(TheCodes, First(input, read))
    BY <2>4, CodingIs
  <2> QED
    BY <2>2, <2>3, <2>5 DEF Sent, First
<1>3. ASSUME prog = "huffd", ~ lost
      PROVE  BitsOf(disk) = Coding(input)
  <2>1. disk \in Seq(Marked) /\ Strung(BitsFun, disk) = Strung(TheCodes, input)
    BY <1>3 DEF FileInv, Written
  <2>2. BitsOf(disk) = Strung(BitsFun, disk)
    BY <2>1, BitsOfIs
  <2>3. Coding(input) = Strung(TheCodes, input)
    BY <1>1, CodingIs
  <2> QED
    BY <2>1, <2>2, <2>3
<1> QED
  BY <1>2, <1>3 DEF FormatHolds

\* For every file, tree, size of a byte and failure of the file: as long as huffc
\* writes, what it has handed to stdio, its byte buffer and the bits still to be
\* written are the code of the characters read, and if nothing was lost the file
\* is the code of all (bits-io.c 300-342, encoder.c 83-109).
THEOREM FormatHoldsAlways == Spec => []FormatHolds
BY HzipFileInv, InvFormat, PTL

-------------------------------------------------------------------------------
(* The order of the records in the tree's text.                            *)

\* The nodes of two trees and their parent.
Behind(s, t, n) == s \o t \o <<n>>

\* A function with the records below each of the first n nodes.
Orders(f, forest, n) ==
  f = [m \in 1 .. n |-> IF forest[m].type = "LEAF" THEN <<m>>
                        ELSE Behind(f[forest[m].left], f[forest[m].right], m)]

\* What tree_serialize_rec is in a sequence of nodes.
IdsIn(forest, n) == (CHOOSE f : Orders(f, forest, Len(forest)))[n]

\* tree_serialize_rec, of the nodes of the state.
LEMMA IdsAreIn == ASSUME nodes \in Seq(Node) PROVE \A n : tree_serialize_rec(n) = IdsIn(nodes, n)
<1>1. DOMAIN nodes = 1 .. Len(nodes)
  OBVIOUS
<1> QED
  BY <1>1 DEF tree_serialize_rec, IdsIn, Orders, Behind

\* There is one: the recursion of tree_serialize_rec ends.
LEMMA OrdersExist ==
  ASSUME NEW forest, NEW N \in Nat, DOMAIN forest = 1 .. N, Grown(forest)
  PROVE  \E f : Orders(f, forest, N)
<1> DEFINE S == {n \in Nat : n <= N => \E f : Orders(f, forest, n)}
<1>1. 0 \in S
  <2>1. Orders([m \in 1 .. 0 |-> {}], forest, 0)
    BY DEF Orders
  <2> QED
    BY <2>1
<1>2. ASSUME NEW n \in Nat, n \in S
      PROVE  n + 1 \in S
  <2> SUFFICES ASSUME n + 1 <= N PROVE \E f : Orders(f, forest, n + 1)
    OBVIOUS
  <2>1. PICK f : Orders(f, forest, n)
    BY <1>2
  <2> DEFINE x == forest[n + 1]
             new == IF x.type = "LEAF" THEN <<n + 1>>
                    ELSE Behind(f[x.left], f[x.right], n + 1)
             g == [m \in 1 .. n + 1 |-> IF m = n + 1 THEN new ELSE f[m]]
  <2>2. \A m \in 1 .. n : f[m] = IF forest[m].type = "LEAF" THEN <<m>>
                                 ELSE Behind(f[forest[m].left], f[forest[m].right], m)
    BY <2>1 DEF Orders
  <2>3. \A m \in 1 .. n + 1 : forest[m].type # "LEAF" =>
          forest[m].left \in 1 .. m - 1 /\ forest[m].right \in 1 .. m - 1
    BY DEF Grown, NULL
  <2>4. ASSUME NEW m \in 1 .. n + 1
        PROVE  g[m] = IF forest[m].type = "LEAF" THEN <<m>>
                      ELSE Behind(g[forest[m].left], g[forest[m].right], m)
    <3>1. CASE forest[m].type = "LEAF"
      <4>1. CASE m = n + 1
        BY <3>1, <4>1
      <4>2. CASE m # n + 1
        <5>1. m \in 1 .. n /\ g[m] = f[m]
          BY <4>2
        <5> QED
          BY <2>2, <3>1, <5>1
      <4> QED
        BY <4>1, <4>2
    <3>2. CASE forest[m].type # "LEAF"
      <4>1. /\ forest[m].left \in 1 .. n /\ forest[m].left # n + 1
            /\ forest[m].right \in 1 .. n /\ forest[m].right # n + 1
        BY <2>3, <3>2
      <4>2. g[forest[m].left] = f[forest[m].left] /\ g[forest[m].right] = f[forest[m].right]
        BY <4>1
      <4>3. CASE m = n + 1
        <5>1. g[m] = Behind(f[x.left], f[x.right], m)
          BY <3>2, <4>3
        <5> QED
          BY <3>2, <4>2, <4>3, <5>1
      <4>4. CASE m # n + 1
        <5>1. m \in 1 .. n /\ g[m] = f[m]
          BY <4>4
        <5>2. f[m] = Behind(f[forest[m].left], f[forest[m].right], m)
          BY <2>2, <3>2, <5>1
        <5> QED
          BY <3>2, <4>2, <5>1, <5>2
      <4> QED
        BY <4>3, <4>4
    <3> QED
      BY <3>1, <3>2
  <2>5. g = [m \in 1 .. n + 1 |-> g[m]]
    OBVIOUS
  <2> HIDE DEF g
  <2>6. Orders(g, forest, n + 1)
    BY <2>4, <2>5 DEF Orders
  <2> QED
    BY <2>6
<1> HIDE DEF S
<1>3. N \in S
  BY <1>1, <1>2, NatInductionOnSets
<1> QED
  BY <1>3 DEF S

\* A leaf is alone, and an inner node comes behind its two children.
LEMMA IdsAre ==
  ASSUME NEW forest, NEW N \in Nat, DOMAIN forest = 1 .. N, Len(forest) = N, Grown(forest)
  PROVE  \A n \in 1 .. N :
           IdsIn(forest, n) =
             IF forest[n].type = "LEAF" THEN <<n>>
             ELSE Behind(IdsIn(forest, forest[n].left), IdsIn(forest, forest[n].right), n)
<1> DEFINE f == CHOOSE x : Orders(x, forest, N)
<1>1. Orders(f, forest, N)
  BY OrdersExist
<1>2. \A n : IdsIn(forest, n) = f[n]
  BY DEF IdsIn
<1> HIDE DEF f
<1>3. \A n \in 1 .. N : f[n] = IF forest[n].type = "LEAF" THEN <<n>>
                               ELSE Behind(f[forest[n].left], f[forest[n].right], n)
  BY <1>1 DEF Orders
<1> QED
  BY ONLY <1>2, <1>3

\* The nodes of a tree, each once and behind its children.
PostOrder(s, n, forest) ==
  /\ s \in Seq(Nat) /\ Len(s) >= 1 /\ s[Len(s)] = n
  /\ \A i \in 1 .. Len(s) : s[i] \in Below(n, forest)
  /\ \A m \in Below(n, forest) : \E i \in 1 .. Len(s) : s[i] = m
  /\ \A i, j \in 1 .. Len(s) : s[i] = s[j] => i = j
  /\ \A i \in 1 .. Len(s) : forest[s[i]].left # NULL =>
       \E j, k \in 1 .. i - 1 : s[j] = forest[s[i]].left /\ s[k] = forest[s[i]].right

\* Sequence u is s, then t, then n; a and b are the places of the ends of s and t.
IsBehind(u, s, t, n, a, b) ==
  /\ a \in Nat /\ b \in Nat
  /\ u \in Seq(Nat) /\ Len(u) = a + b + 1 /\ u[a + b + 1] = n
  /\ \A i \in 1 .. a : u[i] = s[i]
  /\ \A i \in 1 .. b : u[a + i] = t[i]
  /\ \A i \in 1 .. a + b + 1 :
       i \in 1 .. a \/ (\E j \in 1 .. b : i = a + j) \/ i = a + b + 1

\* What is in the records of a parent and its two trees.
LEMMA BehindIs ==
  ASSUME NEW s \in Seq(Nat), NEW t \in Seq(Nat), NEW n \in Nat
  PROVE  IsBehind(Behind(s, t, n), s, t, n, Len(s), Len(t))
<1> DEFINE x == s \o t
           y == <<n>>
           u == x \o y
           a == Len(s)
           b == Len(t)
<1>1. a \in Nat /\ b \in Nat
  OBVIOUS
<1>2. x \in Seq(Nat) /\ Len(x) = a + b
  OBVIOUS
<1>3. \A i \in 1 .. a : x[i] = s[i]
  OBVIOUS
<1>4. \A i \in 1 .. b : x[a + i] = t[i]
  <2>1. \A i \in 1 .. a + b : x[i] = IF i <= a THEN s[i] ELSE t[i - a]
    OBVIOUS
  <2> HIDE DEF x, a, b
  <2>2. ASSUME NEW i \in 1 .. b PROVE x[a + i] = t[i]
    <3> DEFINE k == a + i
    <3>1. k \in 1 .. a + b /\ ~ (k <= a) /\ k - a = i
      BY ONLY <1>1, i \in 1 .. b
    <3> HIDE DEF k
    <3>2. x[k] = t[i]
      BY ONLY <2>1, <3>1
    <3> QED
      BY <3>2 DEF k
  <2> QED
    BY ONLY <2>2
<1>5. y \in Seq(Nat) /\ Len(y) = 1 /\ y[1] = n
  OBVIOUS
<1> HIDE DEF x, y
<1>0. x \in Seq(Nat) /\ y \in Seq(Nat)
  BY ONLY <1>2, <1>5
<1>6. u \in Seq(Nat)
  BY ONLY <1>0
<1>7. Len(u) = Len(x) + Len(y)
  BY ONLY <1>0
<1>8. \A i \in 1 .. Len(x) + Len(y) : u[i] = IF i <= Len(x) THEN x[i] ELSE y[i - Len(x)]
  BY ONLY <1>0
<1> HIDE DEF u, a, b
<1>9. \A i \in 1 .. a + b : u[i] = x[i]
  BY ONLY <1>1, <1>2, <1>5, <1>8
<1>10. u[a + b + 1] = n
  <2>1. a + b + 1 \in 1 .. Len(x) + Len(y) /\ ~ (a + b + 1 <= Len(x)) /\ a + b + 1 - Len(x) = 1
    BY ONLY <1>1, <1>2, <1>5
  <2> QED
    BY ONLY <1>5, <1>8, <2>1
<1>11. \A i \in 1 .. a : u[i] = s[i]
  <2>1. \A i \in 1 .. a : i \in 1 .. a + b
    BY ONLY <1>1
  <2> QED
    BY ONLY <1>3, <1>9, <2>1
<1>12. \A i \in 1 .. b : u[a + i] = t[i]
  <2>1. \A i \in 1 .. b : a + i \in 1 .. a + b
    BY ONLY <1>1
  <2> QED
    BY ONLY <1>4, <1>9, <2>1
<1>13. ASSUME NEW i \in 1 .. a + b + 1
       PROVE  i \in 1 .. a \/ (\E j \in 1 .. b : i = a + j) \/ i = a + b + 1
  <2>1. CASE a < i /\ i < a + b + 1
    <3>1. i - a \in 1 .. b /\ i = a + (i - a)
      BY ONLY <1>1, <2>1, i \in 1 .. a + b + 1
    <3> QED
      BY ONLY <3>1
  <2>2. CASE ~ (a < i /\ i < a + b + 1)
    BY ONLY <1>1, <2>2, i \in 1 .. a + b + 1
  <2> QED
    BY ONLY <2>1, <2>2
<1>14. Len(u) = a + b + 1
  BY ONLY <1>2, <1>5, <1>7
<1>15. IsBehind(u, s, t, n, a, b)
  BY <1>1, <1>6, <1>10, <1>11, <1>12, <1>13, <1>14 DEF IsBehind
<1> QED
  BY <1>15 DEF u, x, y, a, b, Behind

\* A leaf alone is in order.
LEMMA LeafOrdered ==
  ASSUME NEW forest, NEW n \in Nat, Below(n, forest) = {n}, forest[n].left = NULL
  PROVE  PostOrder(<<n>>, n, forest)
<1> DEFINE s == <<n>>
<1>1. s \in Seq(Nat) /\ Len(s) = 1 /\ s[1] = n
  OBVIOUS
<1> HIDE DEF s
<1>2. \A i \in 1 .. 1 : i = 1
  OBVIOUS
<1>3. PostOrder(s, n, forest)
  BY <1>1, <1>2 DEF PostOrder
<1> QED
  BY <1>3 DEF s

\* Two trees in order with their parent behind them are in order.
LEMMA BehindOrdered ==
  ASSUME NEW forest, NEW n \in Nat, NEW s, NEW t,
         PostOrder(s, forest[n].left, forest), PostOrder(t, forest[n].right, forest),
         Below(n, forest) = {n} \cup Below(forest[n].left, forest) \cup Below(forest[n].right, forest),
         Below(forest[n].left, forest) \cap Below(forest[n].right, forest) = {},
         n \notin Below(forest[n].left, forest), n \notin Below(forest[n].right, forest)
  PROVE  PostOrder(Behind(s, t, n), n, forest)
<1> DEFINE u == Behind(s, t, n)
           a == Len(s)
           b == Len(t)
           l == forest[n].left
           r == forest[n].right
           A == Below(l, forest)
           B == Below(r, forest)
<1>1. /\ s \in Seq(Nat) /\ a >= 1 /\ s[a] = l
      /\ \A i \in 1 .. a : s[i] \in A
      /\ \A m \in A : \E i \in 1 .. a : s[i] = m
      /\ \A i, j \in 1 .. a : s[i] = s[j] => i = j
      /\ \A i \in 1 .. a : forest[s[i]].left # NULL =>
           \E j, k \in 1 .. i - 1 : s[j] = forest[s[i]].left /\ s[k] = forest[s[i]].right
  BY DEF PostOrder
<1>2. /\ t \in Seq(Nat) /\ b >= 1 /\ t[b] = r
      /\ \A i \in 1 .. b : t[i] \in B
      /\ \A m \in B : \E i \in 1 .. b : t[i] = m
      /\ \A i, j \in 1 .. b : t[i] = t[j] => i = j
      /\ \A i \in 1 .. b : forest[t[i]].left # NULL =>
           \E j, k \in 1 .. i - 1 : t[j] = forest[t[i]].left /\ t[k] = forest[t[i]].right
  BY DEF PostOrder
<1>3. /\ a \in Nat /\ b \in Nat
      /\ u \in Seq(Nat) /\ Len(u) = a + b + 1 /\ u[a + b + 1] = n
      /\ \A i \in 1 .. a : u[i] = s[i]
      /\ \A i \in 1 .. b : u[a + i] = t[i]
      /\ \A i \in 1 .. a + b + 1 :
           i \in 1 .. a \/ (\E j \in 1 .. b : i = a + j) \/ i = a + b + 1
  <2>1. s \in Seq(Nat) /\ t \in Seq(Nat) /\ n \in Nat
    BY <1>1, <1>2
  <2>2. IsBehind(u, s, t, n, a, b)
    BY ONLY <2>1, BehindIs
  <2> HIDE DEF u, a, b
  <2> QED
    BY ONLY <2>2 DEF IsBehind
<1>4. Below(n, forest) = {n} \cup A \cup B /\ A \cap B = {} /\ n \notin A /\ n \notin B
  OBVIOUS
<1> HIDE DEF u, a, b, A, B
<1>0. a \in Nat /\ b \in Nat /\ a >= 1 /\ b >= 1
  <2>1. a \in Nat /\ b \in Nat
    BY ONLY <1>3
  <2>2. a >= 1
    BY ONLY <1>1
  <2>3. b >= 1
    BY ONLY <1>2
  <2> QED
    BY ONLY <2>1, <2>2, <2>3
<1>6. /\ \A i \in 1 .. a : i \in 1 .. a + b + 1
      /\ \A i \in 1 .. b : a + i \in 1 .. a + b + 1
      /\ a + b + 1 \in 1 .. a + b + 1
  BY ONLY <1>3
<1>7. ASSUME NEW m \in {n} \cup A \cup B
      PROVE  \E i \in 1 .. a + b + 1 : u[i] = m
  <2>1. CASE m = n
    BY ONLY <1>3, <1>6, <2>1
  <2>2. CASE m \in A
    <3>1. PICK i \in 1 .. a : s[i] = m
      BY ONLY <1>1, <2>2
    <3>2. i \in 1 .. a + b + 1 /\ u[i] = m
      BY ONLY <1>3, <1>6, <3>1, i \in 1 .. a
    <3> QED
      BY ONLY <3>2
  <2>3. CASE m \in B
    <3>1. PICK i \in 1 .. b : t[i] = m
      BY ONLY <1>2, <2>3
    <3>2. a + i \in 1 .. a + b + 1 /\ u[a + i] = m
      BY ONLY <1>3, <1>6, <3>1, i \in 1 .. b
    <3> QED
      BY ONLY <3>2
  <2> QED
    BY <2>1, <2>2, <2>3
<1>8. ASSUME NEW i \in 1 .. a + b + 1
      PROVE  \/ i \in 1 .. a /\ u[i] \in A /\ u[i] = s[i]
             \/ \E j \in 1 .. b : i = a + j /\ u[i] \in B /\ u[i] = t[j]
             \/ i = a + b + 1 /\ u[i] = n
  <2>1. CASE i \in 1 .. a
    BY ONLY <1>1, <1>3, <2>1
  <2>2. CASE \E j \in 1 .. b : i = a + j
    <3>1. PICK j \in 1 .. b : i = a + j
      BY ONLY <2>2
    <3>2. u[i] = t[j] /\ t[j] \in B
      BY ONLY <1>2, <1>3, <3>1, j \in 1 .. b
    <3> QED
      BY ONLY <3>1, <3>2, j \in 1 .. b
  <2>3. CASE i = a + b + 1
    BY ONLY <1>3, <2>3
  <2> QED
    BY ONLY <1>3, <2>1, <2>2, <2>3, i \in 1 .. a + b + 1
<1>5. \A i \in 1 .. a + b + 1 : u[i] \in {n} \cup A \cup B
  BY ONLY <1>8
<1>9. ASSUME NEW i \in 1 .. a + b + 1, NEW j \in 1 .. a + b + 1, u[i] = u[j]
      PROVE  i = j
  <2>1. CASE i \in 1 .. a /\ u[i] \in A /\ u[i] = s[i]
    <3>1. j \in 1 .. a /\ u[j] = s[j]
      BY ONLY <1>4, <1>8, <1>9, <2>1, j \in 1 .. a + b + 1
    <3> QED
      BY ONLY <1>1, <1>9, <2>1, <3>1
  <2>2. CASE \E k \in 1 .. b : i = a + k /\ u[i] \in B /\ u[i] = t[k]
    <3>1. PICK k \in 1 .. b : i = a + k /\ u[i] \in B /\ u[i] = t[k]
      BY ONLY <2>2
    <3>2. PICK q \in 1 .. b : j = a + q /\ u[j] = t[q]
      BY ONLY <1>4, <1>8, <1>9, <3>1, j \in 1 .. a + b + 1
    <3>3. k = q
      BY ONLY <1>2, <1>9, <3>1, <3>2, k \in 1 .. b, q \in 1 .. b
    <3> QED
      BY ONLY <3>1, <3>2, <3>3
  <2>3. CASE i = a + b + 1 /\ u[i] = n
    BY ONLY <1>4, <1>8, <1>9, <2>3, j \in 1 .. a + b + 1
  <2> QED
    BY ONLY <1>8, <2>1, <2>2, <2>3, i \in 1 .. a + b + 1
<1>10. ASSUME NEW i \in 1 .. a + b + 1, forest[u[i]].left # NULL
       PROVE  \E j, k \in 1 .. i - 1 : u[j] = forest[u[i]].left /\ u[k] = forest[u[i]].right
  <2>1. CASE i \in 1 .. a /\ u[i] = s[i]
    <3>1. PICK j \in 1 .. i - 1, k \in 1 .. i - 1 : s[j] = forest[s[i]].left /\ s[k] = forest[s[i]].right
      BY ONLY <1>1, <1>10, <2>1
    <3>2. j \in 1 .. a /\ k \in 1 .. a
      BY ONLY <1>3, <2>1, j \in 1 .. i - 1, k \in 1 .. i - 1
    <3>3. u[j] = s[j] /\ u[k] = s[k]
      BY ONLY <1>3, <3>2
    <3> QED
      BY <2>1, <3>1, <3>3
  <2>2. CASE \E m \in 1 .. b : i = a + m /\ u[i] = t[m]
    <3>1. PICK m \in 1 .. b : i = a + m /\ u[i] = t[m]
      BY ONLY <2>2
    <3>2. PICK j \in 1 .. m - 1, k \in 1 .. m - 1 : t[j] = forest[t[m]].left /\ t[k] = forest[t[m]].right
      BY ONLY <1>2, <1>10, <3>1
    <3>3. /\ j \in 1 .. b /\ k \in 1 .. b
          /\ a + j \in 1 .. i - 1 /\ a + k \in 1 .. i - 1
      BY ONLY <1>3, <3>1, m \in 1 .. b, j \in 1 .. m - 1, k \in 1 .. m - 1
    <3>4. u[a + j] = t[j] /\ u[a + k] = t[k]
      BY ONLY <1>3, <3>3
    <3>5. u[a + j] = forest[u[i]].left /\ u[a + k] = forest[u[i]].right
      BY ONLY <3>1, <3>2, <3>4
    <3> QED
      BY ONLY <3>3, <3>5
  <2>3. CASE i = a + b + 1 /\ u[i] = n
    <3>1. a \in 1 .. a /\ b \in 1 .. b /\ a \in 1 .. i - 1 /\ a + b \in 1 .. i - 1
      BY ONLY <1>0, <2>3
    <3>2. u[a] = l /\ u[a + b] = r
      BY ONLY <1>1, <1>2, <1>3, <3>1
    <3> QED
      BY <2>3, <3>1, <3>2
  <2> QED
    BY ONLY <1>8, <2>1, <2>2, <2>3, i \in 1 .. a + b + 1
<1>11. Len(u) >= 1 /\ u[Len(u)] = n
  BY ONLY <1>3
<1>12. PostOrder(u, n, forest)
  <2>1. Len(u) = a + b + 1 /\ u \in Seq(Nat)
    BY <1>3
  <2>2. /\ \A i \in 1 .. a + b + 1 : u[i] \in Below(n, forest)
        /\ \A m \in Below(n, forest) : \E i \in 1 .. a + b + 1 : u[i] = m
    BY <1>4, <1>5, <1>7
  <2> QED
    BY <1>9, <1>10, <1>11, <2>1, <2>2 DEF PostOrder
<1> QED
  BY <1>12 DEF u

\* The text has each node of a tree once, and its children come before it.
LEMMA IdsOrdered ==
  ASSUME NEW forest, NEW N \in Nat, DOMAIN forest = 1 .. N, Len(forest) = N, Grown(forest),
         \A n \in 1 .. N : forest[n].left # NULL =>
           Below(forest[n].left, forest) \cap Below(forest[n].right, forest) = {}
  PROVE  \A n \in 1 .. N : PostOrder(IdsIn(forest, n), n, forest)
<1> DEFINE S == {n \in Nat : \A m \in 1 .. n : m <= N => PostOrder(IdsIn(forest, m), m, forest)}
<1>1. 0 \in S
  OBVIOUS
<1>2. ASSUME NEW n \in Nat, n \in S
      PROVE  n + 1 \in S
  <2>1. ASSUME NEW k \in 1 .. n + 1, k <= N
        PROVE  PostOrder(IdsIn(forest, k), k, forest)
    <3>1. CASE k <= n
      BY <1>2, <2>1, <3>1
    <3>2. CASE k = n + 1
      <4>1. k \in 1 .. N
        BY <2>1
      <4>2. CASE forest[k].type = "LEAF"
        <5>1. forest[k].left = NULL /\ forest[k].right = NULL
          BY <4>1, <4>2 DEF Grown
        <5>2. Below(k, forest) = {k}
          BY <4>1, <5>1, BelowIs
        <5>3. IdsIn(forest, k) = <<k>>
          BY <4>1, <4>2, IdsAre
        <5> QED
          BY <4>1, <5>1, <5>2, <5>3, LeafOrdered
      <4>3. CASE forest[k].type # "LEAF"
        <5> DEFINE l == forest[k].left
                   r == forest[k].right
        <5>1. l \in 1 .. n /\ r \in 1 .. n /\ l <= N /\ r <= N /\ l # NULL
          BY <2>1, <3>2, <4>1, <4>3 DEF Grown, NULL
        <5>2. PostOrder(IdsIn(forest, l), l, forest) /\ PostOrder(IdsIn(forest, r), r, forest)
          BY <1>2, <5>1
        <5>3. IdsIn(forest, k) = Behind(IdsIn(forest, l), IdsIn(forest, r), k)
          BY <4>1, <4>3, IdsAre
        <5>4. Below(k, forest) = {k} \cup Below(l, forest) \cup Below(r, forest)
          BY <4>1, BelowIs
        <5>5. k \notin Below(l, forest) /\ k \notin Below(r, forest)
          <6>1. Below(l, forest) \subseteq 1 .. l /\ Below(r, forest) \subseteq 1 .. r
            BY <5>1, BelowBound
          <6> QED
            BY <3>2, <5>1, <6>1
        <5>6. Below(l, forest) \cap Below(r, forest) = {}
          BY <4>1, <5>1
        <5> QED
          BY <5>2, <5>3, <5>4, <5>5, <5>6, BehindOrdered
      <4> QED
        BY <4>2, <4>3
    <3> QED
      BY <3>1, <3>2
  <2> QED
    BY <2>1
<1> HIDE DEF S
<1>3. Nat \subseteq S
  BY <1>1, <1>2, NatInductionOnSets
<1> QED
  BY <1>3 DEF S

-------------------------------------------------------------------------------
(* The list of nodes the decoder reads the tree with.                      *)

\* A sequence without the elements at some places.
Without(c, places) ==
  [k \in 1 .. Len(c) - Cardinality(places) |->
     c[CHOOSE j \in DOMAIN c \ places : k = Cardinality({i \in 1 .. j : i \notin places})]]

\* Its elements are those at the other places.
Kept(w, c, places, S) ==
  /\ w \in Seq(S)
  /\ \A j \in 1 .. Len(c) : j \notin places => \E k \in 1 .. Len(w) : w[k] = c[j]

\* What is left of a list.
LEMMA WithoutIs ==
  ASSUME NEW S, NEW c \in Seq(S), NEW places, places \subseteq 1 .. Len(c)
  PROVE  Kept(Without(c, places), c, places, S)
<1> DEFINE N == Len(c)
           K == (1 .. N) \ places
           m == N - Cardinality(places)
           Rank(j) == Cardinality({i \in 1 .. j : i \notin places})
           f == [j \in K |-> Rank(j)]
<1>1. N \in Nat /\ DOMAIN c = 1 .. N /\ \A j \in 1 .. N : c[j] \in S
  OBVIOUS
<1>2. IsFiniteSet(1 .. N) /\ Cardinality(1 .. N) = N
  BY <1>1, FS_Interval
<1>3. /\ IsFiniteSet(places) /\ Cardinality(places) \in Nat /\ Cardinality(places) <= N
      /\ IsFiniteSet(K) /\ Cardinality(K) = m /\ m \in Nat
  <2>1. IsFiniteSet(places) /\ Cardinality(places) <= N
    BY <1>2, FS_Subset
  <2>2. IsFiniteSet(K)
    BY <1>2, FS_Subset
  <2>3. Cardinality(K) = Cardinality(1 .. N) - Cardinality((1 .. N) \cap places)
    BY <1>2, FS_Difference
  <2>4. (1 .. N) \cap places = places
    OBVIOUS
  <2>5. Cardinality(places) \in Nat
    BY <2>1, FS_CardinalityType
  <2> HIDE DEF K
  <2>6. Cardinality(K) = N - Cardinality(places)
    BY ONLY <1>2, <2>3, <2>4
  <2>7. m \in Nat
    BY ONLY <1>1, <2>1, <2>5
  <2> QED
    BY ONLY <2>1, <2>2, <2>5, <2>6, <2>7
<1>4. \A j \in K : /\ {i \in 1 .. j : i \notin places} \subseteq K
                   /\ j \in {i \in 1 .. j : i \notin places}
  BY <1>1
<1>5. IsFiniteSet(1 .. m) /\ Cardinality(1 .. m) = m
  <2> HIDE DEF m
  <2>1. 1 \in Int /\ m \in Int /\ m >= 0
    BY <1>3
  <2> QED
    BY <2>1, FS_Interval
<1>6. \A j \in K : Rank(j) \in 1 .. m /\ IsFiniteSet({i \in 1 .. j : i \notin places})
  <2> SUFFICES ASSUME NEW j \in K PROVE Rank(j) \in 1 .. m /\ IsFiniteSet({i \in 1 .. j : i \notin places})
    OBVIOUS
  <2> DEFINE T == {i \in 1 .. j : i \notin places}
  <2>1. T \subseteq K /\ j \in T
    BY <1>4
  <2> HIDE DEF T, K, m
  <2>2. IsFiniteSet(T) /\ Cardinality(T) <= m
    BY <1>3, <2>1, FS_Subset
  <2>3. Cardinality(T) \in Nat /\ Cardinality(T) # 0
    BY <2>1, <2>2, FS_CardinalityType, FS_EmptySet
  <2>4. Cardinality(T) \in 1 .. m
    BY <1>3, <2>2, <2>3
  <2> QED
    BY <2>2, <2>4 DEF T
<1>7. \A j, k \in K : j < k => Rank(j) # Rank(k)
  <2> SUFFICES ASSUME NEW j \in K, NEW k \in K, j < k PROVE Rank(j) # Rank(k)
    OBVIOUS
  <2> DEFINE T == {i \in 1 .. j : i \notin places}
             U == {i \in 1 .. k : i \notin places}
  <2>1. T \subseteq U /\ k \in U /\ k \notin T
    BY <1>1
  <2>2. IsFiniteSet(U)
    BY <1>6
  <2> HIDE DEF T, U
  <2>3. Cardinality(U) = Cardinality(T) => U = T
    BY <2>1, <2>2, FS_Subset
  <2> QED
    BY <2>1, <2>3 DEF T, U
<1>8. \A j, k \in K : Rank(j) = Rank(k) => j = k
  <2>1. \A j, k \in K : j < k \/ k < j \/ j = k
    BY <1>1
  <2> HIDE DEF K, Rank
  <2> QED
    BY <1>7, <2>1
<1> HIDE DEF Rank, m, K
<1>9. f \in Injection(K, 1 .. m)
  BY <1>6, <1>8 DEF Injection, IsInjective
<1>10. f \in Surjection(K, 1 .. m)
  <2> HIDE DEF f
  <2> QED
    BY <1>3, <1>5, <1>9, FS_Injection
<1>11. \A k \in 1 .. m : \E j \in K : k = Rank(j)
  BY <1>10 DEF Surjection
<1> DEFINE Nth(k) == CHOOSE j \in DOMAIN c \ places : k = Rank(j)
<1>12. \A k \in 1 .. m : Nth(k) \in K /\ k = Rank(Nth(k))
  BY <1>1, <1>11 DEF K
<1>13. Without(c, places) = [k \in 1 .. m |-> c[Nth(k)]]
  BY DEF Without, m, Rank
<1> HIDE DEF Nth
<1>14. \A k \in 1 .. m : c[Nth(k)] \in S
  BY <1>1, <1>12 DEF K
<1>15. Without(c, places) \in Seq(S) /\ Len(Without(c, places)) = m
  BY <1>3, <1>13, <1>14
<1>16. ASSUME NEW j \in 1 .. N, j \notin places
       PROVE  \E k \in 1 .. m : Without(c, places)[k] = c[j]
  <2>1. j \in K
    BY <1>16 DEF K
  <2>2. Rank(j) \in 1 .. m
    BY <1>6, <2>1
  <2>3. Nth(Rank(j)) = j
    BY <1>8, <1>12, <2>1, <2>2
  <2>4. Without(c, places)[Rank(j)] = c[j]
    BY <1>13, <2>2, <2>3
  <2> QED
    BY <2>2, <2>4
<1> QED
  BY <1>15, <1>16 DEF Kept

\* The text in the file, whole or cut.
TextIs == text = Serial \/ text \in Shortened(Serial)

\* Which places of the text have a record, that each record has a place of its
\* own, and that children come before their parent.
Ordered(t, forest) ==
  /\ t \in Seq(Nat)
  /\ \A i \in 1 .. Len(t) : t[i] # HASH => i >= 2 /\ t[i] \in DOMAIN forest
  /\ \A i, j \in 1 .. Len(t) : t[i] # HASH /\ t[i] = t[j] => i = j
  /\ \A i \in 1 .. Len(t) : t[i] # HASH /\ forest[t[i]].left # NULL =>
       \E j, k \in 2 .. i - 1 : t[j] = forest[t[i]].left /\ t[k] = forest[t[i]].right

\* The whole text: the root's record is the last, behind it and at the beginning
\* is a '#'.
Whole(t, forest, n) ==
  /\ Len(t) >= 3 /\ t[1] = HASH /\ t[Len(t)] = HASH
  /\ \A i \in 2 .. Len(t) - 1 : t[i] # HASH
  /\ t[Len(t) - 1] = n
  /\ \A m \in DOMAIN forest : \E i \in 2 .. Len(t) - 1 : t[i] = m

\* The text of the whole tree.
LEMMA SerialIs ==
  ASSUME HuffInv, phase = "built", root # NULL
  PROVE  Ordered(Serial, nodes) /\ Whole(Serial, nodes, root)
<1> DEFINE N == Len(nodes)
           s == tree_serialize_rec(root)
           t == <<HASH>> \o s \o <<HASH>>
           b == Len(s)
<1>1. /\ nodes \in Seq(Node) /\ Grown(nodes) /\ ForestOf(Roots, nodes)
      /\ N \in Nat /\ DOMAIN nodes = 1 .. N
      /\ root \in 1 .. N /\ Below(root, nodes) = 1 .. N
  BY CodesAre DEF HuffInv, HuffTypeOK
<1>2. s = IdsIn(nodes, root)
  BY <1>1, IdsAreIn
<1>3. PostOrder(s, root, nodes)
  <2>1. \A n \in 1 .. N : nodes[n].left # NULL =>
          Below(nodes[n].left, nodes) \cap Below(nodes[n].right, nodes) = {}
    BY <1>1 DEF ForestOf
  <2>2. \A n \in 1 .. N : PostOrder(IdsIn(nodes, n), n, nodes)
    BY <1>1, <2>1, IdsOrdered
  <2> QED
    BY <1>1, <1>2, <2>2
<1>4. s \in Seq(Nat) /\ b \in Nat /\ b >= 1
  BY <1>3 DEF PostOrder
<1> HIDE DEF s
<1>5. IsBehind(t, <<HASH>>, s, HASH, 1, b)
  <2> DEFINE x == <<HASH>>
  <2>1. x \in Seq(Nat) /\ Len(x) = 1 /\ HASH \in Nat
    BY DEF HASH
  <2> HIDE DEF x
  <2>2. IsBehind(Behind(x, s, HASH), x, s, HASH, Len(x), Len(s))
    BY <1>4, <2>1, BehindIs
  <2> QED
    BY <2>1, <2>2 DEF x, Behind
<1> HIDE DEF t
<1>6. /\ t \in Seq(Nat) /\ Len(t) = b + 2 /\ t[b + 2] = HASH
      /\ \A i \in 1 .. 1 : t[i] = <<HASH>>[i]
      /\ \A i \in 1 .. b : t[1 + i] = s[i]
      /\ \A i \in 1 .. b + 2 : i \in 1 .. 1 \/ (\E j \in 1 .. b : i = 1 + j) \/ i = b + 2
  <2>1. 1 + b + 1 = b + 2
    BY <1>4
  <2> HIDE DEF b
  <2> QED
    BY ONLY <1>5, <2>1 DEF IsBehind
<1>7. t[1] = HASH
  BY <1>6
<1>8. /\ \A i \in 1 .. b : s[i] \in 1 .. N
      /\ \A m \in 1 .. N : \E i \in 1 .. b : s[i] = m
      /\ \A i, j \in 1 .. b : s[i] = s[j] => i = j
      /\ \A i \in 1 .. b : nodes[s[i]].left # NULL =>
           \E j, k \in 1 .. i - 1 : s[j] = nodes[s[i]].left /\ s[k] = nodes[s[i]].right
      /\ s[b] = root
  BY <1>1, <1>3 DEF PostOrder
<1> HIDE DEF b, N
<1>9. \A i \in 1 .. b + 2 : \/ i = 1 /\ t[i] = HASH
                            \/ \E j \in 1 .. b : i = 1 + j /\ t[i] = s[j] /\ t[i] # HASH /\ t[i] \in 1 .. N
                            \/ i = b + 2 /\ t[i] = HASH
  <2> SUFFICES ASSUME NEW i \in 1 .. b + 2
               PROVE  \/ i = 1 /\ t[i] = HASH
                      \/ \E j \in 1 .. b : i = 1 + j /\ t[i] = s[j] /\ t[i] # HASH /\ t[i] \in 1 .. N
                      \/ i = b + 2 /\ t[i] = HASH
    OBVIOUS
  <2>1. CASE i \in 1 .. 1
    BY ONLY <1>7, <2>1
  <2>2. CASE \E j \in 1 .. b : i = 1 + j
    <3>1. PICK j \in 1 .. b : i = 1 + j
      BY <2>2
    <3>2. t[i] = s[j] /\ s[j] \in 1 .. N
      BY ONLY <1>6, <1>8, <3>1, j \in 1 .. b
    <3>3. s[j] # HASH
      BY <1>1, <3>2 DEF HASH
    <3> QED
      BY <3>1, <3>2, <3>3
  <2>3. CASE i = b + 2
    BY ONLY <1>6, <2>3
  <2> QED
    BY ONLY <1>6, <2>1, <2>2, <2>3, i \in 1 .. b + 2
<1>10. ASSUME NEW i \in 1 .. b + 2, t[i] # HASH
       PROVE  i >= 2 /\ t[i] \in 1 .. N
  <2>1. PICK j \in 1 .. b : i = 1 + j /\ t[i] = s[j] /\ t[i] # HASH /\ t[i] \in 1 .. N
    BY ONLY <1>9, <1>10, i \in 1 .. b + 2
  <2> QED
    BY ONLY <1>4, <2>1, j \in 1 .. b
<1>11. ASSUME NEW i \in 1 .. b + 2, NEW j \in 1 .. b + 2, t[i] # HASH, t[i] = t[j]
       PROVE  i = j
  <2>1. PICK k \in 1 .. b : i = 1 + k /\ t[i] = s[k]
    BY ONLY <1>9, <1>11, i \in 1 .. b + 2
  <2>2. PICK q \in 1 .. b : j = 1 + q /\ t[j] = s[q]
    BY ONLY <1>9, <1>11, j \in 1 .. b + 2
  <2>3. k = q
    BY ONLY <1>8, <1>11, <2>1, <2>2, k \in 1 .. b, q \in 1 .. b
  <2> QED
    BY ONLY <2>1, <2>2, <2>3
<1>12. ASSUME NEW i \in 1 .. b + 2, t[i] # HASH, nodes[t[i]].left # NULL
       PROVE  \E j, k \in 2 .. i - 1 : t[j] = nodes[t[i]].left /\ t[k] = nodes[t[i]].right
  <2>1. PICK m \in 1 .. b : i = 1 + m /\ t[i] = s[m]
    BY ONLY <1>9, <1>12, i \in 1 .. b + 2
  <2>2. PICK j \in 1 .. m - 1, k \in 1 .. m - 1 : s[j] = nodes[s[m]].left /\ s[k] = nodes[s[m]].right
    BY ONLY <1>8, <1>12, <2>1, m \in 1 .. b
  <2>3. /\ j \in 1 .. b /\ k \in 1 .. b /\ 1 + j \in 2 .. i - 1 /\ 1 + k \in 2 .. i - 1
    BY ONLY <1>4, <2>1, m \in 1 .. b, j \in 1 .. m - 1, k \in 1 .. m - 1
  <2>4. t[1 + j] = nodes[t[i]].left /\ t[1 + k] = nodes[t[i]].right
    BY ONLY <1>6, <2>1, <2>2, <2>3
  <2> QED
    BY ONLY <2>3, <2>4
<1>13. Ordered(t, nodes)
  <2>1. t \in Seq(Nat) /\ Len(t) = b + 2 /\ DOMAIN nodes = 1 .. N
    BY <1>1, <1>6
  <2> QED
    BY ONLY <1>10, <1>11, <1>12, <2>1 DEF Ordered
<1>14. Whole(t, nodes, root)
  <2>1. Len(t) = b + 2 /\ DOMAIN nodes = 1 .. N /\ Len(t) >= 3 /\ Len(t) - 1 = b + 1
    BY <1>1, <1>4, <1>6
  <2>2. \A i \in 2 .. b + 1 : t[i] # HASH
    BY ONLY <1>4, <1>9
  <2>3. t[b + 1] = root
    <3>1. b \in 1 .. b /\ 1 + b = b + 1
      BY ONLY <1>4
    <3> QED
      BY ONLY <1>6, <1>8, <3>1
  <2>4. ASSUME NEW m \in 1 .. N PROVE \E i \in 2 .. b + 1 : t[i] = m
    <3>1. PICK i \in 1 .. b : s[i] = m
      BY ONLY <1>8, m \in 1 .. N
    <3>2. 1 + i \in 2 .. b + 1 /\ t[1 + i] = m
      BY ONLY <1>4, <1>6, <3>1, i \in 1 .. b
    <3> QED
      BY ONLY <3>2
  <2>5. t[b + 2] = HASH
    BY <1>6
  <2> QED
    BY ONLY <1>7, <2>1, <2>2, <2>3, <2>4, <2>5 DEF Whole
<1> QED
  BY <1>13, <1>14 DEF t, s, Serial, tree_serialize

\* The text in the file, whole or cut, is in order.
LEMMA TextOrdered ==
  ASSUME HuffInv, phase = "built", root # NULL, TextIs
  PROVE  /\ Ordered(text, nodes)
         /\ Whole(text, nodes, root) \/ \A i \in 2 .. Len(text) : text[i] # HASH
<1>1. Ordered(Serial, nodes) /\ Whole(Serial, nodes, root)
  BY SerialIs
<1>2. CASE text = Serial
  BY <1>1, <1>2
<1>3. CASE text \in Shortened(Serial)
  <2> DEFINE t == Serial
             N == Len(t)
  <2>1. t \in Seq(Nat) /\ N \in Nat
    BY <1>1 DEF Ordered
  <2>2. PICK n \in 0 .. N - 1 : text = SubSeq(t, 1, n)
    BY <1>3 DEF Shortened
  <2>3. n \in 0 .. N
    BY <2>1, <2>2
  <2>4. text \in Seq(Nat) /\ Len(text) = n /\ \A i \in 1 .. n : text[i] = t[i]
    <3>1. text = First(t, n)
      BY <2>2 DEF First
    <3> QED
      BY <2>1, <2>3, <3>1, FirstIs
  <2> HIDE DEF t, N
  <2>5. /\ \A i \in 1 .. N : t[i] # HASH => i >= 2 /\ t[i] \in DOMAIN nodes
        /\ \A i, j \in 1 .. N : t[i] # HASH /\ t[i] = t[j] => i = j
        /\ \A i \in 1 .. N : t[i] # HASH /\ nodes[t[i]].left # NULL =>
             \E j, k \in 2 .. i - 1 : t[j] = nodes[t[i]].left /\ t[k] = nodes[t[i]].right
    BY <1>1 DEF Ordered, t, N
  <2>6. \A i \in 2 .. N - 1 : t[i] # HASH
    BY <1>1 DEF Whole, t, N
  <2>7. \A i \in 1 .. n : i \in 1 .. N /\ text[i] = t[i]
    BY ONLY <2>1, <2>2, <2>4
  <2>8. ASSUME NEW i \in 1 .. n, text[i] # HASH, nodes[text[i]].left # NULL
        PROVE  \E j, k \in 2 .. i - 1 : text[j] = nodes[text[i]].left /\ text[k] = nodes[text[i]].right
    <3>1. PICK j \in 2 .. i - 1, k \in 2 .. i - 1 : t[j] = nodes[t[i]].left /\ t[k] = nodes[t[i]].right
      BY ONLY <2>5, <2>7, <2>8, i \in 1 .. n
    <3>2. j \in 1 .. n /\ k \in 1 .. n
      BY ONLY <2>1, <2>3, i \in 1 .. n, j \in 2 .. i - 1, k \in 2 .. i - 1
    <3> QED
      BY ONLY <2>7, <3>1, <3>2, i \in 1 .. n, j \in 2 .. i - 1, k \in 2 .. i - 1
  <2>9. /\ \A i \in 1 .. n : text[i] # HASH => i >= 2 /\ text[i] \in DOMAIN nodes
        /\ \A i, j \in 1 .. n : text[i] # HASH /\ text[i] = text[j] => i = j
    BY ONLY <2>5, <2>7
  <2>10. Ordered(text, nodes)
    BY <2>4, <2>8, <2>9 DEF Ordered
  <2>11. \A i \in 2 .. n : i \in 2 .. N - 1 /\ i \in 1 .. n
    BY ONLY <2>1, <2>2
  <2>12. \A i \in 2 .. Len(text) : text[i] # HASH
    BY ONLY <2>4, <2>6, <2>7, <2>11
  <2> QED
    BY <2>10, <2>12
<1> QED
  BY <1>2, <1>3 DEF TextIs

-------------------------------------------------------------------------------
\* Where a node is in a list, and which nodes the reading of a record unlinks.
PlaceIn(c, n) == IF \E j \in DOMAIN c : c[j] = n
                 THEN CHOOSE j \in DOMAIN c : c[j] = n
                 ELSE 0
\* The places of two children in the list, and of these the ones Unlinked really
\* removes.
Going(c, l, r) == {PlaceIn(c, l), PlaceIn(c, r)} \ {0}
Gone(c, l, r) == {j \in Going(c, l, r) : j = 1 \/ j - 1 \notin Going(c, l, r)}

\* What Unlinked leaves.
LEMMA UnlinkedIs == \A l, r : Unlinked(l, r) = Without(chain, Gone(chain, l, r))
BY DEF Unlinked, Without, Gone, Going, PlaceIn, Place

\* The list after r pieces of the text: a node read whose parent is not is in
\* it, and from the second on it has two nodes at least.
Listed(c, t, r, forest) ==
  /\ c \in Seq(Nat \ {0})
  /\ r \in 0 .. Len(t)
  /\ \A i \in 2 .. r : t[i] # HASH
  /\ r < 2 => c = <<>>
  /\ r >= 2 => Len(c) >= 1
  /\ r >= 3 => Len(c) >= 2
  /\ \A i \in 2 .. r : (\A j \in 2 .. r : t[i] \notin Kids(t[j], forest)) =>
       \E k \in 1 .. Len(c) : c[k] = t[i]

\* Where a node is in a list without repetitions.
LEMMA PlaceInIs ==
  ASSUME NEW c \in Seq(Nat \ {0})
  PROVE  /\ PlaceIn(c, 0) = 0
         /\ \A n : PlaceIn(c, n) = 0 \/ (PlaceIn(c, n) \in 1 .. Len(c) /\ c[PlaceIn(c, n)] = n)
         /\ \A n : (\E j \in 1 .. Len(c) : c[j] = n) => PlaceIn(c, n) # 0
<1>1. DOMAIN c = 1 .. Len(c) /\ Len(c) \in Nat /\ \A j \in 1 .. Len(c) : c[j] # 0
  OBVIOUS
<1> QED
  BY <1>1 DEF PlaceIn

\* There are no children, or two and both in the list.
BothIn(c, l, r) ==
  \/ l = 0 /\ r = 0
  \/ l # r /\ (\E j \in 1 .. Len(c) : c[j] = l) /\ (\E j \in 1 .. Len(c) : c[j] = r)

\* A record that is a leaf unlinks nothing, one that is not at most all but one.
LEMMA OneStays ==
  ASSUME NEW c \in Seq(Nat \ {0}), NEW l, NEW r, Len(c) >= 1, BothIn(c, l, r)
  PROVE  \E j \in 1 .. Len(c) : j \notin Gone(c, l, r)
<1> USE DEF BothIn
<1>0. Len(c) \in Nat
  OBVIOUS
<1>1. CASE l = 0 /\ r = 0
  <2>1. Gone(c, l, r) = {}
    BY <1>1, PlaceInIs DEF Gone, Going
  <2> QED
    BY <1>0, <2>1
<1>2. CASE l # r /\ (\E j \in 1 .. Len(c) : c[j] = l) /\ (\E j \in 1 .. Len(c) : c[j] = r)
  <2> DEFINE x == PlaceIn(c, l)
             y == PlaceIn(c, r)
  <2>1. x \in 1 .. Len(c) /\ y \in 1 .. Len(c) /\ c[x] = l /\ c[y] = r
    BY <1>2, PlaceInIs
  <2>2. x # y
    BY <1>2, <2>1
  <2>3. Going(c, l, r) = {x, y}
    BY <2>1 DEF Going
  <2> HIDE DEF x, y
  <2>4. CASE Len(c) >= 3
    <3>1. PICK j \in {1, 2, 3} : j # x /\ j # y
      BY <2>1
    <3>2. j \in 1 .. Len(c)
      BY ONLY <1>0, <2>4, j \in {1, 2, 3}
    <3>3. j \notin Gone(c, l, r)
      BY <2>3, <3>1 DEF Gone
    <3> QED
      BY <3>2, <3>3
  <2>5. CASE Len(c) < 3
    <3>0. Len(c) = 2 /\ {x, y} = {1, 2}
      <4> DEFINE m == Len(c)
      <4>1. m \in Nat /\ x \in 1 .. m /\ y \in 1 .. m /\ x # y /\ m < 3
        BY <1>0, <2>1, <2>2, <2>5
      <4> HIDE DEF m
      <4>2. m = 2
        BY ONLY <4>1
      <4>3. (x = 1 /\ y = 2) \/ (x = 2 /\ y = 1)
        BY ONLY <4>1, <4>2
      <4>4. {x, y} = {1, 2}
        BY ONLY <4>3
      <4> QED
        BY <4>2, <4>4 DEF m
    <3>1. Going(c, l, r) = {1, 2} /\ Len(c) = 2
      BY ONLY <2>3, <3>0
    <3>2. 2 \notin Gone(c, l, r)
      BY <3>1 DEF Gone
    <3> QED
      BY <3>1, <3>2
  <2> QED
    BY <1>0, <2>4, <2>5
<1> QED
  BY <1>1, <1>2

\* The children of the next record are still in the list.
LEMMA ChildrenListed ==
  ASSUME NEW c, NEW t, NEW r, NEW forest, NEW roots, NEW N \in Nat,
         DOMAIN forest = 1 .. N, Grown(forest), OneParent(roots, forest),
         Ordered(t, forest), Listed(c, t, r, forest),
         r \in 1 .. Len(t) - 1, t[r + 1] # HASH, NEW n, n = t[r + 1]
  PROVE  BothIn(c, forest[n].left, forest[n].right)
<1> DEFINE left == forest[n].left
           right == forest[n].right
           S == Nat \ {0}
<1>1. /\ c \in Seq(S) /\ Len(c) \in Nat
      /\ \A i \in 2 .. r : t[i] # HASH
      /\ r < 2 => c = <<>>
      /\ r >= 2 => Len(c) >= 1
      /\ \A i \in 2 .. r : (\A j \in 2 .. r : t[i] \notin Kids(t[j], forest)) =>
           \E k \in 1 .. Len(c) : c[k] = t[i]
  BY DEF Listed
<1>2. /\ t \in Seq(Nat) /\ Len(t) \in Nat
      /\ \A i \in 1 .. Len(t) : t[i] # HASH => i >= 2 /\ t[i] \in 1 .. N
      /\ \A i, j \in 1 .. Len(t) : t[i] # HASH /\ t[i] = t[j] => i = j
      /\ \A i \in 1 .. Len(t) : t[i] # HASH /\ forest[t[i]].left # NULL =>
           \E j, k \in 2 .. i - 1 : t[j] = forest[t[i]].left /\ t[k] = forest[t[i]].right
  BY DEF Ordered
<1>3. r + 1 \in 1 .. Len(t) /\ r \in Nat /\ n \in 1 .. N /\ n \in S /\ r + 1 - 1 = r
  <2>1. r + 1 \in 1 .. Len(t) /\ r \in Nat /\ r + 1 - 1 = r
    BY <1>2
  <2>2. n \in 1 .. N
    BY <1>2, <2>1
  <2> QED
    BY <2>1, <2>2
<1>4. left # NULL =>
        /\ left # right /\ right # NULL
        /\ \E j \in 2 .. r : t[j] = left
        /\ \E j \in 2 .. r : t[j] = right
  <2> SUFFICES ASSUME left # NULL
               PROVE  /\ left # right /\ right # NULL
                      /\ \E j \in 2 .. r : t[j] = left
                      /\ \E j \in 2 .. r : t[j] = right
    OBVIOUS
  <2>1. left # right /\ right # NULL
    BY <1>3 DEF Grown, OneParent
  <2>2. \E j, k \in 2 .. r + 1 - 1 : t[j] = left /\ t[k] = right
    BY <1>2, <1>3
  <2> QED
    BY <1>3, <2>1, <2>2
<1>5. ASSUME NEW i \in 2 .. r, t[i] \in Kids(n, forest)
      PROVE  \A j \in 2 .. r : t[i] \notin Kids(t[j], forest)
  <2> SUFFICES ASSUME NEW j \in 2 .. r, t[i] \in Kids(t[j], forest) PROVE FALSE
    OBVIOUS
  <2>1. j \in 1 .. Len(t) /\ j # r + 1 /\ t[j] # HASH
    BY <1>1, <1>2, <1>3
  <2>2. t[j] # n
    BY <1>2, <1>3, <2>1
  <2>3. t[j] \in 1 .. N
    BY <1>2, <2>1
  <2> QED
    BY <1>3, <1>5, <2>2, <2>3 DEF OneParent
<1>6. \/ left = 0 /\ right = 0
      \/ left # right /\ (\E j \in 1 .. Len(c) : c[j] = left) /\ (\E j \in 1 .. Len(c) : c[j] = right)
  <2>1. CASE left = NULL
    BY <1>3, <2>1 DEF Grown, NULL
  <2>2. CASE left # NULL
    <3>1. left \in Kids(n, forest) /\ right \in Kids(n, forest)
      BY <1>4, <2>2 DEF Kids
    <3>2. PICK j \in 2 .. r : t[j] = left
      BY <1>4, <2>2
    <3>3. PICK k \in 2 .. r : t[k] = right
      BY <1>4, <2>2
    <3>4. \E q \in 1 .. Len(c) : c[q] = left
      BY <1>1, <1>5, <3>1, <3>2
    <3>5. \E q \in 1 .. Len(c) : c[q] = right
      BY <1>1, <1>5, <3>1, <3>3
    <3> QED
      BY <1>4, <2>2, <3>4, <3>5
  <2> QED
    BY <2>1, <2>2
<1> QED
  BY <1>6 DEF BothIn

\* The reading of a record keeps all that.
LEMMA ListedStep ==
  ASSUME NEW c, NEW t, NEW r, NEW forest, NEW roots, NEW N \in Nat,
         DOMAIN forest = 1 .. N, Grown(forest), OneParent(roots, forest),
         Ordered(t, forest), Listed(c, t, r, forest),
         r \in 1 .. Len(t) - 1, t[r + 1] # HASH,
         NEW n, n = t[r + 1], NEW w, w = Without(c, Gone(c, forest[n].left, forest[n].right))
  PROVE  Listed(<<n>> \o w, t, r + 1, forest)
<1> DEFINE left == forest[n].left
           right == forest[n].right
           gone == Gone(c, left, right)
           d == <<n>> \o w
           S == Nat \ {0}
<1>1. /\ c \in Seq(S) /\ Len(c) \in Nat
      /\ \A i \in 2 .. r : t[i] # HASH
      /\ r < 2 => c = <<>>
      /\ r >= 2 => Len(c) >= 1
      /\ \A i \in 2 .. r : (\A j \in 2 .. r : t[i] \notin Kids(t[j], forest)) =>
           \E k \in 1 .. Len(c) : c[k] = t[i]
  BY DEF Listed
<1>2. /\ t \in Seq(Nat) /\ Len(t) \in Nat
      /\ \A i \in 1 .. Len(t) : t[i] # HASH => i >= 2 /\ t[i] \in 1 .. N
      /\ \A i, j \in 1 .. Len(t) : t[i] # HASH /\ t[i] = t[j] => i = j
      /\ \A i \in 1 .. Len(t) : t[i] # HASH /\ forest[t[i]].left # NULL =>
           \E j, k \in 2 .. i - 1 : t[j] = forest[t[i]].left /\ t[k] = forest[t[i]].right
  BY DEF Ordered
<1>3. r + 1 \in 1 .. Len(t) /\ r \in Nat /\ n \in 1 .. N /\ n \in S /\ r + 1 - 1 = r
  <2>1. r + 1 \in 1 .. Len(t) /\ r \in Nat /\ r + 1 - 1 = r
    BY <1>2
  <2>2. n \in 1 .. N
    BY <1>2, <2>1
  <2> QED
    BY <2>1, <2>2
<1>4. BothIn(c, left, right)
  BY ChildrenListed
<1>5. gone \subseteq 1 .. Len(c) /\ \A j \in gone : c[j] \in Kids(n, forest)
  <2>1. \A j \in gone : j \in 1 .. Len(c) /\ (c[j] = left \/ c[j] = right)
    BY <1>1, PlaceInIs DEF Gone, Going
  <2>2. \A j \in 1 .. Len(c) : c[j] # NULL
    BY <1>1 DEF NULL
  <2> QED
    BY <2>1, <2>2 DEF Kids
<1>6. /\ w \in Seq(S)
      /\ \A j \in 1 .. Len(c) : j \notin gone => \E k \in 1 .. Len(w) : w[k] = c[j]
  <2> HIDE DEF gone, S
  <2>1. w = Without(c, gone)
    BY DEF gone
  <2>2. c \in Seq(S) /\ gone \subseteq 1 .. Len(c)
    BY <1>1, <1>5
  <2>3. Kept(w, c, gone, S)
    BY ONLY <2>1, <2>2, WithoutIs
  <2> QED
    BY ONLY <2>3 DEF Kept
<1>7. Len(w) \in Nat /\ (Len(c) >= 1 => Len(w) >= 1)
  <2>1. Len(w) \in Nat
    BY <1>6
  <2>2. ASSUME Len(c) >= 1 PROVE Len(w) >= 1
    <3>1. PICK j \in 1 .. Len(c) : j \notin gone
      <4> HIDE DEF left, right
      <4> QED
        BY <1>1, <1>4, <2>2, OneStays
    <3>2. PICK k \in 1 .. Len(w) : w[k] = c[j]
      BY <1>6, <3>1
    <3> QED
      BY <2>1, <3>2
  <2> QED
    BY <2>1, <2>2
<1> HIDE DEF gone, left, right
<1>8. /\ d \in Seq(S) /\ Len(d) = Len(w) + 1 /\ d[1] = n
       /\ \A k \in 1 .. Len(w) : d[k + 1] = w[k]
  <2> DEFINE x == <<n>>
  <2>1. x \in Seq(S) /\ Len(x) = 1 /\ x[1] = n
    BY <1>3
  <2> HIDE DEF x, S
  <2>0. Joined(x, w, S)
    BY ONLY <1>6, <2>1, ConcatIs
  <2>2. x \o w \in Seq(S) /\ Len(x \o w) = Len(x) + Len(w)
    BY ONLY <2>0 DEF Joined
  <2>3. \A i \in 1 .. Len(x) + Len(w) : (x \o w)[i] = IF i <= Len(x) THEN x[i] ELSE w[i - Len(x)]
    BY ONLY <2>0 DEF Joined
  <2> DEFINE e == x \o w
  <2> HIDE DEF e
  <2>4. e[1] = n
    <3>1. 1 \in 1 .. Len(x) + Len(w) /\ 1 <= Len(x)
      BY ONLY <1>7, <2>1
    <3> QED
      BY ONLY <2>1, <2>3, <3>1 DEF e
  <2>5. ASSUME NEW k \in 1 .. Len(w) PROVE e[k + 1] = w[k]
    <3> DEFINE q == k + 1
    <3>1. q \in 1 .. Len(x) + Len(w) /\ ~ (q <= Len(x)) /\ q - Len(x) = k
      BY ONLY <1>7, <2>1, k \in 1 .. Len(w)
    <3> HIDE DEF q
    <3>2. e[q] = w[k]
      BY ONLY <2>3, <3>1 DEF e
    <3> QED
      BY <3>2 DEF q
  <2>6. Len(e) = Len(w) + 1
    BY ONLY <1>7, <2>1, <2>2 DEF e
  <2>7. e \in Seq(S)
    BY ONLY <2>2 DEF e
  <2> QED
    BY <2>4, <2>5, <2>6, <2>7 DEF e, x
<1> HIDE DEF d
<1>9. ASSUME NEW i \in 2 .. r + 1, \A j \in 2 .. r + 1 : t[i] \notin Kids(t[j], forest)
       PROVE  \E k \in 1 .. Len(d) : d[k] = t[i]
  <2>1. CASE i = r + 1
    <3>1. 1 \in 1 .. Len(d) /\ d[1] = t[i]
      BY <1>7, <1>8, <2>1
    <3> QED
      BY <3>1
  <2>2. CASE i # r + 1
    <3>1. i \in 2 .. r /\ \A j \in 2 .. r : j \in 2 .. r + 1
      BY <1>3, <2>2
    <3>2. PICK k \in 1 .. Len(c) : c[k] = t[i]
      BY <1>1, <1>9, <3>1
    <3>3. r + 1 \in 2 .. r + 1
      BY <1>3, <3>1
    <3>4. t[i] \notin Kids(n, forest)
      BY <1>9, <3>3
    <3>5. k \notin gone
      BY <1>5, <3>2, <3>4
    <3>6. PICK q \in 1 .. Len(w) : w[q] = c[k]
      BY <1>6, <3>5
    <3>7. q + 1 \in 1 .. Len(d) /\ d[q + 1] = t[i]
      BY <1>7, <1>8, <3>2, <3>6
    <3> QED
      BY <3>7
  <2> QED
    BY <2>1, <2>2
<1>10. \A i \in 2 .. r + 1 : t[i] # HASH
  <2>1. \A i \in 2 .. r + 1 : i = r + 1 \/ i \in 2 .. r
    BY <1>3
  <2> QED
    BY <1>1, <2>1
<1>11. /\ r + 1 \in 0 .. Len(t) /\ ~ (r + 1 < 2) /\ Len(d) >= 1
       /\ r + 1 >= 3 => Len(d) >= 2
  <2>1. r + 1 \in 0 .. Len(t) /\ ~ (r + 1 < 2) /\ (r + 1 >= 3 => r >= 2)
    BY <1>2, <1>3
  <2>2. Len(d) = Len(w) + 1
    BY <1>8
  <2> QED
    BY ONLY <1>1, <1>7, <2>1, <2>2
<1> QED
  BY <1>8, <1>9, <1>10, <1>11 DEF Listed, d

\* The list as long as the tree is read.
ListInv ==
  /\ prog \in {"build", "tree", "huffc", "huffd"} => chain = <<>>
  /\ prog = "read" => Listed(chain, text, read, nodes)

\* Before the first record the list is empty.
LEMMA EmptyListed ==
  ASSUME NEW t, Len(t) \in Nat, NEW r \in {0, 1}, r <= Len(t), NEW forest
  PROVE  Listed(<<>>, t, r, forest)
<1>1. <<>> \in Seq(Nat \ {0}) /\ r \in 0 .. Len(t) /\ r < 2 /\ ~ (r >= 2) /\ ~ (r >= 3)
  OBVIOUS
<1>2. 2 .. r = {}
  OBVIOUS
<1> QED
  BY <1>1, <1>2 DEF Listed

\* What is known of the text while huffd reads it.
LEMMA TextKnown ==
  ASSUME HuffInv, FileInv, prog \in {"huffd", "read"}
  PROVE  /\ phase = "built" /\ root # NULL
         /\ Ordered(text, nodes) /\ Len(text) \in Nat
         /\ Whole(text, nodes, root) \/ \A i \in 2 .. Len(text) : text[i] # HASH
<1>1. phase = "built" /\ root # NULL /\ TextIs
  BY DEF FileInv, Written, TextIs
<1>2. /\ Ordered(text, nodes)
      /\ Whole(text, nodes, root) \/ \A i \in 2 .. Len(text) : text[i] # HASH
  BY <1>1, TextOrdered
<1>3. Len(text) \in Nat
  BY <1>2 DEF Ordered
<1> QED
  BY <1>1, <1>2, <1>3

\* A record puts its node in front, without the children.
LEMMA RecordListed ==
  ASSUME HuffInv, FileInv, ListInv, ReadRecord
  PROVE  ListInv'
<1> DEFINE n == text[read + 1]
           l == nodes[n].left
           r == nodes[n].right
           w == Without(chain, Gone(chain, l, r))
<1>1. /\ prog = "read" /\ AtRecord /\ UNCHANGED <<input, nodes, text, prog>>
      /\ chain' = <<n>> \o Unlinked(l, r) /\ read' = read + 1
  BY DEF ReadRecord, huffVars, bitsVars
<1>2. read \in 1 .. Len(text) - 1 /\ text[read + 1] # HASH
  BY <1>1 DEF AtRecord
<1>3. Ordered(text, nodes) /\ Listed(chain, text, read, nodes)
  BY <1>1, TextKnown DEF ListInv
<1>4. /\ Len(nodes) \in Nat /\ DOMAIN nodes = 1 .. Len(nodes)
      /\ Grown(nodes) /\ OneParent(Roots, nodes)
  BY DEF HuffInv, HuffTypeOK
<1>5. Unlinked(l, r) = w
  BY UnlinkedIs
<1>6. w = Without(chain, Gone(chain, nodes[n].left, nodes[n].right)) /\ n = text[read + 1]
  OBVIOUS
<1> HIDE DEF n, w
<1>7. Listed(<<n>> \o w, text, read + 1, nodes)
  BY <1>2, <1>3, <1>4, <1>6, ListedStep
<1>8. chain' = <<n>> \o w /\ text' = text /\ read' = read + 1 /\ nodes' = nodes /\ prog' = "read"
  BY <1>1, <1>5
<1> QED
  BY <1>7, <1>8 DEF ListInv

\* Every step keeps the list.
LEMMA ListStep == HuffInv /\ FileInv /\ ListInv /\ [Next]_vars => ListInv'
<1> SUFFICES ASSUME HuffInv, FileInv, ListInv, [Next]_vars PROVE ListInv'
  OBVIOUS
<1>1. CASE UNCHANGED vars
  <2>1. UNCHANGED <<prog, chain, text, read, nodes>>
    BY <1>1 DEF vars, huffVars, bitsVars, hzipVars
  <2> QED
    BY <2>1 DEF ListInv
<1>2. CASE Build
  <2>1. prog = "build" /\ prog' = prog /\ chain' = chain
    BY <1>2 DEF Build, hzipVars
  <2> QED
    BY <2>1 DEF ListInv
<1>3. CASE encoder_new \/ EncodeTree \/ EncodeChar \/ EncodeBit \/ encoder_free
  <2>1. prog \in {"build", "tree", "huffc"} /\ prog' # "read" /\ chain' = chain
    BY <1>3 DEF encoder_new, EncodeTree, EncodeChar, EncodeBit, encoder_free
  <2> QED
    BY <2>1 DEF ListInv
<1>4. CASE decoder_new
  <2>1. prog = "huffd" /\ prog' \in {"read", "reported"} /\ read' = 0 /\ chain' = chain
        /\ text' = text /\ nodes' = nodes
    BY <1>4 DEF decoder_new, bits_io_open, bitsVars, huffVars
  <2>2. chain = <<>> /\ Len(text) \in Nat
    BY <2>1, TextKnown DEF ListInv
  <2>3. Listed(<<>>, text, 0, nodes)
    BY <2>2, EmptyListed
  <2> QED
    BY <2>1, <2>2, <2>3 DEF ListInv
<1>5. CASE ReadStart
  <2>1. prog = "read" /\ read = 0 /\ text # <<>> /\ read' = 1
        /\ UNCHANGED <<prog, chain, text, nodes>>
    BY <1>5 DEF ReadStart, bitsVars, huffVars
  <2>2. chain = <<>> /\ Len(text) \in Nat /\ Len(text) >= 1
    <3>1. Listed(chain, text, read, nodes) /\ Ordered(text, nodes)
      BY <2>1, TextKnown DEF ListInv
    <3>2. chain = <<>> /\ text \in Seq(Nat)
      BY <2>1, <3>1 DEF Listed, Ordered
    <3> QED
      BY <2>1, <3>2
  <2>3. Listed(<<>>, text, 1, nodes)
    BY <2>2, EmptyListed
  <2> QED
    BY <2>1, <2>2, <2>3 DEF ListInv
<1>6. CASE TreeIsRead \/ TreeIsCut \/ decode_one \/ decoder_free
  <2>1. prog' \in {"crashed", "endless", "decode", "reported", "free", "done"}
    BY <1>6 DEF TreeIsRead, TreeIsCut, decode_one, decoder_free
  <2> QED
    BY <2>1 DEF ListInv
<1> QED
  BY <1>1, <1>2, <1>3, <1>4, <1>5, <1>6, RecordListed DEF Next

\* A list of one node at the end of a whole text is that of a tree of one leaf,
\* and a text that was cut is taken for whole.
LEMMA OneListed ==
  ASSUME HuffInv, CharsInv, FileInv, ListInv, prog = "read", AtHash, Len(chain) = 1
  PROVE  CharEOF \in ToSet(input) \/ Cardinality(ToSet(input)) = 1 \/ Misread
<1>1. /\ phase = "built" /\ root # NULL /\ Ordered(text, nodes) /\ Len(text) \in Nat
      /\ Whole(text, nodes, root) \/ \A i \in 2 .. Len(text) : text[i] # HASH
  BY TextKnown
<1>2. /\ read \in 0 .. Len(text) /\ \A i \in 2 .. read : text[i] # HASH
      /\ read < 2 => chain = <<>>
      /\ read >= 3 => Len(chain) >= 2
  BY DEF ListInv, Listed
<1>3. read = 2
  <2>1. chain # <<>>
    BY DEF AtHash
  <2>2. ~ (read < 2) /\ ~ (read >= 3)
    BY <1>2, <2>1
  <2> QED
    BY <1>1, <1>2, <2>2
<1>4. CASE read < Len(text)
  <2>1. text[3] = HASH /\ Len(text) >= 3
    <3>1. read \in 1 .. Len(text) - 1 /\ read + 1 = 3 /\ Len(text) >= 3
      BY <1>1, <1>3, <1>4
    <3>2. ~ (read \in 1 .. Len(text) - 1 /\ text[read + 1] # HASH)
      BY DEF AtHash, AtRecord
    <3> QED
      BY <3>1, <3>2
  <2>2. Whole(text, nodes, root)
    BY <1>1, <2>1
  <2>3. Len(text) = 3
    <3>1. \A i \in 2 .. Len(text) - 1 : text[i] # HASH
      BY <2>2 DEF Whole
    <3>2. 3 \notin 2 .. Len(text) - 1
      BY ONLY <2>1, <3>1
    <3> DEFINE m == Len(text)
    <3>3. m \in Nat /\ m >= 3 /\ 3 \notin 2 .. m - 1
      BY <1>1, <2>1, <3>2
    <3> HIDE DEF m
    <3>4. m = 3
      BY ONLY <3>3
    <3> QED
      BY <3>4 DEF m
  <2>4. text[2] = root /\ text[2] # HASH
    BY <2>2, <2>3 DEF Whole
  <2>5. nodes[root].left = NULL
    BY <1>1, <2>3, <2>4 DEF Ordered
  <2>6. nodes[root].type = "LEAF"
    <3>1. root \in 1 .. Len(nodes) /\ Grown(nodes) /\ DOMAIN nodes = 1 .. Len(nodes)
      BY <1>1, CodesAre DEF HuffInv, HuffTypeOK
    <3> QED
      BY <2>5, <3>1 DEF Grown
  <2> QED
    BY <1>1, <2>6, OneLeafOneChar
<1>5. CASE ~ (read < Len(text))
  <2>1. Len(text) = 2 /\ disk # <<>> /\ disk[1] = HashByte
    <3> DEFINE m == Len(text)
    <3>1. m \in Nat /\ 2 \in 0 .. m /\ ~ (2 < m)
      BY <1>1, <1>2, <1>3, <1>5
    <3> HIDE DEF m
    <3>2. m = 2
      BY ONLY <3>1
    <3>3. Len(text) = 2
      BY <3>2 DEF m
    <3>4. disk # <<>> /\ disk[1] = HashByte
      BY <1>5 DEF AtHash
    <3> QED
      BY <3>3, <3>4
  <2> QED
    BY <2>1 DEF Misread
<1> QED
  BY <1>4, <1>5

\* No step crashes on any other file.
LEMMA CrashStep ==
  HuffInv /\ CharsInv /\ FileInv /\ ListInv /\ CrashesOnlyOn /\ [Next]_vars => CrashesOnlyOn'
<1> SUFFICES ASSUME HuffInv, CharsInv, FileInv, ListInv, CrashesOnlyOn, [Next]_vars, prog' = "crashed"
             PROVE  (CharEOF \in ToSet(input) \/ Cardinality(ToSet(input)) = 1 \/ Misread)'
  BY DEF CrashesOnlyOn
<1>1. CASE UNCHANGED vars
  <2>1. UNCHANGED <<prog, input, text, disk>>
    BY <1>1 DEF vars, huffVars, bitsVars, hzipVars
  <2> QED
    BY <2>1 DEF CrashesOnlyOn, Misread
<1>2. CASE EncodeChar
  <2>1. prog = "huffc" /\ read < Len(input) /\ input[read + 1] \notin Coded /\ input' = input
    BY <1>2 DEF EncodeChar, huffVars
  <2>2. phase = "built" /\ root # NULL /\ Writing
    BY <2>1 DEF FileInv
  <2>3. read + 1 \in 1 .. Len(input)
    <3>1. read \in 0 .. Len(input) /\ Len(input) \in Nat
      BY <2>2 DEF Writing, HuffInv, HuffTypeOK
    <3> QED
      BY <2>1, <3>1
  <2>4. CharEOF \in ToSet(input)
    BY <2>1, <2>2, <2>3, CountedHaveCodes
  <2> QED
    BY <2>1, <2>4
<1>3. CASE TreeIsRead
  <2>1. prog = "read" /\ AtHash /\ UNCHANGED <<input, text, disk>>
        /\ prog' = CASE Len(chain) = 1 -> "crashed"
                     [] Len(chain) > 1 /\ tree[Head(chain)].type = "LEAF" -> "endless"
                     [] OTHER -> "decode"
    BY <1>3 DEF TreeIsRead, huffVars
  <2>2. Len(chain) \in Nat
    <3>1. chain \in Seq(Nat \ {0})
      BY <2>1 DEF ListInv, Listed
    <3> QED
      BY <3>1
  <2>3. Len(chain) = 1
    BY <2>1, <2>2
  <2>4. CharEOF \in ToSet(input) \/ Cardinality(ToSet(input)) = 1 \/ Misread
    BY <2>1, <2>3, OneListed
  <2> QED
    BY <2>1, <2>4 DEF Misread
<1>4. CASE Build \/ encoder_new \/ EncodeTree \/ EncodeBit \/ encoder_free
  BY <1>4 DEF Build, hzipVars, encoder_new, EncodeTree, EncodeBit, encoder_free
<1>5. CASE decoder_new \/ ReadStart \/ ReadRecord \/ TreeIsCut \/ decode_one \/ decoder_free
  BY <1>5 DEF decoder_new, ReadStart, ReadRecord, TreeIsCut, decode_one, decoder_free
<1> QED
  BY <1>1, <1>2, <1>3, <1>4, <1>5 DEF Next

\* The invariant of the list.
LEMMA HzipListInv == Spec => [](HuffInv /\ CharsInv /\ FileInv /\ ListInv /\ CrashesOnlyOn)
<1>1. Init => HuffInv /\ CharsInv /\ FileInv /\ ListInv /\ CrashesOnlyOn
  BY HuffInitInv, CharsInit, FileInit DEF Init, ListInv, CrashesOnlyOn
<1>2. HuffInv /\ [Next]_vars => HuffInv'
  BY HuffStepInv, HzipBuildsStep
<1>3. HuffInv /\ CharsInv /\ [Next]_vars => CharsInv'
  BY CharsStep, HzipBuildsStep DEF HuffInv
<1> QED
  BY <1>1, <1>2, <1>3, FileStep, ListStep, CrashStep, PTL DEF Spec

\* For every file and every order of ties: huffc crashes only on a file with
\* byte 255 in it, and huffd only on a file of one character, or when the tree was
\* cut and the byte behind it looks like its end (encoder.c 97-99, decoder.c 84-92).
THEOREM CrashesOnlyOnThese == Spec => []CrashesOnlyOn
BY HzipListInv, PTL

-------------------------------------------------------------------------------
(* The byte that is read.                                                  *)

\* The m bits left in byte b are those of the number v: behind them a 1.
Left(b, v, m) ==
  /\ v \in Nat /\ v < Pow2[m]
  /\ b = v * Pow2[ByteBits - m] + Pow2[ByteBits - m - 1]

\* The last m bits of a number.
ValueBits(v, m) == [j \in 1 .. m |-> (v \div Pow2[m - j]) % 2]

\* Bit r is the first of the m bits of v, the others are those of w.
BitFirst(v, m, r, w) == ValueBits(v, m) = <<r>> \o ValueBits(w, m - 1)

\* An even number of turns does not change a bit.
LEMMA EvenTurns ==
  ASSUME NEW v \in Nat, NEW d \in Nat, d > 0, NEW K \in Int
  PROVE  ((v + (2 * d) * K) \div d) % 2 = (v \div d) % 2
<1>1. PICK r \in 0 .. d - 1 : v = (v \div d) * d + r
  BY Divided
<1> DEFINE q == v \div d
           x == v + (2 * d) * K
<1>2. q \in Nat
  BY Divided
<1>3. x = (q + 2 * K) * d + r
  <2>1. v = q * d + r
    BY <1>1
  <2> HIDE DEF q
  <2>2. (q + 2 * K) * d = q * d + (2 * d) * K
    BY <1>2
  <2>3. q * d \in Int /\ (2 * d) * K \in Int
    BY <1>2
  <2> QED
    BY <2>1, <2>2, <2>3
<1> HIDE DEF x, q
<1>4. q + 2 * K \in Int /\ r \in Nat /\ r < d
  BY <1>2
<1>5. x \div d = q + 2 * K
  BY <1>3, <1>4, Quotient
<1>6. (q + 2 * K) % 2 = q % 2
  BY <1>2
<1> QED
  BY <1>5, <1>6 DEF x, q

\* The bits of a number.
LEMMA ValueBitsTyped ==
  ASSUME NEW v \in Nat, NEW m \in 0 .. ByteBits
  PROVE  /\ ValueBits(v, m) \in Seq({0, 1}) /\ Len(ValueBits(v, m)) = m
         /\ \A j \in 1 .. m : ValueBits(v, m)[j] = (v \div Pow2[m - j]) % 2
         /\ m = 0 => ValueBits(v, m) = <<>>
<1>1. m \in Nat
  BY ByteAssumption
<1>2. \A j \in 1 .. m : (v \div Pow2[m - j]) % 2 \in {0, 1}
  <2> SUFFICES ASSUME NEW j \in 1 .. m PROVE (v \div Pow2[m - j]) % 2 \in {0, 1}
    OBVIOUS
  <2>1. m - j \in 0 .. ByteBits
    BY ByteAssumption
  <2>2. Pow2[m - j] \in Nat /\ Pow2[m - j] > 0
    BY <2>1, PowPositive
  <2> DEFINE q == v \div Pow2[m - j]
  <2>3. q \in Nat
    BY <2>2, Divided
  <2> HIDE DEF q
  <2>4. q % 2 \in {0, 1}
    BY <2>3
  <2> QED
    BY <2>4 DEF q
<1> DEFINE s == ValueBits(v, m)
<1>3. s = [j \in 1 .. m |-> (v \div Pow2[m - j]) % 2]
  BY DEF ValueBits
<1> HIDE DEF s
<1>4. s \in Seq({0, 1}) /\ Len(s) = m
  BY <1>1, <1>2, <1>3
<1>5. m = 0 => s = <<>>
  BY <1>4
<1>6. \A j \in 1 .. m : s[j] = (v \div Pow2[m - j]) % 2
  BY <1>3
<1> QED
  BY <1>4, <1>5, <1>6 DEF s

\* The first bit of a number and the others.
LEMMA FirstBit ==
  ASSUME NEW m \in 1 .. ByteBits, NEW v \in Nat, v < Pow2[m]
  PROVE  \E r \in {0, 1} : \E w \in Nat :
           v = r * Pow2[m - 1] + w /\ w < Pow2[m - 1] /\ BitFirst(v, m, r, w)
<1> DEFINE P == Pow2[m - 1]
           r == IF v >= P THEN 1 ELSE 0
           w == v - r * P
<1>1. /\ ByteBits \in Nat /\ m - 1 \in 0 .. ByteBits - 1 /\ m - 1 \in 0 .. ByteBits
      /\ m \in 0 .. ByteBits /\ (m - 1) + 1 = m /\ m \in Nat
  BY ByteAssumption
<1>2. P \in Nat /\ P > 0 /\ Pow2[m] = 2 * P
  <2>1. Pow2[(m - 1) + 1] = 2 * Pow2[m - 1]
    BY <1>1, PowIs
  <2> QED
    BY <1>1, <2>1, PowPositive
<1>3. r \in {0, 1} /\ w \in Nat /\ w < P /\ v = r * P + w
  <2> HIDE DEF P
  <2> QED
    BY <1>2
<1> DEFINE s == ValueBits(v, m)
           t == ValueBits(w, m - 1)
           u == <<r>> \o t
<1>4. s \in Seq({0, 1}) /\ Len(s) = m /\ \A j \in 1 .. m : s[j] = (v \div Pow2[m - j]) % 2
  BY <1>1, ValueBitsTyped
<1>5. t \in Seq({0, 1}) /\ Len(t) = m - 1
      /\ \A j \in 1 .. m - 1 : t[j] = (w \div Pow2[(m - 1) - j]) % 2
  <2> HIDE DEF w
  <2> QED
    BY <1>1, <1>3, ValueBitsTyped
<1> HIDE DEF s, t, r, w
<1>6. /\ u \in Seq({0, 1}) /\ Len(u) = m /\ u[1] = r
      /\ \A j \in 2 .. m : u[j] = t[j - 1]
  <2> DEFINE x == <<r>>
  <2>1. x \in Seq({0, 1}) /\ Len(x) = 1 /\ x[1] = r
    BY <1>3
  <2> HIDE DEF x
  <2>2. Joined(x, t, {0, 1})
    BY ONLY <1>5, <2>1, ConcatIs
  <2>3. x \o t \in Seq({0, 1}) /\ Len(x \o t) = 1 + (m - 1)
        /\ \A i \in 1 .. 1 + (m - 1) : (x \o t)[i] = IF i <= 1 THEN x[i] ELSE t[i - 1]
    BY ONLY <1>5, <2>1, <2>2 DEF Joined
  <2>4. 1 + (m - 1) = m /\ 1 \in 1 .. m /\ \A j \in 2 .. m : j \in 1 .. m /\ ~ (j <= 1)
    BY ONLY <1>1, m \in 1 .. ByteBits
  <2> QED
    BY ONLY <2>1, <2>3, <2>4 DEF x
<1> HIDE DEF u
<1>7. (v \div Pow2[m - 1]) % 2 = r
  <2>1. v \div P = r
    <3> HIDE DEF P
    <3>1. r \in Int /\ w \in Nat /\ w < P /\ P \in Nat
      BY <1>2, <1>3
    <3> QED
      BY <1>3, <3>1, Quotient
  <2>2. r % 2 = r
    BY <1>3
  <2> QED
    BY <2>1, <2>2
<1>8. ASSUME NEW j \in 2 .. m
      PROVE  (v \div Pow2[m - j]) % 2 = (w \div Pow2[(m - 1) - (j - 1)]) % 2
  <2> DEFINE d == Pow2[m - j]
             e == Pow2[j - 2]
             K == r * e
  <2>1. /\ m - j \in 0 .. ByteBits - 1 /\ m - j \in 0 .. ByteBits
        /\ (m - j) + 1 \in 0 .. ByteBits /\ j - 2 \in 0 .. ByteBits
        /\ ((m - j) + 1) + (j - 2) = m - 1 /\ ((m - j) + 1) + (j - 2) <= ByteBits
        /\ (m - 1) - (j - 1) = m - j
    BY <1>1
  <2>2. d \in Nat /\ d > 0 /\ e \in Nat /\ Pow2[(m - j) + 1] = 2 * d
    BY <2>1, PowPositive, PowIs
  <2>3. P = (2 * d) * e
    <3>1. Pow2[((m - j) + 1) + (j - 2)] = Pow2[(m - j) + 1] * Pow2[j - 2]
      BY <2>1, PowPlus
    <3> QED
      BY <2>1, <2>2, <3>1
  <2> HIDE DEF d, e, P
  <2>4. K \in Int /\ r * P = (2 * d) * K
    BY <1>3, <2>2, <2>3
  <2>5. v = w + (2 * d) * K
    <3>1. (2 * d) * K \in Int
      BY <2>2, <2>4
    <3> QED
      BY <1>3, <2>4, <3>1
  <2> HIDE DEF K
  <2>6. ((w + (2 * d) * K) \div d) % 2 = (w \div d) % 2
    BY <1>3, <2>2, <2>4, EvenTurns
  <2> QED
    BY <2>1, <2>5, <2>6 DEF d
<1>9. s = u
  <2>1. ASSUME NEW j \in 1 .. m PROVE s[j] = u[j]
    <3>1. CASE j = 1
      BY <1>4, <1>6, <1>7, <3>1
    <3>2. CASE j # 1
      <4>1. j \in 2 .. m /\ j - 1 \in 1 .. m - 1
        BY <1>1, <3>2
      <4>2. u[j] = t[j - 1] /\ t[j - 1] = (w \div Pow2[(m - 1) - (j - 1)]) % 2
        BY ONLY <1>5, <1>6, <4>1
      <4> QED
        BY <1>4, <1>8, <4>1, <4>2
    <3> QED
      BY <3>1, <3>2
  <2> QED
    BY <1>4, <1>6, <2>1
<1>10. BitFirst(v, m, r, w)
  BY <1>9 DEF BitFirst, s, u, t
<1> QED
  BY <1>3, <1>10

\* The place of the top bit, and a product with it.
LEMMA PlacesOf ==
  ASSUME NEW m \in 1 .. ByteBits - 1
  PROVE  /\ Pow2[m] = 2 * Pow2[m - 1]
         /\ Pow2[ByteBits - (m - 1)] = 2 * Pow2[ByteBits - m]
         /\ Pow2[ByteBits - m] = 2 * Pow2[ByteBits - m - 1]
         /\ TopBit = Pow2[m - 1] * Pow2[ByteBits - m]
         /\ Modulus = 2 * TopBit
         /\ Pow2[m - 1] \in Nat /\ Pow2[m - 1] > 0
         /\ Pow2[ByteBits - m] \in Nat /\ Pow2[ByteBits - m] > 0
         /\ Pow2[ByteBits - m - 1] \in Nat /\ Pow2[ByteBits - m - 1] > 0
         /\ TopBit \in Nat /\ TopBit > 0
<1>1. /\ ByteBits \in Nat /\ m - 1 \in 0 .. ByteBits - 1 /\ (m - 1) + 1 = m
      /\ ByteBits - m \in 0 .. ByteBits - 1 /\ (ByteBits - m) + 1 = ByteBits - (m - 1)
      /\ ByteBits - m - 1 \in 0 .. ByteBits - 1 /\ (ByteBits - m - 1) + 1 = ByteBits - m
      /\ m - 1 \in 0 .. ByteBits /\ ByteBits - m \in 0 .. ByteBits
      /\ ByteBits - m - 1 \in 0 .. ByteBits
      /\ (m - 1) + (ByteBits - m) = ByteBits - 1 /\ (m - 1) + (ByteBits - m) <= ByteBits
      /\ ByteBits - 1 \in 0 .. ByteBits - 1 /\ (ByteBits - 1) + 1 = ByteBits
      /\ ByteBits - 1 \in 0 .. ByteBits
  BY ByteAssumption
<1>2. \A n \in 0 .. ByteBits - 1 : Pow2[n + 1] = 2 * Pow2[n]
  BY PowIs
<1>3. /\ Pow2[(m - 1) + 1] = 2 * Pow2[m - 1]
      /\ Pow2[(ByteBits - m) + 1] = 2 * Pow2[ByteBits - m]
      /\ Pow2[(ByteBits - m - 1) + 1] = 2 * Pow2[ByteBits - m - 1]
      /\ Pow2[(ByteBits - 1) + 1] = 2 * Pow2[ByteBits - 1]
  BY ONLY <1>1, <1>2
<1>4. Pow2[(m - 1) + (ByteBits - m)] = Pow2[m - 1] * Pow2[ByteBits - m]
  BY <1>1, PowPlus
<1>5. \A n \in 0 .. ByteBits : Pow2[n] \in Nat /\ Pow2[n] > 0
  BY PowPositive
<1> QED
  BY ONLY <1>1, <1>3, <1>4, <1>5 DEF TopBit, Modulus

\* A product grows with its first factor.
LEMMA TimesGrows ==
  ASSUME NEW a \in Nat, NEW b \in Nat, NEW c \in Nat, a <= b
  PROVE  a * c <= b * c /\ a * c \in Nat /\ b * c \in Nat /\ (a + 1) * c = a * c + c
OBVIOUS

\* The first bit left goes, the others move up.
LEMMA BitTaken ==
  ASSUME NEW m \in 1 .. ByteBits - 1, NEW v, NEW b, Left(b, v, m)
  PROVE  \E r \in {0, 1} : \E w \in Nat :
           /\ Left(Shift(b, 0), w, m - 1) /\ b \div TopBit = r
           /\ BitFirst(v, m, r, w)
<1>1. m \in 1 .. ByteBits /\ v \in Nat /\ v < Pow2[m]
  BY ByteAssumption DEF Left
<1>2. PICK r \in {0, 1} : \E w \in Nat :
        v = r * Pow2[m - 1] + w /\ w < Pow2[m - 1] /\ BitFirst(v, m, r, w)
  BY <1>1, FirstBit
<1>3. PICK w \in Nat : v = r * Pow2[m - 1] + w /\ w < Pow2[m - 1] /\ BitFirst(v, m, r, w)
  BY <1>2
<1> DEFINE P == Pow2[m - 1]
           S == Pow2[ByteBits - m]
           H == Pow2[ByteBits - m - 1]
           x == w * S + H
<1>4. /\ Pow2[ByteBits - (m - 1)] = 2 * S /\ S = 2 * H /\ TopBit = P * S
      /\ Modulus = 2 * TopBit /\ TopBit \in Nat /\ TopBit > 0
      /\ P \in Nat /\ P > 0 /\ S \in Nat /\ S > 0 /\ H \in Nat /\ H > 0
  BY PlacesOf
<1>5. b = v * S + H
  BY DEF Left
<1>6. v = r * P + w /\ w < P
  BY <1>3
<1> HIDE DEF P, S, H
<1>7. w * S \in Nat /\ w * S + S <= TopBit
  <2>1. w + 1 \in Nat /\ w + 1 <= P
    BY <1>4, <1>6
  <2>2. (w + 1) * S <= P * S
    BY <1>4, <2>1, TimesGrows
  <2>3. w * S \in Nat /\ (w + 1) * S = w * S + S
    BY <1>4, TimesGrows
  <2> QED
    BY <1>4, <2>2, <2>3
<1>8. x \in Nat /\ x < TopBit
  BY <1>4, <1>7
<1>9. b = r * TopBit + x
  <2>1. v * S = r * TopBit + w * S
    <3>1. CASE r = 0
      BY <1>4, <1>6, <1>7, <3>1
    <3>2. CASE r = 1
      <4>1. v = P + w /\ v * S = P * S + w * S
        BY <1>4, <1>6, <3>2
      <4> QED
        BY <1>4, <1>7, <3>2, <4>1
    <3> QED
      BY <3>1, <3>2
  <2>2. r * TopBit \in Nat
    BY <1>4
  <2> QED
    BY <1>4, <1>5, <1>7, <2>1, <2>2
<1>10. b \div TopBit = r
  <2> HIDE DEF x
  <2>1. r \in Int
    OBVIOUS
  <2> QED
    BY <1>4, <1>8, <1>9, <2>1, Quotient
<1>11. Shift(b, 0) = 2 * x
  <2>1. b \in Nat /\ 2 * b + 0 = r * Modulus + 2 * x /\ 2 * x \in Nat /\ 2 * x < Modulus
    <3> HIDE DEF x
    <3>1. CASE r = 0
      BY <1>4, <1>8, <1>9, <3>1
    <3>2. CASE r = 1
      BY <1>4, <1>8, <1>9, <3>2
    <3> QED
      BY <3>1, <3>2
  <2> DEFINE y == 2 * x
             z == 2 * b + 0
  <2>2. z = r * Modulus + y /\ y \in Nat /\ y < Modulus /\ Modulus \in Nat
    BY <1>4, <2>1
  <2> HIDE DEF x, y, z
  <2>3. z % Modulus = y
    <3>1. CASE r = 0
      BY <2>2, <3>1
    <3>2. CASE r = 1
      <4>1. z \in Nat /\ z >= Modulus /\ z < 2 * Modulus /\ z - Modulus = y
        BY <2>2, <3>2
      <4> QED
        BY <2>2, <4>1, OneOver
    <3> QED
      BY <3>1, <3>2
  <2>4. Shift(b, 0) = z % Modulus
    BY Zenon DEF Shift, z
  <2> QED
    BY <2>3, <2>4 DEF y
<1>12. Left(Shift(b, 0), w, m - 1)
  <2>1. ByteBits - (m - 1) - 1 = ByteBits - m
    BY ByteAssumption
  <2>2. 2 * x = w * (2 * S) + S
    BY <1>4, <1>7
  <2>3. w < Pow2[m - 1]
    BY <1>3
  <2> QED
    BY <1>4, <1>11, <2>1, <2>2, <2>3 DEF Left, S
<1> QED
  BY <1>3, <1>10, <1>12

\* A byte without a bit left is the marker, one with bits is not; a byte of
\* which a bit was taken is not EOF.
LEMMA LeftIs ==
  ASSUME NEW m \in 0 .. ByteBits - 2, NEW v, NEW b, Left(b, v, m)
  PROVE  b = ALL_BITS_READ <=> m = 0
<1>1. ByteBits \in Nat /\ v \in Nat /\ v < Pow2[m]
  BY ByteAssumption DEF Left
<1>2. CASE m = 0
  <2>1. v = 0
    BY <1>1, <1>2, PowIs
  <2>2. b = v * Pow2[ByteBits - 0] + Pow2[ByteBits - 0 - 1]
    BY <1>2 DEF Left
  <2>3. ByteBits - 0 = ByteBits /\ ByteBits \in 0 .. ByteBits /\ ByteBits - 0 - 1 = ByteBits - 1
        /\ ByteBits - 1 \in 0 .. ByteBits
    BY ByteAssumption
  <2>4. Pow2[ByteBits] \in Nat /\ Pow2[ByteBits - 1] \in Nat
    BY <2>3, PowPositive
  <2>5. b = Pow2[ByteBits - 1]
    BY <2>1, <2>2, <2>3, <2>4
  <2> QED
    BY <1>2, <2>5 DEF ALL_BITS_READ, TopBit
<1>3. CASE m # 0
  <2> DEFINE P == Pow2[m - 1]
             S == Pow2[ByteBits - m]
             H == Pow2[ByteBits - m - 1]
  <2>1. m \in 1 .. ByteBits - 1
    BY <1>1, <1>3
  <2>2. /\ S = 2 * H /\ TopBit = P * S /\ TopBit \in Nat
        /\ P \in Nat /\ P > 0 /\ S \in Nat /\ S > 0 /\ H \in Nat /\ H > 0
    BY <2>1, PlacesOf
  <2>3. b = v * S + H
    BY DEF Left
  <2> HIDE DEF P, S, H
  <2>4. CASE v >= P
    <3>1. P * S <= v * S /\ v * S \in Nat
      BY <1>1, <2>2, <2>4, TimesGrows
    <3> QED
      BY <1>3, <2>2, <2>3, <3>1 DEF ALL_BITS_READ
  <2>5. CASE v < P
    <3>1. v + 1 \in Nat /\ v + 1 <= P
      BY <1>1, <2>2, <2>5
    <3>2. (v + 1) * S <= P * S
      BY <2>2, <3>1, TimesGrows
    <3>3. v * S \in Nat /\ (v + 1) * S = v * S + S
      BY <1>1, <2>2, TimesGrows
    <3> QED
      BY <1>3, <2>2, <2>3, <3>2, <3>3 DEF ALL_BITS_READ
  <2> QED
    BY <1>1, <2>2, <2>4, <2>5
<1> QED
  BY <1>2, <1>3

\* The byte that is read is never EOF_VALUE.
LEMMA LeftEven ==
  ASSUME NEW m \in 0 .. ByteBits - 2, NEW v, NEW b, Left(b, v, m)
  PROVE  b # EOF_VALUE
<1> DEFINE S == Pow2[ByteBits - m]
           H == Pow2[ByteBits - m - 1]
           Q == Pow2[ByteBits - m - 2]
<1>1. /\ ByteBits \in Nat /\ v \in Nat
      /\ ByteBits - m - 1 \in 0 .. ByteBits - 1 /\ ByteBits - m - 2 \in 0 .. ByteBits - 1
      /\ (ByteBits - m - 1) + 1 = ByteBits - m /\ (ByteBits - m - 2) + 1 = ByteBits - m - 1
      /\ ByteBits - m - 2 \in 0 .. ByteBits
      /\ ByteBits - 1 \in 0 .. ByteBits - 1 /\ (ByteBits - 1) + 1 = ByteBits
      /\ ByteBits - 1 \in 0 .. ByteBits
  BY ByteAssumption DEF Left
<1>2. \A n \in 0 .. ByteBits - 1 : Pow2[n + 1] = 2 * Pow2[n]
  BY PowIs
<1>3. S = 2 * H /\ H = 2 * Q /\ Modulus = 2 * Pow2[ByteBits - 1]
  <2>1. /\ Pow2[(ByteBits - m - 1) + 1] = 2 * Pow2[ByteBits - m - 1]
        /\ Pow2[(ByteBits - m - 2) + 1] = 2 * Pow2[ByteBits - m - 2]
        /\ Pow2[(ByteBits - 1) + 1] = 2 * Pow2[ByteBits - 1]
    BY ONLY <1>1, <1>2
  <2> QED
    BY ONLY <1>1, <2>1 DEF Modulus
<1>4. Q \in Nat /\ Pow2[ByteBits - 1] \in Nat
  BY <1>1, PowPositive
<1>5. b = v * S + H
  BY DEF Left
<1> HIDE DEF S, H, Q
<1>6. PICK y \in Nat : b = 2 * y
  <2>1. v * H \in Nat /\ v * S = 2 * (v * H)
    BY <1>1, <1>3, <1>4
  <2>2. v * H + Q \in Nat /\ b = 2 * (v * H + Q)
    BY <1>3, <1>4, <1>5, <2>1
  <2> QED
    BY <2>2
<1>7. PICK z \in Nat : EOF_VALUE = 2 * z - 1
  BY <1>3, <1>4 DEF EOF_VALUE
<1> QED
  BY <1>6, <1>7

\* A remainder and its quotient.
LEMMA Remainder ==
  ASSUME NEW q \in Nat, NEW d \in Nat, NEW r \in Nat, r < d
  PROVE  (q * d + r) % d = r
<1>1. d > 0 /\ q * d + r \in Nat
  OBVIOUS
<1> DEFINE a == q * d + r
<1>2. a \div d = q
  BY Quotient
<1> HIDE DEF a
<1>3. a = (a \div d) * d + (a % d) /\ a % d \in Nat
  BY <1>1 DEF a
<1>4. a = q * d + r /\ q * d \in Nat
  BY DEF a
<1> QED
  BY <1>2, <1>3, <1>4 DEF a

\* A product with a sum.
Multiplied(a, b, v, d) == (a - 2 * b + v) * d = a * d - (2 * b) * d + v * d

\* A product, by its parts.
LEMMA Distributed ==
  ASSUME NEW a \in Nat, NEW b \in Nat, NEW v \in Nat, NEW d \in Nat
  PROVE  Multiplied(a, b, v, d)
<1>1. ASSUME NEW x \in Int, NEW y \in Int
      PROVE  (x + y) * d = x * d + y * d /\ (x - y) * d = x * d - y * d
  OBVIOUS
<1>2. a - 2 * b \in Int /\ 2 * b \in Int /\ a \in Int /\ v \in Int
  OBVIOUS
<1>3. (a - 2 * b + v) * d = (a - 2 * b) * d + v * d
  BY <1>1, <1>2
<1>4. (a - 2 * b) * d = a * d - (2 * b) * d
  BY <1>1, <1>2
<1> QED
  BY <1>3, <1>4 DEF Multiplied

\* A byte of a file with its marker shifted out.
LEMMA Loaded ==
  ASSUME NEW n \in 1 .. ByteBits - 1, NEW c, HasBits(c, n)
  PROVE  /\ c # EOF_VALUE
         /\ \E v \in Nat : Left(Aligned(c), v, n) /\ ValueBits(v, n) = BitsIn(c)
<1> DEFINE N == Pow2[n]
           S == Pow2[ByteBits - n]
           H == Pow2[ByteBits - n - 1]
           v == c - (Modulus - 2 * N)
           x == v * S + H
<1>1. /\ ByteBits \in Nat /\ n \in 0 .. ByteBits - 1 /\ n \in 0 .. ByteBits
      /\ ByteBits - n \in 0 .. ByteBits /\ n + (ByteBits - n) = ByteBits
      /\ ByteBits - 1 - n = ByteBits - n - 1 /\ (ByteBits - 1 - n) + 1 = ByteBits - n
  BY ByteAssumption
<1>2. /\ S = 2 * H /\ S \in Nat /\ S > 0 /\ H \in Nat /\ H > 0
      /\ N = 2 * Pow2[n - 1] /\ N \in Nat /\ N >= 2
  <2>1. /\ S = 2 * H /\ S \in Nat /\ S > 0 /\ H \in Nat /\ H > 0
        /\ N = 2 * Pow2[n - 1] /\ Pow2[n - 1] \in Nat /\ Pow2[n - 1] > 0
    BY PlacesOf
  <2> HIDE DEF N
  <2> QED
    BY <2>1
<1>3. Modulus = N * S
  <2>1. Pow2[n + (ByteBits - n)] = Pow2[n] * Pow2[ByteBits - n]
    BY <1>1, PowPlus
  <2> QED
    BY <1>1, <2>1 DEF Modulus
<1>4. Pow2[n + 1] = 2 * N
  BY <1>1, PowIs
<1>5. c \in Nat /\ N < Modulus - c /\ Modulus - c <= 2 * N
  BY <1>4 DEF HasBits
<1> DEFINE M == Modulus
<1>6. M \in Nat /\ M = N * S /\ c \in Nat /\ N < M - c /\ M - c <= 2 * N
  <2> HIDE DEF N, S
  <2> QED
    BY <1>2, <1>3, <1>5
<1> HIDE DEF N, S, H, M
<1>7. v \in Nat /\ v < N /\ c = M - 2 * N + v
  <2>1. v = c - (M - 2 * N)
    BY DEF M
  <2> HIDE DEF v
  <2> QED
    BY <1>2, <1>6, <2>1
<1>8. c # EOF_VALUE
  BY <1>2, <1>6 DEF EOF_VALUE, M
<1> HIDE DEF v
<1>9. x \in Nat /\ x < M
  <2>1. v + 1 \in Nat /\ v + 1 <= N
    BY <1>2, <1>7
  <2>2. (v + 1) * S <= N * S
    BY <1>2, <2>1, TimesGrows
  <2>3. v * S \in Nat /\ (v + 1) * S = v * S + S
    BY <1>2, <1>7, TimesGrows
  <2> QED
    BY <1>2, <1>6, <2>2, <2>3
<1>10. c * S + H = (S - 2) * M + x
  <2>1. c * S = M * S - (2 * N) * S + v * S
    <3>1. c = M - 2 * N + v
      BY <1>7
    <3>2. Multiplied(M, N, v, S)
      BY ONLY <1>2, <1>6, <1>7, Distributed
    <3> QED
      BY ONLY <3>1, <3>2 DEF Multiplied
  <2>2. (2 * N) * S = 2 * M
    BY <1>2, <1>6
  <2>3. (S - 2) * M = M * S - 2 * M
    BY <1>2, <1>6, TwoLess
  <2>4. M * S \in Int /\ v * S \in Int
    BY <1>2, <1>6, <1>7
  <2> QED
    BY <1>2, <1>6, <2>1, <2>2, <2>3, <2>4
<1>11. Aligned(c) = x
  <2>1. LeadingOnes(c) = ByteBits - 1 - n
    BY <1>1, LeadingOnesIs
  <2>2. Pow2[LeadingOnes(c) + 1] = S /\ Pow2[LeadingOnes(c)] = H
    BY <1>1, <2>1 DEF S, H
  <2>3. Aligned(c) = (c * S + H) % M
    BY <2>2 DEF Aligned, M
  <2> DEFINE q == S - 2
             y == c * S + H
  <2>4. q \in Nat
    BY <1>2
  <2>5. y = q * M + x
    BY <1>10
  <2> HIDE DEF q, x, y
  <2>6. y % M = x
    BY <1>6, <1>9, <2>4, <2>5, Remainder
  <2> QED
    BY <2>3, <2>6 DEF y
<1>12. Left(Aligned(c), v, n)
  BY <1>7, <1>11 DEF Left, N, S, H
<1>13. BitsIn(c) = [j \in 1 .. n |-> (c \div Pow2[n - j]) % 2]
  BY <1>1, BitsInIs
<1>14. ASSUME NEW j \in 1 .. n
       PROVE  (c \div Pow2[n - j]) % 2 = (v \div Pow2[n - j]) % 2
  <2> DEFINE d == Pow2[n - j]
             e == Pow2[j - 1]
             K == e * S - 2 * e
  <2>1. /\ n - j \in 0 .. ByteBits - 1 /\ n - j \in 0 .. ByteBits
        /\ (n - j) + 1 \in 0 .. ByteBits /\ j - 1 \in 0 .. ByteBits
        /\ ((n - j) + 1) + (j - 1) = n /\ ((n - j) + 1) + (j - 1) <= ByteBits
    BY <1>1
  <2>2. d \in Nat /\ d > 0 /\ e \in Nat /\ Pow2[(n - j) + 1] = 2 * d
    BY <2>1, PowPositive, PowIs
  <2>3. N = (2 * d) * e
    <3>1. Pow2[((n - j) + 1) + (j - 1)] = Pow2[(n - j) + 1] * Pow2[j - 1]
      BY <2>1, PowPlus
    <3> QED
      BY <2>1, <2>2, <3>1 DEF N
  <2> HIDE DEF d, e
  <2>4. e * S \in Int /\ K \in Int
    BY <1>2, <2>2
  <2>5. (2 * d) * K = M - 2 * N
    <3> DEFINE z == e * S
    <3>1. M = (2 * d) * z
      BY <1>2, <1>6, <2>2, <2>3
    <3>2. (2 * d) * (z - 2 * e) = (2 * d) * z - 2 * ((2 * d) * e)
      <4> HIDE DEF z
      <4>1. z \in Int
        BY <2>4 DEF z
      <4> QED
        BY <2>2, <4>1
    <3> QED
      BY <2>3, <3>1, <3>2
  <2> HIDE DEF K
  <2>6. c = v + (2 * d) * K
    BY <1>2, <1>6, <1>7, <2>5
  <2>7. ((v + (2 * d) * K) \div d) % 2 = (v \div d) % 2
    BY <1>7, <2>2, <2>4, EvenTurns
  <2> QED
    BY <2>6, <2>7 DEF d
<1>15. ValueBits(v, n) = BitsIn(c)
  BY <1>13, <1>14 DEF ValueBits
<1> QED
  BY <1>7, <1>8, <1>12, <1>15

-------------------------------------------------------------------------------
(* The bits that are read.                                                 *)

\* What bits_io_read_bit does with byte b and offset o of file d.
BitRead(b, o, d, r, b2, o2) ==
  IF b = ALL_BITS_READ /\ o < Len(d)
  THEN /\ o2 = o + 1
       /\ IF d[o + 1] = EOF_VALUE THEN r = EOF
          ELSE r = Aligned(d[o + 1]) \div TopBit /\ b2 = Shift(Aligned(d[o + 1]), 0)
  ELSE /\ o2 = o
       /\ IF b \in {ALL_BITS_READ, EOF_VALUE} THEN r = EOF
          ELSE r = b \div TopBit /\ b2 = Shift(b, 0)

\* With the m bits of v behind them, the bits con are all.
Unread(con, v, m, all) == con \o ValueBits(v, m) = all

\* The bits con have been read; together with those left in byte b they are those
\* of the first o bytes of file d.
AtBit(con, b, o, d) ==
  /\ con \in Seq({0, 1}) /\ o \in 0 .. Len(d)
  /\ \E m \in 0 .. ByteBits - 2 : \E v \in Nat :
       Left(b, v, m) /\ Unread(con, v, m, Strung(BitsFun, First(d, o)))

\* The step is that of the model.
LEMMA ReadIs ==
  ASSUME bits_io_read_bit
  PROVE  BitRead(byte, offset, disk, ret', byte', offset')
BY DEF bits_io_read_bit, BitRead, TakeBit

\* A bit taken goes behind those read.
LEMMA OneTaken ==
  ASSUME NEW con \in Seq({0, 1}), NEW m \in 1 .. ByteBits - 1, NEW v, NEW b, Left(b, v, m),
         NEW all, Unread(con, v, m, all)
  PROVE  \E r \in {0, 1} : \E w \in Nat :
           /\ Left(Shift(b, 0), w, m - 1) /\ b \div TopBit = r
           /\ con \o <<r>> \in Seq({0, 1})
           /\ Unread(con \o <<r>>, w, m - 1, all)
<1>1. PICK r \in {0, 1} : \E w \in Nat :
        /\ Left(Shift(b, 0), w, m - 1) /\ b \div TopBit = r
        /\ BitFirst(v, m, r, w)
  BY BitTaken
<1>2. PICK w \in Nat :
        /\ Left(Shift(b, 0), w, m - 1) /\ b \div TopBit = r
        /\ BitFirst(v, m, r, w)
  BY <1>1
<1> DEFINE x == <<r>>
           t == ValueBits(w, m - 1)
           s == ValueBits(v, m)
<1>3. x \in Seq({0, 1})
  OBVIOUS
<1>4. t \in Seq({0, 1})
  <2>1. m - 1 \in 0 .. ByteBits
    BY ByteAssumption
  <2> QED
    BY <2>1, ValueBitsTyped
<1>5. s = x \o t
  BY <1>2 DEF BitFirst
<1>6. con \o s = all
  BY DEF Unread
<1> HIDE DEF x, t, s
<1>7. Associated(con, x, t)
  BY <1>3, <1>4, ConcatAssoc
<1>8. (con \o x) \o t = all /\ con \o x \in Seq({0, 1})
  BY <1>3, <1>5, <1>6, <1>7 DEF Associated
<1>9. Unread(con \o x, w, m - 1, all)
  BY <1>8 DEF Unread, t
<1> QED
  BY <1>2, <1>8, <1>9 DEF x

\* No bit is left out, read twice or made up: the call returns the next bit, or
\* EOF behind the last.
LEMMA NextBit ==
  ASSUME NEW d \in Seq(Marked), NEW con, NEW b, NEW o, AtBit(con, b, o, d),
         NEW r, NEW b2, NEW o2, BitRead(b, o, d, r, b2, o2)
  PROVE  \/ r = EOF /\ con = Strung(BitsFun, d)
         \/ r \in {0, 1} /\ AtBit(con \o <<r>>, b2, o2, d)
<1> DEFINE all == Strung(BitsFun, First(d, o))
<1>1. con \in Seq({0, 1}) /\ o \in 0 .. Len(d)
  BY DEF AtBit
<1>2. PICK m \in 0 .. ByteBits - 2 : \E v \in Nat : Left(b, v, m) /\ Unread(con, v, m, all)
  BY DEF AtBit
<1>3. PICK v \in Nat : Left(b, v, m) /\ Unread(con, v, m, all)
  BY <1>2
<1>4. (b = ALL_BITS_READ <=> m = 0) /\ b # EOF_VALUE
  BY <1>3, LeftIs, LeftEven
<1>5. CASE m = 0
  <2>1. con = all
    <3>1. m \in 0 .. ByteBits
      BY ByteAssumption
    <3>2. ValueBits(v, m) = <<>>
      BY <1>5, <3>1, ValueBitsTyped
    <3>3. con \o <<>> = con
      BY <1>1, ConcatEmpty
    <3> QED
      BY <1>3, <3>2, <3>3 DEF Unread
  <2>2. CASE o < Len(d)
    <3> DEFINE c == d[o + 1]
               a == Aligned(c)
               more == Strung(BitsFun, First(d, o + 1))
    <3>1. o + 1 \in 1 .. Len(d) /\ o + 1 \in 0 .. Len(d) /\ c \in Marked
      BY <1>1, <2>2
    <3>2. PICK n \in 1 .. ByteBits - 1 : HasBits(c, n)
      BY <3>1 DEF Marked
    <3>3. c # EOF_VALUE /\ \E w \in Nat : Left(a, w, n) /\ ValueBits(w, n) = BitsIn(c)
      BY <3>2, Loaded
    <3>4. PICK w \in Nat : Left(a, w, n) /\ ValueBits(w, n) = BitsIn(c)
      BY <3>3
    <3>5. more = all \o BitsIn(c)
      <4> DEFINE f == First(d, o)
      <4>1. First(d, o + 1) = Append(f, c) /\ f \in Seq(Marked)
        BY <1>1, <2>2, FirstIs
      <4>2. Values(BitsFun, Marked, {0, 1}) /\ BitsFun[c] = BitsIn(c)
        BY <3>1, MarkedBits
      <4> HIDE DEF f, c
      <4>3. f \in Seq(Marked) /\ c \in Marked
        BY ONLY <3>1, <4>1
      <4>4. Strung(BitsFun, Append(f, c)) = Strung(BitsFun, f) \o BitsFun[c]
        <5>1. Values(BitsFun, Marked, {0, 1})
          BY <4>2
        <5> QED
          BY ONLY <4>3, <5>1, StrungOneMore
      <4> QED
        BY <4>1, <4>2, <4>4 DEF f
    <3> HIDE DEF more, all, a
    <3>6. Unread(con, w, n, more)
      BY <2>1, <3>4, <3>5 DEF Unread
    <3>7. PICK q \in {0, 1} : \E u \in Nat :
            /\ Left(Shift(a, 0), u, n - 1) /\ a \div TopBit = q
            /\ con \o <<q>> \in Seq({0, 1})
            /\ Unread(con \o <<q>>, u, n - 1, more)
      BY <1>1, <3>4, <3>6, OneTaken
    <3>8. r = q /\ b2 = Shift(a, 0) /\ o2 = o + 1
      BY <1>4, <1>5, <2>2, <3>3, <3>7 DEF BitRead, a
    <3>9. n - 1 \in 0 .. ByteBits - 2
      BY ByteAssumption
    <3>10. AtBit(con \o <<r>>, b2, o2, d)
      BY <3>1, <3>7, <3>8, <3>9 DEF AtBit, more
    <3> QED
      BY <3>8, <3>10
  <2>3. CASE ~ (o < Len(d))
    <3>1. o = Len(d)
      BY <1>1, <2>3
    <3>2. First(d, o) = d
      BY <1>1, <3>1, FirstIs
    <3>3. r = EOF
      BY <1>4, <1>5, <2>3 DEF BitRead
    <3> QED
      BY <2>1, <3>2, <3>3
  <2> QED
    BY <2>2, <2>3
<1>6. CASE m # 0
  <2> HIDE DEF all
  <2>1. m \in 1 .. ByteBits - 1 /\ m - 1 \in 0 .. ByteBits - 2
    BY <1>6, ByteAssumption
  <2>2. PICK q \in {0, 1} : \E w \in Nat :
          /\ Left(Shift(b, 0), w, m - 1) /\ b \div TopBit = q
          /\ con \o <<q>> \in Seq({0, 1})
          /\ Unread(con \o <<q>>, w, m - 1, all)
    BY <1>1, <1>3, <2>1, OneTaken
  <2>3. r = q /\ b2 = Shift(b, 0) /\ o2 = o
    BY <1>4, <1>6, <2>2 DEF BitRead
  <2>4. AtBit(con \o <<r>>, b2, o2, d)
    BY <1>1, <2>1, <2>2, <2>3 DEF AtBit, all
  <2> QED
    BY <2>3, <2>4
<1> QED
  BY <1>5, <1>6

\* The bits read are the first of the file.
LEMMA ReadBegins ==
  ASSUME NEW d \in Seq(Marked), NEW con, NEW b, NEW o, AtBit(con, b, o, d)
  PROVE  Begins(con, Strung(BitsFun, d))
<1> DEFINE all == Strung(BitsFun, First(d, o))
           whole == Strung(BitsFun, d)
<1>1. con \in Seq({0, 1}) /\ o \in 0 .. Len(d)
  BY DEF AtBit
<1>2. PICK m \in 0 .. ByteBits - 2 : \E v \in Nat : Left(b, v, m) /\ Unread(con, v, m, all)
  BY DEF AtBit
<1>3. PICK v \in Nat : Left(b, v, m) /\ Unread(con, v, m, all)
  BY <1>2
<1>4. m \in 0 .. ByteBits
  BY ByteAssumption
<1> DEFINE t == ValueBits(v, m)
<1>5. t \in Seq({0, 1})
  BY <1>4, ValueBitsTyped
<1>6. con \o t = all
  BY <1>3 DEF Unread
<1>7. Begins(all, whole)
  <2>1. Values(BitsFun, Marked, {0, 1})
    BY MarkedBits
  <2>2. Len(d) \in o .. Len(d) /\ First(d, Len(d)) = d
    <3>1. Len(d) \in 0 .. Len(d)
      OBVIOUS
    <3> QED
      BY <1>1, <3>1, FirstIs
  <2>3. \A n \in o .. Len(d) : Begins(Strung(BitsFun, First(d, o)), Strung(BitsFun, First(d, n)))
    BY <1>1, <2>1, StrungBegins
  <2> QED
    BY <2>2, <2>3
<1> HIDE DEF t, all, whole
<1>8. Joined(con, t, {0, 1})
  BY <1>1, <1>5, ConcatIs
<1>9. Len(all) = Len(con) + Len(t) /\ Len(con) \in Nat /\ Len(t) \in Nat
      /\ \A i \in 1 .. Len(con) + Len(t) : all[i] = IF i <= Len(con) THEN con[i] ELSE t[i - Len(con)]
  BY <1>1, <1>5, <1>6, <1>8 DEF Joined
<1>10. Begins(con, all)
  BY <1>9 DEF Begins
<1>11. Begins(con, whole)
  <2>1. \A i \in 1 .. Len(con) : i \in 1 .. Len(all)
    BY <1>9
  <2>2. Len(con) <= Len(all) /\ Len(all) <= Len(whole)
    BY <1>7, <1>10 DEF Begins
  <2>3. Len(whole) \in Int
    <3>1. Values(BitsFun, Marked, {0, 1})
      BY MarkedBits
    <3>2. whole \in Seq({0, 1})
      BY <3>1, StrungTyped DEF whole
    <3> QED
      BY <3>2
  <2>4. Len(con) <= Len(whole)
    BY <1>9, <2>2, <2>3
  <2> QED
    BY <1>7, <1>10, <2>1, <2>4 DEF Begins
<1> QED
  BY <1>11 DEF whole

-------------------------------------------------------------------------------
(* Down the tree.                                                          *)

\* The bits read end on the way to character q + 1 of the text s, at node n; or
\* they are the code of all of s, if there is no such character.
Toward(con, q, n, s, f, forest) ==
  IF q < Len(s)
  THEN \E u \in Seq({0, 1}) : /\ con \o u = Strung(f, First(s, q + 1))
                              /\ <<s[q + 1], u>> \in PathsIn(forest, n)
  ELSE con = Strung(f, s)

\* The child that decode_one goes to.
Down(r, n, forest) == IF r = 1 THEN forest[n].left ELSE forest[n].right

\* The path of a character below an inner node begins with a bit and goes on
\* below that child.
LEMMA PathGoesDown ==
  ASSUME NEW forest \in Seq(Node), Grown(forest), NEW n \in 1 .. Len(forest),
         forest[n].type # "LEAF", NEW c, NEW u, <<c, u>> \in PathsIn(forest, n)
  PROVE  \E r \in {0, 1} : \E y \in Seq({0, 1}) :
           /\ u = <<r>> \o y /\ Down(r, n, forest) \in 1 .. Len(forest)
           /\ <<c, y>> \in PathsIn(forest, Down(r, n, forest))
<1> DEFINE N == Len(forest)
           l == forest[n].left
           g == forest[n].right
<1>1. N \in Nat /\ DOMAIN forest = 1 .. N
  OBVIOUS
<1>2. l \in 1 .. N /\ g \in 1 .. N
  BY <1>1 DEF Grown, NULL
<1>3. PathsIn(forest, n) = From(1, PathsIn(forest, l)) \cup From(0, PathsIn(forest, g))
  BY <1>1, PathsAre
<1>4. Down(1, n, forest) = l /\ Down(0, n, forest) = g
  BY DEF Down
<1> HIDE DEF l, g
<1>5. PICK r \in {0, 1} : <<c, u>> \in From(r, PathsIn(forest, Down(r, n, forest)))
  BY <1>3, <1>4
<1> DEFINE m == Down(r, n, forest)
<1>6. m \in 1 .. N
  BY <1>2, <1>4
<1>7. PICK x \in PathsIn(forest, m) : <<c, u>> = <<x[1], <<r>> \o x[2]>>
  BY <1>5 DEF From
<1>8. x \in Chars \X Seq({0, 1})
  <2> HIDE DEF m
  <2> QED
    BY <1>6, <1>7, PathsTyped
<1>9. x = <<x[1], x[2]>> /\ x[2] \in Seq({0, 1})
  BY <1>8
<1>10. c = x[1] /\ u = <<r>> \o x[2]
  BY <1>7
<1>11. <<c, x[2]>> \in PathsIn(forest, m)
  BY <1>7, <1>9, <1>10
<1> QED
  BY <1>6, <1>9, <1>10, <1>11

\* Where a sequence and one element more begin another, that is the next element
\* of it.
LEMMA NextElement ==
  ASSUME NEW S, NEW s \in Seq(S), NEW x \in S, NEW t \in Seq(S), Begins(s \o <<x>>, t)
  PROVE  Len(s) + 1 <= Len(t) /\ t[Len(s) + 1] = x
<1> DEFINE y == <<x>>
           w == s \o y
           k == Len(s)
<1>1. y \in Seq(S) /\ Len(y) = 1 /\ y[1] = x
  OBVIOUS
<1> HIDE DEF y
<1>2. Joined(s, y, S)
  BY <1>1, ConcatIs
<1>3. k \in Nat
  OBVIOUS
<1>4. Len(w) = k + 1 /\ \A i \in 1 .. k + 1 : w[i] = IF i <= k THEN s[i] ELSE y[i - k]
  BY <1>1, <1>2 DEF Joined
<1>5. w[k + 1] = x
  <2>1. k + 1 \in 1 .. k + 1 /\ ~ (k + 1 <= k) /\ (k + 1) - k = 1
    BY <1>3
  <2> HIDE DEF w, k
  <2> QED
    BY ONLY <1>1, <1>4, <2>1
<1>6. Begins(w, t)
  BY DEF y
<1> HIDE DEF w, k
<1>7. k + 1 \in 1 .. Len(w)
  BY <1>3, <1>4
<1> QED
  BY <1>4, <1>5, <1>6, <1>7 DEF Begins, k

\* The code of the beginning of a text begins that of all of it.
LEMMA CodeBegins ==
  ASSUME NEW D, NEW f, Values(f, D, {0, 1}), NEW s \in Seq(D), NEW q \in 0 .. Len(s)
  PROVE  /\ Begins(Strung(f, First(s, q)), Strung(f, s))
         /\ Strung(f, First(s, q)) \in Seq({0, 1}) /\ Strung(f, s) \in Seq({0, 1})
<1>1. Len(s) \in q .. Len(s) /\ Len(s) \in 0 .. Len(s)
  OBVIOUS
<1>2. First(s, Len(s)) = s /\ First(s, q) \in Seq(D)
  BY <1>1, FirstIs
<1>3. \A m \in q .. Len(s) : Begins(Strung(f, First(s, q)), Strung(f, First(s, m)))
  BY StrungBegins
<1>4. Strung(f, First(s, q)) \in Seq({0, 1}) /\ Strung(f, s) \in Seq({0, 1})
  BY <1>2, StrungTyped
<1> QED
  BY <1>1, <1>2, <1>3, <1>4

\* The node one bit on, on the way or at the next character.
WentDown(con, q, n, s, f, forest) ==
  /\ q < Len(s) /\ n \in 1 .. Len(forest)
  /\ forest[n].type = "LEAF" =>
       forest[n].c = s[q + 1] /\ con = Strung(f, First(s, q + 1))
  /\ forest[n].type # "LEAF" => Toward(con, q, n, s, f, forest)

\* A bit of the code behind those read leads from an inner node to its child; at
\* a leaf there is the next character, and its code is read.
LEMMA OneDown ==
  ASSUME NEW forest \in Seq(Node), Grown(forest), NEW n \in 1 .. Len(forest),
         forest[n].type # "LEAF",
         NEW D, NEW f, Values(f, D, {0, 1}), NEW s \in Seq(D), NEW q \in 0 .. Len(s),
         NEW con \in Seq({0, 1}), Toward(con, q, n, s, f, forest),
         NEW r \in {0, 1}, NEW more, more = con \o <<r>>, Begins(more, Strung(f, s)),
         NEW m, m = Down(r, n, forest)
  PROVE  WentDown(more, q, m, s, f, forest)
<1> DEFINE all == Strung(f, s)
           x == <<r>>
<1>1. Len(s) \in Nat /\ all \in Seq({0, 1}) /\ Len(con) \in Nat
  BY StrungTyped
<1>2. Len(con) + 1 <= Len(all) /\ all[Len(con) + 1] = r
  BY <1>1, NextElement
<1>3. q < Len(s)
  <2> SUFFICES ASSUME ~ (q < Len(s)) PROVE FALSE
    OBVIOUS
  <2>1. con = all
    BY DEF Toward
  <2> QED
    BY <1>1, <1>2, <2>1
<1> DEFINE next == Strung(f, First(s, q + 1))
<1>4. PICK u \in Seq({0, 1}) : con \o u = next /\ <<s[q + 1], u>> \in PathsIn(forest, n)
  BY <1>3 DEF Toward
<1>5. Begins(next, all)
  <2>1. q + 1 \in 0 .. Len(s)
    BY <1>1, <1>3
  <2> QED
    BY <2>1, CodeBegins
<1> DEFINE c == s[q + 1]
<1> HIDE DEF c
<1>6. PICK b \in {0, 1} : \E y \in Seq({0, 1}) :
        /\ u = <<b>> \o y /\ Down(b, n, forest) \in 1 .. Len(forest)
        /\ <<c, y>> \in PathsIn(forest, Down(b, n, forest))
  BY <1>4, PathGoesDown DEF c
<1>7. PICK y \in Seq({0, 1}) :
        /\ u = <<b>> \o y /\ Down(b, n, forest) \in 1 .. Len(forest)
        /\ <<c, y>> \in PathsIn(forest, Down(b, n, forest))
  BY <1>6
<1> HIDE DEF all, next
<1>8. b = r /\ (con \o <<b>>) \o y = next
  <2> DEFINE z == <<b>>
             k == Len(con)
             w == con \o z
  <2>1. z \in Seq({0, 1}) /\ Len(z) = 1 /\ z[1] = b
    OBVIOUS
  <2>2. u = z \o y
    BY <1>7
  <2> HIDE DEF z
  <2>3. Associated(con, z, y)
    BY <2>1, ConcatAssoc
  <2>4. w \o y = next
    BY <1>4, <2>2, <2>3 DEF Associated
  <2>5. Joined(con, z, {0, 1})
    BY <2>1, ConcatIs
  <2>6. /\ w \in Seq({0, 1}) /\ Len(w) = k + 1
        /\ \A i \in 1 .. k + 1 : w[i] = IF i <= k THEN con[i] ELSE z[i - k]
    BY <2>1, <2>5 DEF Joined
  <2> HIDE DEF w
  <2>7. Joined(w, y, {0, 1})
    BY <2>6, ConcatIs
  <2>8. /\ Len(next) = Len(w) + Len(y)
        /\ \A i \in 1 .. Len(w) + Len(y) : next[i] = IF i <= Len(w) THEN w[i] ELSE y[i - Len(w)]
    BY <2>4, <2>7 DEF Joined
  <2>9. k \in Nat /\ Len(y) \in Nat
    OBVIOUS
  <2> HIDE DEF k
  <2>10. k + 1 \in 1 .. Len(next) /\ k + 1 \in 1 .. k + 1 /\ ~ (k + 1 <= k) /\ (k + 1) - k = 1
         /\ k + 1 \in 1 .. Len(w) + Len(y) /\ k + 1 <= Len(w)
    BY ONLY <2>6, <2>8, <2>9
  <2>11. next[k + 1] = b
    BY ONLY <2>1, <2>6, <2>8, <2>10
  <2>12. all[k + 1] = next[k + 1]
    BY ONLY <1>5, <2>10 DEF Begins
  <2>13. b = r
    BY <1>2, <2>11, <2>12 DEF k
  <2> QED
    BY <2>4, <2>13 DEF w, z
<1>9. m \in 1 .. Len(forest) /\ <<c, y>> \in PathsIn(forest, m) /\ (con \o x) \o y = next
  BY <1>7, <1>8
<1>10. con \o x \in Seq({0, 1})
  OBVIOUS
<1>11. ASSUME forest[m].type = "LEAF"
       PROVE  forest[m].c = s[q + 1] /\ con \o x = next
  <2>1. PathsIn(forest, m) = {<<forest[m].c, <<>> >>}
    <3>1. DOMAIN forest = 1 .. Len(forest) /\ Len(forest) \in Nat
      OBVIOUS
    <3> QED
      BY <1>9, <1>11, <3>1, PathsAre
  <2>2. <<c, y>> = <<forest[m].c, <<>> >>
    BY <1>9, <2>1
  <2>3. forest[m].c = c /\ y = <<>>
    BY <2>2
  <2> DEFINE w == con \o x
  <2>4. w \in Seq({0, 1}) /\ w \o y = next
    BY <1>9, <1>10
  <2> HIDE DEF w
  <2>5. w = next
    BY <2>3, <2>4, ConcatEmpty
  <2> QED
    BY <2>3, <2>5 DEF c, w
<1>12. Toward(con \o x, q, m, s, f, forest)
  <2>1. (con \o x) \o y = Strung(f, First(s, q + 1)) /\ <<s[q + 1], y>> \in PathsIn(forest, m)
    BY <1>9 DEF next, c
  <2> HIDE DEF x
  <2> QED
    BY <1>3, <2>1 DEF Toward
<1> QED
  BY <1>3, <1>9, <1>11, <1>12 DEF next, WentDown

\* When the code of all of the text has been read, all of it has been decoded.
LEMMA AllDown ==
  ASSUME NEW forest \in Seq(Node), Grown(forest), NEW n \in 1 .. Len(forest),
         forest[n].type # "LEAF",
         NEW D, NEW f, Values(f, D, {0, 1}), NEW s \in Seq(D), NEW q \in 0 .. Len(s),
         NEW con \in Seq({0, 1}), Toward(con, q, n, s, f, forest), con = Strung(f, s)
  PROVE  q = Len(s)
<1>1. Len(s) \in Nat
  OBVIOUS
<1> SUFFICES ASSUME q < Len(s) PROVE FALSE
  BY <1>1
<1> DEFINE next == Strung(f, First(s, q + 1))
           c == s[q + 1]
<1>2. PICK u \in Seq({0, 1}) : con \o u = next /\ <<c, u>> \in PathsIn(forest, n)
  BY DEF Toward
<1>3. Begins(next, con)
  <2>1. q + 1 \in 0 .. Len(s)
    BY <1>1
  <2> QED
    BY <2>1, CodeBegins
<1> HIDE DEF next, c
<1>4. PICK b \in {0, 1} : \E y \in Seq({0, 1}) :
        /\ u = <<b>> \o y /\ Down(b, n, forest) \in 1 .. Len(forest)
        /\ <<c, y>> \in PathsIn(forest, Down(b, n, forest))
  BY <1>2, PathGoesDown
<1>5. PICK y \in Seq({0, 1}) : u = <<b>> \o y
  BY <1>4
<1>6. Len(u) >= 1
  <2> DEFINE z == <<b>>
  <2>1. z \in Seq({0, 1}) /\ Len(z) = 1 /\ u = z \o y
    BY <1>5
  <2> HIDE DEF z
  <2>2. Joined(z, y, {0, 1})
    BY <2>1, ConcatIs
  <2>3. Len(u) = 1 + Len(y) /\ Len(y) \in Nat
    BY <2>1, <2>2 DEF Joined
  <2> QED
    BY <2>3
<1>7. Joined(con, u, {0, 1})
  BY ConcatIs
<1>8. Len(next) = Len(con) + Len(u) /\ Len(con) \in Nat /\ Len(u) \in Nat
  BY <1>2, <1>7 DEF Joined
<1>9. Len(next) <= Len(con)
  BY <1>3 DEF Begins
<1> QED
  BY <1>6, <1>8, <1>9

-------------------------------------------------------------------------------
(* What huffd reads and decodes.                                           *)

\* Each record of the first r of text t is a node of the decoder, the last one
\* is at the head of the list.
Nodes(tr, ch, t, r, forest) ==
  /\ \A i \in 2 .. r : t[i] \in DOMAIN tr /\ tr[t[i]] = forest[t[i]]
  /\ r >= 2 => ch[1] = t[r]

\* The decoder's tree is the encoder's.
TreeCopied(tr, forest) == \A n \in DOMAIN forest : n \in DOMAIN tr /\ tr[n] = forest[n]

\* The output is the first characters of s, and the bits read are their code and
\* the way to node n.
Decoding(out, n, b, o, d, s, f, forest) ==
  \E q \in 0 .. Len(s) : \E con : /\ out = First(s, q)
                                  /\ AtBit(con, b, o, d)
                                  /\ Toward(con, q, n, s, f, forest)

\* The output is the first characters of s, and all of them unless bytes were lost.
Decoded(out, s, l) == \E q \in 0 .. Len(s) : out = First(s, q) /\ (~ l => q = Len(s))

\* While huffd decodes: its tree is that of huffc, and it is at an inner node.
InTree ==
  /\ TreeCopied(tree, nodes) /\ chain[1] = root
  /\ nodes[root].type # "LEAF"
  /\ p \in 1 .. Len(nodes) /\ nodes[p].type # "LEAF"
  /\ Decoding(output, p, byte, offset, disk, input, TheCodes, nodes)

\* What huffd has read and decoded at each stage.
DecodeInv ==
  /\ prog \notin {"decode", "free", "done"} => output = <<>>
  /\ prog = "read" => byte = ALL_BITS_READ /\ Nodes(tree, chain, text, read, nodes)
  /\ prog = "decode" => Misread \/ InTree
  /\ prog \in {"free", "done"} => Misread \/ Decoded(output, input, lost)

\* The code of a character to come begins at the root.
LEMMA FromRoot ==
  ASSUME HuffInv, phase = "built", root # NULL,
         \A i \in 1 .. Len(input) : input[i] \in Coded, NEW q \in 0 .. Len(input)
  PROVE  Toward(Strung(TheCodes, First(input, q)), q, root, input, TheCodes, nodes)
<1> DEFINE s == input
           con == Strung(TheCodes, First(s, q))
<1>1. Values(TheCodes, Coded, {0, 1}) /\ Coded \subseteq Chars
  BY CodesTyped
<1>2. s \in Seq(Coded)
  <2>1. s \in Seq(Chars)
    BY DEF HuffInv, HuffTypeOK
  <2>2. Len(s) \in Nat /\ s = [i \in 1 .. Len(s) |-> s[i]]
    BY <2>1
  <2> QED
    BY <2>2
<1>3. CASE q < Len(s)
  <2> DEFINE c == s[q + 1]
             u == TheCodes[c]
             a == First(s, q)
  <2>1. c \in Coded
    <3>1. q + 1 \in 1 .. Len(s)
      BY <1>2, <1>3
    <3> QED
      BY <3>1
  <2>2. u \in Seq({0, 1}) /\ u = table_bit_encode(c)
    BY <1>1, <2>1 DEF Values, TheCodes
  <2>3. <<c, u>> \in PathsIn(nodes, root)
    BY <2>1, <2>2, CodesAre
  <2>4. First(s, q + 1) = Append(a, c) /\ a \in Seq(Coded)
    BY <1>2, <1>3, FirstIs
  <2>5. Strung(TheCodes, Append(a, c)) = Strung(TheCodes, a) \o u
    <3> HIDE DEF a, c
    <3> QED
      BY ONLY <1>1, <2>1, <2>4, StrungOneMore
  <2>6. con \o u = Strung(TheCodes, First(s, q + 1))
    BY <2>4, <2>5
  <2> HIDE DEF u
  <2> QED
    BY <1>3, <2>2, <2>3, <2>6 DEF Toward
<1>4. CASE ~ (q < Len(s))
  <2>1. q = Len(s)
    BY <1>2, <1>4
  <2>2. First(s, q) = s
    BY <1>2, <2>1, FirstIs
  <2> QED
    BY <1>4, <2>2 DEF Toward
<1> QED
  BY <1>3, <1>4

\* Before the first bit.
LEMMA AtFirstBit == ASSUME NEW d \in Seq(Marked) PROVE AtBit(<<>>, ALL_BITS_READ, 0, d)
<1>1. 0 \in 0 .. ByteBits - 2 /\ 0 \in 0 .. ByteBits /\ 0 \in Nat /\ 0 \in 0 .. Len(d)
  BY ByteAssumption
<1>2. Left(ALL_BITS_READ, 0, 0)
  <2>1. ByteBits - 0 = ByteBits /\ ByteBits - 0 - 1 = ByteBits - 1
        /\ ByteBits \in 0 .. ByteBits /\ ByteBits - 1 \in 0 .. ByteBits
    BY ByteAssumption
  <2>2. Pow2[ByteBits] \in Nat /\ Pow2[ByteBits - 1] \in Nat /\ Pow2[0] = 1
    BY <2>1, PowPositive, PowIs
  <2>3. ALL_BITS_READ = Pow2[ByteBits - 1]
    BY DEF ALL_BITS_READ, TopBit
  <2>4. 0 * Pow2[ByteBits] = 0
    BY <2>2
  <2> QED
    BY <2>1, <2>2, <2>3, <2>4 DEF Left
<1>3. ValueBits(0, 0) = <<>>
  BY <1>1, ValueBitsTyped
<1>4. First(d, 0) = <<>>
  BY <1>1, FirstIs
<1>5. Strung(BitsFun, First(d, 0)) = <<>>
  BY <1>4, StrungNone
<1>6. <<>> \in Seq({0, 1}) /\ <<>> \o <<>> = <<>>
  OBVIOUS
<1>7. Unread(<<>>, 0, 0, Strung(BitsFun, First(d, 0)))
  BY <1>3, <1>5, <1>6 DEF Unread
<1> QED
  BY <1>1, <1>2, <1>6, <1>7 DEF AtBit

\* A record becomes the node it was: its children are found in the list.
LEMMA RecordRead ==
  ASSUME HuffInv, FileInv, ListInv, DecodeInv, ReadRecord
  PROVE  DecodeInv'
<1> DEFINE n == text[read + 1]
           l == nodes[n].left
           r == nodes[n].right
           new == [nodes[n] EXCEPT !.left = Child(@), !.right = Child(@)]
           w == Unlinked(l, r)
<1>1. /\ prog = "read" /\ AtRecord /\ UNCHANGED <<input, nodes, text, prog, byte, output>>
      /\ tree' = [m \in DOMAIN tree \cup {n} |-> IF m = n THEN new ELSE tree[m]]
      /\ chain' = <<n>> \o w /\ read' = read + 1
  BY DEF ReadRecord, huffVars, bitsVars
<1>2. read \in 1 .. Len(text) - 1 /\ text[read + 1] # HASH
  BY <1>1 DEF AtRecord
<1>3. Ordered(text, nodes) /\ Listed(chain, text, read, nodes)
  BY <1>1, TextKnown DEF ListInv
<1>4. /\ nodes \in Seq(Node) /\ Len(nodes) \in Nat /\ DOMAIN nodes = 1 .. Len(nodes)
      /\ Grown(nodes) /\ OneParent(Roots, nodes)
  BY DEF HuffInv, HuffTypeOK
<1>5. BothIn(chain, l, r)
  BY <1>2, <1>3, <1>4, ChildrenListed
<1>6. /\ chain \in Seq(Nat \ {0}) /\ Len(text) \in Nat /\ read + 1 \in 1 .. Len(text)
      /\ \A i \in 1 .. Len(text) : text[i] # HASH => text[i] \in DOMAIN nodes
  BY <1>2, <1>3 DEF Listed, Ordered
<1>7. Child(l) = l /\ Child(r) = r
  <2>1. ASSUME NEW x, x = 0 \/ \E j \in 1 .. Len(chain) : chain[j] = x
        PROVE  Child(x) = x
    <3>1. DOMAIN chain = 1 .. Len(chain) /\ 0 \notin DOMAIN chain
      BY <1>6
    <3> QED
      BY <2>1, <3>1 DEF Child, Place, NULL
  <2> HIDE DEF l, r
  <2> QED
    BY <1>5, <2>1 DEF BothIn
<1>8. new = nodes[n]
  <2>1. nodes[n] \in Node
    BY <1>2, <1>4, <1>6
  <2>2. new = [nodes[n] EXCEPT !.left = l, !.right = r]
    BY <1>7
  <2> QED
    BY <2>1, <2>2 DEF Node
<1> HIDE DEF new, w
<1>9. \A i \in 2 .. read : text[i] \in DOMAIN tree /\ tree[text[i]] = nodes[text[i]]
  BY <1>1 DEF DecodeInv, Nodes
<1>10. ASSUME NEW i \in 2 .. read + 1
       PROVE  text[i] \in DOMAIN tree' /\ tree'[text[i]] = nodes[text[i]]
  <2>1. DOMAIN tree' = {n} \cup DOMAIN tree
        /\ \A x \in DOMAIN tree' : tree'[x] = IF x = n THEN new ELSE tree[x]
    BY <1>1
  <2> QED
    BY <1>2, <1>8, <1>9, <2>1
<1>11. chain'[1] = n
  <2>1. w \in Seq(Nat \ {0})
    <3> DEFINE gone == Gone(chain, l, r)
               S == Nat \ {0}
    <3>1. w = Without(chain, gone)
      BY UnlinkedIs DEF w
    <3>2. gone \subseteq 1 .. Len(chain)
      BY <1>6, PlaceInIs DEF Gone, Going
    <3> HIDE DEF gone, S
    <3>3. chain \in Seq(S)
      BY <1>6 DEF S
    <3>4. Kept(w, chain, gone, S)
      BY ONLY <3>1, <3>2, <3>3, WithoutIs
    <3> QED
      BY ONLY <3>4 DEF Kept, S
  <2> QED
    BY <1>1, <2>1
<1>12. Nodes(tree', chain', text, read + 1, nodes)
  BY <1>10, <1>11 DEF Nodes
<1> QED
  BY <1>1, <1>12 DEF DecodeInv

\* Behind the whole text the decoder has the encoder's tree, and what it starts
\* with is the root.
LEMMA TreeRead ==
  ASSUME HuffInv, FileInv, ListInv, DecodeInv, TreeIsRead
  PROVE  DecodeInv'
<1>1. /\ prog = "read" /\ AtHash
      /\ prog' = CASE Len(chain) = 1 -> "crashed"
                   [] Len(chain) > 1 /\ tree[Head(chain)].type = "LEAF" -> "endless"
                   [] OTHER -> "decode"
      /\ offset' = IF read < Len(text) THEN 0 ELSE 1
      /\ chain' = IF Len(chain) > 2 THEN SubSeq(chain, 1, 2) ELSE chain
      /\ p' = Head(chain)
      /\ UNCHANGED huffVars /\ UNCHANGED <<byte, text, disk, tree, output>>
  BY DEF TreeIsRead
<1>2. /\ phase = "built" /\ root # NULL /\ Ordered(text, nodes) /\ Len(text) \in Nat
      /\ Whole(text, nodes, root) \/ \A i \in 2 .. Len(text) : text[i] # HASH
  BY <1>1, TextKnown
<1>3. /\ chain \in Seq(Nat \ {0}) /\ read \in 0 .. Len(text)
      /\ \A i \in 2 .. read : text[i] # HASH
      /\ read < 2 => chain = <<>>
  BY <1>1 DEF ListInv, Listed
<1>4. chain # <<>> /\ read >= 2 /\ Len(chain) \in Nat \ {0}
  <2>1. chain # <<>>
    BY <1>1 DEF AtHash
  <2> QED
    BY <1>2, <1>3, <2>1
<1>5. output = <<>> /\ byte = ALL_BITS_READ /\ Nodes(tree, chain, text, read, nodes)
  BY <1>1 DEF DecodeInv
<1>6. /\ UNCHANGED <<input, phase, root, nodes>>
      /\ TheCodes' = TheCodes
  BY <1>1, TreeStays
<1>7. CASE prog' # "decode"
  <2>1. prog' \in {"crashed", "endless"} /\ output' = <<>>
    BY <1>1, <1>5, <1>7
  <2> QED
    BY <2>1 DEF DecodeInv
<1>8. CASE prog' = "decode" /\ ~ (read < Len(text))
  <2>1. read = Len(text)
    BY <1>2, <1>3, <1>8
  <2>2. text[Len(text)] # HASH
    <3>1. read \in 2 .. read
      BY <1>3, <1>4
    <3> QED
      BY <1>3, <2>1, <3>1
  <2>3. disk # <<>> /\ disk[1] = HashByte
    BY <1>1, <1>8 DEF AtHash
  <2>4. Misread'
    BY <1>1, <2>2, <2>3 DEF Misread
  <2> QED
    BY <1>8, <2>4 DEF DecodeInv
<1>9. CASE prog' = "decode" /\ read < Len(text)
  <2>1. read \in 2 .. Len(text) - 1 /\ read + 1 \in 2 .. Len(text)
    BY <1>2, <1>3, <1>4, <1>9
  <2>2. text[read + 1] = HASH
    BY <1>1, <2>1 DEF AtHash, AtRecord
  <2>3. Whole(text, nodes, root)
    BY <1>2, <2>1, <2>2
  <2>4. read = Len(text) - 1
    <3>1. read + 1 \notin 2 .. Len(text) - 1
      BY <2>2, <2>3 DEF Whole
    <3> HIDE DEF Whole
    <3> QED
      BY ONLY <1>2, <2>1, <3>1
  <2>5. TreeCopied(tree, nodes)
    <3> SUFFICES ASSUME NEW n \in DOMAIN nodes
                 PROVE  n \in DOMAIN tree /\ tree[n] = nodes[n]
      BY DEF TreeCopied
    <3>1. PICK i \in 2 .. Len(text) - 1 : text[i] = n
      BY <2>3 DEF Whole
    <3>2. i \in 2 .. read
      BY <2>4
    <3> QED
      BY <1>5, <3>1, <3>2 DEF Nodes
  <2>6. chain[1] = root /\ root \in 1 .. Len(nodes)
    <3>1. text[read] = root
      BY <2>3, <2>4 DEF Whole
    <3> QED
      BY <1>2, <1>4, <1>5, <3>1, CodesAre DEF Nodes
  <2>7. Head(chain) = root /\ chain'[1] = root
    <3>1. Head(chain) = chain[1]
      BY <1>3, <1>4
    <3>2. SubSeq(chain, 1, 2)[1] = chain[1] \/ ~ (Len(chain) > 2)
      BY <1>3, <1>4
    <3> QED
      BY <1>1, <2>6, <3>1, <3>2
  <2>8. nodes[root].type # "LEAF"
    <3>1. ~ (Len(chain) = 1)
      BY <1>1, <1>9
    <3>2. Len(chain) > 1
      BY <1>4, <3>1
    <3>3. tree[Head(chain)].type # "LEAF"
      BY <1>1, <1>9, <3>2
    <3>4. root \in DOMAIN nodes
      BY <2>6 DEF HuffInv, HuffTypeOK
    <3> QED
      BY <2>5, <2>7, <3>3, <3>4 DEF TreeCopied
  <2>9. Decoding(<<>>, root, ALL_BITS_READ, 0, disk, input, TheCodes, nodes)
    <3>1. Written /\ disk \in Seq(Marked) /\ \A i \in 1 .. Len(input) : input[i] \in Coded
      BY <1>1 DEF FileInv, Written
    <3>2. input \in Seq(Chars) /\ Len(input) \in Nat /\ 0 \in 0 .. Len(input)
      BY DEF HuffInv, HuffTypeOK
    <3>3. First(input, 0) = <<>>
      BY <3>2, FirstIs
    <3>4. Strung(TheCodes, First(input, 0)) = <<>>
      BY <3>3, StrungNone
    <3>5. Toward(Strung(TheCodes, First(input, 0)), 0, root, input, TheCodes, nodes)
      BY <1>2, <3>1, <3>2, FromRoot
    <3>6. AtBit(<<>>, ALL_BITS_READ, 0, disk)
      BY <3>1, AtFirstBit
    <3> QED
      BY <3>2, <3>3, <3>4, <3>5, <3>6 DEF Decoding
  <2>10. Decoding(output', p', byte', offset', disk', input', TheCodes', nodes')
    <3>1. /\ output' = <<>> /\ p' = root /\ byte' = ALL_BITS_READ /\ offset' = 0
          /\ disk' = disk /\ input' = input /\ TheCodes' = TheCodes /\ nodes' = nodes
      BY <1>1, <1>5, <1>6, <1>9, <2>7
    <3> QED
      BY <2>9, <3>1
  <2>11. InTree'
    BY <1>1, <1>6, <2>5, <2>6, <2>7, <2>8, <2>10 DEF InTree
  <2> QED
    BY <1>9, <2>11 DEF DecodeInv
<1> QED
  BY <1>7, <1>8, <1>9

\* What begins a beginning begins the whole.
LEMMA BeginsThrough ==
  ASSUME NEW S, NEW s \in Seq(S), NEW t \in Seq(S), NEW u \in Seq(S),
         Begins(s, t), Begins(t, u)
  PROVE  Begins(s, u)
<1>1. Len(s) \in Nat /\ Len(t) \in Nat /\ Len(u) \in Nat
  OBVIOUS
<1>2. \A i \in 1 .. Len(s) : i \in 1 .. Len(t)
  BY <1>1 DEF Begins
<1> QED
  BY <1>1, <1>2 DEF Begins

\* A bit leads one node down or to the next character, and at the end of the
\* bits all that the file has of the code is decoded.
LEMMA BitDecoded ==
  ASSUME HuffInv, FileInv, DecodeInv, decode_one
  PROVE  DecodeInv'
<1> DEFINE next == IF ret' = 1 THEN tree[p].left ELSE tree[p].right
<1>1. /\ prog = "decode" /\ bits_io_read_bit /\ prog' \in {"decode", "free"}
      /\ UNCHANGED huffVars /\ UNCHANGED <<tree, chain, text, disk, lost>>
  BY DEF decode_one, bits_io_read_bit
<1>2. \/ /\ ret' = EOF \/ next = NULL
         /\ prog' = "free" /\ UNCHANGED <<p, output>>
      \/ /\ ret' # EOF /\ next # NULL /\ tree[next].type = "LEAF"
         /\ output' = Append(output, tree[next].c) /\ p' = Head(chain) /\ prog' = prog
      \/ /\ ret' # EOF /\ next # NULL /\ tree[next].type # "LEAF"
         /\ p' = next /\ UNCHANGED <<prog, output>>
  BY DEF decode_one
<1>3. /\ UNCHANGED <<input, phase, root, nodes>> /\ TheCodes' = TheCodes
  BY <1>1, TreeStays
<1>4. CASE Misread
  <2>1. Misread'
    BY <1>1, <1>4 DEF Misread
  <2> QED
    BY <1>1, <2>1 DEF DecodeInv
<1>5. CASE InTree
  <2>1. Written /\ phase = "built"
    BY <1>1 DEF FileInv
  <2>2. /\ root # NULL /\ disk \in Seq(Marked) /\ \A i \in 1 .. Len(input) : input[i] \in Coded
        /\ Begins(Strung(BitsFun, disk), Strung(TheCodes, input))
        /\ ~ lost => Strung(BitsFun, disk) = Strung(TheCodes, input)
    BY <2>1 DEF Written
  <2>3. /\ nodes \in Seq(Node) /\ Grown(nodes) /\ DOMAIN nodes = 1 .. Len(nodes) /\ Len(nodes) \in Nat
        /\ input \in Seq(Chars) /\ Len(input) \in Nat
    BY DEF HuffInv, HuffTypeOK
  <2>4. input \in Seq(Coded)
    <3>1. input = [i \in 1 .. Len(input) |-> input[i]]
      BY <2>3
    <3> QED
      BY <2>2, <2>3, <3>1
  <2>5. Values(TheCodes, Coded, {0, 1})
    BY <2>1, <2>2, CodesTyped
  <2>6. /\ TreeCopied(tree, nodes) /\ chain[1] = root
        /\ nodes[root].type # "LEAF"
        /\ p \in 1 .. Len(nodes) /\ nodes[p].type # "LEAF"
    BY <1>5 DEF InTree
  <2>7. PICK q \in 0 .. Len(input) : \E con : /\ output = First(input, q)
                                              /\ AtBit(con, byte, offset, disk)
                                              /\ Toward(con, q, p, input, TheCodes, nodes)
    BY <1>5 DEF InTree, Decoding
  <2>8. PICK con : /\ output = First(input, q)
                   /\ AtBit(con, byte, offset, disk)
                   /\ Toward(con, q, p, input, TheCodes, nodes)
    BY <2>7
  <2>9. con \in Seq({0, 1})
    BY <2>8 DEF AtBit
  <2>10. BitRead(byte, offset, disk, ret', byte', offset')
    BY <1>1, ReadIs
  <2> DEFINE r == ret'
             m == Down(r, p, nodes)
             more == con \o <<r>>
  <2>11. \/ r = EOF /\ con = Strung(BitsFun, disk)
         \/ r \in {0, 1} /\ AtBit(more, byte', offset', disk)
    BY <2>2, <2>8, <2>10, NextBit
  <2>12. next = m
    BY <2>3, <2>6 DEF TreeCopied, Down
  <2>13. CASE r = EOF /\ con = Strung(BitsFun, disk)
    <3>1. prog' = "free" /\ output' = output
      BY <1>2, <2>13
    <3>2. ASSUME ~ lost PROVE q = Len(input)
      <4>1. con = Strung(TheCodes, input)
        BY <2>2, <2>13, <3>2
      <4> QED
        BY <2>3, <2>4, <2>5, <2>6, <2>8, <2>9, <4>1, AllDown
    <3>3. Decoded(output', input', lost')
      BY <1>1, <1>3, <2>8, <3>1, <3>2 DEF Decoded
    <3> QED
      BY <3>1, <3>3 DEF DecodeInv
  <2>14. CASE r \in {0, 1} /\ AtBit(more, byte', offset', disk)
    <3>1. Begins(more, Strung(TheCodes, input))
      <4> HIDE DEF more
      <4>1. Begins(more, Strung(BitsFun, disk))
        BY <2>2, <2>14, ReadBegins
      <4>2. more \in Seq({0, 1})
        BY <2>14 DEF AtBit
      <4>3. Strung(BitsFun, disk) \in Seq({0, 1}) /\ Strung(TheCodes, input) \in Seq({0, 1})
        <5>1. Values(BitsFun, Marked, {0, 1})
          BY MarkedBits
        <5> QED
          BY <2>2, <2>4, <2>5, <5>1, StrungTyped
      <4> QED
        BY <2>2, <4>1, <4>2, <4>3, BeginsThrough
    <3>2. /\ q < Len(input) /\ m \in 1 .. Len(nodes)
          /\ nodes[m].type = "LEAF" =>
               nodes[m].c = input[q + 1] /\ more = Strung(TheCodes, First(input, q + 1))
          /\ nodes[m].type # "LEAF" => Toward(more, q, m, input, TheCodes, nodes)
      <4> HIDE DEF r
      <4>1. m = Down(r, p, nodes) /\ more = con \o <<r>>
        OBVIOUS
      <4> HIDE DEF m, more
      <4>2. WentDown(more, q, m, input, TheCodes, nodes)
        BY <2>3, <2>4, <2>5, <2>6, <2>8, <2>9, <2>14, <3>1, <4>1, OneDown
      <4> QED
        BY <4>2 DEF WentDown
    <3>3. tree[next] = nodes[m] /\ next # NULL /\ r # EOF
      <4>1. m # NULL /\ m \in DOMAIN nodes
        BY <2>3, <3>2 DEF NULL
      <4>2. r # EOF
        BY <2>14 DEF EOF
      <4> QED
        BY <2>6, <2>12, <4>1, <4>2 DEF TreeCopied
    <3>4. prog' = "decode"
      BY <1>1, <1>2, <3>3
    <3>5. /\ TreeCopied(tree', nodes') /\ chain'[1] = root' /\ nodes'[root'].type # "LEAF"
      BY <1>1, <1>3, <2>6
    <3>6. CASE nodes[m].type = "LEAF"
      <4>1. output' = Append(output, nodes[m].c) /\ p' = root
        <5>1. Head(chain) = chain[1]
          OBVIOUS
        <5> QED
          BY <1>2, <2>6, <3>3, <3>6, <5>1
      <4>2. output' = First(input, q + 1) /\ q + 1 \in 0 .. Len(input)
        <5>1. First(input, q + 1) = Append(First(input, q), input[q + 1])
          BY <2>3, <3>2, FirstIs
        <5> QED
          BY <2>3, <2>8, <3>2, <3>6, <4>1, <5>1
      <4>3. Toward(more, q + 1, root, input, TheCodes, nodes)
        <5>1. Toward(Strung(TheCodes, First(input, q + 1)), q + 1, root, input, TheCodes, nodes)
          BY <2>1, <2>2, <4>2, FromRoot
        <5> QED
          BY <3>2, <3>6, <5>1
      <4>4. root \in 1 .. Len(nodes)
        BY <2>1, <2>2, CodesAre
      <4>5. Decoding(output', p', byte', offset', disk, input, TheCodes, nodes)
        BY <2>14, <4>1, <4>2, <4>3 DEF Decoding
      <4>6. Decoding(output', p', byte', offset', disk', input', TheCodes', nodes')
        BY <1>1, <1>3, <4>5
      <4>7. InTree'
        BY <1>3, <2>6, <3>5, <4>1, <4>4, <4>6 DEF InTree
      <4> QED
        BY <3>4, <4>7 DEF DecodeInv
    <3>7. CASE nodes[m].type # "LEAF"
      <4>1. output' = output /\ p' = m
        BY <1>2, <2>12, <3>3, <3>7
      <4>2. Decoding(output', p', byte', offset', disk, input, TheCodes, nodes)
        BY <2>8, <2>14, <3>2, <3>7, <4>1 DEF Decoding
      <4>3. Decoding(output', p', byte', offset', disk', input', TheCodes', nodes')
        BY <1>1, <1>3, <4>2
      <4>4. InTree'
        BY <1>3, <3>2, <3>5, <3>7, <4>1, <4>3 DEF InTree
      <4> QED
        BY <3>4, <4>4 DEF DecodeInv
    <3> QED
      BY <3>6, <3>7
  <2> QED
    BY <2>11, <2>13, <2>14
<1> QED
  BY <1>1, <1>4, <1>5 DEF DecodeInv

\* Every step keeps that.
LEMMA DecodeStep == HuffInv /\ FileInv /\ ListInv /\ DecodeInv /\ [Next]_vars => DecodeInv'
<1> SUFFICES ASSUME HuffInv, FileInv, ListInv, DecodeInv, [Next]_vars PROVE DecodeInv'
  OBVIOUS
<1>1. CASE UNCHANGED vars
  <2>1. UNCHANGED huffVars /\ UNCHANGED bitsVars /\ UNCHANGED hzipVars
    BY <1>1 DEF vars
  <2>2. /\ UNCHANGED <<input, phase, root, nodes>> /\ TheCodes' = TheCodes
    BY <2>1, TreeStays
  <2>3. UNCHANGED <<byte, text, disk, offset, lost, prog, read, tree, chain, p, output>>
    BY <2>1 DEF bitsVars, hzipVars
  <2>4. Misread => Misread'
    BY <2>3 DEF Misread
  <2>5. InTree => InTree'
    <3> SUFFICES ASSUME InTree PROVE InTree'
      OBVIOUS
    <3>1. Decoding(output, p, byte, offset, disk, input, TheCodes, nodes)
      BY DEF InTree
    <3>2. Decoding(output', p', byte', offset', disk', input', TheCodes', nodes')
      BY <2>2, <2>3, <3>1
    <3> QED
      BY <2>2, <2>3, <3>2 DEF InTree
  <2> QED
    BY <2>2, <2>3, <2>4, <2>5 DEF DecodeInv
<1>2. CASE Build
  <2>1. prog = "build" /\ prog' = prog /\ output' = output
    BY <1>2 DEF Build, hzipVars
  <2> QED
    BY <2>1 DEF DecodeInv
<1>3. CASE encoder_new \/ EncodeTree \/ EncodeChar \/ EncodeBit \/ encoder_free
  <2>1. /\ prog \in {"build", "tree", "huffc"} /\ output' = output
        /\ prog' \notin {"read", "decode", "free", "done"}
    BY <1>3 DEF encoder_new, EncodeTree, EncodeChar, EncodeBit, encoder_free
  <2> QED
    BY <2>1 DEF DecodeInv
<1>4. CASE decoder_new
  <2>1. /\ prog = "huffd" /\ bits_io_open("r") /\ prog' \in {"read", "reported"}
        /\ prog' = "read" => mode' = "r"
        /\ read' = 0 /\ output' = output
    BY <1>4 DEF decoder_new
  <2>2. mode = "none"
    BY <2>1 DEF FileInv
  <2>3. mode' = "r" => byte' = ALL_BITS_READ
    BY <2>1, <2>2 DEF bits_io_open, bitsVars
  <2>4. output' = <<>>
    BY <2>1 DEF DecodeInv
  <2>5. Nodes(tree', chain', text', read', nodes')
    <3>1. 2 .. read' = {} /\ ~ (read' >= 2)
      BY <2>1
    <3> QED
      BY <3>1 DEF Nodes
  <2> QED
    BY <2>1, <2>3, <2>4, <2>5 DEF DecodeInv
<1>5. CASE ReadStart
  <2>1. prog = "read" /\ read' = 1 /\ UNCHANGED <<prog, byte, output>>
    BY <1>5 DEF ReadStart, bitsVars
  <2>2. Nodes(tree', chain', text', read', nodes')
    <3>1. 2 .. read' = {} /\ ~ (read' >= 2)
      BY <2>1
    <3> QED
      BY <3>1 DEF Nodes
  <2> QED
    BY <2>1, <2>2 DEF DecodeInv
<1>6. CASE TreeIsCut
  <2>1. prog = "read" /\ prog' = "reported" /\ output' = output
    BY <1>6 DEF TreeIsCut
  <2> QED
    BY <2>1 DEF DecodeInv
<1>7. CASE decoder_free
  <2>1. prog = "free" /\ prog' = "done" /\ bits_io_close /\ output' = output /\ input' = input
    BY <1>7 DEF decoder_free, huffVars
  <2>2. mode = "r" /\ stdio = <<>> /\ disk \in Seq(Marked)
    BY <2>1 DEF FileInv, Written
  <2>3. Flushed(<<>>)
    BY <2>1, <2>2 DEF bits_io_close, PartialByte
  <2>4. disk \o <<>> = disk
    BY <2>2, ConcatEmpty
  <2>5. UNCHANGED <<text, disk, lost>>
    BY <2>2, <2>3, <2>4 DEF Flushed
  <2>6. Misread \/ Decoded(output, input, lost)
    BY <2>1 DEF DecodeInv
  <2>7. Misread' \/ Decoded(output', input', lost')
    BY <2>1, <2>5, <2>6 DEF Misread
  <2> QED
    BY <2>1, <2>7 DEF DecodeInv
<1> QED
  BY <1>1, <1>2, <1>3, <1>4, <1>5, <1>6, <1>7, RecordRead, TreeRead, BitDecoded DEF Next

\* The first characters of a text begin it.
LEMMA FirstBegins ==
  ASSUME NEW D, NEW s \in Seq(D), NEW q \in 0 .. Len(s), NEW t, t = First(s, q)
  PROVE  IsPrefix(t, s) /\ (q = Len(s) => t = s)
<1>1. t \in Seq(D) /\ Len(t) = q /\ \A i \in 1 .. q : t[i] = s[i]
  BY FirstIs
<1>2. SubSeq(t, 1, Len(t)) = SubSeq(s, 1, Len(t))
  BY <1>1
<1>3. q = Len(s) => t = s
  BY FirstIs
<1> QED
  BY <1>1, <1>2, <1>3 DEF IsPrefix

\* What is known of the output is that it is decoded from the input.
LEMMA InvRoundTrip == HuffInv /\ DecodeInv => RoundTrip
<1> SUFFICES ASSUME HuffInv, DecodeInv, ~ Misread
             PROVE  IsPrefix(output, input) /\ (prog = "done" /\ ~ lost => output = input)
  BY DEF RoundTrip
<1>1. input \in Seq(Chars) /\ Len(input) \in Nat
  BY DEF HuffInv, HuffTypeOK
<1>2. \E q \in 0 .. Len(input) : output = First(input, q) /\ (prog = "done" /\ ~ lost => q = Len(input))
  <2>1. CASE prog \notin {"decode", "free", "done"}
    <3>1. 0 \in 0 .. Len(input) /\ First(input, 0) = <<>>
      BY <1>1, FirstIs
    <3> QED
      BY <2>1, <3>1 DEF DecodeInv
  <2>2. CASE prog = "decode"
    BY <2>2 DEF DecodeInv, InTree, Decoding
  <2>3. CASE prog \in {"free", "done"}
    BY <2>3 DEF DecodeInv, Decoded
  <2> QED
    BY <2>1, <2>2, <2>3
<1>3. PICK q \in 0 .. Len(input) : output = First(input, q) /\ (prog = "done" /\ ~ lost => q = Len(input))
  BY <1>2
<1> QED
  BY <1>1, <1>3, FirstBegins

\* The invariant of the decoding.
LEMMA HzipDecodeInv == Spec => [](HuffInv /\ FileInv /\ ListInv /\ DecodeInv)
<1>1. Init => HuffInv /\ FileInv /\ ListInv /\ DecodeInv
  <2>1. Init => ListInv /\ DecodeInv
    BY DEF Init, ListInv, DecodeInv
  <2> QED
    BY <2>1, HuffInitInv, FileInit DEF Init
<1>2. HuffInv /\ [Next]_vars => HuffInv'
  BY HuffStepInv, HzipBuildsStep
<1> QED
  BY <1>1, <1>2, FileStep, ListStep, DecodeStep, PTL DEF Spec

\* For every file, order of ties, size of a byte and failure of the file: what
\* huffd writes is at every moment the beginning of what huffc was given, and at
\* the end all of it unless bytes were lost when huffc's file was closed; the only
\* exception is a tree that was cut in front of a byte that looks like its end
\* (encoder.c 83-109, bits-io.c 300-342, tree.c 138-274, decoder.c 29-114).
THEOREM RoundTripHolds == Spec => []RoundTrip
BY HzipDecodeInv, InvRoundTrip, PTL

-------------------------------------------------------------------------------
(* The least cost of a tree.                                               *)

\* What holds of a set if it holds of its proper subsets holds of all sets.
LEMMA SubsetInduction ==
  ASSUME NEW U, IsFiniteSet(U), NEW P,
         \A T \in SUBSET U : (\A A \in SUBSET T : A # T => A \in P) => T \in P
  PROVE  SUBSET U \subseteq P
<1> DEFINE S == {n \in Nat : \A T \in SUBSET U : Cardinality(T) <= n => T \in P}
<1>1. \A T \in SUBSET U : IsFiniteSet(T) /\ Cardinality(T) \in Nat
  BY FS_Subset, FS_CardinalityType
<1>2. ASSUME NEW T \in SUBSET U, NEW A \in SUBSET T, A # T
      PROVE  A \in SUBSET U /\ Cardinality(A) < Cardinality(T)
  <2>1. A \in SUBSET U
    OBVIOUS
  <2>2. Cardinality(A) <= Cardinality(T) /\ Cardinality(T) # Cardinality(A)
    BY <1>1, <1>2, FS_Subset
  <2> QED
    BY <1>1, <2>1, <2>2
<1>3. 0 \in S
  <2> SUFFICES ASSUME NEW T \in SUBSET U, Cardinality(T) <= 0 PROVE T \in P
    OBVIOUS
  <2>1. \A A \in SUBSET T : A = T
    BY <1>1, <1>2
  <2> QED
    BY <2>1
<1>4. ASSUME NEW n \in Nat, n \in S
      PROVE  n + 1 \in S
  <2> SUFFICES ASSUME NEW T \in SUBSET U, Cardinality(T) <= n + 1 PROVE T \in P
    OBVIOUS
  <2>1. \A A \in SUBSET T : A # T => A \in SUBSET U /\ Cardinality(A) <= n
    BY <1>1, <1>2
  <2>2. \A A \in SUBSET T : A # T => A \in P
    BY <1>4, <2>1
  <2> QED
    BY <2>2
<1> HIDE DEF S
<1>5. \A n \in Nat : n \in S
  BY <1>3, <1>4, NatInductionOnSets
<1>6. ASSUME NEW T \in SUBSET U PROVE T \in P
  <2>1. Cardinality(T) \in S /\ Cardinality(T) <= Cardinality(T)
    BY <1>1, <1>5
  <2> QED
    BY <2>1 DEF S
<1> QED
  BY <1>6

\* Some number in a set of numbers is the least.
LEMMA LeastNumber ==
  ASSUME NEW S, S \subseteq Nat, S # {}
  PROVE  \E c \in S : \A d \in S : c <= d
<1> DEFINE T == {n \in Nat : \A k \in 0 .. n : k \notin S}
<1> SUFFICES ASSUME \A c \in S : \E d \in S : d < c PROVE FALSE
  <2>1. \A c, d \in S : c <= d \/ d < c
    OBVIOUS
  <2> QED
    BY <2>1
<1>1. 0 \in T
  OBVIOUS
<1>2. ASSUME NEW n \in Nat, n \in T PROVE n + 1 \in T
  <2>1. n + 1 \notin S
    <3>1. \A d \in S : d < n + 1 => d \in 0 .. n
      OBVIOUS
    <3> QED
      BY <1>2, <3>1
  <2>2. \A k \in 0 .. n + 1 : k \in 0 .. n \/ k = n + 1
    OBVIOUS
  <2> QED
    BY <1>2, <2>1, <2>2
<1> HIDE DEF T
<1>3. \A n \in Nat : n \in T
  BY <1>1, <1>2, NatInductionOnSets
<1>4. PICK c \in S : TRUE
  OBVIOUS
<1>5. c \in T /\ c \in 0 .. c
  BY <1>3
<1> QED
  BY <1>5 DEF T

\* A set of nodes and its division among two trees.
Parts(A, B, T) == A # {} /\ B # {} /\ A \cap B = {} /\ A \cup B = T

\* The weights of disjoint sets add up.
Additive(w, U) ==
  \A A, B \in SUBSET U : w[A] \in Nat /\ (A \cap B = {} => w[A \cup B] = w[A] + w[B])

\* The least cost f of a tree over a set: a tree of one leaf costs nothing, no
\* division among two trees costs less, and some division costs that.
Leasts(f, w, U) ==
  /\ \A T \in SUBSET U : f[T] \in Nat
  /\ \A x \in U : f[{x}] = 0
  /\ \A T, A, B \in SUBSET U : Parts(A, B, T) => f[T] <= w[T] + f[A] + f[B]
  /\ \A T \in SUBSET U : (\E x, y \in T : x # y) =>
       \E A, B \in SUBSET U : Parts(A, B, T) /\ f[T] = w[T] + f[A] + f[B]

\* One node fewer and another one.
Instead(T, x, y) == (T \ {x}) \cup {y}

\* A lighter leaf in the place of another one makes no tree dearer.
LEMMA LighterLeaf ==
  ASSUME NEW U, IsFiniteSet(U), NEW w, NEW f, Additive(w, U), Leasts(f, w, U),
         NEW u \in U, NEW y \in U, w[{y}] <= w[{u}]
  PROVE  \A T \in SUBSET U : u \in T /\ y \notin T => f[Instead(T, u, y)] <= f[T]
<1> DEFINE P == {T \in SUBSET U : u \in T /\ y \notin T => f[Instead(T, u, y)] <= f[T]}
<1>1. ASSUME NEW T \in SUBSET U, \A A \in SUBSET T : A # T => A \in P
      PROVE  T \in P
  <2> SUFFICES ASSUME u \in T, y \notin T PROVE f[Instead(T, u, y)] <= f[T]
    OBVIOUS
  <2> DEFINE T2 == Instead(T, u, y)
  <2>1. T2 \in SUBSET U /\ w[T2] <= w[T]
    <3> DEFINE R == T \ {u}
    <3>1. R \in SUBSET U /\ {u} \in SUBSET U /\ {y} \in SUBSET U
          /\ R \cap {u} = {} /\ R \cup {u} = T /\ R \cap {y} = {} /\ R \cup {y} = T2
      BY DEF Instead
    <3>2. w[T] = w[R] + w[{u}] /\ w[T2] = w[R] + w[{y}] /\ w[R] \in Nat
          /\ w[{u}] \in Nat /\ w[{y}] \in Nat
      <4> HIDE DEF R, T2
      <4> QED
        BY <3>1 DEF Additive
    <3> QED
      BY <3>1, <3>2
  <2>2. CASE T = {u}
    <3>1. T2 = {y}
      BY <2>2 DEF Instead
    <3>2. f[{y}] = 0 /\ f[{u}] = 0
      BY DEF Leasts
    <3> QED
      BY ONLY <2>2, <3>1, <3>2
  <2>3. CASE T # {u}
    <3>1. PICK A, B \in SUBSET U : Parts(A, B, T) /\ f[T] = w[T] + f[A] + f[B]
      <4>1. \E x, v \in T : x # v
        BY <2>3
      <4> HIDE DEF T2
      <4> QED
        BY <4>1 DEF Leasts
    <3>2. ASSUME NEW C \in SUBSET U, NEW D \in SUBSET U, Parts(C, D, T), u \in C,
                 f[T] = w[T] + f[C] + f[D]
          PROVE  f[T2] <= f[T]
      <4> DEFINE C2 == Instead(C, u, y)
      <4>1. C \in SUBSET T /\ C # T /\ y \notin C
        BY <3>2 DEF Parts
      <4>2. f[C2] <= f[C]
        BY <1>1, <3>2, <4>1
      <4>3. Parts(C2, D, T2) /\ C2 \in SUBSET U
        BY <3>2 DEF Parts, Instead
      <4> HIDE DEF C2, T2
      <4>4. f[T2] <= w[T2] + f[C2] + f[D]
        BY <2>1, <4>3 DEF Leasts
      <4>5. f[T2] \in Nat /\ f[T] \in Nat /\ f[C2] \in Nat /\ f[C] \in Nat /\ f[D] \in Nat
        BY <2>1, <4>3 DEF Leasts
      <4>6. w[T] \in Nat /\ w[T2] \in Nat
        BY <2>1 DEF Additive
      <4> QED
        BY <2>1, <3>2, <4>2, <4>4, <4>5, <4>6
    <3>3. CASE u \in A
      BY <3>1, <3>2, <3>3
    <3>4. CASE u \in B
      <4>1. Parts(B, A, T)
        BY <3>1 DEF Parts
      <4>2. f[T] = w[T] + f[B] + f[A]
        <5>1. f[A] \in Nat /\ f[B] \in Nat /\ w[T] \in Nat
          BY DEF Leasts, Additive
        <5> QED
          BY <3>1, <5>1
      <4> QED
        BY <3>2, <3>4, <4>1, <4>2
    <3> QED
      BY <3>1, <3>3, <3>4 DEF Parts
  <2> QED
    BY <2>2, <2>3
<1>2. SUBSET U \subseteq P
  <2> HIDE DEF P
  <2> QED
    BY <1>1, SubsetInduction
<1> QED
  BY <1>2

\* Two leaves in the place of one that weighs as much as both cost at most that
\* weight.
LEMMA LeafDivided ==
  ASSUME NEW U, IsFiniteSet(U), NEW w, NEW f, Additive(w, U), Leasts(f, w, U),
         NEW x \in U, NEW y \in U, NEW z \in U, x # y, w[{z}] = w[{x}] + w[{y}]
  PROVE  \A T \in SUBSET U : z \in T /\ x \notin T /\ y \notin T =>
           f[(T \ {z}) \cup {x, y}] <= f[T] + w[{z}]
<1> DEFINE Two(T) == (T \ {z}) \cup {x, y}
           P == {T \in SUBSET U : z \in T /\ x \notin T /\ y \notin T => f[Two(T)] <= f[T] + w[{z}]}
<1>0. w[{x}] \in Nat /\ w[{y}] \in Nat /\ w[{z}] \in Nat /\ w[{x, y}] = w[{z}]
  <2>1. {x} \in SUBSET U /\ {y} \in SUBSET U /\ {z} \in SUBSET U /\ {x} \cap {y} = {}
        /\ {x} \cup {y} = {x, y}
    OBVIOUS
  <2>2. w[{x} \cup {y}] = w[{x}] + w[{y}]
    BY <2>1 DEF Additive
  <2> QED
    BY <2>1, <2>2 DEF Additive
<1>1. ASSUME NEW T \in SUBSET U, \A A \in SUBSET T : A # T => A \in P
      PROVE  T \in P
  <2> SUFFICES ASSUME z \in T, x \notin T, y \notin T PROVE f[Two(T)] <= f[T] + w[{z}]
    OBVIOUS
  <2> DEFINE T2 == Two(T)
  <2>1. T2 \in SUBSET U /\ w[T2] = w[T] /\ w[T] \in Nat
    <3> DEFINE R == T \ {z}
               Z == {z}
               X == {x, y}
    <3>1. R \in SUBSET U /\ Z \in SUBSET U /\ X \in SUBSET U
          /\ R \cap Z = {} /\ R \cup Z = T /\ R \cap X = {} /\ R \cup X = T2
      OBVIOUS
    <3>2. w[Z] = w[X]
      BY <1>0
    <3> HIDE DEF R, Z, X, T2
    <3>3. w[R \cup Z] = w[R] + w[Z] /\ w[R \cup X] = w[R] + w[X] /\ w[R \cup Z] \in Nat
      <4>1. R \cup Z \in SUBSET U
        BY <3>1
      <4> QED
        BY <3>1, <4>1 DEF Additive
    <3>4. T2 \in SUBSET U
      BY <3>1
    <3> QED
      BY <3>1, <3>2, <3>3, <3>4
  <2>2. CASE T = {z}
    <3>1. T2 = {x, y} /\ Parts({x}, {y}, T2)
      BY <2>2 DEF Parts
    <3>2. f[{x}] = 0 /\ f[{y}] = 0 /\ f[T] \in Nat /\ f[T2] \in Nat
      BY <2>1 DEF Leasts
    <3> HIDE DEF T2
    <3>3. f[T2] <= w[T2] + f[{x}] + f[{y}]
      BY <2>1, <3>1 DEF Leasts
    <3>4. w[T2] = w[{z}]
      BY <1>0, <3>1
    <3> QED
      BY <1>0, <3>2, <3>3, <3>4 DEF T2
  <2>3. CASE T # {z}
    <3>1. PICK A, B \in SUBSET U : Parts(A, B, T) /\ f[T] = w[T] + f[A] + f[B]
      <4>1. \E v, u \in T : v # u
        BY <2>3
      <4> HIDE DEF T2
      <4> QED
        BY <4>1 DEF Leasts
    <3>2. ASSUME NEW C \in SUBSET U, NEW D \in SUBSET U, Parts(C, D, T), z \in C,
                 f[T] = w[T] + f[C] + f[D]
          PROVE  f[T2] <= f[T] + w[{z}]
      <4> DEFINE C2 == Two(C)
      <4>1. C \in SUBSET T /\ C # T /\ x \notin C /\ y \notin C
        BY <3>2 DEF Parts
      <4>2. f[C2] <= f[C] + w[{z}]
        BY <1>1, <3>2, <4>1
      <4>3. Parts(C2, D, T2) /\ C2 \in SUBSET U
        BY <3>2 DEF Parts
      <4> HIDE DEF C2, T2
      <4>4. f[T2] <= w[T2] + f[C2] + f[D]
        BY <2>1, <4>3 DEF Leasts
      <4>5. f[T2] \in Nat /\ f[T] \in Nat /\ f[C2] \in Nat /\ f[C] \in Nat /\ f[D] \in Nat
        BY <2>1, <4>3 DEF Leasts
      <4> QED
        BY <1>0, <2>1, <3>2, <4>2, <4>4, <4>5
    <3>3. CASE z \in A
      BY <3>1, <3>2, <3>3
    <3>4. CASE z \in B
      <4>1. Parts(B, A, T)
        BY <3>1 DEF Parts
      <4>2. f[T] = w[T] + f[B] + f[A]
        <5>1. f[A] \in Nat /\ f[B] \in Nat /\ w[T] \in Nat
          BY DEF Leasts, Additive
        <5> QED
          BY <3>1, <5>1
      <4> QED
        BY <3>2, <3>4, <4>1, <4>2
    <3> QED
      BY <3>1, <3>3, <3>4 DEF Parts
  <2> QED
    BY <2>2, <2>3
<1>2. SUBSET U \subseteq P
  <2> HIDE DEF P
  <2> QED
    BY <1>1, SubsetInduction
<1> QED
  BY <1>2

\* Only one function gives the least costs.
LEMMA LeastsAgree ==
  ASSUME NEW U, IsFiniteSet(U), NEW V, U \subseteq V, NEW w, NEW v, NEW f, NEW g,
         Additive(w, U), Leasts(f, w, U), Leasts(g, v, V),
         \A T \in SUBSET U : w[T] = v[T]
  PROVE  \A T \in SUBSET U : T # {} => f[T] = g[T]
<1> DEFINE P == {T \in SUBSET U : T # {} => f[T] = g[T]}
<1>1. ASSUME NEW T \in SUBSET U, \A A \in SUBSET T : A # T => A \in P
      PROVE  T \in P
  <2> SUFFICES ASSUME T # {} PROVE f[T] = g[T]
    OBVIOUS
  <2>1. \A A, B \in SUBSET V : Parts(A, B, T) =>
          A \in SUBSET U /\ B \in SUBSET U /\ f[A] = g[A] /\ f[B] = g[B]
    BY <1>1 DEF Parts
  <2>2. \A A \in SUBSET U : A \in SUBSET V /\ f[A] \in Nat /\ g[A] \in Nat /\ w[A] \in Nat
    BY DEF Leasts, Additive
  <2>3. CASE \E x, y \in T : x # y
    <3>1. PICK A, B \in SUBSET U : Parts(A, B, T) /\ f[T] = w[T] + f[A] + f[B]
      BY <2>3 DEF Leasts
    <3>2. PICK C, D \in SUBSET V : Parts(C, D, T) /\ g[T] = v[T] + g[C] + g[D]
      <4>1. T \in SUBSET V
        BY <2>2
      <4> QED
        BY <2>3, <4>1 DEF Leasts
    <3>3. f[T] <= w[T] + f[C] + f[D]
      BY <2>1, <3>2 DEF Leasts
    <3>4. g[T] <= v[T] + g[A] + g[B]
      BY <2>2, <3>1 DEF Leasts
    <3>5. f[A] = g[A] /\ f[B] = g[B] /\ f[C] = g[C] /\ f[D] = g[D] /\ w[T] = v[T]
      BY <2>1, <2>2, <3>1, <3>2
    <3>6. f[A] \in Nat /\ f[B] \in Nat /\ f[C] \in Nat /\ f[D] \in Nat /\ w[T] \in Nat
          /\ f[T] \in Nat /\ g[T] \in Nat
      BY <2>1, <2>2, <3>2
    <3> QED
      BY <3>1, <3>2, <3>3, <3>4, <3>5, <3>6
  <2>4. CASE ~ \E x, y \in T : x # y
    <3>1. PICK x \in T : T = {x}
      BY <2>4
    <3>2. f[{x}] = 0 /\ g[{x}] = 0
      BY <3>1 DEF Leasts
    <3> QED
      BY ONLY <3>1, <3>2
  <2> QED
    BY <2>3, <2>4
<1>2. SUBSET U \subseteq P
  <2> HIDE DEF P
  <2> QED
    BY <1>1, SubsetInduction
<1> QED
  BY <1>2

\* The two lightest leaves of T are x and y.
Lightest(x, y, T, w) ==
  /\ x \in T /\ y \in T
  /\ \A u \in T \ {x, y} : w[{x}] <= w[{u}] /\ w[{y}] <= w[{u}]

\* With z in the place of x and y the least cost is less by the weight of z.
Joining(T, x, y, z, f, w) == f[(T \ {x, y}) \cup {z}] + w[{z}] <= f[T]

\* T divides into A and B at the least cost.
BestDivision(T, A, B, f, w) == Parts(A, B, T) /\ f[T] = w[T] + f[A] + f[B]

\* Some division of T that costs no more has x and y in the same part.
Brothers(T, x, y, f, w, U) ==
  \E C, D \in SUBSET U :
    /\ Parts(C, D, T) /\ w[T] + f[C] + f[D] <= f[T]
    /\ x \in C /\ y \in C

\* So it is if the two are in the same part of a division that costs no more.
LEMMA SamePart ==
  ASSUME NEW U, NEW w, NEW f, Additive(w, U), Leasts(f, w, U),
         NEW x \in U, NEW y \in U, NEW z \in U, x # y, w[{z}] = w[{x}] + w[{y}],
         NEW T \in SUBSET U, z \notin T, NEW A \in SUBSET U, NEW B \in SUBSET U,
         Parts(A, B, T), w[T] + f[A] + f[B] <= f[T],
         x \in A, y \in A, Joining(A, x, y, z, f, w)
  PROVE  Joining(T, x, y, z, f, w)
<1> DEFINE A2 == (A \ {x, y}) \cup {z}
           T2 == (T \ {x, y}) \cup {z}
<1>1. A2 \in SUBSET U /\ T2 \in SUBSET U /\ Parts(A2, B, T2)
  BY DEF Parts
<1>2. w[T2] = w[T] /\ w[T] \in Nat /\ w[{z}] \in Nat
  <2> DEFINE R == T \ {x, y}
             Z == {z}
             X == {x}
             Y == {y}
             XY == X \cup Y
  <2>1. R \in SUBSET U /\ Z \in SUBSET U /\ X \in SUBSET U /\ Y \in SUBSET U /\ XY \in SUBSET U
        /\ X \cap Y = {} /\ R \cap XY = {} /\ R \cup XY = T /\ R \cap Z = {} /\ R \cup Z = T2
    BY DEF Parts
  <2>2. w[Z] = w[X] + w[Y]
    OBVIOUS
  <2>3. w[XY] = w[X] + w[Y]
    <3> HIDE DEF X, Y
    <3> QED
      BY <2>1 DEF Additive
  <2> HIDE DEF R, Z, X, Y, XY, T2
  <2>4. w[R \cup XY] = w[R] + w[XY] /\ w[R \cup Z] = w[R] + w[Z] /\ w[T] \in Nat /\ w[Z] \in Nat
    BY <2>1 DEF Additive
  <2> QED
    BY <2>1, <2>2, <2>3, <2>4 DEF Z
<1>3. f[A2] + w[{z}] <= f[A]
  BY DEF Joining
<1> HIDE DEF A2, T2
<1>4. f[T2] <= w[T2] + f[A2] + f[B]
  BY <1>1 DEF Leasts
<1>5. f[T2] \in Nat /\ f[T] \in Nat /\ f[A2] \in Nat /\ f[A] \in Nat /\ f[B] \in Nat
  BY <1>1 DEF Leasts
<1>6. f[T2] + w[{z}] <= f[T]
  BY <1>2, <1>3, <1>4, <1>5
<1> QED
  BY <1>6 DEF Joining, T2

\* A leaf on the one side and the lightest two on two sides: they come together
\* when y changes places with another leaf, and nothing costs more.
LEMMA LeafMoved ==
  ASSUME NEW U, IsFiniteSet(U), NEW w, NEW f, Additive(w, U), Leasts(f, w, U),
         NEW x \in U, NEW y \in U, NEW T \in SUBSET U, Lightest(x, y, T, w),
         NEW A \in SUBSET U, NEW B, B = {y}, BestDivision(T, A, B, f, w),
         x \in A, A # {x}
  PROVE  Brothers(T, x, y, f, w, U)
<1>0. Parts(A, {y}, T) /\ f[T] = w[T] + f[A] + f[{y}]
  BY DEF BestDivision
<1>1. PICK u \in A : u # x
  OBVIOUS
<1> DEFINE C == Instead(A, u, y)
           D == {u}
<1>2. u \in U /\ u \in T /\ y \notin A /\ u # y
  BY <1>0, <1>1 DEF Parts
<1>3. w[{y}] <= w[{u}]
  BY <1>1, <1>2 DEF Lightest
<1>4. f[C] <= f[A]
  BY <1>1, <1>2, <1>3, LighterLeaf
<1>5. C \in SUBSET U /\ D \in SUBSET U /\ x \in C /\ y \in C /\ Parts(C, D, T)
  BY <1>0, <1>1, <1>2 DEF Parts, Instead
<1>6. f[D] = 0 /\ f[{y}] = 0
  BY <1>2 DEF Leasts
<1> HIDE DEF C, D
<1>7. f[C] \in Nat /\ f[A] \in Nat /\ f[T] \in Nat /\ w[T] \in Nat
  BY <1>5 DEF Leasts, Additive
<1>8. w[T] + f[C] + f[D] <= f[T]
  BY <1>0, <1>4, <1>6, <1>7
<1> QED
  BY <1>5, <1>8 DEF Brothers

\* Two sides that divide again: two of the four trees change places.
LEMMA TreesMoved ==
  ASSUME NEW U, NEW w, NEW f, Additive(w, U), Leasts(f, w, U),
         NEW x \in U, NEW y \in U, NEW T \in SUBSET U,
         NEW A \in SUBSET U, NEW B \in SUBSET U, BestDivision(T, A, B, f, w),
         x \in A, y \in B, A # {x}, B # {y}
  PROVE  Brothers(T, x, y, f, w, U)
<1>0. Parts(A, B, T) /\ f[T] = w[T] + f[A] + f[B]
  BY DEF BestDivision
<1>1. ASSUME NEW S \in SUBSET U, NEW v \in S, S # {v}
      PROVE  \E G, H \in SUBSET U : Parts(G, H, S) /\ f[S] = w[S] + f[G] + f[H] /\ v \in G
  <2>1. \E s, t \in S : s # t
    BY <1>1
  <2>2. PICK G, H \in SUBSET U : Parts(G, H, S) /\ f[S] = w[S] + f[G] + f[H]
    BY <2>1 DEF Leasts
  <2>3. Parts(H, G, S) /\ (v \in G \/ v \in H)
    BY <2>2 DEF Parts
  <2>4. w[S] + f[G] + f[H] = w[S] + f[H] + f[G]
    <3>1. w[S] \in Nat /\ f[G] \in Nat /\ f[H] \in Nat
      BY DEF Leasts, Additive
    <3> QED
      BY <3>1
  <2> QED
    BY <2>2, <2>3, <2>4
<1>2. PICK A1, A2 \in SUBSET U : Parts(A1, A2, A) /\ f[A] = w[A] + f[A1] + f[A2] /\ x \in A1
  BY <1>1
<1>3. PICK B1, B2 \in SUBSET U : Parts(B1, B2, B) /\ f[B] = w[B] + f[B1] + f[B2] /\ y \in B1
  BY <1>1
<1> DEFINE C == A1 \cup B1
           D == A2 \cup B2
<1>4. /\ C \in SUBSET U /\ D \in SUBSET U /\ x \in C /\ y \in C
      /\ Parts(C, D, T) /\ Parts(A1, B1, C) /\ Parts(A2, B2, D)
  BY <1>0, <1>2, <1>3 DEF Parts
<1> HIDE DEF C, D
<1>5. f[C] <= w[C] + f[A1] + f[B1] /\ f[D] <= w[D] + f[A2] + f[B2]
  BY <1>4 DEF Leasts
<1>6. w[A] + w[B] = w[T] /\ w[C] + w[D] = w[T] /\ w[A] \in Nat /\ w[B] \in Nat
      /\ w[C] \in Nat /\ w[D] \in Nat
  BY <1>0, <1>4 DEF Parts, Additive
<1>7. /\ f[T] \in Nat /\ f[A] \in Nat /\ f[B] \in Nat /\ f[C] \in Nat /\ f[D] \in Nat
      /\ f[A1] \in Nat /\ f[A2] \in Nat /\ f[B1] \in Nat /\ f[B2] \in Nat
  BY <1>4 DEF Leasts
<1>8. w[T] + f[C] + f[D] <= f[T]
  BY <1>0, <1>2, <1>3, <1>5, <1>6, <1>7
<1> QED
  BY <1>4, <1>8 DEF Brothers

\* Huffman's step: a tree in which the two lightest leaves have one parent costs
\* no more than any.
LEMMA LightestJoined ==
  ASSUME NEW U, IsFiniteSet(U), NEW w, NEW f, Additive(w, U), Leasts(f, w, U),
         NEW x \in U, NEW y \in U, NEW z \in U, x # y, w[{z}] = w[{x}] + w[{y}]
  PROVE  \A T \in SUBSET U : z \notin T /\ Lightest(x, y, T, w) => Joining(T, x, y, z, f, w)
<1> DEFINE P == {T \in SUBSET U : z \notin T /\ Lightest(x, y, T, w) => Joining(T, x, y, z, f, w)}
<1>1. ASSUME NEW T \in SUBSET U, \A A \in SUBSET T : A # T => A \in P
      PROVE  T \in P
  <2> SUFFICES ASSUME z \notin T, Lightest(x, y, T, w) PROVE Joining(T, x, y, z, f, w)
    OBVIOUS
  <2>1. ASSUME NEW A \in SUBSET U, NEW B \in SUBSET U, Parts(A, B, T),
               w[T] + f[A] + f[B] <= f[T], x \in A, y \in A
        PROVE  Joining(T, x, y, z, f, w)
    <3>1. A \in SUBSET T /\ A # T /\ z \notin A
      BY <2>1 DEF Parts
    <3>2. Lightest(x, y, A, w)
      BY <2>1, <3>1 DEF Lightest
    <3>3. Joining(A, x, y, z, f, w)
      BY <1>1, <3>1, <3>2
    <3> QED
      BY <2>1, <3>3, SamePart
  <2>2. ASSUME NEW A \in SUBSET U, NEW B \in SUBSET U, Parts(A, B, T),
               f[T] = w[T] + f[A] + f[B], x \in A, y \in B
        PROVE  Joining(T, x, y, z, f, w)
    <3>1. Parts(B, A, T) /\ f[T] = w[T] + f[B] + f[A] /\ w[T] \in Nat /\ f[T] \in Nat
          /\ f[A] \in Nat /\ f[B] \in Nat
      <4>1. f[A] \in Nat /\ f[B] \in Nat /\ w[T] \in Nat /\ f[T] \in Nat
        BY DEF Leasts, Additive
      <4> QED
        BY <2>2, <4>1 DEF Parts
    <3>2. CASE A = {x} /\ B = {y}
      <4>1. (T \ {x, y}) \cup {z} = {z}
        BY <2>2, <3>2 DEF Parts
      <4>2. w[T] = w[{x}] + w[{y}] /\ w[{x}] \in Nat /\ w[{y}] \in Nat
        <5>1. A \cap B = {} /\ A \cup B = T
          BY <2>2 DEF Parts
        <5>2. w[T] = w[A] + w[B] /\ w[A] \in Nat /\ w[B] \in Nat
          BY <5>1 DEF Additive
        <5> QED
          BY <3>2, <5>2
      <4>3. f[{z}] = 0
        BY DEF Leasts
      <4>4. f[{z}] + w[{z}] <= f[T]
        BY <2>2, <3>1, <4>2, <4>3
      <4> QED
        BY <4>1, <4>4 DEF Joining
    <3>3. BestDivision(T, A, B, f, w) /\ BestDivision(T, B, A, f, w)
      BY ONLY <2>2, <3>1 DEF BestDivision
    <3>4. Brothers(T, x, y, f, w, U) => Joining(T, x, y, z, f, w)
      BY ONLY <2>1 DEF Brothers
    <3>5. CASE A # {x} /\ B = {y}
      <4>1. Brothers(T, x, y, f, w, U)
        BY <2>2, <3>3, <3>5, LeafMoved
      <4> QED
        BY <4>1, <3>4
    <3>6. CASE A = {x} /\ B # {y}
      <4>1. Lightest(y, x, T, w)
        BY DEF Lightest
      <4>2. Brothers(T, y, x, f, w, U)
        BY <2>2, <3>3, <3>6, <4>1, LeafMoved
      <4> QED
        BY <4>2, <3>4 DEF Brothers
    <3>7. CASE A # {x} /\ B # {y}
      <4>1. Brothers(T, x, y, f, w, U)
        BY <2>2, <3>3, <3>7, TreesMoved
      <4> QED
        BY <4>1, <3>4
    <3> QED
      BY <3>2, <3>5, <3>6, <3>7
  <2>3. x \in T /\ y \in T
    BY DEF Lightest
  <2>4. PICK A, B \in SUBSET U : Parts(A, B, T) /\ f[T] = w[T] + f[A] + f[B]
    <3>1. \E s, t \in T : s # t
      BY <2>3
    <3> QED
      BY <3>1 DEF Leasts
  <2>5. Parts(B, A, T) /\ f[T] = w[T] + f[B] + f[A] /\ w[T] + f[A] + f[B] <= f[T]
        /\ w[T] + f[B] + f[A] <= f[T]
    <3>1. f[A] \in Nat /\ f[B] \in Nat /\ w[T] \in Nat /\ f[T] \in Nat
      BY DEF Leasts, Additive
    <3> QED
      BY <2>4, <3>1 DEF Parts
  <2>6. (x \in A \/ x \in B) /\ (y \in A \/ y \in B)
    BY <2>3, <2>4 DEF Parts
  <2> QED
    BY <2>1, <2>2, <2>4, <2>5, <2>6
<1>2. SUBSET U \subseteq P
  <2> HIDE DEF P
  <2> QED
    BY <1>1, SubsetInduction
<1> QED
  BY <1>2

\* One value of the function LeastCost is made of.
CheapAt(f, T, forest) ==
  IF Cardinality(T) <= 1 THEN 0 ELSE Weight(T, forest) + Min(Splits(f, T))

\* That function, for the subsets of S.
Cheap(f, S, forest) ==
  f = [T \in SUBSET S |-> IF Cardinality(T) <= 1 THEN 0
                          ELSE Weight(T, forest) + Min(Splits(f, T))]

\* LeastCost in a forest.
LeastIn(S, forest) ==
  LET least[T \in SUBSET S] ==
        IF Cardinality(T) <= 1 THEN 0 ELSE Weight(T, forest) + Min(Splits(least, T))
  IN least[S]

\* LeastCost, of the nodes of the state.
LEMMA LeastCostIs == \A S : LeastCost(S) = LeastIn(S, nodes)
BY DEF LeastCost, LeastIn

\* What LeastCost is, by that function.
LEMMA LeastInIs ==
  ASSUME NEW S, NEW forest, NEW f, f = (CHOOSE g : Cheap(g, S, forest))
  PROVE  LeastIn(S, forest) = f[S]
BY DEF LeastIn, Cheap

\* The divisions of T see proper subsets of it.
LEMMA SplitsAgree ==
  ASSUME NEW T, T # {}, NEW f, NEW g, \A A \in SUBSET T : A # T => f[A] = g[A]
  PROVE  Splits(f, T) = Splits(g, T)
<1> DEFINE one == CHOOSE n \in T : TRUE
           rest == T \ {one}
<1>1. one \in T
  OBVIOUS
<1>2. /\ Splits(f, T) = {f[A \cup {one}] + f[rest \ A] : A \in (SUBSET rest) \ {rest}}
      /\ Splits(g, T) = {g[A \cup {one}] + g[rest \ A] : A \in (SUBSET rest) \ {rest}}
  BY DEF Splits
<1> HIDE DEF one
<1>3. ASSUME NEW A \in (SUBSET rest) \ {rest}
      PROVE  f[A \cup {one}] = g[A \cup {one}] /\ f[rest \ A] = g[rest \ A]
  <2>1. A \cup {one} \in SUBSET T /\ A \cup {one} # T
    <3>1. \E e \in rest : e \notin A
      <4> HIDE DEF rest
      <4>1. A \subseteq rest /\ A # rest
        OBVIOUS
      <4> QED
        BY <4>1
    <3> QED
      BY <1>1, <3>1
  <2>2. rest \ A \in SUBSET T /\ rest \ A # T
    BY <1>1
  <2> HIDE DEF rest
  <2> QED
    BY <2>1, <2>2
<1>4. {f[A \cup {one}] + f[rest \ A] : A \in (SUBSET rest) \ {rest}}
      = {g[A \cup {one}] + g[rest \ A] : A \in (SUBSET rest) \ {rest}}
  BY <1>3
<1> QED
  BY <1>2, <1>4

\* So one value of the function depends on smaller sets only.
LEMMA CheapAgree ==
  ASSUME NEW T, NEW forest, NEW f, NEW g, \A A \in SUBSET T : A # T => f[A] = g[A]
  PROVE  CheapAt(f, T, forest) = CheapAt(g, T, forest)
<1>1. CASE T = {}
  <2>1. Cardinality(T) <= 1
    BY <1>1, FS_EmptySet
  <2> QED
    BY <2>1 DEF CheapAt
<1>2. CASE T # {}
  BY <1>2, SplitsAgree DEF CheapAt
<1> QED
  BY <1>1, <1>2

\* The recursion of LeastCost ends.
LEMMA CheapExists ==
  ASSUME NEW S, IsFiniteSet(S), NEW forest
  PROVE  \E f : Cheap(f, S, forest)
<1> DEFINE Right(f, k) == \A T \in SUBSET S : Cardinality(T) <= k => f[T] = CheapAt(f, T, forest)
           K == {k \in Nat : \E f : Right(f, k)}
<1>1. \A T \in SUBSET S : IsFiniteSet(T) /\ Cardinality(T) \in Nat
                          /\ Cardinality(T) <= Cardinality(S)
  BY FS_Subset, FS_CardinalityType
<1>2. 0 \in K
  <2> DEFINE f == [T \in SUBSET S |-> 0]
  <2>1. ASSUME NEW T \in SUBSET S, Cardinality(T) <= 0
        PROVE  f[T] = CheapAt(f, T, forest)
    <3>1. Cardinality(T) <= 1
      BY <1>1, <2>1
    <3> QED
      BY <3>1 DEF CheapAt
  <2> HIDE DEF f
  <2> QED
    BY <2>1
<1>3. ASSUME NEW k \in Nat, k \in K
      PROVE  k + 1 \in K
  <2>1. PICK f : Right(f, k)
    BY <1>3
  <2> DEFINE g == [T \in SUBSET S |-> CheapAt(f, T, forest)]
  <2>2. ASSUME NEW T \in SUBSET S, Cardinality(T) <= k + 1
        PROVE  g[T] = CheapAt(g, T, forest)
    <3>1. ASSUME NEW A \in SUBSET T, A # T
          PROVE  f[A] = g[A]
      <4>1. A \in SUBSET S /\ Cardinality(A) \in Nat /\ Cardinality(T) \in Nat
        BY <1>1
      <4>2. Cardinality(A) <= Cardinality(T) /\ Cardinality(T) # Cardinality(A)
        BY <1>1, <3>1, FS_Subset
      <4>3. Cardinality(A) <= k
        BY <2>2, <4>1, <4>2
      <4> QED
        BY <2>1, <4>1, <4>3
    <3>2. g[T] = CheapAt(f, T, forest)
      OBVIOUS
    <3> HIDE DEF g
    <3>3. CheapAt(f, T, forest) = CheapAt(g, T, forest)
      BY <3>1, CheapAgree
    <3> QED
      BY <3>2, <3>3
  <2> HIDE DEF g
  <2>3. Right(g, k + 1)
    BY <2>2
  <2> QED
    BY <2>3
<1> HIDE DEF K
<1>4. Nat \subseteq K
  BY <1>2, <1>3, NatInductionOnSets
<1>5. PICK f : Right(f, Cardinality(S))
  <2>1. Cardinality(S) \in K
    BY <1>1, <1>4
  <2> QED
    BY <2>1 DEF K
<1> DEFINE g == [T \in SUBSET S |-> f[T]]
<1>6. ASSUME NEW T \in SUBSET S
      PROVE  g[T] = CheapAt(g, T, forest)
  <2>1. f[T] = CheapAt(f, T, forest)
    BY <1>1, <1>5
  <2>2. \A A \in SUBSET T : A # T => f[A] = g[A]
    OBVIOUS
  <2>3. g[T] = f[T]
    OBVIOUS
  <2> HIDE DEF g
  <2>4. CheapAt(f, T, forest) = CheapAt(g, T, forest)
    BY <2>2, CheapAgree
  <2> QED
    BY <2>1, <2>3, <2>4
<1>7. g = [T \in SUBSET S |-> g[T]]
  OBVIOUS
<1> HIDE DEF g
<1>8. Cheap(g, S, forest)
  BY <1>6, <1>7 DEF Cheap, CheapAt
<1> QED
  BY <1>8

\* The least number of a set is one of its numbers.
LEMMA MinIs ==
  ASSUME NEW S, S \subseteq Nat, S # {}
  PROVE  Min(S) \in S /\ Min(S) \in Nat /\ \A d \in S : Min(S) <= d
BY LeastNumber DEF Min

\* More than one element, or not.
LEMMA OneOrMore ==
  ASSUME NEW T, IsFiniteSet(T)
  PROVE  Cardinality(T) <= 1 <=> ~ \E x, y \in T : x # y
<1>1. ASSUME NEW x \in T, NEW y \in T, x # y PROVE ~ Cardinality(T) <= 1
  <2>1. IsFiniteSet({x}) /\ Cardinality({x}) = 1
    BY FS_Singleton
  <2>2. Cardinality({x}) <= Cardinality(T) /\ Cardinality({x}) # Cardinality(T)
    BY <1>1, FS_Subset
  <2> QED
    BY <2>1, <2>2, FS_CardinalityType
<1>2. ASSUME ~ \E x, y \in T : x # y PROVE Cardinality(T) <= 1
  <2>1. CASE T = {}
    BY <2>1, FS_EmptySet
  <2>2. CASE T # {}
    <3>1. PICK x \in T : TRUE
      BY <2>2
    <3>2. T = {x}
      BY <1>2, <3>1
    <3> QED
      BY <3>2, FS_Singleton
  <2> QED
    BY <2>1, <2>2
<1> QED
  BY <1>1, <1>2

\* The function is the least cost, over weights that add.
LEMMA CheapIsLeast ==
  ASSUME NEW S, IsFiniteSet(S), NEW forest, NEW w, Additive(w, S),
         \A T \in SUBSET S : w[T] = Weight(T, forest), NEW f, Cheap(f, S, forest)
  PROVE  Leasts(f, w, S)
<1>1. \A T \in SUBSET S : IsFiniteSet(T) /\ w[T] \in Nat
  BY FS_Subset DEF Additive
<1>2. \A T \in SUBSET S : Cardinality(T) <= 1 => f[T] = 0
  BY DEF Cheap
<1>3. \A T \in SUBSET S : ~ Cardinality(T) <= 1 => f[T] = w[T] + Min(Splits(f, T))
  BY DEF Cheap
<1>4. ASSUME NEW T \in SUBSET S, ~ Cardinality(T) <= 1
      PROVE  /\ Splits(f, T) # {}
             /\ \A c \in Splits(f, T) : \E A, B \in SUBSET S : Parts(A, B, T) /\ c = f[A] + f[B]
             /\ \A A, B \in SUBSET S : Parts(A, B, T) =>
                  f[A] + f[B] \in Splits(f, T) \/ f[B] + f[A] \in Splits(f, T)
  <2> DEFINE one == CHOOSE n \in T : TRUE
             rest == T \ {one}
  <2>1. PICK x, y \in T : x # y
    BY <1>1, <1>4, OneOrMore
  <2>2. one \in T
    BY <2>1
  <2>3. Splits(f, T) = {f[A \cup {one}] + f[rest \ A] : A \in (SUBSET rest) \ {rest}}
    BY DEF Splits
  <2> HIDE DEF one
  <2>4. rest # {}
    BY <2>1
  <2>5. {} \in (SUBSET rest) \ {rest}
    BY <2>4
  <2>6. Splits(f, T) # {}
    BY <2>3, <2>5
  <2>7. ASSUME NEW A \in (SUBSET rest) \ {rest}
        PROVE  Parts(A \cup {one}, rest \ A, T) /\ A \cup {one} \in SUBSET S /\ rest \ A \in SUBSET S
    <3>1. \E e \in rest : e \notin A
      <4> HIDE DEF rest
      <4>1. A \subseteq rest /\ A # rest
        OBVIOUS
      <4> QED
        BY <4>1
    <3> QED
      BY <2>2, <3>1 DEF Parts
  <2>8. ASSUME NEW A \in SUBSET S, NEW B \in SUBSET S, Parts(A, B, T), one \in A
        PROVE  f[A] + f[B] \in Splits(f, T)
    <3> DEFINE C == A \ {one}
    <3>1. C \in SUBSET rest /\ C # rest /\ C \cup {one} = A /\ rest \ C = B
      BY <2>8 DEF Parts
    <3> HIDE DEF C, rest
    <3> QED
      BY <2>3, <3>1
  <2>9. ASSUME NEW A \in SUBSET S, NEW B \in SUBSET S, Parts(A, B, T)
        PROVE  f[A] + f[B] \in Splits(f, T) \/ f[B] + f[A] \in Splits(f, T)
    <3>1. Parts(B, A, T) /\ (one \in A \/ one \in B)
      BY <2>2, <2>9 DEF Parts
    <3> QED
      BY <2>8, <2>9, <3>1
  <2>10. \A c \in Splits(f, T) : \E A, B \in SUBSET S : Parts(A, B, T) /\ c = f[A] + f[B]
    <3> HIDE DEF rest
    <3> QED
      BY <2>3, <2>7
  <2> QED
    BY <2>6, <2>9, <2>10
<1> DEFINE P == {T \in SUBSET S : f[T] \in Nat}
<1>5. ASSUME NEW T \in SUBSET S, \A A \in SUBSET T : A # T => A \in P
      PROVE  T \in P
  <2>1. CASE Cardinality(T) <= 1
    BY <1>2, <2>1
  <2>2. CASE ~ Cardinality(T) <= 1
    <3>1. Splits(f, T) \subseteq Nat
      <4>1. ASSUME NEW A \in SUBSET S, NEW B \in SUBSET S, Parts(A, B, T)
            PROVE  f[A] + f[B] \in Nat
        <5>1. A \in SUBSET T /\ B \in SUBSET T /\ A # T /\ B # T
          BY <4>1 DEF Parts
        <5>2. f[A] \in Nat /\ f[B] \in Nat
          BY <1>5, <5>1
        <5> QED
          BY <5>2
      <4> QED
        BY <1>4, <2>2, <4>1
    <3>2. Min(Splits(f, T)) \in Nat
      BY <1>4, <2>2, <3>1, MinIs
    <3> QED
      BY <1>1, <1>3, <2>2, <3>2
  <2> QED
    BY <2>1, <2>2
<1>6. SUBSET S \subseteq P
  <2> HIDE DEF P
  <2> QED
    BY <1>5, SubsetInduction
<1>7. \A T \in SUBSET S : f[T] \in Nat
  BY <1>6
<1>8. ASSUME NEW T \in SUBSET S, ~ Cardinality(T) <= 1
      PROVE  /\ Splits(f, T) \subseteq Nat
             /\ Min(Splits(f, T)) \in Splits(f, T) /\ Min(Splits(f, T)) \in Nat
             /\ \A d \in Splits(f, T) : Min(Splits(f, T)) <= d
  <2>1. Splits(f, T) \subseteq Nat
    BY <1>4, <1>7, <1>8
  <2> QED
    BY <1>4, <1>8, <2>1, MinIs
<1>9. ASSUME NEW x \in S PROVE f[{x}] = 0
  <2> DEFINE X == {x}
  <2>1. Cardinality(X) <= 1 /\ X \in SUBSET S
    BY FS_Singleton
  <2> HIDE DEF X
  <2>2. f[X] = 0
    BY <1>2, <2>1
  <2> QED
    BY <2>2 DEF X
<1>10. ASSUME NEW T \in SUBSET S, NEW A \in SUBSET S, NEW B \in SUBSET S, Parts(A, B, T)
       PROVE  f[T] <= w[T] + f[A] + f[B]
  <2>1. \E x, y \in T : x # y
    BY <1>10 DEF Parts
  <2>2. ~ Cardinality(T) <= 1
    BY <1>1, <2>1, OneOrMore
  <2>3. f[A] \in Nat /\ f[B] \in Nat /\ w[T] \in Nat
    BY <1>1, <1>7
  <2>4. f[A] + f[B] = f[B] + f[A]
    BY <2>3
  <2>5. f[A] + f[B] \in Splits(f, T)
    BY <1>4, <1>10, <2>2, <2>4
  <2>6. Min(Splits(f, T)) <= f[A] + f[B] /\ Min(Splits(f, T)) \in Nat
    BY <1>8, <2>2, <2>5
  <2>7. f[T] = w[T] + Min(Splits(f, T))
    BY <1>3, <2>2
  <2> DEFINE m == Min(Splits(f, T))
  <2> HIDE DEF m
  <2>8. m <= f[A] + f[B] /\ m \in Nat /\ f[T] = w[T] + m
    BY <2>6, <2>7 DEF m
  <2> QED
    BY ONLY <2>3, <2>8
<1>11. ASSUME NEW T \in SUBSET S, \E x, y \in T : x # y
       PROVE  \E A, B \in SUBSET S : Parts(A, B, T) /\ f[T] = w[T] + f[A] + f[B]
  <2>1. ~ Cardinality(T) <= 1
    BY <1>1, <1>11, OneOrMore
  <2>2. PICK A, B \in SUBSET S : Parts(A, B, T) /\ Min(Splits(f, T)) = f[A] + f[B]
    BY <1>4, <1>8, <2>1
  <2>3. f[T] = w[T] + (f[A] + f[B])
    BY <1>3, <2>1, <2>2
  <2>4. f[T] = w[T] + f[A] + f[B]
    BY <1>1, <1>7, <2>3
  <2> QED
    BY <2>2, <2>4
<1> QED
  BY <1>7, <1>9, <1>10, <1>11 DEF Leasts

\* n nodes that each have a frequency.
Weighted(forest, n) == Forest(forest, n) /\ \A k \in 1 .. n : forest[k].v \in Nat

\* Frequencies are no less than 0.
LEMMA SumToNat ==
  ASSUME NEW f, NEW n \in Nat, \A k \in 1 .. n : f[k] \in Nat
  PROVE  SumTo(f, n) \in Nat
<1> DEFINE S == {k \in Nat : k <= n => SumTo(f, k) \in Nat}
<1>1. 0 \in S
  BY SumToNext
<1>2. ASSUME NEW k \in Nat, k \in S
      PROVE  k + 1 \in S
  <2> SUFFICES ASSUME k + 1 <= n PROVE SumTo(f, k + 1) \in Nat
    OBVIOUS
  <2>1. SumTo(f, k) \in Nat /\ f[k + 1] \in Nat
    BY <1>2
  <2>2. SumTo(f, k + 1) = SumTo(f, k) + f[k + 1]
    BY SumToNext
  <2> QED
    BY <2>1, <2>2
<1> HIDE DEF S
<1>3. n \in S
  BY <1>1, <1>2, NatInductionOnSets
<1> QED
  BY <1>3 DEF S

\* No set of nodes weighs less than 0.
LEMMA WeightNat ==
  ASSUME NEW forest, NEW n, Weighted(forest, n), NEW S
  PROVE  Weight(S, forest) \in Nat
<1> DEFINE s == [k \in DOMAIN forest |-> IF k \in S THEN forest[k].v ELSE 0]
<1>1. n \in Nat /\ DOMAIN forest = 1 .. n /\ Len(forest) = n /\ \A k \in 1 .. n : forest[k].v \in Nat
  BY DEF Weighted, Forest
<1>2. \A k \in 1 .. n : s[k] \in Nat
  BY <1>1
<1>3. Weight(S, forest) = SumTo(s, n)
  BY <1>1 DEF Weight
<1> HIDE DEF s
<1> QED
  BY <1>1, <1>2, <1>3, SumToNat

\* No node weighs nothing.
LEMMA WeightNone ==
  ASSUME NEW forest, NEW n, Weighted(forest, n)
  PROVE  Weight({}, forest) = 0
<1> DEFINE E == {}
<1>1. E \cap E = {} /\ E \cup E = E
  OBVIOUS
<1> HIDE DEF E
<1>2. Weight(E \cup E, forest) = Weight(E, forest) + Weight(E, forest)
  <2>1. \A A, B : A \cap B = {} => Weight(A \cup B, forest) = Weight(A, forest) + Weight(B, forest)
    BY WeightPlus DEF Weighted
  <2> QED
    BY <1>1, <2>1, Zenon
<1>3. Weight(E, forest) \in Nat
  BY WeightNat
<1>4. Weight(E \cup E, forest) = Weight(E, forest)
  BY <1>1, Zenon
<1>5. Weight(E, forest) = 0
  <2> DEFINE e == Weight(E, forest)
  <2>1. e = e + e /\ e \in Nat
    BY <1>2, <1>3, <1>4
  <2> HIDE DEF e
  <2>2. e = 0
    BY ONLY <2>1
  <2> QED
    BY <2>2 DEF e
<1> QED
  BY <1>5 DEF E

\* A node weighs its frequency.
LEMMA WeightOfOne ==
  ASSUME NEW forest, NEW n, Weighted(forest, n), NEW j \in 1 .. n
  PROVE  Weight({j}, forest) = forest[j].v
<1> DEFINE s == [k \in DOMAIN forest |-> IF k \in {} THEN forest[k].v ELSE 0]
           t == [k \in DOMAIN forest |-> IF k \in {j} THEN forest[k].v ELSE 0]
<1>1. n \in Nat /\ DOMAIN forest = 1 .. n /\ Len(forest) = n /\ \A k \in 1 .. n : forest[k].v \in Nat
  BY DEF Weighted, Forest
<1>2. \A k \in 1 .. n : s[k] \in Int /\ t[k] \in Int /\ (k # j => s[k] = t[k])
  BY <1>1
<1>3. s[j] = 0 /\ t[j] = forest[j].v
  BY <1>1
<1>4. Weight({}, forest) = SumTo(s, n) /\ Weight({j}, forest) = SumTo(t, n)
  BY <1>1 DEF Weight
<1> HIDE DEF s, t
<1>5. SumTo(t, n) = SumTo(s, n) + t[j] - s[j]
  BY <1>1, <1>2, SumToChange
<1>6. SumTo(s, n) = 0 /\ forest[j].v \in Nat
  BY <1>1, <1>4, WeightNone
<1> QED
  BY <1>3, <1>4, <1>5, <1>6

\* What the sets of nodes weigh.
Weights(forest, U) == [T \in SUBSET U |-> Weight(T, forest)]

\* The weights of sets without a common node add.
LEMMA WeightsAdd ==
  ASSUME NEW forest, NEW n, Weighted(forest, n), NEW U
  PROVE  /\ Additive(Weights(forest, U), U)
         /\ \A T \in SUBSET U : Weights(forest, U)[T] = Weight(T, forest)
<1> DEFINE w == Weights(forest, U)
<1>1. \A T \in SUBSET U : w[T] = Weight(T, forest)
  BY DEF Weights
<1> HIDE DEF w
<1>2. ASSUME NEW A \in SUBSET U, NEW B \in SUBSET U
      PROVE  w[A] \in Nat /\ (A \cap B = {} => w[A \cup B] = w[A] + w[B])
  <2>1. w[A] = Weight(A, forest) /\ w[B] = Weight(B, forest) /\ w[A \cup B] = Weight(A \cup B, forest)
    BY <1>1
  <2>2. A \cap B = {} => Weight(A \cup B, forest) = Weight(A, forest) + Weight(B, forest)
    BY WeightPlus DEF Weighted
  <2> QED
    BY <2>1, <2>2, WeightNat
<1>3. Additive(w, U)
  BY <1>2 DEF Additive
<1> QED
  BY <1>1, <1>3 DEF w

\* There is a least cost for every set of nodes.
LEMMA LeastsExist ==
  ASSUME NEW forest, NEW n, Weighted(forest, n), NEW U, IsFiniteSet(U)
  PROVE  \E f : Leasts(f, Weights(forest, U), U) /\ f[U] = LeastIn(U, forest)
<1> DEFINE w == Weights(forest, U)
           f == CHOOSE g : Cheap(g, U, forest)
<1>1. Cheap(f, U, forest)
  BY CheapExists
<1>2. Additive(w, U) /\ \A T \in SUBSET U : w[T] = Weight(T, forest)
  BY WeightsAdd
<1>3. LeastIn(U, forest) = f[U]
  BY LeastInIs
<1> HIDE DEF f, w
<1>4. Leasts(f, w, U)
  BY <1>1, <1>2, CheapIsLeast
<1> QED
  BY <1>3, <1>4 DEF w

\* LeastCost is the least cost, wherever it is taken from.
LEMMA LeastAt ==
  ASSUME NEW forest, NEW n, Weighted(forest, n), NEW V, NEW v, NEW g, Leasts(g, v, V),
         NEW U, U \subseteq V, IsFiniteSet(U), U # {},
         \A T \in SUBSET U : v[T] = Weight(T, forest)
  PROVE  LeastIn(U, forest) = g[U]
<1> DEFINE w == Weights(forest, U)
<1>1. PICK f : Leasts(f, w, U) /\ f[U] = LeastIn(U, forest)
  BY LeastsExist
<1>2. Additive(w, U) /\ \A T \in SUBSET U : w[T] = v[T]
  BY WeightsAdd
<1> HIDE DEF w
<1>3. \A T \in SUBSET U : T # {} => f[T] = g[T]
  BY <1>1, <1>2, LeastsAgree
<1> QED
  BY <1>1, <1>3

\* The least cost is a number.
LEMMA LeastNat ==
  ASSUME NEW forest, NEW n, Weighted(forest, n), NEW U, IsFiniteSet(U)
  PROVE  LeastIn(U, forest) \in Nat
<1>1. PICK f : Leasts(f, Weights(forest, U), U) /\ f[U] = LeastIn(U, forest)
  BY LeastsExist
<1> QED
  BY <1>1 DEF Leasts

\* A tree of one leaf costs nothing.
LEMMA LeastOfOne ==
  ASSUME NEW forest, NEW n, Weighted(forest, n), NEW k
  PROVE  LeastIn({k}, forest) = 0
<1> DEFINE U == {k}
<1>1. IsFiniteSet(U) /\ k \in U
  BY FS_Singleton
<1> HIDE DEF U
<1>2. PICK f : Leasts(f, Weights(forest, U), U) /\ f[U] = LeastIn(U, forest)
  BY <1>1, LeastsExist
<1>3. f[{k}] = 0
  BY <1>1, <1>2 DEF Leasts
<1> QED
  BY <1>2, <1>3 DEF U

\* The nodes of f and one more, each with a frequency.
OneWeighted(f, g, n) == OneMore(f, g, n) /\ Weighted(f, n) /\ Weighted(g, n + 1)

\* A node more changes no cost of the nodes before it.
LEMMA LeastStays ==
  ASSUME NEW f, NEW g, NEW n, OneWeighted(f, g, n), NEW S, S \subseteq 1 .. n, S # {}
  PROVE  LeastIn(S, f) = LeastIn(S, g)
<1>1. n \in Nat /\ Weighted(f, n) /\ Weighted(g, n + 1) /\ OneMore(f, g, n)
  BY DEF OneWeighted, Weighted, Forest
<1>2. IsFiniteSet(S)
  <2>1. IsFiniteSet(1 .. n)
    BY <1>1, FS_Interval
  <2> QED
    BY <2>1, FS_Subset
<1>3. PICK F : Leasts(F, Weights(g, S), S) /\ F[S] = LeastIn(S, g)
  BY <1>1, <1>2, LeastsExist
<1>4. \A T \in SUBSET S : Weights(g, S)[T] = Weight(T, f)
  <2>1. \A T \in SUBSET S : Weights(g, S)[T] = Weight(T, g)
    BY DEF Weights
  <2>2. \A T : T \subseteq 1 .. n => Weight(T, g) = Weight(T, f)
    BY ONLY <1>1, WeightOfOneMore
  <2>3. \A T \in SUBSET S : Weight(T, g) = Weight(T, f)
    BY <2>2
  <2> QED
    BY <2>1, <2>3
<1> DEFINE w == Weights(g, S)
<1> HIDE DEF w
<1>5. Leasts(F, w, S) /\ \A T \in SUBSET S : w[T] = Weight(T, f)
  BY <1>3, <1>4 DEF w
<1>6. LeastIn(S, f) = F[S]
  BY <1>1, <1>2, <1>5, LeastAt
<1> QED
  BY <1>3, <1>6

\* No node of Q but L and R is lighter than one of them.
LightestNodes(L, R, Q, forest) ==
  /\ L \in Q /\ R \in Q /\ L # R
  /\ \A u \in Q \ {L, R} : forest[L].v <= forest[u].v /\ forest[R].v <= forest[u].v

\* Node z of g weighs what L and R weigh together.
Outweighs(z, g, L, R, f) == g[z].v = f[L].v + f[R].v

\* Q with z in the place of L and R.
Joint(Q, L, R, z) == (Q \ {L, R}) \cup {z}

\* Q costs more than Q2 by the frequency of z.
Outweighed(Q, f, Q2, g, z) == LeastIn(Q, f) = LeastIn(Q2, g) + g[z].v

\* Huffman's step: the parent of the two lightest adds its frequency to the
\* internal nodes and takes it from the least cost of what is left.
LEMMA ParentCosts ==
  ASSUME NEW f, NEW g, NEW n, OneWeighted(f, g, n), NEW Q, Q \subseteq 1 .. n,
         NEW L, NEW R, LightestNodes(L, R, Q, f), Outweighs(n + 1, g, L, R, f)
  PROVE  Outweighed(Q, f, Joint(Q, L, R, n + 1), g, n + 1)
<1> DEFINE U == 1 .. n + 1
           z == n + 1
           w == Weights(g, U)
           Q2 == (Q \ {L, R}) \cup {z}
<1>1. n \in Nat /\ Weighted(f, n) /\ Weighted(g, n + 1) /\ OneMore(f, g, n)
  BY DEF OneWeighted, Weighted, Forest
<1>2. IsFiniteSet(U) /\ z \in U /\ L \in U /\ R \in U /\ z \notin Q /\ L \in Q /\ R \in Q /\ L # R
      /\ Q \in SUBSET U /\ Q2 \in SUBSET U
  <2>1. IsFiniteSet(U)
    <3>1. 1 \in Int /\ n + 1 \in Int
      BY <1>1
    <3> QED
      BY ONLY <3>1, FS_Interval
  <2>2. L \in Q /\ R \in Q /\ L # R
    BY DEF LightestNodes
  <2> QED
    BY <1>1, <2>1, <2>2
<1>3. Additive(w, U) /\ \A T \in SUBSET U : w[T] = Weight(T, g)
  BY <1>1, WeightsAdd
<1>4. \A k \in U : w[{k}] = g[k].v
  <2>1. \A k \in U : Weight({k}, g) = g[k].v
    BY <1>1, WeightOfOne
  <2>2. \A k \in U : {k} \in SUBSET U
    OBVIOUS
  <2> HIDE DEF w, U
  <2> QED
    BY <1>3, <2>1, <2>2
<1>5. \A k \in 1 .. n : g[k] = f[k]
  BY <1>1 DEF OneMore
<1>6. w[{z}] = w[{L}] + w[{R}] /\ w[{z}] = g[z].v /\ g[z].v \in Nat
  <2>1. L \in 1 .. n /\ R \in 1 .. n
    BY DEF LightestNodes
  <2>2. w[{z}] = g[z].v /\ w[{L}] = g[L].v /\ w[{R}] = g[R].v
    BY <1>2, <1>4
  <2>3. g[z].v \in Nat
    BY <1>1 DEF Weighted
  <2> QED
    BY <1>5, <2>1, <2>2, <2>3 DEF Outweighs
<1>7. Lightest(L, R, Q, w)
  <2>1. ASSUME NEW u \in Q \ {L, R}
        PROVE  w[{L}] <= w[{u}] /\ w[{R}] <= w[{u}]
    <3>1. L \in 1 .. n /\ R \in 1 .. n /\ u \in 1 .. n /\ u \in U
      <4>1. L \in Q /\ R \in Q /\ u \in Q
        BY <1>2
      <4>2. L \in 1 .. n /\ R \in 1 .. n /\ u \in 1 .. n
        BY <4>1
      <4> QED
        BY <1>1, <4>2
    <3>2. w[{u}] = f[u].v /\ w[{L}] = f[L].v /\ w[{R}] = f[R].v
      BY <1>2, <1>4, <1>5, <3>1
    <3> QED
      BY <3>2 DEF LightestNodes
  <2> QED
    BY <1>2, <2>1 DEF Lightest
<1>8. PICK F : Leasts(F, w, U)
  BY <1>1, <1>2, LeastsExist
<1>9. Q2 # {} /\ Q # {} /\ IsFiniteSet(Q2) /\ IsFiniteSet(Q) /\ z \in Q2 /\ L \notin Q2 /\ R \notin Q2
      /\ (Q2 \ {z}) \cup {L, R} = Q
  <2>1. L # z /\ R # z
    BY <1>2
  <2>2. IsFiniteSet(Q2) /\ IsFiniteSet(Q)
    BY <1>2, FS_Subset
  <2> QED
    BY <1>2, <2>1, <2>2
<1>10. \A T \in SUBSET Q : w[T] = Weight(T, f)
  <2>1. \A T : T \subseteq 1 .. n => Weight(T, g) = Weight(T, f)
    BY ONLY <1>1, WeightOfOneMore
  <2>2. \A T \in SUBSET Q : Weight(T, g) = Weight(T, f)
    BY <2>1
  <2> HIDE DEF w, U
  <2>3. \A T \in SUBSET Q : T \in SUBSET U
    BY <1>2
  <2> QED
    BY <1>3, <2>2, <2>3
<1>11. \A T \in SUBSET Q2 : w[T] = Weight(T, g)
  <2>1. \A T \in SUBSET Q2 : T \in SUBSET U
    BY <1>2
  <2> HIDE DEF w, U, Q2
  <2> QED
    BY <1>3, <2>1
<1> HIDE DEF w, U, z
<1>12. Joining(Q, L, R, z, F, w)
  BY <1>2, <1>3, <1>6, <1>7, <1>8, LightestJoined
<1>13. F[Q2] + w[{z}] <= F[Q]
  BY <1>12 DEF Joining
<1>14. F[Q] <= F[Q2] + w[{z}]
  <2> HIDE DEF Q2
  <2>1. F[(Q2 \ {z}) \cup {L, R}] <= F[Q2] + w[{z}]
    BY <1>2, <1>3, <1>6, <1>8, <1>9, LeafDivided
  <2> QED
    BY <1>9, <2>1
<1> HIDE DEF Q2
<1>15. LeastIn(Q, f) = F[Q]
  <2>1. Q \subseteq U
    BY <1>2
  <2> QED
    BY ONLY <1>1, <1>8, <1>9, <1>10, <2>1, LeastAt
<1>16. LeastIn(Q2, g) = F[Q2]
  <2>1. Q2 \subseteq U
    BY <1>2
  <2> QED
    BY <1>1, <1>8, <1>9, <1>11, <2>1, LeastAt
<1>17. F[Q] \in Nat /\ F[Q2] \in Nat
  BY <1>2, <1>8 DEF Leasts
<1>18. F[Q] = F[Q2] + w[{z}]
  BY <1>6, <1>13, <1>14, <1>17
<1> QED
  BY <1>6, <1>15, <1>16, <1>18 DEF z, Q2, Outweighed, Joint

-------------------------------------------------------------------------------
\* Sorted, the first two are the lightest, and without them it is sorted still.
LEMMA FirstTwo ==
  ASSUME NEW S, NEW q \in Seq(S), Len(q) > 1, Distinct(q), NEW forest,
         \A s \in S : forest[s].v \in Nat, Sorted(q, forest)
  PROVE  LightestNodes(q[1], q[2], ToSet(q), forest)
<1>1. Len(q) \in Nat /\ DOMAIN q = 1 .. Len(q) /\ 1 \in DOMAIN q /\ 2 \in DOMAIN q
  OBVIOUS
<1>2. q[1] \in ToSet(q) /\ q[2] \in ToSet(q) /\ q[1] # q[2]
  BY <1>1, TwoTaken
<1>3. ASSUME NEW u \in ToSet(q) \ {q[1], q[2]}
      PROVE  forest[q[1]].v <= forest[u].v /\ forest[q[2]].v <= forest[u].v
  <2>1. PICK i \in DOMAIN q : u = q[i]
    BY DEF ToSet
  <2>2. i # 1 /\ i # 2
    BY <1>3, <2>1
  <2>3. 1 < i /\ 2 < i
    BY <1>1, <2>1, <2>2
  <2> QED
    BY <1>1, <2>1, <2>3 DEF Sorted
<1> QED
  BY <1>2, <1>3 DEF LightestNodes

\* With room in the array the sort leaves the queue sorted.
LEMMA SortedQueue ==
  ASSUME NEW q, Len(q) < MAXSIZE, Len(q) \in Nat, NEW n, NEW forest,
         NEW t \in pqueue_enqueue(q, n, forest)
  PROVE  Sorted(t, forest)
<1>1. ~ Len(q) >= MAXSIZE
  BY SizesAssumption
<1> QED
  BY <1>1 DEF pqueue_enqueue, Sortings

\* The nodes with children.
Internals(forest) == {n \in DOMAIN forest : forest[n].type = "INTERNAL"}

\* What the internal nodes cost and the nodes in the queue will cost is together
\* the least the leaves can.
Balanced(q, forest) ==
  Weight(Internals(forest), forest) + LeastIn(ToSet(q), forest)
    = LeastIn(LeavesOf(forest), forest)

\* What the queue and the nodes made are worth in each phase: the queue is sorted,
\* and what is done and what is to do cost together the least.
CostInv ==
  /\ Sorted(queue, nodes)
  /\ phase \in {"count", "nodes"} =>
       LeavesOf(nodes) = DOMAIN nodes /\ ToSet(queue) = DOMAIN nodes
  /\ phase = "build" => Balanced(queue, nodes)
  /\ phase = "built" /\ root # NULL =>
       Weight(Internals(nodes), nodes) = LeastIn(LeavesOf(nodes), nodes)

\* The nodes of the state have frequencies.
LEMMA NodesWeighted ==
  ASSUME NEW f \in Seq(Node), Grown(f)
  PROVE  Weighted(f, Len(f)) /\ DOMAIN f = 1 .. Len(f) /\ Len(f) \in Nat
         /\ \A k \in DOMAIN f : f[k] \in Node /\ f[k].v \in Nat
<1>1. Len(f) \in Nat /\ DOMAIN f = 1 .. Len(f) /\ \A k \in 1 .. Len(f) : f[k] \in Node
  OBVIOUS
<1>2. \A x \in Node : x.v \in Nat /\ x.v \in Int
  BY DEF Node
<1>3. \A k \in 1 .. Len(f) : f[k].v \in Nat /\ f[k].v \in Int
  BY ONLY <1>1, <1>2
<1> QED
  BY <1>1, <1>3 DEF Weighted, Forest

\* A parent for the two lightest of the queue keeps the balance.
LEMMA StaysBalanced ==
  ASSUME NEW f, NEW g, NEW n, OneWeighted(f, g, n), NEW q, NEW t, ToSet(q) \subseteq 1 .. n,
         NEW L, NEW R, LightestNodes(L, R, ToSet(q), f),
         g[n + 1].type = "INTERNAL", g[n + 1].v = f[L].v + f[R].v,
         ToSet(t) = (ToSet(q) \ {L, R}) \cup {n + 1}, Balanced(q, f)
  PROVE  Balanced(t, g)
<1>1. /\ n \in Nat /\ DOMAIN f = 1 .. n /\ DOMAIN g = 1 .. n + 1
      /\ Weighted(f, n) /\ Weighted(g, n + 1) /\ OneMore(f, g, n) /\ Forest(g, n + 1)
      /\ Grown(f) /\ \A k \in 1 .. n : g[k] = f[k]
  BY DEF OneWeighted, OneMore, Forest
<1>2. L \in 1 .. n
  BY DEF LightestNodes
<1>3. LeavesOf(g) = LeavesOf(f) /\ Internals(g) = Internals(f) \cup {n + 1}
      /\ LeavesOf(f) \subseteq 1 .. n /\ Internals(f) \subseteq 1 .. n /\ n + 1 \notin 1 .. n
  <2>1. \A k \in 1 .. n + 1 : k \in 1 .. n \/ k = n + 1
    BY <1>1
  <2> QED
    BY <1>1, <2>1 DEF LeavesOf, Internals
<1>4. 1 \in LeavesOf(f)
  <2>1. 1 \in 1 .. n
    BY <1>1, <1>2
  <2>2. f[1].left \in 0 .. 1 - 1 /\ (f[1].left = NULL <=> f[1].type = "LEAF")
    BY <1>1, <2>1 DEF Grown
  <2>3. f[1].left = NULL
    BY <2>2 DEF NULL
  <2> QED
    BY <1>1, <2>1, <2>2, <2>3 DEF LeavesOf
<1>5. LeastIn(LeavesOf(f), f) = LeastIn(LeavesOf(f), g)
  BY <1>3, <1>4, LeastStays
<1>6. LeastIn(ToSet(q), f) = LeastIn(ToSet(t), g) + g[n + 1].v
  <2> DEFINE Q == ToSet(q)
  <2>1. Q \subseteq 1 .. n /\ LightestNodes(L, R, Q, f) /\ OneWeighted(f, g, n)
        /\ Outweighs(n + 1, g, L, R, f)
    BY DEF Outweighs
  <2>2. Joint(Q, L, R, n + 1) = ToSet(t)
    BY DEF Joint
  <2> HIDE DEF Q
  <2>3. Outweighed(Q, f, Joint(Q, L, R, n + 1), g, n + 1)
    BY ONLY <2>1, ParentCosts
  <2> QED
    BY <2>2, <2>3 DEF Q, Outweighed
<1>7. Weight(Internals(g), g) = Weight(Internals(f), f) + g[n + 1].v
  <2> DEFINE N == {n + 1}
             I == Internals(f)
  <2>1. I \cap N = {} /\ Internals(g) = I \cup N /\ I \subseteq 1 .. n
    BY <1>3
  <2>2. Weight(N, g) = g[n + 1].v /\ \A S : S \subseteq 1 .. n => Weight(S, g) = Weight(S, f)
    BY ONLY <1>1, WeightOfOneMore
  <2> HIDE DEF N, I
  <2>3. Weight(I \cup N, g) = Weight(I, g) + Weight(N, g)
    BY <1>1, <2>1, WeightPlus
  <2>4. Weight(I, g) = Weight(I, f)
    BY <2>1, <2>2
  <2> QED
    BY <2>1, <2>2, <2>3, <2>4 DEF I
<1>8. /\ Weight(Internals(f), f) \in Nat /\ g[n + 1].v \in Nat
      /\ LeastIn(ToSet(t), g) \in Nat
  <2>1. IsFiniteSet(1 .. n + 1)
    <3>1. 1 \in Int /\ n + 1 \in Int
      BY <1>1
    <3> QED
      BY ONLY <3>1, FS_Interval
  <2>2. ToSet(t) \subseteq 1 .. n + 1
    BY <1>1
  <2>3. IsFiniteSet(ToSet(t))
    BY <2>1, <2>2, FS_Subset
  <2>4. LeastIn(ToSet(t), g) \in Nat
    BY <1>1, <2>3, LeastNat
  <2>5. Weight(Internals(f), f) \in Nat
    BY <1>1, WeightNat
  <2>6. g[n + 1].v \in Nat
    BY <1>1 DEF Weighted
  <2> QED
    BY <2>4, <2>5, <2>6
<1>9. Weight(Internals(f), f) + LeastIn(ToSet(q), f) = LeastIn(LeavesOf(f), f)
  BY DEF Balanced
<1> DEFINE a == Weight(Internals(f), f)
           b == LeastIn(ToSet(t), g)
           v == g[n + 1].v
           w == Weight(Internals(g), g)
           d == LeastIn(ToSet(q), f)
           e == LeastIn(LeavesOf(f), f)
<1>10. a \in Nat /\ b \in Nat /\ v \in Nat /\ a + d = e /\ d = b + v /\ w = a + v
  BY <1>6, <1>7, <1>8, <1>9
<1> HIDE DEF a, b, v, w, d, e
<1>11. w + b = e
  BY ONLY <1>10
<1> QED
  BY <1>3, <1>5, <1>11 DEF Balanced, b, w, e

-------------------------------------------------------------------------------
\* Before there are nodes nothing costs.
LEMMA CostInit == HuffInit => CostInv
<1> SUFFICES ASSUME HuffInit PROVE CostInv
  OBVIOUS
<1>1. phase = "count" /\ nodes = <<>> /\ queue = <<>>
  BY DEF HuffInit
<1>2. DOMAIN nodes = {} /\ DOMAIN queue = {}
  BY <1>1
<1> QED
  BY <1>1, <1>2 DEF CostInv, Sorted, LeavesOf, ToSet

\* A leaf joins the queue.
LEMMA CostOfLeaf ==
  ASSUME HuffInv, HuffInv', CostInv, create_tree_nodes, table[at] > 0
  PROVE  CostInv'
<1> DEFINE n == Len(nodes)
           x == [type |-> "LEAF", c |-> at, v |-> table[at], left |-> NULL, right |-> NULL]
<1>1. /\ phase = "nodes" /\ at \in Chars
      /\ nodes' = Append(nodes, x)
      /\ queue' \in pqueue_enqueue(queue, Len(nodes'), nodes')
      /\ UNCHANGED <<phase, root>>
  BY DEF create_tree_nodes
<1>2. nodes \in Seq(Node) /\ queue \in Seq(DOMAIN nodes) /\ Distinct(queue)
  BY DEF HuffInv, HuffTypeOK
<1>3. n \in Nat /\ DOMAIN nodes = 1 .. n /\ DOMAIN nodes' = 1 .. n + 1 /\ Len(nodes') = n + 1
      /\ nodes'[n + 1].type = "LEAF" /\ \A k \in 1 .. n : nodes'[k] = nodes[k]
  BY <1>1, <1>2
<1>4. LeavesOf(nodes) = 1 .. n /\ ToSet(queue) = 1 .. n
  BY <1>1, <1>3 DEF CostInv
<1>5. Len(queue) < MAXSIZE /\ Len(queue) \in Nat
  BY <1>2, InvHasRoom DEF QueueHasRoom
<1>6. Sorted(queue', nodes')
  BY <1>1, <1>5, SortedQueue
<1>7. ToSet(queue') = 1 .. n + 1
  <2>1. queue \in Seq(1 .. n + 1) /\ n + 1 \in 1 .. n + 1 /\ n + 1 \notin ToSet(queue)
        /\ queue' \in pqueue_enqueue(queue, n + 1, nodes')
    BY <1>1, <1>2, <1>3, <1>4
  <2>2. ToSet(queue') = ToSet(queue) \cup {n + 1}
    BY ONLY <1>2, <1>5, <2>1, Enqueued
  <2> QED
    BY <1>3, <1>4, <2>2
<1>8. LeavesOf(nodes') = 1 .. n + 1
  <2>1. \A k \in 1 .. n : nodes[k].type = "LEAF"
    BY <1>3, <1>4 DEF LeavesOf
  <2>2. \A k \in 1 .. n + 1 : k \in 1 .. n \/ k = n + 1
    BY <1>3
  <2>3. \A k \in 1 .. n + 1 : nodes'[k].type = "LEAF"
    BY <1>3, <2>1, <2>2
  <2> QED
    BY <1>3, <2>3 DEF LeavesOf
<1> HIDE DEF x
<1> QED
  BY <1>1, <1>3, <1>6, <1>7, <1>8 DEF CostInv

\* Two nodes of the queue get a parent.
LEMMA CostOfParent ==
  ASSUME HuffInv, HuffInv', CostInv, build_tree
  PROVE  CostInv'
<1> DEFINE n == Len(nodes)
           L == queue[1]
           R == queue[2]
           x == Internal(L, R)
           q == TakenTwo(queue)
<1>1. /\ phase = "build" /\ Len(queue) > 1
      /\ nodes' = Append(nodes, x)
      /\ queue' \in pqueue_enqueue(q, Len(nodes'), nodes')
      /\ UNCHANGED <<phase, root>>
  BY DEF build_tree
<1>2. nodes \in Seq(Node) /\ queue \in Seq(DOMAIN nodes) /\ Distinct(queue) /\ Grown(nodes)
      /\ nodes' \in Seq(Node) /\ Grown(nodes')
  BY DEF HuffInv, HuffTypeOK
<1>3. /\ n \in Nat /\ DOMAIN nodes = 1 .. n /\ DOMAIN nodes' = 1 .. n + 1 /\ Len(nodes') = n + 1
      /\ nodes'[n + 1] = x /\ \A k \in 1 .. n : nodes'[k] = nodes[k]
  BY <1>1, <1>2
<1>4. x.type = "INTERNAL" /\ x.v = nodes[L].v + nodes[R].v
  BY DEF Internal
<1>5. /\ queue \in Seq(1 .. n) /\ q \in Seq(1 .. n) /\ Len(q) = Len(queue) - 2
      /\ ToSet(q) = ToSet(queue) \ {L, R} /\ Distinct(q)
  BY <1>1, <1>2, <1>3, TwoTaken
<1>6. LightestNodes(L, R, ToSet(queue), nodes)
  <2>1. \A s \in 1 .. n : nodes[s].v \in Nat
    BY <1>2, <1>3, NodesWeighted
  <2>2. Sorted(queue, nodes)
    BY DEF CostInv
  <2> QED
    BY <1>1, <1>2, <1>5, <2>1, <2>2, FirstTwo
<1> HIDE DEF q, L, R, x
<1>7. Weighted(nodes, n) /\ Weighted(nodes', n + 1)
  <2>1. Weighted(nodes, Len(nodes))
    BY <1>2, NodesWeighted
  <2>2. Weighted(nodes', Len(nodes'))
    BY <1>2, NodesWeighted
  <2> QED
    BY <1>3, <2>1, <2>2
<1>8. OneWeighted(nodes, nodes', n)
  BY <1>3, <1>7 DEF OneWeighted, OneMore, Weighted
<1>9. Len(q) < MAXSIZE /\ Len(q) \in Nat
  <2>1. Len(queue) < MAXSIZE /\ Len(queue) \in Nat
    BY <1>2, InvHasRoom DEF QueueHasRoom
  <2> QED
    BY <1>1, <1>5, <2>1, SizesAssumption
<1>10. Sorted(queue', nodes')
  BY <1>1, <1>9, SortedQueue
<1>11. ToSet(queue) \subseteq 1 .. n
  BY <1>5 DEF ToSet
<1>12. ToSet(queue') = (ToSet(queue) \ {L, R}) \cup {n + 1}
  <2>1. q \in Seq(1 .. n + 1) /\ n + 1 \in 1 .. n + 1 /\ n + 1 \notin ToSet(q)
        /\ queue' \in pqueue_enqueue(q, n + 1, nodes')
    BY <1>1, <1>3, <1>5, <1>11
  <2>2. ToSet(queue') = ToSet(q) \cup {n + 1}
    <3> HIDE DEF n
    <3>1. Len(q) < MAXSIZE /\ Distinct(q)
      BY <1>5, <1>9
    <3> QED
      BY ONLY <2>1, <3>1, Enqueued, SMTT(30)
  <2> QED
    BY <1>5, <2>2
<1>13. Balanced(queue, nodes)
  BY <1>1 DEF CostInv
<1>14. Balanced(queue', nodes')
  <2>1. nodes'[n + 1].type = "INTERNAL" /\ nodes'[n + 1].v = nodes[L].v + nodes[R].v
    BY <1>3, <1>4
  <2> HIDE DEF n
  <2> QED
    BY <1>6, <1>8, <1>11, <1>12, <1>13, <2>1, StaysBalanced
<1> QED
  BY <1>1, <1>10, <1>14 DEF CostInv

\* The tree, finished.
LEMMA CostWhenDone ==
  ASSUME HuffInv, CostInv, BuildDone
  PROVE  CostInv'
<1>1. /\ phase = "build" /\ Len(queue) <= 1 /\ phase' = "built"
      /\ root' = IF queue = <<>> THEN NULL ELSE queue[1]
      /\ queue' = <<>> /\ nodes' = nodes
  BY DEF BuildDone
<1>2. nodes \in Seq(Node) /\ queue \in Seq(DOMAIN nodes) /\ Grown(nodes)
  BY DEF HuffInv, HuffTypeOK
<1>3. Weighted(nodes, Len(nodes))
  BY <1>2, NodesWeighted
<1>4. Sorted(queue', nodes')
  BY <1>1 DEF Sorted
<1>5. ASSUME root' # NULL
      PROVE  Weight(Internals(nodes), nodes) = LeastIn(LeavesOf(nodes), nodes)
  <2>1. Len(queue) = 1 /\ DOMAIN queue = {1}
    <3>1. queue # <<>> /\ Len(queue) \in Nat /\ DOMAIN queue = 1 .. Len(queue)
      BY <1>1, <1>2, <1>5
    <3>2. Len(queue) # 0
      BY <1>2, <3>1
    <3>3. Len(queue) = 1
      BY <1>1, <3>1, <3>2
    <3> QED
      BY <3>1, <3>3
  <2>2. ToSet(queue) = {queue[1]}
    BY <2>1 DEF ToSet
  <2>3. LeastIn(ToSet(queue), nodes) = 0
    BY <1>3, <2>2, LeastOfOne
  <2>4. Weight(Internals(nodes), nodes) \in Nat
    BY <1>3, WeightNat
  <2>5. Weight(Internals(nodes), nodes) + LeastIn(ToSet(queue), nodes)
          = LeastIn(LeavesOf(nodes), nodes)
    BY <1>1 DEF CostInv, Balanced
  <2> QED
    BY <2>3, <2>4, <2>5
<1> QED
  BY <1>1, <1>4, <1>5 DEF CostInv

\* Every step of the building keeps the costs.
LEMMA CostStep == HuffInv /\ CostInv /\ [HuffNext]_huffVars => CostInv'
<1> SUFFICES ASSUME HuffInv, CostInv, [HuffNext]_huffVars
             PROVE  CostInv'
  OBVIOUS
<1>0. HuffInv'
  BY HuffStepInv
<1>1. CASE UNCHANGED <<phase, nodes, queue, root>>
  BY <1>1 DEF CostInv
<1>2. CASE CountChar
  <2>1. UNCHANGED <<phase, nodes, queue, root>>
    BY <1>2 DEF CountChar
  <2> QED
    BY <1>1, <2>1
<1>3. CASE InputEnds
  <2>1. phase = "count" /\ phase' = "nodes" /\ UNCHANGED <<nodes, queue, root>>
    BY <1>3 DEF InputEnds
  <2> QED
    BY <2>1 DEF CostInv
<1>4. CASE create_tree_nodes
  <2>1. CASE table[at] > 0
    BY <1>0, <1>4, <2>1, CostOfLeaf
  <2>2. CASE ~ table[at] > 0
    <3>1. UNCHANGED <<phase, nodes, queue, root>>
      BY <1>4, <2>2 DEF create_tree_nodes
    <3> QED
      BY <1>1, <3>1
  <2> QED
    BY <2>1, <2>2
<1>5. CASE NodesDone
  <2>1. phase = "nodes" /\ phase' = "build" /\ UNCHANGED <<nodes, queue, root>>
    BY <1>5 DEF NodesDone
  <2>2. LeavesOf(nodes) = ToSet(queue) /\ Internals(nodes) = {} /\ Sorted(queue, nodes)
    BY <2>1 DEF CostInv, LeavesOf, Internals
  <2>3. nodes \in Seq(Node) /\ Grown(nodes)
    BY DEF HuffInv, HuffTypeOK
  <2>4. Weighted(nodes, Len(nodes)) /\ Len(nodes) \in Nat /\ DOMAIN nodes = 1 .. Len(nodes)
    BY <2>3, NodesWeighted
  <2>5. IsFiniteSet(LeavesOf(nodes))
    <3>1. 1 \in Int /\ Len(nodes) \in Int
      BY <2>4
    <3>2. IsFiniteSet(1 .. Len(nodes))
      BY ONLY <3>1, FS_Interval
    <3>3. LeavesOf(nodes) \subseteq 1 .. Len(nodes)
      BY <2>4 DEF LeavesOf
    <3> QED
      BY <3>2, <3>3, FS_Subset
  <2>6. LeastIn(LeavesOf(nodes), nodes) \in Nat /\ Weight(Internals(nodes), nodes) = 0
    BY <2>2, <2>4, <2>5, LeastNat, WeightNone
  <2>7. Balanced(queue, nodes)
    BY <2>2, <2>6 DEF Balanced
  <2> QED
    BY <2>1, <2>2, <2>7 DEF CostInv
<1>6. CASE build_tree
  BY <1>0, <1>6, CostOfParent
<1>7. CASE BuildDone
  BY <1>7, CostWhenDone
<1>8. CASE UNCHANGED huffVars
  <2>1. UNCHANGED <<phase, nodes, queue, root>>
    BY <1>8 DEF huffVars
  <2> QED
    BY <1>1, <2>1
<1> QED
  BY <1>2, <1>3, <1>4, <1>5, <1>6, <1>7, <1>8 DEF HuffNext

\* The costs, within the two programs.
LEMMA HzipCostInv == Spec => [](HuffInv /\ CostInv)
<1>1. Init => HuffInv /\ CostInv
  BY HuffInitInv, CostInit DEF Init
<1>2. HuffInv /\ CostInv /\ [Next]_vars => (HuffInv /\ CostInv)'
  BY HzipBuildsStep, HuffStepInv, CostStep
<1> QED
  BY <1>1, <1>2, PTL DEF Spec

\* What is known of the costs is that the tree is optimal.
LEMMA InvOptimal == HuffInv /\ CostInv => OptimalTree
<1> SUFFICES ASSUME HuffInv, CostInv, phase = "built", root # NULL
             PROVE  TreeCost = LeastCost(LeavesOf(nodes))
  BY DEF OptimalTree
<1>1. queue = <<>> /\ ForestOf(Roots, nodes)
  BY DEF HuffInv, QueueInv
<1>2. Roots = {root}
  BY <1>1 DEF Roots, ToSet
<1>3. Below(root, nodes) = DOMAIN nodes
  BY <1>1, <1>2 DEF ForestOf
<1>4. TreeCost = Weight(Internals(nodes), nodes)
  BY <1>3 DEF TreeCost, Internals
<1>5. Weight(Internals(nodes), nodes) = LeastIn(LeavesOf(nodes), nodes)
  BY DEF CostInv
<1> QED
  BY <1>4, <1>5, LeastCostIs

\* The tree codes the characters counted in as few bits as any binary tree over
\* them, for every file and in whatever order qsort puts equal frequencies
\* (huffman.c 137-165, pqueue.c 40-57).
THEOREM OptimalTreeHolds == Spec => []OptimalTree
<1>1. HuffInv /\ CostInv => OptimalTree
  BY InvOptimal
<1> QED
  BY <1>1, HzipCostInv, PTL
================================================================================
