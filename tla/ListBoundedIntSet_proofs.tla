------------------------ MODULE ListBoundedIntSet_proofs ------------------------
(***************************************************************************)
(* Proofs about the bounded set of ints.  The chain is given by a          *)
(* numbering c of the nodes, which the links of the nodes follow.          *)
(***************************************************************************)
EXTENDS ListBoundedIntSet, FiniteSetTheorems, SequenceTheorems, Sums_proofs

\* The links lead from head through all nodes, each once, in the order of c.
Runs(c, h, nx) ==
  /\ c \in [Nodes -> Nodes]
  /\ \A j, k \in Nodes : c[j] = c[k] => j = k
  /\ c[1] = h
  /\ \A k \in Nodes : nx[c[k]] = IF k = Capacity THEN NULL ELSE c[k + 1]

\* The values are distinct, and the empty nodes are at the end.
InOrder(c, val) ==
  \A j, k \in Nodes : j < k => val[c[k]] = -1 \/ val[c[j]] \notin {-1, val[c[k]]}

TypeOK ==
  /\ next \in [Nodes -> Nodes \cup {NULL}]
  /\ value \in [Nodes -> Values \cup {-1}]

ChainInv == TypeOK /\ \E c : Runs(c, head, next) /\ InOrder(c, value)

\* The definition of the chain, as an equation.
IsChain(u, h, nx) ==
  u = [k \in 1 .. Capacity + 1 |->
         IF k = 1 THEN h ELSE IF u[k - 1] = NULL THEN NULL ELSE nx[u[k - 1]]]

LEMMA CapacityFacts ==
  /\ Capacity \in Nat /\ Capacity >= 1 /\ NULL \notin Nodes
  /\ 1 \in Nodes /\ Capacity \in Nodes /\ Nodes \subseteq Nat
BY CapacityAssumption DEF Nodes

\* The equation has one solution: c, and the end behind it.
LEMMA ChainFollows ==
  ASSUME NEW c, NEW h, NEW nx, Runs(c, h, nx), NEW u, u = CHOOSE x : IsChain(x, h, nx)
  PROVE  /\ DOMAIN u = 1 .. Capacity + 1
         /\ \A k \in Nodes : u[k] = c[k]
         /\ u[Capacity + 1] = NULL
<1> DEFINE d == [k \in 1 .. Capacity + 1 |-> IF k = Capacity + 1 THEN NULL ELSE c[k]]
           e == [k \in 1 .. Capacity + 1 |->
                   IF k = 1 THEN h ELSE IF d[k - 1] = NULL THEN NULL ELSE nx[d[k - 1]]]
<1>1. IsChain(d, h, nx)
  <2>1. ASSUME NEW k \in 1 .. Capacity + 1
        PROVE  d[k] = e[k]
    <3>1. CASE k = 1
      BY <3>1, CapacityFacts DEF Runs
    <3>2. CASE k # 1
      <4>1. k - 1 \in Nodes /\ k - 1 # Capacity + 1 /\ (k - 1) + 1 = k
        BY <3>2, CapacityFacts DEF Nodes
      <4>2. d[k - 1] = c[k - 1] /\ c[k - 1] # NULL
        BY <4>1, CapacityFacts DEF Runs, Nodes
      <4>3. nx[c[k - 1]] = IF k - 1 = Capacity THEN NULL ELSE c[k]
        BY <4>1 DEF Runs
      <4> QED
        BY <3>2, <4>1, <4>2, <4>3, CapacityFacts
    <3> QED
      BY <3>1, <3>2
  <2>2. d = e
    BY <2>1
  <2> QED
    BY <2>2 DEF IsChain
<1>2. IsChain(u, h, nx)
  BY <1>1
<1>3. DOMAIN u = 1 .. Capacity + 1
  BY <1>2 DEF IsChain
<1>4. /\ u[1] = h
      /\ \A k \in Nodes : u[k + 1] = IF u[k] = NULL THEN NULL ELSE nx[u[k]]
  <2>1. \A k \in 1 .. Capacity + 1 :
          u[k] = IF k = 1 THEN h ELSE IF u[k - 1] = NULL THEN NULL ELSE nx[u[k - 1]]
    BY <1>2 DEF IsChain
  <2>2. u[1] = h
    BY <2>1, CapacityFacts
  <2>3. ASSUME NEW k \in Nodes
        PROVE  u[k + 1] = IF u[k] = NULL THEN NULL ELSE nx[u[k]]
    <3>1. k + 1 \in 1 .. Capacity + 1 /\ k + 1 # 1 /\ (k + 1) - 1 = k
      BY CapacityFacts DEF Nodes
    <3> QED
      BY <2>1, <3>1
  <2> QED
    BY <2>2, <2>3
<1> DEFINE S == {k \in Nat : k + 1 \in Nodes => u[k + 1] = c[k + 1]}
<1>5. 0 \in S
  BY <1>4 DEF Runs
<1>6. ASSUME NEW k \in Nat, k \in S
      PROVE  k + 1 \in S
  <2> SUFFICES ASSUME (k + 1) + 1 \in Nodes PROVE u[(k + 1) + 1] = c[(k + 1) + 1]
    OBVIOUS
  <2>1. k + 1 \in Nodes /\ k + 1 # Capacity
    BY CapacityFacts DEF Nodes
  <2>2. u[k + 1] = c[k + 1] /\ c[k + 1] # NULL
    BY <1>6, <2>1, CapacityFacts DEF Runs
  <2>3. nx[c[k + 1]] = c[(k + 1) + 1]
    BY <2>1 DEF Runs
  <2> QED
    BY <1>4, <2>1, <2>2, <2>3
<1>7. Nat \subseteq S
  <2> HIDE DEF S
  <2> QED
    BY <1>5, <1>6, NatInductionOnSets
<1>8. ASSUME NEW k \in Nodes PROVE u[k] = c[k]
  <2>1. k - 1 \in Nat /\ (k - 1) + 1 = k
    BY CapacityFacts DEF Nodes
  <2> QED
    BY <1>7, <2>1
<1>9. u[Capacity + 1] = NULL
  BY <1>4, <1>8, CapacityFacts DEF Runs
<1> QED
  BY <1>3, <1>8, <1>9

LEMMA ChainIs ==
  /\ \A c : Runs(c, head, next) =>
       /\ DOMAIN chain = 1 .. Capacity + 1
       /\ \A k \in Nodes : chain[k] = c[k]
       /\ chain[Capacity + 1] = NULL
  /\ \A c : Runs(c, head', next') =>
       /\ DOMAIN chain' = 1 .. Capacity + 1
       /\ \A k \in Nodes : chain'[k] = c[k]
       /\ chain'[Capacity + 1] = NULL
<1>1. chain = CHOOSE x : IsChain(x, head, next)
  BY DEF chain, IsChain
<1>2. chain' = CHOOSE x : IsChain(x, head', next')
  BY DEF chain, IsChain
<1> QED
  BY <1>1, <1>2, ChainFollows

-------------------------------------------------------------------------------
\* What a search sees, in terms of the numbering.
LEMMA Seen ==
  ASSUME TypeOK, NEW c, Runs(c, head, next)
  PROVE  /\ DOMAIN chain = 1 .. Capacity + 1
         /\ \A k \in Nodes : chain[k] = c[k] /\ c[k] \in Nodes /\ c[k] # NULL
         /\ chain[Capacity + 1] = NULL
         /\ \A k \in Nodes : value[c[k]] \in Values \cup {-1}
         /\ \A k \in 1 .. Capacity + 1 :
              Ends(k) <=> (k = Capacity + 1 \/ value[c[k]] = -1)
         /\ \A k \in 1 .. Capacity + 1 : \A v :
              Holds(k, v) <=> (k # Capacity + 1 /\ value[c[k]] = v)
         /\ \A k \in Nodes : IsLast(k) <=> k = Capacity
<1>1. /\ DOMAIN chain = 1 .. Capacity + 1
      /\ \A k \in Nodes : chain[k] = c[k] /\ c[k] \in Nodes /\ c[k] # NULL
      /\ chain[Capacity + 1] = NULL
  BY ChainIs, CapacityFacts DEF Runs
<1>2. \A k \in Nodes : value[c[k]] \in Values \cup {-1}
  BY <1>1 DEF TypeOK
<1>3. \A k \in 1 .. Capacity + 1 : k # Capacity + 1 => k \in Nodes
  BY CapacityFacts DEF Nodes
<1>4. \A x \in Values \cup {-1} : x < 0 <=> x = -1
  BY ValuesAssumption
<1>5. \A k \in 1 .. Capacity + 1 : Ends(k) <=> (k = Capacity + 1 \/ value[c[k]] = -1)
  BY <1>1, <1>2, <1>3, <1>4 DEF Ends, At
<1>6. \A k \in 1 .. Capacity + 1 : \A v :
        Holds(k, v) <=> (k # Capacity + 1 /\ value[c[k]] = v)
  BY <1>1, <1>3 DEF Holds, At
<1>7. \A k \in Nodes : IsLast(k) <=> k = Capacity
  <2> SUFFICES ASSUME NEW k \in Nodes PROVE IsLast(k) <=> k = Capacity
    OBVIOUS
  <2>1. next[c[k]] = IF k = Capacity THEN NULL ELSE c[k + 1]
    BY DEF Runs
  <2>2. k # Capacity => c[k + 1] # NULL
    <3>1. k # Capacity => k + 1 \in Nodes
      BY CapacityFacts DEF Nodes
    <3> QED
      BY <1>1, <3>1
  <2> QED
    BY <1>1, <2>1, <2>2 DEF IsLast
<1> QED
  BY <1>1, <1>2, <1>5, <1>6, <1>7

\* The numbering once the k-th node has been pulled to the head.
Pulled(c, k) ==
  [j \in Nodes |-> IF j = 1 THEN c[k] ELSE IF j <= k THEN c[j - 1] ELSE c[j]]

LEMMA PullKeeps ==
  ASSUME TypeOK, NEW c, Runs(c, head, next), NEW k \in Nodes, pullToHead(k)
  PROVE  Runs(Pulled(c, k), head', next') /\ next' \in [Nodes -> Nodes \cup {NULL}]
<1> DEFINE p == Pulled(c, k)
<1>1. /\ c \in [Nodes -> Nodes] /\ \A i, j \in Nodes : c[i] = c[j] => i = j
      /\ c[1] = head
      /\ \A j \in Nodes : next[c[j]] = IF j = Capacity THEN NULL ELSE c[j + 1]
      /\ chain[k] = c[k]
  BY Seen DEF Runs
<1>2. /\ \A j \in Nodes : j # 1 => j - 1 \in Nodes
      /\ \A j \in Nodes : j # Capacity => j + 1 \in Nodes
      /\ 1 \in Nodes /\ Nodes \subseteq Nat
  BY CapacityFacts DEF Nodes
<1>3. \A j \in Nodes : p[j] = IF j = 1 THEN c[k] ELSE IF j <= k THEN c[j - 1] ELSE c[j]
  BY DEF Pulled
<1>4. p \in [Nodes -> Nodes]
  BY <1>1, <1>2 DEF Pulled
<1>5. \A i, j \in Nodes : p[i] = p[j] => i = j
  BY <1>1, <1>2, <1>3
<1> HIDE DEF p
<1>6. CASE k = 1
  <2>1. head' = head /\ next' = next
    BY <1>2, <1>6 DEF pullToHead
  <2>2. \A j \in Nodes : p[j] = c[j]
    BY <1>2, <1>3, <1>6
  <2>3. \A j \in Nodes : next[p[j]] = IF j = Capacity THEN NULL ELSE p[j + 1]
    BY <1>1, <1>2, <2>2
  <2> QED
    BY <1>1, <1>2, <1>4, <1>5, <2>1, <2>2, <2>3 DEF Runs, p, TypeOK
<1>7. CASE k # 1
  <2>1. k - 1 \in Nodes /\ k > 1 /\ chain[k - 1] = c[k - 1] /\ c[k - 1] # c[k]
    BY <1>1, <1>2, <1>7, Seen
  <2>2. head' = c[k] /\ next' = [next EXCEPT ![c[k - 1]] = next[c[k]], ![c[k]] = c[1]]
    BY <1>1, <1>2, <1>7, <2>1 DEF pullToHead
  <2>3. /\ next'[c[k]] = c[1] /\ next'[c[k - 1]] = next[c[k]]
        /\ \A j \in Nodes : j \notin {k - 1, k} => next'[c[j]] = next[c[j]]
    BY <1>1, <2>1, <2>2 DEF TypeOK
  <2>4. next' \in [Nodes -> Nodes \cup {NULL}]
    BY <1>1, <1>2, <2>1, <2>2 DEF TypeOK
  <2>5. ASSUME NEW j \in Nodes
        PROVE  next'[p[j]] = IF j = Capacity THEN NULL ELSE p[j + 1]
    <3>1. CASE j = 1
      <4>1. j # Capacity /\ p[j] = c[k] /\ p[j + 1] = c[1]
        <5>1. j # Capacity /\ j + 1 \in Nodes /\ j + 1 # 1 /\ j + 1 <= k /\ (j + 1) - 1 = 1
          BY <1>2, <2>1, <3>1 DEF Nodes
        <5> QED
          BY <1>3, <3>1, <5>1
      <4> QED
        BY <2>3, <4>1
    <3>2. CASE j # 1 /\ j < k
      <4>1. j # Capacity /\ j + 1 \in Nodes /\ j + 1 <= k /\ j + 1 # 1 /\ (j + 1) - 1 = j
        BY <1>2, <2>1, <3>2 DEF Nodes
      <4>2. p[j] = c[j - 1] /\ p[j + 1] = c[j] /\ j - 1 \in Nodes /\ j - 1 \notin {k - 1, k}
        <5>1. j \in Nat /\ k \in Nat /\ j <= k
          BY <1>2, <3>2
        <5>2. j - 1 \notin {k - 1, k} /\ j - 1 \in Nodes
          BY <1>2, <3>2, <5>1
        <5> QED
          BY <1>3, <3>2, <4>1, <5>1, <5>2
      <4>3. next[c[j - 1]] = c[j]
        <5>1. j - 1 # Capacity /\ (j - 1) + 1 = j
          BY <1>2, <3>2 DEF Nodes
        <5> QED
          BY <1>1, <4>2, <5>1
      <4> QED
        BY <2>3, <4>1, <4>2, <4>3
    <3>3. CASE j = k
      <4>1. p[j] = c[k - 1]
        BY <1>2, <1>3, <1>7, <3>3
      <4>2. j # Capacity => p[j + 1] = c[j + 1]
        BY <1>2, <1>3, <1>7, <3>3
      <4> QED
        BY <1>1, <2>3, <3>3, <4>1, <4>2
    <3>4. CASE j > k
      <4>1. p[j] = c[j] /\ j \notin {k - 1, k}
        BY <1>2, <1>3, <2>1, <3>4
      <4>2. j # Capacity => p[j + 1] = c[j + 1]
        BY <1>2, <1>3, <2>1, <3>4
      <4> QED
        BY <1>1, <2>3, <4>1, <4>2
    <3>5. j = 1 \/ (j # 1 /\ j < k) \/ j = k \/ j > k
      BY <1>2
    <3> QED
      BY <3>1, <3>2, <3>3, <3>4, <3>5
  <2>6. p[1] = head'
    BY <1>2, <1>3, <2>2
  <2> QED
    BY <1>4, <1>5, <2>4, <2>5, <2>6 DEF Runs, p
<1> QED
  BY <1>6, <1>7

\* The values stay in order, the one pulled being no empty one, or the first
\* of the empty ones getting a new value.
LEMMA PulledInOrder ==
  ASSUME NEW c, NEW val, NEW new, NEW k \in Nodes,
         c \in [Nodes -> Nodes], \A i, j \in Nodes : c[i] = c[j] => i = j,
         InOrder(c, val), val \in [Nodes -> Values \cup {-1}],
         new \in [Nodes -> Values \cup {-1}],
         \A j \in Nodes : j # k => new[c[j]] = val[c[j]],
         new[c[k]] # -1,
         \A j \in Nodes : j # k => val[c[j]] # new[c[k]],
         \A j \in Nodes : j < k => val[c[j]] # -1,
         val[c[k]] = -1 \/ k = Capacity \/ val[c[k]] = new[c[k]]
  PROVE  InOrder(Pulled(c, k), new)
<1> DEFINE p == Pulled(c, k)
<1> SUFFICES ASSUME NEW i \in Nodes, NEW j \in Nodes, i < j
             PROVE  new[p[j]] = -1 \/ new[p[i]] \notin {-1, new[p[j]]}
  BY DEF InOrder
<1>1. /\ \A m \in Nodes : m # 1 => m - 1 \in Nodes
      /\ 1 \in Nodes /\ Nodes \subseteq Nat /\ \A m \in Nodes : m <= Capacity
  BY CapacityFacts DEF Nodes
<1>2. \A m \in Nodes : p[m] = IF m = 1 THEN c[k] ELSE IF m <= k THEN c[m - 1] ELSE c[m]
  BY DEF Pulled
<1> HIDE DEF p
<1>3. j # 1
  BY <1>1
<1>4. CASE i = 1 /\ j <= k
  <2>1. p[i] = c[k] /\ p[j] = c[j - 1] /\ j - 1 \in Nodes /\ j - 1 # k
    BY <1>1, <1>2, <1>3, <1>4
  <2> QED
    BY <2>1
<1>5. CASE i = 1 /\ j > k
  <2>1. p[i] = c[k] /\ p[j] = c[j] /\ j # k
    BY <1>1, <1>2, <1>3, <1>5
  <2> QED
    BY <2>1
<1>6. CASE i # 1 /\ j <= k
  <2>1. /\ p[i] = c[i - 1] /\ p[j] = c[j - 1] /\ i - 1 \in Nodes /\ j - 1 \in Nodes
        /\ i - 1 < j - 1 /\ i - 1 # k /\ j - 1 # k
    BY <1>1, <1>2, <1>3, <1>6
  <2> QED
    BY <2>1 DEF InOrder
<1>7. CASE i # 1 /\ j > k /\ i <= k
  <2>1. p[i] = c[i - 1] /\ p[j] = c[j] /\ i - 1 \in Nodes /\ i - 1 < j /\ i - 1 # k /\ j # k
    BY <1>1, <1>2, <1>3, <1>7
  <2> QED
    BY <2>1 DEF InOrder
<1>8. CASE i # 1 /\ j > k /\ i > k
  <2>1. p[i] = c[i] /\ p[j] = c[j] /\ i # k /\ j # k
    BY <1>1, <1>2, <1>3, <1>8
  <2> QED
    BY <2>1 DEF InOrder
<1> QED
  BY <1>1, <1>4, <1>5, <1>6, <1>7, <1>8

-------------------------------------------------------------------------------
\* A search finds the value behind non-empty nodes with other values.
LEMMA SearchFinds ==
  ASSUME TypeOK, NEW c, Runs(c, head, next), NEW v \in Values,
         NEW k \in DOMAIN chain, StopsAt(k, v), ~ Ends(k)
  PROVE  /\ k \in Nodes /\ value[c[k]] = v /\ v # -1
         /\ \A j \in Nodes : j < k => value[c[j]] \notin {-1, v}
<1>1. k \in Nodes /\ k # Capacity + 1
  <2>1. k \in 1 .. Capacity + 1 /\ k # Capacity + 1
    BY Seen
  <2> QED
    BY <2>1, CapacityFacts DEF Nodes
<1>2. value[c[k]] = v /\ v # -1
  BY <1>1, Seen, ValuesAssumption DEF StopsAt
<1>3. ASSUME NEW j \in Nodes, j < k
      PROVE  value[c[j]] \notin {-1, v}
  <2>1. j \in 1 .. k - 1 /\ j \in 1 .. Capacity + 1 /\ j # Capacity + 1
    BY <1>1, <1>3, CapacityFacts DEF Nodes
  <2> QED
    BY <2>1, Seen DEF StopsAt
<1> QED
  BY <1>1, <1>2, <1>3

LEMMA ContainsKeeps ==
  ASSUME ChainInv, NEW v \in Values, contains(v)
  PROVE  ChainInv'
<1>1. TypeOK
  BY DEF ChainInv
<1>2. PICK c : Runs(c, head, next) /\ InOrder(c, value)
  BY DEF ChainInv
<1>3. PICK k \in DOMAIN chain :
        /\ StopsAt(k, v)
        /\ \/ ~ Ends(k) /\ pullToHead(k)
           \/ Ends(k) /\ UNCHANGED <<head, next>>
        /\ value' = value
  BY DEF contains
<1>4. CASE UNCHANGED <<head, next>>
  BY <1>1, <1>2, <1>3, <1>4 DEF ChainInv, TypeOK
<1>5. CASE ~ Ends(k) /\ pullToHead(k)
  <2>1. /\ k \in Nodes /\ value[c[k]] = v /\ v # -1
        /\ \A j \in Nodes : j < k => value[c[j]] \notin {-1, v}
    BY <1>1, <1>2, <1>3, <1>5, SearchFinds
  <2>2. Runs(Pulled(c, k), head', next') /\ next' \in [Nodes -> Nodes \cup {NULL}]
    BY <1>1, <1>2, <1>5, <2>1, PullKeeps
  <2>3. \A j \in Nodes : j # k => value[c[j]] # v
    <3>1. \A j \in Nodes : j > k => value[c[j]] # v
      BY <1>2, <2>1 DEF InOrder
    <3> QED
      BY <2>1, <3>1, CapacityFacts
  <2>4. /\ c \in [Nodes -> Nodes] /\ \A i, j \in Nodes : c[i] = c[j] => i = j
        /\ value \in [Nodes -> Values \cup {-1}]
    BY <1>1, <1>2 DEF Runs, TypeOK
  <2>5. InOrder(Pulled(c, k), value)
    BY <1>2, <2>1, <2>3, <2>4, PulledInOrder
  <2> QED
    BY <1>1, <1>3, <2>2, <2>5 DEF ChainInv, TypeOK
<1> QED
  BY <1>3, <1>4, <1>5

LEMMA AddKeeps ==
  ASSUME ChainInv, NEW v \in Values, add(v)
  PROVE  ChainInv'
<1>1. TypeOK
  BY DEF ChainInv
<1>2. PICK c : Runs(c, head, next) /\ InOrder(c, value)
  BY DEF ChainInv
<1>3. PICK k \in Nodes :
        /\ AddStopsAt(k, v) /\ pullToHead(k)
        /\ \/ Holds(k, v) /\ value' = value
           \/ At(k) = -1 /\ value' = [value EXCEPT ![chain[k]] = v]
           \/ ~ Holds(k, v) /\ At(k) # -1 /\ value' = [value EXCEPT ![chain[k]] = v]
  BY DEF add
<1>4. /\ Runs(Pulled(c, k), head', next') /\ next' \in [Nodes -> Nodes \cup {NULL}]
      /\ c \in [Nodes -> Nodes] /\ \A i, j \in Nodes : c[i] = c[j] => i = j
      /\ value \in [Nodes -> Values \cup {-1}] /\ chain[k] = c[k] /\ c[k] \in Nodes
      /\ v # -1 /\ Nodes \subseteq Nat
  <2>1. Runs(Pulled(c, k), head', next') /\ next' \in [Nodes -> Nodes \cup {NULL}]
    BY <1>1, <1>2, <1>3, PullKeeps
  <2>2. chain[k] = c[k] /\ c[k] \in Nodes
    BY <1>1, <1>2, Seen
  <2>3. v # -1 /\ Nodes \subseteq Nat
    BY ValuesAssumption, CapacityFacts
  <2> QED
    BY <1>1, <1>2, <2>1, <2>2, <2>3 DEF Runs, TypeOK
<1>5. \A j \in Nodes : j \in 1 .. Capacity + 1 /\ j # Capacity + 1
  BY CapacityFacts DEF Nodes
<1>6. \A j \in Nodes : Holds(j, v) <=> value[c[j]] = v
  BY <1>1, <1>2, <1>5, Seen
<1>7. \A j \in Nodes : At(j) = value[c[j]]
  BY <1>1, <1>2, Seen DEF At
<1>8. ASSUME NEW j \in Nodes, j < k
      PROVE  value[c[j]] \notin {-1, v}
  <2>1. j \in 1 .. k - 1
    BY <1>4, <1>5, <1>8
  <2>2. ~ Holds(j, v) /\ At(j) # -1
    BY <1>3, <2>1 DEF AddStopsAt
  <2> QED
    BY <1>6, <1>7, <2>2
<1>9. value[c[k]] = v \/ value[c[k]] = -1 \/ k = Capacity
  BY <1>1, <1>2, <1>3, <1>6, <1>7, Seen DEF AddStopsAt
<1>10. /\ value' \in [Nodes -> Values \cup {-1}]
       /\ \A j \in Nodes : j # k => value'[c[j]] = value[c[j]]
       /\ value'[c[k]] = v
  <2>1. CASE value' = value /\ value[c[k]] = v
    BY <1>4, <2>1
  <2>2. CASE value' = [value EXCEPT ![c[k]] = v]
    BY <1>4, <2>2
  <2> QED
    BY <1>3, <1>4, <1>6, <2>1, <2>2
<1>11. \A j \in Nodes : j # k => value[c[j]] # v
  <2> SUFFICES ASSUME NEW j \in Nodes, j > k PROVE value[c[j]] # v
    BY <1>4, <1>8
  <2>1. value[c[j]] = -1 \/ value[c[k]] \notin {-1, value[c[j]]}
    BY <1>2 DEF InOrder
  <2>2. k # Capacity
    BY <1>4, CapacityFacts DEF Nodes
  <2> QED
    BY <1>4, <1>9, <2>1, <2>2
<1>12. InOrder(Pulled(c, k), value')
  BY <1>2, <1>4, <1>8, <1>9, <1>10, <1>11, PulledInOrder
<1> QED
  BY <1>4, <1>10, <1>12 DEF ChainInv, TypeOK

\* The values behind the one removed move up by one node.
LEMMA ShiftMoves ==
  ASSUME TypeOK, NEW c, Runs(c, head, next), NEW k \in Nodes, NEW m \in Nodes, k <= m
  PROVE  \A j \in Nodes :
           Shifted(k, m)[c[j]] = IF j \in k .. m
                                 THEN IF j = Capacity THEN -1 ELSE value[c[j + 1]]
                                 ELSE value[c[j]]
<1>1. /\ \A j \in Nodes : chain[j] = c[j] /\ c[j] \in Nodes
      /\ \A i, j \in Nodes : c[i] = c[j] => i = j
      /\ \A j \in Nodes : next[c[j]] = IF j = Capacity THEN NULL ELSE c[j + 1]
      /\ NULL \notin Nodes
  BY Seen, CapacityFacts DEF Runs
<1>2. \A j \in Nodes : j # Capacity => j + 1 \in Nodes
  BY CapacityFacts DEF Nodes
<1> TAKE j \in Nodes
<1>3. c[j] \in {chain[i] : i \in k .. m} <=> j \in k .. m
  <2>1. \A i \in k .. m : i \in Nodes
    BY CapacityFacts DEF Nodes
  <2> QED
    BY <1>1, <2>1
<1>4. Shifted(k, m)[c[j]] = IF c[j] \in {chain[i] : i \in k .. m}
                            THEN IF next[c[j]] = NULL THEN -1 ELSE value[next[c[j]]]
                            ELSE value[c[j]]
  BY <1>1 DEF Shifted
<1>5. next[c[j]] = NULL <=> j = Capacity
  BY <1>1, <1>2
<1> QED
  BY <1>1, <1>3, <1>4, <1>5

LEMMA RemoveKeeps ==
  ASSUME ChainInv, NEW v \in Values, remove(v)
  PROVE  ChainInv'
<1>1. TypeOK /\ UNCHANGED <<head, next>>
  BY DEF ChainInv, remove
<1>2. PICK c : Runs(c, head, next) /\ InOrder(c, value)
  BY DEF ChainInv
<1>3. PICK k \in DOMAIN chain :
        /\ StopsAt(k, v)
        /\ \/ /\ ~ Ends(k)
              /\ \E m \in k .. Capacity : ShiftsUpTo(k, m) /\ value' = Shifted(k, m)
           \/ UNCHANGED value
  BY DEF remove
<1>4. CASE UNCHANGED value
  BY <1>1, <1>2, <1>4 DEF ChainInv, TypeOK
<1>5. CASE ~ Ends(k) /\ \E m \in k .. Capacity : ShiftsUpTo(k, m) /\ value' = Shifted(k, m)
  <2>1. PICK m \in k .. Capacity : ShiftsUpTo(k, m) /\ value' = Shifted(k, m)
    BY <1>5
  <2>2. /\ k \in Nodes /\ value[c[k]] = v /\ v # -1
        /\ \A j \in Nodes : j < k => value[c[j]] \notin {-1, v}
    BY <1>1, <1>2, <1>3, <1>5, SearchFinds
  <2>3. m \in Nodes /\ k <= m /\ m \in Nat /\ k \in Nat
    BY <2>2, CapacityFacts DEF Nodes
  <2>4. /\ \A j \in Nodes : chain[j] = c[j] /\ c[j] \in Nodes
        /\ \A i, j \in Nodes : c[i] = c[j] => i = j
        /\ \A j \in Nodes : next[c[j]] = IF j = Capacity THEN NULL ELSE c[j + 1]
        /\ \A j \in Nodes : j # Capacity => j + 1 \in Nodes
        /\ NULL \notin Nodes
        /\ value \in [Nodes -> Values \cup {-1}] /\ c \in [Nodes -> Nodes]
    <3>1. \A j \in Nodes : j # Capacity => j + 1 \in Nodes
      BY CapacityFacts DEF Nodes
    <3>2. \A j \in Nodes : chain[j] = c[j] /\ c[j] \in Nodes
      BY <1>1, <1>2, Seen
    <3> QED
      BY <1>1, <1>2, <3>1, <3>2, CapacityFacts DEF Runs, TypeOK
  <2>5. \A j \in Nodes :
          value'[c[j]] = IF j \in k .. m
                         THEN IF j = Capacity THEN -1 ELSE value[c[j + 1]]
                         ELSE value[c[j]]
    BY <1>1, <1>2, <2>1, <2>2, <2>3, ShiftMoves
  <2>6. value' \in [Nodes -> Values \cup {-1}]
    <3>1. \A n \in Nodes : next[n] \in Nodes \cup {NULL}
      BY <1>1 DEF TypeOK
    <3>2. \A n \in Nodes : next[n] # NULL => value[next[n]] \in Values \cup {-1}
      BY <2>4, <3>1
    <3> QED
      BY <2>1, <2>4, <3>2 DEF Shifted
  <2>7. ASSUME NEW j \in Nodes, j > m
        PROVE  value[c[j]] = -1
    <3>1. m # Capacity /\ m + 1 \in Nodes /\ m + 1 \in 1 .. Capacity + 1 /\ m + 1 # Capacity + 1
      BY <2>3, <2>7, CapacityFacts DEF Nodes
    <3>2. value[c[m + 1]] = -1
      BY <1>1, <1>2, <2>1, <3>1, Seen DEF ShiftsUpTo
    <3>3. j = m + 1 \/ m + 1 < j
      BY <2>3, <2>7, CapacityFacts
    <3> QED
      BY <1>2, <3>1, <3>2, <3>3 DEF InOrder
  <2>8. ASSUME NEW i \in Nodes, NEW j \in Nodes, i < j
        PROVE  value'[c[j]] = -1 \/ value'[c[i]] \notin {-1, value'[c[j]]}
    <3>1. i \in Nat /\ j \in Nat /\ i # Capacity
      BY <2>8, CapacityFacts DEF Nodes
    <3>2. CASE j > m
      <4>1. value'[c[j]] = value[c[j]] /\ j \notin k .. m
        BY <2>3, <2>5, <3>1, <3>2
      <4> QED
        BY <2>7, <3>2, <4>1
    <3>3. CASE j < k
      <4>1. j \notin k .. m /\ i \notin k .. m
        BY <2>3, <2>8, <3>1, <3>3
      <4> QED
        BY <1>2, <2>5, <2>8, <4>1 DEF InOrder
    <3>4. CASE j \in k .. m /\ j # Capacity /\ i < k
      <4>1. i \notin k .. m /\ j + 1 \in Nodes /\ i < j + 1
        BY <2>3, <2>4, <3>1, <3>4
      <4>2. value'[c[i]] = value[c[i]] /\ value'[c[j]] = value[c[j + 1]]
        BY <2>5, <3>4, <4>1
      <4> QED
        BY <1>2, <4>1, <4>2 DEF InOrder
    <3>5. CASE j \in k .. m /\ j # Capacity /\ i >= k
      <4>1. i \in k .. m /\ j + 1 \in Nodes /\ i + 1 \in Nodes /\ i + 1 < j + 1
        BY <2>3, <2>4, <2>8, <3>1, <3>5
      <4>2. value'[c[i]] = value[c[i + 1]] /\ value'[c[j]] = value[c[j + 1]]
        BY <2>5, <3>1, <3>5, <4>1
      <4> QED
        BY <1>2, <4>1, <4>2 DEF InOrder
    <3>6. CASE j \in k .. m /\ j = Capacity
      BY <2>5, <3>6
    <3> QED
      BY <2>3, <3>1, <3>2, <3>3, <3>4, <3>5, <3>6
  <2>9. InOrder(c, value')
    BY <2>8 DEF InOrder
  <2> QED
    BY <1>1, <1>2, <2>6, <2>9 DEF ChainInv, TypeOK
<1> QED
  BY <1>3, <1>4, <1>5

\* The nodes are linked as they were allocated.
LEMMA InitialChain ==
  ASSUME Init
  PROVE  ChainInv
<1> DEFINE c == [k \in Nodes |-> k]
<1>1. TypeOK
  BY CapacityFacts DEF Init, TypeOK, Nodes
<1>2. Runs(c, head, next)
  <2>1. \A k \in Nodes : k # Capacity => k + 1 \in Nodes
    BY CapacityFacts DEF Nodes
  <2>2. \A k \in Nodes : c[k] = k
    OBVIOUS
  <2>3. \A k \in Nodes : next[k] = IF k = Capacity THEN NULL ELSE k + 1
    BY DEF Init
  <2>4. c \in [Nodes -> Nodes]
    OBVIOUS
  <2> HIDE DEF c
  <2> QED
    BY <2>1, <2>2, <2>3, <2>4, CapacityFacts DEF Init, Runs
<1>3. InOrder(c, value)
  BY DEF Init, InOrder
<1> QED
  BY <1>1, <1>2, <1>3 DEF ChainInv

LEMMA ChainInvariant == Spec => []ChainInv
<1>1. Init => ChainInv
  BY InitialChain
<1>2. ChainInv /\ [Next]_vars => ChainInv'
  <2> SUFFICES ASSUME ChainInv, [Next]_vars PROVE ChainInv'
    OBVIOUS
  <2>1. CASE UNCHANGED vars \/ size \/ capacity
    BY <2>1 DEF vars, size, capacity, ChainInv, TypeOK
  <2> QED
    BY <2>1, ContainsKeeps, RemoveKeeps, AddKeeps DEF Next
<1> QED
  BY <1>1, <1>2, PTL DEF Spec

\* The nodes allocated by the constructor move around in the list: whatever the
\* capacity and the calls, none is lost and none is reached twice
\* (ListBoundedIntSet.java 75-254).
THEOREM NodesMoveAroundHolds == Spec => []NodesMoveAround
<1>1. ChainInv => NodesMoveAround
  <2> SUFFICES ASSUME ChainInv PROVE NodesMoveAround
    OBVIOUS
  <2>1. PICK c : Runs(c, head, next) /\ InOrder(c, value) /\ TypeOK
    BY DEF ChainInv
  <2>2. /\ \A k \in Nodes : chain[k] = c[k] /\ c[k] \in Nodes /\ At(k) = value[c[k]]
        /\ chain[Capacity + 1] = NULL
    BY <2>1, Seen DEF At
  <2>3. c \in Surjection(Nodes, Nodes)
    <3>1. IsFiniteSet(Nodes)
      BY CapacityFacts, FS_Interval DEF Nodes
    <3>2. c \in Injection(Nodes, Nodes)
      BY <2>1 DEF Runs, Injection, IsInjective
    <3> QED
      BY <3>1, <3>2, FS_Injection
  <2>4. {chain[k] : k \in Nodes} = Nodes
    <3>1. \A n \in Nodes : \E k \in Nodes : c[k] = n
      BY <2>3 DEF Surjection
    <3> QED
      BY <2>2, <3>1
  <2>5. \A j, k \in Nodes : j < k => At(k) = -1 \/ At(j) \notin {-1, At(k)}
    BY <2>1, <2>2 DEF InOrder
  <2> QED
    BY <2>2, <2>4, <2>5 DEF NodesMoveAround
<1> QED
  BY <1>1, ChainInvariant, PTL

-------------------------------------------------------------------------------
\* The first n nodes of the chain hold the values.
FillsUpTo(c, val, n) ==
  n \in 0 .. Capacity /\ \A k \in Nodes : val[c[k]] = -1 <=> k > n

ListOf(c, val, n) == [k \in 1 .. n |-> val[c[k]]]

LEMMA FilledExists ==
  ASSUME NEW c, NEW val, InOrder(c, val)
  PROVE  \E n : FillsUpTo(c, val, n)
<1> DEFINE S == {k \in Nodes : val[c[k]] = -1}
<1>1. CASE S = {}
  <2>1. \A k \in Nodes : k <= Capacity
    BY CapacityFacts DEF Nodes
  <2>2. FillsUpTo(c, val, Capacity)
    BY <1>1, <2>1, CapacityFacts DEF FillsUpTo, Nodes
  <2> QED
    BY <2>2
<1>2. CASE S # {}
  <2> DEFINE less == OpToRel(<, Nat)
  <2>1. IsWellFoundedOn(less, Nat) /\ S \subseteq Nat
    BY NatLessThanWellFounded, CapacityFacts
  <2> HIDE DEF S, less
  <2>2. PICK x \in S : \A y \in S : <<y, x>> \notin less
    BY <1>2, <2>1, WFMin
  <2>3. x \in Nodes /\ x \in Nat /\ val[c[x]] = -1 /\ \A y \in S : ~ (y < x)
    BY <2>1, <2>2 DEF S, less, OpToRel
  <2>4. ASSUME NEW k \in Nodes
        PROVE  val[c[k]] = -1 <=> k > x - 1
    <3>1. k \in Nat
      BY CapacityFacts
    <3>2. CASE k < x
      BY <2>3, <3>1, <3>2 DEF S
    <3>3. CASE k = x
      BY <2>3, <3>3
    <3>4. CASE x < k
      <4>1. val[c[k]] = -1
        BY <2>3, <3>4 DEF InOrder
      <4> QED
        BY <2>3, <3>1, <3>4, <4>1
    <3> QED
      BY <2>3, <3>1, <3>2, <3>3, <3>4
  <2>5. x - 1 \in 0 .. Capacity
    BY <2>3, CapacityFacts DEF Nodes
  <2> QED
    BY <2>4, <2>5 DEF FillsUpTo
<1> QED
  BY <1>1, <1>2

\* The list of the values, in terms of the numbering.
LEMMA ListFollows ==
  ASSUME NEW c, NEW val, NEW n, FillsUpTo(c, val, n),
         \A k \in Nodes : val[c[k]] \in Values \cup {-1},
         NEW u, \A k \in Nodes : u[k] = c[k]
  PROVE  [k \in 1 .. Cardinality({k \in Nodes : val[u[k]] >= 0}) |-> val[u[k]]]
           = ListOf(c, val, n)
<1>1. n \in Nat /\ n <= Capacity
  BY CapacityFacts DEF FillsUpTo
<1>2. {k \in Nodes : val[u[k]] >= 0} = 1 .. n
  <2>1. ASSUME NEW k \in Nodes PROVE val[u[k]] >= 0 <=> k <= n
    <3> DEFINE x == val[c[k]]
    <3>1. val[u[k]] = x /\ (x \in Nat \/ x = -1)
      BY ValuesAssumption
    <3>2. x = -1 <=> k > n
      BY DEF FillsUpTo
    <3> HIDE DEF x
    <3>3. x >= 0 <=> x # -1
      BY <3>1
    <3>4. k \in Nat
      BY CapacityFacts
    <3> QED
      BY ONLY <1>1, <3>1, <3>2, <3>3, <3>4
  <2>2. \A k \in Nodes : k \in 1 .. n <=> k <= n
    BY <1>1, CapacityFacts DEF Nodes
  <2>3. 1 .. n \subseteq Nodes
    BY <1>1, CapacityFacts DEF Nodes
  <2> QED
    BY <2>1, <2>2, <2>3
<1>3. Cardinality(1 .. n) = n
  BY <1>1, FS_Interval
<1>4. \A k \in 1 .. n : u[k] = c[k]
  BY <1>1, CapacityFacts DEF Nodes
<1> QED
  BY <1>2, <1>3, <1>4 DEF ListOf

LEMMA ListedIs ==
  ASSUME NEW c, NEW n
  PROVE  /\ TypeOK /\ Runs(c, head, next) /\ FillsUpTo(c, value, n)
             => Listed = ListOf(c, value, n)
         /\ TypeOK' /\ Runs(c, head', next') /\ FillsUpTo(c, value', n)
             => Listed' = ListOf(c, value', n)
<1>1. ASSUME TypeOK, Runs(c, head, next), FillsUpTo(c, value, n)
      PROVE  Listed = ListOf(c, value, n)
  <2>1. \A k \in Nodes : chain[k] = c[k]
    BY <1>1, ChainIs
  <2>2. \A k \in Nodes : value[c[k]] \in Values \cup {-1}
    BY <1>1 DEF TypeOK, Runs
  <2> QED
    BY <1>1, <2>1, <2>2, ListFollows DEF Listed, Filled, At
<1>2. ASSUME TypeOK', Runs(c, head', next'), FillsUpTo(c, value', n)
      PROVE  Listed' = ListOf(c, value', n)
  <2>1. \A k \in Nodes : chain'[k] = c[k]
    BY <1>2, ChainIs
  <2>2. \A k \in Nodes : value'[c[k]] \in Values \cup {-1}
    BY <1>2 DEF TypeOK, Runs
  <2> QED
    BY <1>2, <2>1, <2>2, ListFollows DEF Listed, Filled, At
<1> QED
  BY <1>1, <1>2

\* The list of the values: its length, and where a value stands in it.
LEMMA ListFacts ==
  ASSUME NEW c, Runs(c, head, next), TypeOK, InOrder(c, value),
         NEW n, FillsUpTo(c, value, n)
  PROVE  /\ n \in Nat /\ n <= Capacity
         /\ Listed \in [1 .. n -> Values] /\ Listed \in Seq(Values) /\ Len(Listed) = n
         /\ \A j \in 1 .. n : j \in Nodes /\ Listed[j] = value[c[j]]
         /\ \A j \in Nodes : value[c[j]] # -1 <=> j \in 1 .. n
         /\ \A k \in 1 .. n :
              /\ R!Has(Listed[k])
              /\ R!Without(Listed[k]) =
                   [j \in 1 .. n - 1 |-> IF j < k THEN Listed[j] ELSE Listed[j + 1]]
         /\ \A v : (\A k \in 1 .. n : Listed[k] # v) =>
              ~ R!Has(v) /\ R!Without(v) = Listed
<1>1. n \in Nat /\ n <= Capacity /\ Listed = ListOf(c, value, n)
  BY ListedIs, CapacityFacts DEF FillsUpTo
<1>2. \A j \in Nodes : j \in Nat /\ j >= 1
  BY CapacityFacts DEF Nodes
<1>3. \A j \in 1 .. n : j \in Nodes /\ Listed[j] = value[c[j]]
  BY <1>1, CapacityFacts DEF ListOf, Nodes
<1>4. \A j \in Nodes : value[c[j]] # -1 <=> j \in 1 .. n
  BY <1>1, <1>2 DEF FillsUpTo
<1>5. \A j \in 1 .. n : Listed[j] \in Values
  BY <1>3, <1>4 DEF TypeOK, Runs
<1>6. Listed \in [1 .. n -> Values] /\ Listed \in Seq(Values) /\ Len(Listed) = n
  <2>1. Listed \in [1 .. n -> Values]
    BY <1>1, <1>5 DEF ListOf
  <2> QED
    BY <1>1, <2>1
<1>7. \A j, k \in 1 .. n : Listed[j] = Listed[k] => j = k
  <2> SUFFICES ASSUME NEW j \in 1 .. n, NEW k \in 1 .. n, j < k PROVE Listed[j] # Listed[k]
    BY <1>1
  <2>1. j \in Nodes /\ k \in Nodes /\ value[c[k]] # -1
    BY <1>3, <1>4
  <2>2. value[c[j]] # value[c[k]]
    BY <2>1 DEF InOrder
  <2> QED
    BY <1>3, <2>2
<1>8. DOMAIN Listed = 1 .. n
  BY <1>6
<1>9. ASSUME NEW k \in 1 .. n
      PROVE  /\ R!Has(Listed[k])
             /\ R!Without(Listed[k]) =
                  [j \in 1 .. n - 1 |-> IF j < k THEN Listed[j] ELSE Listed[j + 1]]
  <2>1. R!Has(Listed[k])
    BY <1>8 DEF R!Has
  <2>2. R!PlaceOf(Listed[k]) = k
    BY <1>7, <1>8 DEF R!PlaceOf
  <2> QED
    BY <1>6, <2>1, <2>2 DEF R!Without
<1>10. ASSUME NEW v, \A k \in 1 .. n : Listed[k] # v
       PROVE  ~ R!Has(v) /\ R!Without(v) = Listed
  BY <1>8, <1>10 DEF R!Has, R!Without
<1> QED
  BY <1>1, <1>3, <1>4, <1>6, <1>9, <1>10

-------------------------------------------------------------------------------
\* A value in use that is pulled to the head is now the one used last.
LEMMA UseMoves ==
  ASSUME TypeOK, TypeOK', NEW c, Runs(c, head, next), InOrder(c, value),
         NEW v \in Values, NEW k \in Nodes, value[c[k]] = v, pullToHead(k), value' = value
  PROVE  R!Has(v) /\ Listed' = <<v>> \o R!Without(v)
<1> DEFINE p == Pulled(c, k)
<1>1. PICK n : FillsUpTo(c, value, n)
  BY FilledExists
<1>2. /\ n \in Nat /\ n <= Capacity
      /\ Listed \in [1 .. n -> Values] /\ Listed \in Seq(Values) /\ Len(Listed) = n
      /\ \A j \in 1 .. n : j \in Nodes /\ Listed[j] = value[c[j]]
      /\ \A j \in Nodes : value[c[j]] # -1 <=> j \in 1 .. n
  BY <1>1, ListFacts
<1>3. v # -1
  BY ValuesAssumption
<1>4. k \in 1 .. n /\ Listed[k] = v
  BY <1>2, <1>3
<1>5. /\ R!Has(v)
      /\ R!Without(v) = [j \in 1 .. n - 1 |-> IF j < k THEN Listed[j] ELSE Listed[j + 1]]
  <2>1. \A i \in 1 .. n :
          /\ R!Has(Listed[i])
          /\ R!Without(Listed[i]) =
               [j \in 1 .. n - 1 |-> IF j < i THEN Listed[j] ELSE Listed[j + 1]]
    BY <1>1, ListFacts
  <2> QED
    BY <1>4, <2>1
<1>6. Runs(p, head', next')
  BY PullKeeps
<1>7. \A j \in Nodes : p[j] = IF j = 1 THEN c[k] ELSE IF j <= k THEN c[j - 1] ELSE c[j]
  BY DEF Pulled
<1>8. \A j \in Nodes : j \in Nat /\ j >= 1 /\ j <= Capacity /\ (j # 1 => j - 1 \in Nodes)
  BY CapacityFacts DEF Nodes
<1> HIDE DEF p
<1>9. FillsUpTo(p, value', n)
  <2>1. ASSUME NEW j \in Nodes PROVE value[p[j]] # -1 <=> j \in 1 .. n
    <3>1. CASE j = 1
      BY <1>2, <1>3, <1>4, <1>7, <3>1
    <3>2. CASE j # 1 /\ j <= k
      <4>1. p[j] = c[j - 1] /\ j - 1 \in Nodes /\ j - 1 \in 1 .. n /\ j \in 1 .. n
        BY <1>2, <1>4, <1>7, <1>8, <3>2
      <4> QED
        BY <1>2, <4>1
    <3>3. CASE j # 1 /\ ~ (j <= k)
      BY <1>2, <1>7, <3>3
    <3> QED
      BY <3>1, <3>2, <3>3
  <2>2. \A j \in Nodes : j \in 1 .. n <=> ~ (j > n)
    <3>1. n \in Nat
      BY <1>2
    <3> QED
      BY <1>8, <3>1
  <2> QED
    BY <1>2, <2>1, <2>2 DEF FillsUpTo
<1>10. Listed' = ListOf(p, value', n)
  BY <1>6, <1>9, ListedIs
<1> DEFINE s == ListOf(p, value, n)
           w == [j \in 1 .. n - 1 |-> IF j < k THEN Listed[j] ELSE Listed[j + 1]]
<1>11. n - 1 \in Nat /\ (n - 1) + 1 = n
  BY <1>2, <1>4
<1>12. w \in [1 .. n - 1 -> Values]
  BY <1>2, <1>4
<1>13. \A j \in 1 .. n : s[j] = value[p[j]]
  BY DEF ListOf
<1>14. s \in [1 .. n -> Values]
  <2>1. \A j \in 1 .. n : value[p[j]] \in Values \cup {-1} /\ value[p[j]] # -1
    BY <1>2, <1>6, <1>8, <1>9 DEF Runs, TypeOK, FillsUpTo
  <2>2. \A j \in 1 .. n : value[p[j]] \in Values
    BY <2>1
  <2> QED
    BY <2>2 DEF ListOf
<1>15. s[1] = v
  BY <1>2, <1>4, <1>7, <1>13
<1>16. ASSUME NEW j \in 1 .. n - 1 PROVE s[j + 1] = w[j]
  <2>1. /\ j + 1 \in 1 .. n /\ j + 1 \in Nodes /\ j + 1 # 1 /\ (j + 1) - 1 = j
        /\ j \in 1 .. n /\ (j < k <=> j + 1 <= k)
    BY <1>2, <1>4
  <2>2. value[p[j + 1]] = IF j < k THEN value[c[j]] ELSE value[c[j + 1]]
    BY <1>7, <2>1
  <2> QED
    BY <1>2, <1>13, <2>1, <2>2
<1> HIDE DEF s, w
<1>17. s = <<v>> \o w
  BY <1>11, <1>12, <1>14, <1>15, <1>16, Pushed
<1> QED
  BY <1>5, <1>10, <1>17 DEF s, w

\* A search that ends has not found the value anywhere.
LEMMA SearchFails ==
  ASSUME TypeOK, NEW c, Runs(c, head, next), InOrder(c, value),
         NEW v \in Values, NEW k \in DOMAIN chain, StopsAt(k, v), Ends(k)
  PROVE  ~ R!Has(v) /\ R!Without(v) = Listed
<1>1. PICK n : FillsUpTo(c, value, n)
  BY FilledExists
<1>2. /\ n \in Nat /\ n <= Capacity
      /\ \A j \in 1 .. n : j \in Nodes /\ Listed[j] = value[c[j]]
      /\ \A j \in Nodes : value[c[j]] # -1 <=> j \in 1 .. n
  BY <1>1, ListFacts
<1>3. k \in 1 .. Capacity + 1 /\ (k = Capacity + 1 \/ value[c[k]] = -1)
  BY Seen
<1>4. k \in Nat /\ k > n
  <2>1. k # Capacity + 1 => k \in Nodes
    BY <1>3, CapacityFacts DEF Nodes
  <2> QED
    BY <1>2, <1>3, <2>1, CapacityFacts
<1>5. ASSUME NEW j \in 1 .. n PROVE Listed[j] # v
  <2>1. j \in 1 .. k - 1 /\ j \in 1 .. Capacity + 1 /\ j # Capacity + 1
    BY <1>2, <1>4, CapacityFacts
  <2>2. ~ Holds(j, v)
    BY <2>1 DEF StopsAt
  <2> QED
    BY <1>2, <2>1, <2>2, Seen
<1> QED
  BY <1>1, <1>5, ListFacts

\* Every call does to the list of the values what it promises.
LEMMA ContainsImplements ==
  ASSUME ChainInv, ChainInv', NEW v \in Values, contains(v)
  PROVE  R!Contains(v)
<1>1. TypeOK /\ TypeOK'
  BY DEF ChainInv
<1>2. PICK c : Runs(c, head, next) /\ InOrder(c, value)
  BY DEF ChainInv
<1>3. PICK k \in DOMAIN chain :
        /\ StopsAt(k, v)
        /\ \/ ~ Ends(k) /\ pullToHead(k) /\ Return("contains", v, TRUE)
           \/ Ends(k) /\ UNCHANGED <<head, next>> /\ Return("contains", v, FALSE)
        /\ value' = value
  BY DEF contains
<1>4. CASE ~ Ends(k) /\ pullToHead(k) /\ Return("contains", v, TRUE)
  <2>1. k \in Nodes /\ value[c[k]] = v
    BY <1>1, <1>2, <1>3, <1>4, SearchFinds
  <2>2. R!Has(v) /\ Listed' = <<v>> \o R!Without(v)
    BY <1>1, <1>2, <1>3, <1>4, <2>1, UseMoves
  <2> QED
    BY <1>4, <2>2 DEF R!Contains, R!Tell, Return
<1>5. CASE Ends(k) /\ UNCHANGED <<head, next>> /\ Return("contains", v, FALSE)
  <2>1. ~ R!Has(v)
    BY <1>1, <1>2, <1>3, <1>5, SearchFails
  <2>2. Listed' = Listed
    BY <1>3, <1>5 DEF Listed, Filled, At, chain
  <2>3. R!Has(v) = FALSE
    BY <2>1 DEF R!Has
  <2> QED
    BY <1>5, <2>2, <2>3 DEF R!Contains, R!Tell, Return
<1> QED
  BY <1>3, <1>4, <1>5

LEMMA RemoveImplements ==
  ASSUME ChainInv, ChainInv', NEW v \in Values, remove(v)
  PROVE  R!Remove(v)
<1>1. TypeOK /\ TypeOK' /\ UNCHANGED <<head, next>>
  BY DEF ChainInv, remove
<1>2. PICK c : Runs(c, head, next) /\ InOrder(c, value)
  BY DEF ChainInv
<1>3. PICK k \in DOMAIN chain :
        /\ StopsAt(k, v)
        /\ \/ /\ ~ Ends(k)
              /\ \E m \in k .. Capacity : ShiftsUpTo(k, m) /\ value' = Shifted(k, m)
              /\ Return("remove", v, TRUE)
           \/ Ends(k) /\ Return("remove", v, FALSE) /\ UNCHANGED value
  BY DEF remove
<1>4. CASE Ends(k) /\ Return("remove", v, FALSE) /\ UNCHANGED value
  <2>1. ~ R!Has(v) /\ R!Without(v) = Listed
    BY <1>1, <1>2, <1>3, <1>4, SearchFails
  <2>2. Listed' = Listed
    BY <1>1, <1>4 DEF Listed, Filled, At, chain
  <2>3. R!Has(v) = FALSE
    BY <2>1 DEF R!Has
  <2> QED
    BY <1>4, <2>1, <2>2, <2>3 DEF R!Remove, R!Tell, Return
<1>5. CASE /\ ~ Ends(k) /\ Return("remove", v, TRUE)
           /\ \E m \in k .. Capacity : ShiftsUpTo(k, m) /\ value' = Shifted(k, m)
  <2>1. PICK m \in k .. Capacity : ShiftsUpTo(k, m) /\ value' = Shifted(k, m)
    BY <1>5
  <2>2. k \in Nodes /\ value[c[k]] = v /\ v # -1
    BY <1>1, <1>2, <1>3, <1>5, SearchFinds
  <2>3. PICK n : FillsUpTo(c, value, n)
    BY <1>2, FilledExists
  <2>4. /\ n \in Nat /\ n <= Capacity
        /\ Listed \in [1 .. n -> Values]
        /\ \A j \in 1 .. n : j \in Nodes /\ Listed[j] = value[c[j]]
        /\ \A j \in Nodes : value[c[j]] # -1 <=> j \in 1 .. n
    BY <1>1, <1>2, <2>3, ListFacts
  <2>5. k \in 1 .. n /\ Listed[k] = v
    BY <2>2, <2>4
  <2>6. /\ R!Has(v)
        /\ R!Without(v) = [j \in 1 .. n - 1 |-> IF j < k THEN Listed[j] ELSE Listed[j + 1]]
    <3>1. \A i \in 1 .. n :
            /\ R!Has(Listed[i])
            /\ R!Without(Listed[i]) =
                 [j \in 1 .. n - 1 |-> IF j < i THEN Listed[j] ELSE Listed[j + 1]]
      BY <1>1, <1>2, <2>3, ListFacts
    <3> QED
      BY <2>5, <3>1
  <2>7. m \in Nodes /\ m \in Nat /\ k <= m /\ m >= 1
    BY <2>2, CapacityFacts DEF Nodes
  <2>8. \A j \in Nodes :
          value'[c[j]] = IF j \in k .. m
                         THEN IF j = Capacity THEN -1 ELSE value[c[j + 1]]
                         ELSE value[c[j]]
    BY <1>1, <1>2, <2>1, <2>2, <2>7, ShiftMoves
  <2>9. m = n
    <3>1. m < Capacity => m + 1 > n
      <4> SUFFICES ASSUME m < Capacity PROVE m + 1 > n
        OBVIOUS
      <4>1. m + 1 \in 1 .. Capacity + 1 /\ m + 1 # Capacity + 1 /\ m + 1 \in Nodes
        BY <2>7, CapacityFacts DEF Nodes
      <4>2. value[c[m + 1]] = -1
        BY <1>1, <1>2, <2>1, <4>1, Seen DEF ShiftsUpTo
      <4> QED
        BY <2>4, <2>7, <4>1, <4>2
    <3>2. m <= n
      <4>1. CASE m = k
        BY <2>4, <2>5, <4>1
      <4>2. CASE m # k
        <5>1. m - 1 \in k .. m - 1 /\ (m - 1) + 1 = m /\ m \in 1 .. Capacity + 1
          BY <2>5, <2>7, <4>2, CapacityFacts DEF Nodes
        <5>2. ~ Ends(m)
          BY <2>1, <5>1 DEF ShiftsUpTo
        <5>3. value[c[m]] # -1
          BY <1>1, <1>2, <5>1, <5>2, Seen
        <5> QED
          BY <2>4, <2>7, <5>3
      <4> QED
        BY <4>1, <4>2
    <3>3. m <= Capacity
      BY <2>7, CapacityFacts DEF Nodes
    <3> QED
      BY <2>4, <2>7, <3>1, <3>2, <3>3, CapacityFacts
  <2>10. \A j \in Nodes : j \in Nat /\ j >= 1 /\ j <= Capacity /\ (j # Capacity => j + 1 \in Nodes)
    BY CapacityFacts DEF Nodes
  <2>11. n - 1 \in 0 .. Capacity /\ n - 1 \in Nat
    BY <2>4, <2>5, CapacityFacts
  <2>12. FillsUpTo(c, value', n - 1)
    <3>1. ASSUME NEW j \in Nodes PROVE value'[c[j]] = -1 <=> j > n - 1
      <4>1. j \in Nat /\ n \in Nat /\ k \in 1 .. n
        BY <2>4, <2>5, <2>10
      <4>2. CASE j < k
        BY <2>4, <2>8, <2>10, <4>1, <4>2
      <4>3. CASE j \in k .. n /\ j = Capacity
        BY <2>8, <2>9, <4>1, <4>3
      <4>4. CASE j \in k .. n /\ j # Capacity
        <5>1. j + 1 \in Nodes /\ (j + 1 \in 1 .. n <=> ~ (j > n - 1))
          BY <2>10, <4>1, <4>4
        <5> QED
          BY <2>4, <2>8, <2>9, <4>4, <5>1
      <4>5. CASE j > n
        <5>1. j \notin k .. m /\ j \notin 1 .. n /\ j > n - 1
          BY <2>9, <4>1, <4>5
        <5> QED
          BY <2>4, <2>8, <5>1
      <4> QED
        BY <4>1, <4>2, <4>3, <4>4, <4>5
    <3> QED
      BY <2>11, <3>1 DEF FillsUpTo
  <2>13. Listed' = ListOf(c, value', n - 1)
    BY <1>1, <1>2, <2>12, ListedIs
  <2>14. ASSUME NEW j \in 1 .. n - 1
         PROVE  value'[c[j]] = IF j < k THEN Listed[j] ELSE Listed[j + 1]
    <3>1. j \in 1 .. n /\ j + 1 \in 1 .. n /\ (j \in k .. n <=> ~ (j < k)) /\ j # Capacity
      BY <2>4, <2>5, CapacityFacts
    <3> QED
      BY <2>4, <2>8, <2>9, <3>1
  <2>15. Listed' = R!Without(v)
    BY <2>6, <2>13, <2>14 DEF ListOf
  <2> QED
    BY <1>5, <2>6, <2>15 DEF R!Remove, R!Tell, Return
<1> QED
  BY <1>3, <1>4, <1>5

\* A value that is new is put in front of the others, or of all but the last.
LEMMA NewInFront ==
  ASSUME TypeOK, TypeOK', NEW c, Runs(c, head, next), InOrder(c, value),
         NEW n, FillsUpTo(c, value, n), NEW v \in Values, NEW k \in Nodes, pullToHead(k),
         k = n + 1 \/ (k = n /\ k = Capacity),
         value' = [value EXCEPT ![c[k]] = v]
  PROVE  /\ k = n + 1 => Listed' = <<v>> \o Listed
         /\ k = n => Listed' = <<v>> \o SubSeq(Listed, 1, Capacity - 1)
<1> DEFINE p == Pulled(c, k)
<1>1. /\ n \in Nat /\ n <= Capacity
      /\ Listed \in [1 .. n -> Values] /\ Listed \in Seq(Values) /\ Len(Listed) = n
      /\ \A j \in 1 .. n : j \in Nodes /\ Listed[j] = value[c[j]]
      /\ \A j \in Nodes : value[c[j]] # -1 <=> j \in 1 .. n
  BY ListFacts
<1>2. v # -1
  BY ValuesAssumption
<1>3. Runs(p, head', next')
  BY PullKeeps
<1>4. \A j \in Nodes : p[j] = IF j = 1 THEN c[k] ELSE IF j <= k THEN c[j - 1] ELSE c[j]
  BY DEF Pulled
<1>5. \A j \in Nodes : j \in Nat /\ j >= 1 /\ j <= Capacity /\ (j # 1 => j - 1 \in Nodes)
  BY CapacityFacts DEF Nodes
<1>6. /\ c \in [Nodes -> Nodes] /\ \A i, j \in Nodes : c[i] = c[j] => i = j
      /\ value \in [Nodes -> Values \cup {-1}]
  BY DEF Runs, TypeOK
<1>7. value'[c[k]] = v /\ \A j \in Nodes : j # k => value'[c[j]] = value[c[j]]
  BY <1>6
<1> HIDE DEF p
<1>8. FillsUpTo(p, value', k)
  <2>1. ASSUME NEW j \in Nodes PROVE value'[p[j]] = -1 <=> j > k
    <3>1. j \in Nat /\ k \in Nat /\ k >= 1
      BY <1>5
    <3>2. CASE j = 1
      BY <1>2, <1>4, <1>7, <3>1, <3>2
    <3>3. CASE j # 1 /\ j <= k
      <4>1. p[j] = c[j - 1] /\ j - 1 \in Nodes /\ j - 1 # k /\ j - 1 \in 1 .. n
        BY <1>1, <1>4, <1>5, <3>1, <3>3
      <4> QED
        BY <1>1, <1>7, <3>1, <3>3, <4>1
    <3>4. CASE j > k
      <4>1. p[j] = c[j] /\ j # k /\ j \notin 1 .. n
        BY <1>1, <1>4, <3>1, <3>4
      <4> QED
        BY <1>1, <1>7, <3>4, <4>1
    <3> QED
      BY <3>1, <3>2, <3>3, <3>4
  <2>2. k \in 0 .. Capacity
    BY <1>5, CapacityFacts
  <2> QED
    BY <2>1, <2>2 DEF FillsUpTo
<1>9. Listed' = ListOf(p, value', k)
  BY <1>3, <1>8, ListedIs
<1> DEFINE s == Listed'
           w == [j \in 1 .. k - 1 |-> Listed[j]]
<1>10. k - 1 \in Nat /\ (k - 1) + 1 = k /\ k - 1 <= n
  BY <1>1, <1>5
<1>11. w \in [1 .. k - 1 -> Values]
  BY <1>1, <1>10
<1>12. \A j \in 1 .. k : s[j] = value'[p[j]]
  BY <1>9 DEF ListOf
<1>13. s \in [1 .. k -> Values]
  <2>1. ASSUME NEW j \in 1 .. k PROVE value'[p[j]] \in Values
    <3>1. j \in Nodes /\ ~ (j > k)
      BY <1>5, CapacityFacts DEF Nodes
    <3>2. value'[p[j]] \in Values \cup {-1}
      BY <1>3, <3>1 DEF Runs, TypeOK
    <3> QED
      BY <1>8, <3>1, <3>2 DEF FillsUpTo
  <2> QED
    BY <1>9, <2>1 DEF ListOf
<1>14. s[1] = v
  <2>1. 1 \in 1 .. k /\ 1 \in Nodes
    BY <1>5, CapacityFacts
  <2> QED
    BY <1>4, <1>7, <1>12, <2>1
<1>15. ASSUME NEW j \in 1 .. k - 1 PROVE s[j + 1] = w[j]
  <2>1. /\ j + 1 \in 1 .. k /\ j + 1 \in Nodes /\ j + 1 # 1 /\ (j + 1) - 1 = j
        /\ j \in 1 .. n /\ j # k
    BY <1>1, <1>5, <1>10, CapacityFacts DEF Nodes
  <2>2. p[j + 1] = c[j] /\ value'[c[j]] = value[c[j]]
    BY <1>1, <1>4, <1>7, <2>1
  <2> QED
    BY <1>1, <1>12, <2>1, <2>2
<1> HIDE DEF s, w
<1>16. s = <<v>> \o w
  BY <1>10, <1>11, <1>13, <1>14, <1>15, Pushed
<1>17. CASE k = n + 1
  <2>1. w = Listed
    BY <1>1, <1>17 DEF w
  <2> QED
    BY <1>1, <1>16, <1>17, <2>1 DEF s
<1>18. CASE k = n /\ k = Capacity
  <2>1. SubSeq(Listed, 1, Capacity - 1) = w
    BY <1>1, <1>18 DEF w
  <2> QED
    BY <1>1, <1>16, <1>18, <2>1 DEF s
<1> QED
  BY <1>17, <1>18, <1>1

LEMMA AddImplements ==
  ASSUME ChainInv, ChainInv', NEW v \in Values, add(v)
  PROVE  R!Add(v)
<1>1. TypeOK /\ TypeOK'
  BY DEF ChainInv
<1>2. PICK c : Runs(c, head, next) /\ InOrder(c, value)
  BY DEF ChainInv
<1>3. PICK k \in Nodes :
        /\ AddStopsAt(k, v) /\ pullToHead(k)
        /\ \/ Holds(k, v) /\ value' = value /\ Return("add", v, 0)
           \/ At(k) = -1 /\ value' = [value EXCEPT ![chain[k]] = v] /\ Return("add", v, 1)
           \/ /\ ~ Holds(k, v) /\ At(k) # -1
              /\ value' = [value EXCEPT ![chain[k]] = v] /\ Return("add", v, 2)
  BY DEF add
<1>4. \A j \in Nodes : j \in Nat /\ j >= 1 /\ j <= Capacity
                         /\ j \in 1 .. Capacity + 1 /\ j # Capacity + 1
  BY CapacityFacts DEF Nodes
<1>5. chain[k] = c[k] /\ \A j \in Nodes : At(j) = value[c[j]] /\ (Holds(j, v) <=> value[c[j]] = v)
  BY <1>1, <1>2, <1>4, Seen DEF At
<1>6. CASE Holds(k, v) /\ value' = value /\ Return("add", v, 0)
  <2>1. R!Has(v) /\ Listed' = <<v>> \o R!Without(v)
    BY <1>1, <1>2, <1>3, <1>5, <1>6, UseMoves
  <2> QED
    BY <1>6, <2>1 DEF R!Add, R!Tell, Return
<1>7. PICK n : FillsUpTo(c, value, n)
  BY <1>2, FilledExists
<1>8. /\ n \in Nat /\ n <= Capacity /\ Len(Listed) = n
      /\ \A j \in 1 .. n : j \in Nodes /\ Listed[j] = value[c[j]]
      /\ \A j \in Nodes : value[c[j]] # -1 <=> j \in 1 .. n
  BY <1>1, <1>2, <1>7, ListFacts
<1>9. ASSUME NEW j \in Nodes, j < k
      PROVE  value[c[j]] \notin {-1, v}
  <2>1. j \in 1 .. k - 1
    BY <1>4, <1>9
  <2>2. ~ Holds(j, v) /\ At(j) # -1
    BY <1>3, <2>1 DEF AddStopsAt
  <2> QED
    BY <1>5, <2>2
<1>10. CASE At(k) = -1 /\ value' = [value EXCEPT ![chain[k]] = v] /\ Return("add", v, 1)
  <2>1. k = n + 1
    <3>1. k \notin 1 .. n /\ k > n
      BY <1>4, <1>5, <1>8, <1>10
    <3>2. ~ (n + 1 < k)
      <4> SUFFICES ASSUME n + 1 < k PROVE FALSE
        OBVIOUS
      <4>1. n + 1 \in Nodes
        BY <1>4, <1>8, CapacityFacts DEF Nodes
      <4> QED
        BY <1>8, <1>9, <4>1
    <3> QED
      BY <1>4, <1>8, <3>1, <3>2
  <2>2. \A j \in 1 .. n : Listed[j] # v
    BY <1>4, <1>8, <1>9, <2>1
  <2>3. ~ R!Has(v)
    BY <1>1, <1>2, <1>7, <2>2, ListFacts
  <2>4. Listed' = <<v>> \o Listed
    <3>1. value' = [value EXCEPT ![c[k]] = v] /\ pullToHead(k)
      BY <1>3, <1>5, <1>10
    <3>2. Runs(c, head, next) /\ InOrder(c, value) /\ FillsUpTo(c, value, n)
      BY <1>2, <1>7
    <3> QED
      BY <1>1, <2>1, <3>1, <3>2, NewInFront
  <2>5. Len(Listed) < Capacity
    BY <1>4, <1>8, <2>1, CapacityFacts
  <2> QED
    BY <1>10, <2>3, <2>4, <2>5 DEF R!Add, R!Tell, Return
<1>11. CASE /\ ~ Holds(k, v) /\ At(k) # -1
            /\ value' = [value EXCEPT ![chain[k]] = v] /\ Return("add", v, 2)
  <2>1. k = Capacity
    BY <1>1, <1>2, <1>3, <1>11, Seen DEF AddStopsAt
  <2>2. k = n /\ n = Capacity
    <3>1. k \in 1 .. n
      BY <1>5, <1>8, <1>11
    <3> QED
      BY <1>8, <2>1, <3>1, CapacityFacts
  <2>3. \A j \in 1 .. n : Listed[j] # v
    <3> SUFFICES ASSUME NEW j \in 1 .. n PROVE Listed[j] # v
      OBVIOUS
    <3>1. j \in Nodes /\ (j < k \/ j = k)
      BY <1>4, <1>8, <2>2
    <3> QED
      BY <1>5, <1>8, <1>9, <1>11, <3>1
  <2>4. ~ R!Has(v)
    BY <1>1, <1>2, <1>7, <2>3, ListFacts
  <2>5. Listed' = <<v>> \o SubSeq(Listed, 1, Capacity - 1)
    <3>1. value' = [value EXCEPT ![c[k]] = v] /\ pullToHead(k)
      BY <1>3, <1>5, <1>11
    <3>2. Runs(c, head, next) /\ InOrder(c, value) /\ FillsUpTo(c, value, n)
      BY <1>2, <1>7
    <3> QED
      BY <1>1, <2>2, <3>1, <3>2, NewInFront
  <2> QED
    BY <1>8, <1>11, <2>2, <2>4, <2>5 DEF R!Add, R!Tell, Return
<1> QED
  BY <1>3, <1>6, <1>10, <1>11

LEMMA LookImplements ==
  ASSUME ChainInv, size \/ capacity
  PROVE  R!Look
<1>1. PICK c : TypeOK /\ Runs(c, head, next) /\ InOrder(c, value)
  BY DEF ChainInv
<1>2. Listed' = Listed
  <2>1. UNCHANGED <<head, next, value>>
    BY DEF size, capacity
  <2> QED
    BY <2>1 DEF Listed, Filled, At, chain
<1>3. PICK n : FillsUpTo(c, value, n)
  BY <1>1, FilledExists
<1>4. /\ n \in Nat /\ n <= Capacity /\ Len(Listed) = n
      /\ \A j \in Nodes : value[c[j]] # -1 <=> j \in 1 .. n
  BY <1>1, <1>3, ListFacts
<1>5. /\ \A j \in 1 .. Capacity + 1 : j # Capacity + 1 <=> j \in Nodes
      /\ DOMAIN chain = 1 .. Capacity + 1
  BY <1>1, Seen, CapacityFacts DEF Nodes
<1>6. CASE size
  <2>1. PICK k \in DOMAIN chain :
          /\ Ends(k) /\ \A j \in 1 .. k - 1 : ~ Ends(j)
          /\ Return("size", 0, k - 1)
    BY <1>6 DEF size
  <2>2. k \in 1 .. Capacity + 1 /\ k - 1 >= 0
    BY <1>5, <2>1, CapacityFacts
  <2>3. k = n + 1
    <3>1. n + 1 \in 1 .. Capacity + 1
      BY <1>4, CapacityFacts
    <3>2. Ends(n + 1)
      <4>1. n + 1 \notin 1 .. n
        BY <1>4
      <4> QED
        BY <1>1, <1>4, <1>5, <3>1, <4>1, Seen
    <3>3. ~ (n + 1 < k)
      <4> SUFFICES ASSUME n + 1 < k PROVE FALSE
        OBVIOUS
      <4>1. n + 1 \in 1 .. k - 1
        BY <1>4, <2>2, CapacityFacts
      <4> QED
        BY <2>1, <3>2, <4>1
    <3>4. k \notin 1 .. n
      <4> SUFFICES ASSUME k \in 1 .. n PROVE FALSE
        OBVIOUS
      <4>1. k # Capacity + 1
        BY <1>4, CapacityFacts
      <4>2. value[c[k]] = -1
        BY <1>1, <2>1, <2>2, <4>1, Seen
      <4> QED
        BY <1>4, <1>5, <2>2, <4>1, <4>2
    <3> QED
      BY <1>4, <2>2, <3>3, <3>4, CapacityFacts
  <2>4. k - 1 = n
    BY <1>4, <2>3
  <2> QED
    BY <1>2, <1>4, <2>1, <2>4 DEF R!Look, R!Tell, Return
<1>7. CASE capacity
  <2>1. PICK k \in DOMAIN chain : chain[k] = NULL /\ Return("capacity", 0, k - 1)
    BY <1>7 DEF capacity
  <2>2. k = Capacity + 1
    BY <1>1, <1>5, <2>1, Seen
  <2>3. k - 1 = Capacity
    BY <2>2, CapacityFacts
  <2> QED
    BY <1>2, <2>1, <2>3 DEF R!Look, R!Tell, Return
<1> QED
  BY <1>6, <1>7

\* The chain of nodes implements the set of recent ints, for every capacity and
\* any calls (ListBoundedIntSet.java 52-255).
THEOREM RecentIsImplemented == Spec => RecentImplemented
<1>1. Init => ChainInv /\ R!RecentInit
  <2> SUFFICES ASSUME Init PROVE ChainInv /\ R!RecentInit
    OBVIOUS
  <2>1. ChainInv
    BY InitialChain
  <2>2. PICK c : TypeOK /\ Runs(c, head, next) /\ InOrder(c, value)
    BY <2>1 DEF ChainInv
  <2>3. PICK n : FillsUpTo(c, value, n)
    BY <2>2, FilledExists
  <2>4. /\ n \in Nat /\ n <= Capacity /\ Listed \in [1 .. n -> Values]
        /\ \A j \in 1 .. n : j \in Nodes /\ Listed[j] = value[c[j]]
        /\ \A j \in Nodes : value[c[j]] # -1 <=> j \in 1 .. n
    BY <2>2, <2>3, ListFacts
  <2>5. R!AllDistinct(Listed)
    <3>1. ASSUME NEW j \in 1 .. n, NEW k \in 1 .. n, j < k PROVE Listed[j] # Listed[k]
      <4>1. value[c[k]] # -1 /\ j \in Nodes /\ k \in Nodes
        BY <2>4
      <4>2. value[c[j]] # value[c[k]]
        BY <2>2, <3>1, <4>1 DEF InOrder
      <4> QED
        BY <2>4, <4>2
    <3> QED
      BY <2>4, <3>1 DEF R!AllDistinct
  <2>6. n \in 0 .. Capacity
    BY <2>4, CapacityFacts
  <2> QED
    BY <2>1, <2>4, <2>5, <2>6 DEF R!RecentInit, Init
<1>2. ChainInv /\ ChainInv' /\ [Next]_vars => [R!RecentNext]_<<Listed, result>>
  <2> SUFFICES ASSUME ChainInv, ChainInv', [Next]_vars
               PROVE  [R!RecentNext]_<<Listed, result>>
    OBVIOUS
  <2>1. CASE UNCHANGED vars
    BY <2>1 DEF vars, Listed, Filled, At, chain
  <2>2. CASE size \/ capacity
    BY <2>2, LookImplements DEF R!RecentNext
  <2>3. CASE \E v \in Values : contains(v) \/ remove(v) \/ add(v)
    BY <2>3, ContainsImplements, RemoveImplements, AddImplements DEF R!RecentNext
  <2> QED
    BY <2>1, <2>2, <2>3 DEF Next
<1> QED
  BY <1>1, <1>2, ChainInvariant, PTL DEF Spec, RecentImplemented, R!RecentSpec
=================================================================================
