----------------------------- MODULE WordFreq_proofs -----------------------------
(***************************************************************************)
(* Proofs about the word set, for any words, any nodes malloc may return   *)
(* and any calls, and about the programs that count words with it.  The    *)
(* chain is given by a numbering d of its cells, from the head field on.   *)
(***************************************************************************)
EXTENDS WordFreq, FiniteSetTheorems, Sums_proofs

\* The cells lead from the head field through n nodes, each once.
Runs(n, d) ==
  /\ n \in Nat
  /\ d \in [0 .. n -> Cells]
  /\ d[0] = HEAD
  /\ \A j, k \in 0 .. n : d[j] = d[k] => j = k
  /\ \A k \in 0 .. n : cells[d[k]] = IF k = n THEN NULL ELSE d[k + 1]

\* The nodes hold different words, each added at least once.
Holds(n, d) ==
  /\ \A k \in 1 .. n : /\ word[d[k]] \in Words
                       /\ freq[d[k]] \in Nat /\ freq[d[k]] >= 1
  /\ \A j, k \in 1 .. n : word[d[j]] = word[d[k]] => j = k

\* The nodes are all that is allocated, and the size field counts them.
Owns(n, d) ==
  /\ live = {d[k] : k \in 1 .. n}
  /\ Cardinality(live) = n
  /\ size = n

Lists(n, d) == Runs(n, d) /\ Holds(n, d) /\ Owns(n, d)

Fields == DOMAIN cells = Cells /\ DOMAIN word = Nodes /\ DOMAIN freq = Nodes

SetInv == Fields /\ live \subseteq Nodes /\ (result.op # "free" => \E n, d : Lists(n, d))

Most == Cardinality(Nodes)

LEMMA PointerFacts ==
  /\ Most \in Nat /\ IsFiniteSet(Nodes)
  /\ NULL \notin Cells /\ HEAD \notin Nodes /\ HEAD # NULL
  /\ Nodes \subseteq Cells /\ HEAD \in Cells
  /\ \A c \in Cells : c # HEAD => c \in Nodes
BY PointersAssumption, FS_CardinalityType DEF Most, Cells

\* Behind the head field there are only nodes, and not more than there are.
LEMMA NodesNumbered ==
  ASSUME NEW n, NEW d, Lists(n, d), live \subseteq Nodes
  PROVE  /\ n \in Nat /\ n <= Most /\ d[0] = HEAD
         /\ \A k \in 0 .. n : d[k] \in Cells /\ d[k] # NULL
         /\ \A k \in 1 .. n : k \in 0 .. n /\ d[k] \in Nodes /\ d[k] # HEAD
<1>1. n \in Nat /\ d[0] = HEAD
  BY DEF Lists, Runs
<1>2. \A k \in 0 .. n : d[k] \in Cells /\ d[k] # NULL
  BY PointerFacts DEF Lists, Runs
<1>3. ASSUME NEW k \in 1 .. n PROVE k \in 0 .. n /\ d[k] \in Nodes /\ d[k] # HEAD
  <2>1. k \in 0 .. n /\ 0 \in 0 .. n /\ k # 0
    BY <1>1
  <2>2. d[k] # d[0]
    BY <2>1 DEF Lists, Runs
  <2> QED
    BY <1>1, <1>2, <2>1, <2>2, PointerFacts
<1>4. n <= Most
  BY FS_Subset, PointerFacts DEF Lists, Owns, Most
<1> QED
  BY <1>1, <1>2, <1>3, <1>4

\* The definition of the chain, as an equation.
IsChain(u) ==
  u = [k \in 1 .. Most + 1 |->
         IF k = 1 THEN HEAD ELSE IF u[k - 1] = NULL THEN NULL ELSE cells[u[k - 1]]]

\* The equation has one solution: the numbering, and NULL behind it.
LEMMA ChainIs ==
  ASSUME NEW n, NEW d, Lists(n, d), live \subseteq Nodes
  PROVE  /\ DOMAIN chain = 1 .. Most + 1
         /\ \A k \in 1 .. Most + 1 : chain[k] = IF k <= n + 1 THEN d[k - 1] ELSE NULL
<1> DEFINE nth(k) == IF k <= n + 1 THEN d[k - 1] ELSE NULL
           g == [k \in 1 .. Most + 1 |-> nth(k)]
           e == [k \in 1 .. Most + 1 |->
                   IF k = 1 THEN HEAD ELSE IF g[k - 1] = NULL THEN NULL ELSE cells[g[k - 1]]]
<1>1. /\ n \in Nat /\ n <= Most /\ Most \in Nat /\ nth(1) = HEAD
      /\ \A k \in 0 .. n : d[k] # NULL /\ cells[d[k]] = IF k = n THEN NULL ELSE d[k + 1]
  BY NodesNumbered, PointerFacts DEF Lists, Runs
\* One step along the chain.
<1>2. ASSUME NEW k \in 1 .. Most
      PROVE  nth(k + 1) = IF nth(k) = NULL THEN NULL ELSE cells[nth(k)]
  <2>1. CASE k > n + 1
    BY <1>1, <2>1
  <2>2. CASE k <= n + 1
    <3>1. k - 1 \in 0 .. n /\ (k + 1) - 1 = k /\ (k - 1) + 1 = k /\ (k = n + 1 <=> k - 1 = n)
      BY <1>1, <2>2
    <3>2. nth(k) = d[k - 1] /\ nth(k) # NULL
      BY <1>1, <2>2, <3>1
    <3>3. cells[d[k - 1]] = IF k = n + 1 THEN NULL ELSE d[k]
      BY <1>1, <3>1
    <3>4. nth(k + 1) = IF k = n + 1 THEN NULL ELSE d[k]
      BY <1>1, <2>2, <3>1
    <3> QED
      BY <3>2, <3>3, <3>4
  <2> QED
    BY <1>1, <2>1, <2>2
<1>3. IsChain(g)
  <2>1. ASSUME NEW k \in 1 .. Most + 1 PROVE g[k] = e[k]
    <3>1. CASE k = 1
      BY <1>1, <3>1
    <3>2. CASE k # 1
      <4>1. k - 1 \in 1 .. Most /\ k - 1 \in 1 .. Most + 1 /\ (k - 1) + 1 = k
        BY <1>1, <3>2
      <4> HIDE DEF nth
      <4>2. nth(k) = IF nth(k - 1) = NULL THEN NULL ELSE cells[nth(k - 1)]
        BY <1>2, <4>1
      <4> QED
        BY <3>2, <4>1, <4>2
    <3> QED
      BY <3>1, <3>2
  <2>2. g = e
    BY <2>1
  <2> QED
    BY <2>2 DEF IsChain
<1>4. IsChain(chain)
  <2>1. chain = CHOOSE u : IsChain(u)
    BY DEF chain, IsChain, Most
  <2> QED
    BY <1>3, <2>1
<1> HIDE DEF nth, g, e
<1>5. /\ DOMAIN chain = 1 .. Most + 1
      /\ \A k \in 1 .. Most + 1 :
           chain[k] = IF k = 1 THEN HEAD
                      ELSE IF chain[k - 1] = NULL THEN NULL ELSE cells[chain[k - 1]]
  BY <1>4 DEF IsChain
<1> DEFINE S == {k \in Nat : k + 1 \in 1 .. Most + 1 => chain[k + 1] = nth(k + 1)}
<1>6. 0 \in S
  BY <1>1, <1>5
<1>7. ASSUME NEW k \in Nat, k \in S PROVE k + 1 \in S
  <2> SUFFICES ASSUME (k + 1) + 1 \in 1 .. Most + 1 PROVE chain[(k + 1) + 1] = nth((k + 1) + 1)
    OBVIOUS
  <2>1. k + 1 \in 1 .. Most /\ k + 1 \in 1 .. Most + 1 /\ ((k + 1) + 1) - 1 = k + 1
        /\ (k + 1) + 1 # 1
    BY <1>1
  <2>2. chain[k + 1] = nth(k + 1)
    BY <1>7, <2>1
  <2> QED
    BY <1>2, <1>5, <2>1, <2>2
<1>8. Nat \subseteq S
  <2> HIDE DEF S
  <2> QED
    BY <1>6, <1>7, NatInductionOnSets
<1>9. ASSUME NEW k \in 1 .. Most + 1 PROVE chain[k] = nth(k)
  <2>1. k - 1 \in Nat /\ (k - 1) + 1 = k
    BY <1>1
  <2> QED
    BY <1>8, <2>1
<1> QED
  BY <1>5, <1>9 DEF nth

\* The position search(w) stops at: before the node of w, or behind all nodes.
At(n, d, w, p) ==
  /\ p \in 0 .. n
  /\ p < n => word[d[p + 1]] = w
  /\ p = n => \A k \in 1 .. n : word[d[k]] # w

LEMMA SearchStops ==
  ASSUME NEW n, NEW d, Lists(n, d), live \subseteq Nodes, NEW w
  PROVE  \E p : At(n, d, w, p) /\ search(w) = d[p] /\ (Found(w) <=> p < n)
                /\ (p < n => cells[search(w)] = d[p + 1])
<1>1. /\ n \in Nat /\ n <= Most /\ Most \in Nat
      /\ \A k \in 0 .. n : d[k] # NULL /\ cells[d[k]] = IF k = n THEN NULL ELSE d[k + 1]
  BY NodesNumbered, PointerFacts DEF Lists, Runs
<1>2. \A j, k \in 1 .. n : word[d[j]] = word[d[k]] => j = k
  BY DEF Lists, Holds
<1>3. \E p : At(n, d, w, p)
  <2>1. CASE \A k \in 1 .. n : word[d[k]] # w
    BY <1>1, <2>1 DEF At
  <2>2. CASE \E k \in 1 .. n : word[d[k]] = w
    <3>1. PICK k \in 1 .. n : word[d[k]] = w
      BY <2>2
    <3>2. k - 1 \in 0 .. n /\ (k - 1) + 1 = k /\ k - 1 # n
      BY <1>1
    <3> QED
      BY <3>1, <3>2 DEF At
  <2> QED
    BY <2>1, <2>2
<1>4. PICK p : At(n, d, w, p)
  BY <1>3
<1>5. p \in 0 .. n
  BY <1>4 DEF At
<1>6. \A k \in 0 .. n : StopsAt(d[k], w) <=> (k = n \/ word[d[k + 1]] = w)
  <2>1. \A k \in 0 .. n : k # n => k + 1 \in 0 .. n
    BY <1>1
  <2> QED
    BY <1>1, <2>1 DEF StopsAt
<1>7. StopsAt(d[p], w)
  BY <1>1, <1>4, <1>5, <1>6 DEF At
<1>8. ASSUME NEW k \in 0 .. n, k < p PROVE ~ StopsAt(d[k], w)
  <2>1. k # n /\ k + 1 \in 1 .. n /\ k + 1 # p + 1 /\ (p < n => p + 1 \in 1 .. n)
    BY <1>1, <1>5, <1>8
  <2>2. word[d[k + 1]] # w
    BY <1>2, <1>4, <1>5, <1>1, <2>1 DEF At
  <2> QED
    BY <1>6, <2>1, <2>2
<1>9. search(w) = d[p]
  <2> DEFINE First(j) == StopsAt(chain[j], w) /\ \A i \in 1 .. j - 1 : ~ StopsAt(chain[i], w)
  <2>1. /\ DOMAIN chain = 1 .. Most + 1
        /\ \A k \in 1 .. Most + 1 : chain[k] = IF k <= n + 1 THEN d[k - 1] ELSE NULL
    BY ChainIs
  <2>2. p + 1 \in 1 .. Most + 1 /\ chain[p + 1] = d[p]
    <3>1. p + 1 \in 1 .. Most + 1 /\ p + 1 <= n + 1 /\ (p + 1) - 1 = p
      BY <1>1, <1>5
    <3> QED
      BY <2>1, <3>1
  <2>3. \A i \in 1 .. p : ~ StopsAt(chain[i], w)
    <3> SUFFICES ASSUME NEW i \in 1 .. p PROVE ~ StopsAt(chain[i], w)
      OBVIOUS
    <3>1. i \in 1 .. Most + 1 /\ i <= n + 1 /\ i - 1 \in 0 .. n /\ i - 1 < p
      BY <1>1, <1>5
    <3>2. chain[i] = d[i - 1]
      BY <2>1, <3>1
    <3> QED
      BY <1>8, <3>1, <3>2
  <2>4. First(p + 1)
    <3>1. (p + 1) - 1 = p
      BY <1>5
    <3> QED
      BY <1>7, <2>2, <2>3, <3>1
  <2>5. ASSUME NEW j \in 1 .. Most + 1, First(j) PROVE j = p + 1
    <3>1. ~ (j < p + 1)
      <4>1. j < p + 1 => j \in 1 .. p
        BY <1>5
      <4> QED
        BY <2>3, <2>5, <4>1
    <3>2. ~ (p + 1 < j)
      <4>1. p + 1 < j => p + 1 \in 1 .. j - 1
        BY <1>5
      <4> QED
        BY <1>7, <2>2, <2>5, <4>1
    <3> QED
      BY <1>5, <3>1, <3>2
  <2>6. search(w) = chain[CHOOSE j \in 1 .. Most + 1 : First(j)]
    BY <2>1 DEF search
  <2> HIDE DEF First
  <2>7. (CHOOSE j \in 1 .. Most + 1 : First(j)) = p + 1
    BY <2>2, <2>4, <2>5
  <2> QED
    BY <2>2, <2>6, <2>7
<1>10. (Found(w) <=> p < n) /\ (p < n => cells[search(w)] = d[p + 1])
  <2>1. p < n <=> p # n
    BY <1>1, <1>5
  <2>2. p # n => p + 1 \in 0 .. n
    BY <1>1, <1>5
  <2> QED
    BY <1>1, <1>5, <1>9, <2>1, <2>2 DEF Found
<1> QED
  BY <1>4, <1>9, <1>10

\* What the table of frequencies says, in terms of the numbering.
FrequenciesOf(n, d) ==
  /\ DOMAIN Frequency = Words
  /\ \A k \in 1 .. n : Frequency[word[d[k]]] = freq[d[k]]
  /\ \A w \in Words : (\A k \in 1 .. n : word[d[k]] # w) => Frequency[w] = 0

FrequenciesListed == \A n, d : Lists(n, d) /\ live \subseteq Nodes => FrequenciesOf(n, d)

LEMMA FrequenciesHold == FrequenciesListed
<1> SUFFICES ASSUME NEW n, NEW d, Lists(n, d), live \subseteq Nodes PROVE FrequenciesOf(n, d)
  BY DEF FrequenciesListed
<1>1. n \in Nat /\ \A j, k \in 1 .. n : word[d[j]] = word[d[k]] => j = k
  BY DEF Lists, Runs, Holds
<1>2. DOMAIN Frequency = Words
  BY DEF Frequency
<1>3. ASSUME NEW k \in 1 .. n PROVE Frequency[word[d[k]]] = freq[d[k]]
  <2> DEFINE w == word[d[k]]
  <2>1. w \in Words
    BY DEF Lists, Holds
  <2>2. PICK p : /\ At(n, d, w, p) /\ (Found(w) <=> p < n)
                 /\ (p < n => cells[search(w)] = d[p + 1])
    BY SearchStops
  <2>3. p \in 0 .. n /\ p # n /\ p < n /\ p + 1 \in 1 .. n
    BY <1>1, <2>2 DEF At
  <2>4. p + 1 = k
    BY <1>1, <2>2, <2>3 DEF At
  <2>5. Frequency[w] = IF Found(w) THEN freq[cells[search(w)]] ELSE 0
    BY <2>1 DEF Frequency
  <2> QED
    BY <2>2, <2>3, <2>4, <2>5
<1>4. ASSUME NEW w \in Words, \A k \in 1 .. n : word[d[k]] # w PROVE Frequency[w] = 0
  <2>1. PICK p : At(n, d, w, p) /\ (Found(w) <=> p < n)
    BY SearchStops
  <2>2. ~ (p < n)
    <3>1. p < n => p + 1 \in 1 .. n
      BY <1>1, <2>1 DEF At
    <3> QED
      BY <1>4, <2>1, <3>1 DEF At
  <2> QED
    BY <2>1, <2>2 DEF Frequency
<1> QED
  BY <1>2, <1>3, <1>4 DEF FrequenciesOf

\* The same after a step.
LEMMA FrequenciesHoldNext == FrequenciesListed'
BY FrequenciesHold, PTL

-------------------------------------------------------------------------------
\* The list, in terms of the numbering.
ListOf(n, d) ==
  /\ DOMAIN Listed = 1 .. n /\ \A k \in 1 .. n : Listed[k] = d[k]
  /\ DOMAIN List = 1 .. n /\ \A k \in 1 .. n : List[k] = word[d[k]]
  /\ \A y : y \in Order <=> \E j, k \in 1 .. n : j <= k /\ y = <<word[d[j]], word[d[k]]>>

ListsListed == \A n, d : Lists(n, d) /\ live \subseteq Nodes => ListOf(n, d)

LEMMA ListsHold == ListsListed
<1> SUFFICES ASSUME NEW n, NEW d, Lists(n, d), live \subseteq Nodes PROVE ListOf(n, d)
  BY DEF ListsListed
<1>1. /\ n \in Nat /\ n <= Most /\ Most \in Nat
      /\ \A k \in 0 .. n : d[k] # NULL
      /\ \A k \in 1 .. Most + 1 : chain[k] = IF k <= n + 1 THEN d[k - 1] ELSE NULL
  BY NodesNumbered, PointerFacts, ChainIs
<1>2. \A k \in 1 .. Most : chain[k + 1] = IF k <= n THEN d[k] ELSE NULL
  <2> SUFFICES ASSUME NEW k \in 1 .. Most PROVE chain[k + 1] = IF k <= n THEN d[k] ELSE NULL
    OBVIOUS
  <2>1. k + 1 \in 1 .. Most + 1 /\ (k + 1) - 1 = k /\ (k + 1 <= n + 1 <=> k <= n)
    BY <1>1
  <2> QED
    BY <1>1, <2>1
<1>3. {j \in 1 .. Most : chain[j + 1] # NULL} = 1 .. n
  <2>1. \A k \in 1 .. n : k \in 1 .. Most /\ k \in 0 .. n /\ k <= n
    BY <1>1
  <2>2. \A k \in 1 .. Most : k <= n => k \in 1 .. n
    BY <1>1
  <2> QED
    BY <1>1, <1>2, <2>1, <2>2
<1>4. DOMAIN Listed = 1 .. n /\ \A k \in 1 .. n : Listed[k] = d[k]
  <2>1. \A k \in 1 .. n : k \in 1 .. Most /\ k <= n
    BY <1>1
  <2>2. Listed = [k \in 1 .. n |-> chain[k + 1]]
    BY <1>3 DEF Listed, Most
  <2> QED
    BY <1>2, <2>1, <2>2
<1>5. DOMAIN List = 1 .. n /\ \A k \in 1 .. n : List[k] = word[d[k]]
  BY <1>4 DEF List
<1>6. \A y : y \in Order <=> \E j, k \in 1 .. n : j <= k /\ y = <<word[d[j]], word[d[k]]>>
  <2>1. Order = {<<List[u[1]], List[u[2]]>> : u \in {i \in (1 .. n) \X (1 .. n) : i[1] <= i[2]}}
    BY <1>5 DEF Order
  <2> SUFFICES ASSUME NEW y
               PROVE  y \in Order <=> \E j, k \in 1 .. n : j <= k /\ y = <<word[d[j]], word[d[k]]>>
    OBVIOUS
  <2>2. ASSUME y \in Order
        PROVE  \E j, k \in 1 .. n : j <= k /\ y = <<word[d[j]], word[d[k]]>>
    <3>1. PICK u \in (1 .. n) \X (1 .. n) : u[1] <= u[2] /\ y = <<List[u[1]], List[u[2]]>>
      BY <2>1, <2>2
    <3> QED
      BY <1>5, <3>1
  <2>3. ASSUME NEW j \in 1 .. n, NEW k \in 1 .. n, j <= k, y = <<word[d[j]], word[d[k]]>>
        PROVE  y \in Order
    <3>1. <<j, k>> \in {i \in (1 .. n) \X (1 .. n) : i[1] <= i[2]}
      BY <2>3
    <3>2. y = <<List[<<j, k>>[1]], List[<<j, k>>[2]]>>
      BY <1>5, <2>3
    <3> QED
      BY <2>1, <3>1, <3>2
  <2> QED
    BY <2>2, <2>3
<1> QED
  BY <1>4, <1>5, <1>6 DEF ListOf

LEMMA ListsHoldNext == ListsListed'
BY ListsHold, PTL

\* A step moves the nodes of all words but w from position k to f[k], in the
\* same order, and leaves what they hold.
Moved(n, d, m, e, w, f) ==
  /\ \A k \in 1 .. n : word[d[k]] # w =>
       f[k] \in 1 .. m /\ e[f[k]] = d[k] /\ word'[d[k]] = word[d[k]] /\ freq'[d[k]] = freq[d[k]]
  /\ \A j, k \in 1 .. n : word[d[j]] # w /\ word[d[k]] # w /\ j <= k => f[j] <= f[k]
  /\ \A i \in 1 .. m : word'[e[i]] # w => \E k \in 1 .. n : word[d[k]] # w /\ f[k] = i

\* What w has been added afterwards.
HasNow(m, e, w, v) ==
  \/ \E i \in 1 .. m : word'[e[i]] = w /\ freq'[e[i]] = v
  \/ v = 0 /\ \A i \in 1 .. m : word'[e[i]] # w

\* The other words keep their order and their frequencies.
LEMMA OthersStay ==
  ASSUME NEW n, NEW d, Lists(n, d), live \subseteq Nodes,
         NEW m, NEW e, Lists(m, e)', (live \subseteq Nodes)',
         NEW w \in Words, NEW f, Moved(n, d, m, e, w, f), NEW v, HasNow(m, e, w, v)
  PROVE  /\ Without(w, Order') = Without(w, Order)
         /\ Frequency' = [Frequency EXCEPT ![w] = v]
<1>1. ListOf(n, d) /\ ListOf(m, e)' /\ FrequenciesOf(n, d) /\ FrequenciesOf(m, e)'
  BY FrequenciesHold, FrequenciesHoldNext, ListsHold, ListsHoldNext
     DEF FrequenciesListed, ListsListed
<1>2. n \in Nat /\ m \in Nat
  BY DEF Lists, Runs
<1>3. /\ \A k \in 1 .. n : word[d[k]] # w =>
           f[k] \in 1 .. m /\ e[f[k]] = d[k] /\ word'[d[k]] = word[d[k]] /\ freq'[d[k]] = freq[d[k]]
      /\ \A j, k \in 1 .. n : word[d[j]] # w /\ word[d[k]] # w /\ j <= k => f[j] <= f[k]
      /\ \A i \in 1 .. m : word'[e[i]] # w => \E k \in 1 .. n : word[d[k]] # w /\ f[k] = i
  BY DEF Moved
<1>4. /\ \A y : y \in Order <=> \E j, k \in 1 .. n : j <= k /\ y = <<word[d[j]], word[d[k]]>>
      /\ \A y : y \in Order' <=> \E j, k \in 1 .. m : j <= k /\ y = <<word'[e[j]], word'[e[k]]>>
  BY <1>1 DEF ListOf
<1>5. ASSUME NEW y \in Without(w, Order) PROVE y \in Without(w, Order')
  <2>1. y \in Order /\ y[1] # w /\ y[2] # w
    BY DEF Without
  <2>2. PICK j, k \in 1 .. n : j <= k /\ y = <<word[d[j]], word[d[k]]>>
    BY <1>4, <2>1
  <2>3. word[d[j]] # w /\ word[d[k]] # w
    BY <2>1, <2>2
  <2>4. /\ f[j] \in 1 .. m /\ f[k] \in 1 .. m /\ f[j] <= f[k]
        /\ word'[e[f[j]]] = word[d[j]] /\ word'[e[f[k]]] = word[d[k]]
    BY <1>3, <2>2, <2>3
  <2>5. y \in Order'
    BY <1>4, <2>2, <2>4
  <2> QED
    BY <2>1, <2>5 DEF Without
<1>6. ASSUME NEW y \in Without(w, Order') PROVE y \in Without(w, Order)
  <2>1. y \in Order' /\ y[1] # w /\ y[2] # w
    BY DEF Without
  <2>2. PICK g, h \in 1 .. m : g <= h /\ y = <<word'[e[g]], word'[e[h]]>>
    BY <1>4, <2>1
  <2>3. word'[e[g]] # w /\ word'[e[h]] # w
    BY <2>1, <2>2
  <2>4. PICK j \in 1 .. n : word[d[j]] # w /\ f[j] = g
    BY <1>3, <2>3
  <2>5. PICK k \in 1 .. n : word[d[k]] # w /\ f[k] = h
    BY <1>3, <2>3
  <2>6. word'[e[g]] = word[d[j]] /\ word'[e[h]] = word[d[k]]
    BY <1>3, <2>4, <2>5
  <2>7. j <= k
    <3>1. ~ (k <= j) \/ g = h
      BY <1>3, <2>2, <2>4, <2>5
    <3>2. g = h => j = k
      BY <2>4, <2>5, <2>6 DEF Lists, Holds
    <3> QED
      BY <3>1, <3>2
  <2>8. y \in Order
    BY <1>4, <2>2, <2>6, <2>7
  <2> QED
    BY <2>1, <2>8 DEF Without
<1>7. Frequency' = [Frequency EXCEPT ![w] = v]
  <2>1. /\ DOMAIN Frequency = Words /\ DOMAIN Frequency' = Words
        /\ \A k \in 1 .. n : Frequency[word[d[k]]] = freq[d[k]]
        /\ \A z \in Words : (\A k \in 1 .. n : word[d[k]] # z) => Frequency[z] = 0
        /\ \A k \in 1 .. m : Frequency'[word'[e[k]]] = freq'[e[k]]
        /\ \A z \in Words : (\A k \in 1 .. m : word'[e[k]] # z) => Frequency'[z] = 0
    BY <1>1 DEF FrequenciesOf
  <2>2. Frequency'[w] = v
    BY <2>1 DEF HasNow
  <2>3. ASSUME NEW z \in Words, z # w PROVE Frequency'[z] = Frequency[z]
    <3>1. CASE \E k \in 1 .. n : word[d[k]] = z
      <4>1. PICK k \in 1 .. n : word[d[k]] = z
        BY <3>1
      <4>2. f[k] \in 1 .. m /\ e[f[k]] = d[k] /\ word'[d[k]] = z /\ freq'[d[k]] = freq[d[k]]
        BY <1>3, <2>3, <4>1
      <4> QED
        BY <2>1, <4>1, <4>2
    <3>2. CASE \A k \in 1 .. n : word[d[k]] # z
      <4>1. \A i \in 1 .. m : word'[e[i]] # z
        BY <1>3, <2>3, <3>2
      <4> QED
        BY <2>1, <3>2, <4>1
    <3> QED
      BY <3>1, <3>2
  <2>4. /\ Frequency = [z \in Words |-> Frequency[z]]
        /\ Frequency' = [z \in Words |-> Frequency'[z]]
    BY DEF Frequency
  <2> HIDE DEF Frequency
  <2> QED
    BY <2>1, <2>2, <2>3, <2>4
<1> QED
  BY <1>5, <1>6, <1>7

-------------------------------------------------------------------------------
\* A new node for a new word, wherever it is linked in.
LEMMA NodeAdded ==
  ASSUME NEW n, NEW d, Lists(n, d), live \subseteq Nodes, Fields,
         NEW w \in Words, \A k \in 1 .. n : word[d[k]] # w,
         NEW x \in Nodes, NEW links, NewNode(x, w, links),
         NEW m, m = n + 1, NEW e, Runs(m, e)',
         NEW f, \A k \in 1 .. n : f[k] \in 1 .. m /\ e[f[k]] = d[k],
         \A j, k \in 1 .. n : j <= k => f[j] <= f[k],
         NEW i0 \in 1 .. m, e[i0] = x, \A i \in 1 .. m : i = i0 \/ \E k \in 1 .. n : f[k] = i
  PROVE  Lists(m, e)' /\ Moved(n, d, m, e, w, f) /\ HasNow(m, e, w, 1) /\ (live \subseteq Nodes)'
<1>1. /\ x \notin live /\ live' = live \cup {x} /\ size' = size + 1
      /\ word' = [word EXCEPT ![x] = w] /\ freq' = [freq EXCEPT ![x] = 1]
      /\ DOMAIN word = Nodes /\ DOMAIN freq = Nodes
  BY DEF NewNode, Fields
<1>2. /\ n \in Nat /\ m \in Nat
      /\ live = {d[k] : k \in 1 .. n} /\ Cardinality(live) = n /\ size = n
      /\ \A k \in 1 .. n : /\ word[d[k]] \in Words
                           /\ freq[d[k]] \in Nat /\ freq[d[k]] >= 1
      /\ \A j, k \in 1 .. n : word[d[j]] = word[d[k]] => j = k
  BY DEF Lists, Runs, Holds, Owns
<1>3. \A k \in 1 .. n : d[k] \in Nodes /\ d[k] # x
  BY <1>1, <1>2
<1>4. /\ \A k \in 1 .. n : word'[d[k]] = word[d[k]] /\ freq'[d[k]] = freq[d[k]]
      /\ word'[x] = w /\ freq'[x] = 1
  BY <1>1, <1>3
<1>5. Moved(n, d, m, e, w, f)
  <2>1. \A i \in 1 .. m : word'[e[i]] # w => \E k \in 1 .. n : word[d[k]] # w /\ f[k] = i
    BY <1>4
  <2> QED
    BY <1>4, <2>1 DEF Moved
<1>6. HasNow(m, e, w, 1)
  BY <1>4 DEF HasNow
<1>7. Holds(m, e)'
  <2>1. \A i \in 1 .. m : word'[e[i]] \in Words /\ freq'[e[i]] \in Nat /\ freq'[e[i]] >= 1
    <3> SUFFICES ASSUME NEW i \in 1 .. m
                 PROVE  word'[e[i]] \in Words /\ freq'[e[i]] \in Nat /\ freq'[e[i]] >= 1
      OBVIOUS
    <3>1. CASE i = i0
      BY <1>4, <3>1
    <3>2. CASE i # i0
      <4>1. PICK k \in 1 .. n : f[k] = i
        BY <3>2
      <4> QED
        BY <1>2, <1>4, <4>1
    <3> QED
      BY <3>1, <3>2
  <2>2. ASSUME NEW i \in 1 .. m, NEW j \in 1 .. m, word'[e[i]] = word'[e[j]]
        PROVE  i = j
    <3>1. \A h \in 1 .. m : word'[e[h]] = w => h = i0
      <4> SUFFICES ASSUME NEW h \in 1 .. m, word'[e[h]] = w, h # i0 PROVE FALSE
        OBVIOUS
      <4>1. PICK k \in 1 .. n : f[k] = h
        OBVIOUS
      <4> QED
        BY <1>4, <4>1
    <3>2. CASE word'[e[i]] = w
      BY <2>2, <3>1, <3>2
    <3>3. CASE word'[e[i]] # w
      <4>1. PICK g \in 1 .. n : f[g] = i
        BY <1>4, <3>3
      <4>2. PICK h \in 1 .. n : f[h] = j
        BY <1>4, <2>2, <3>3
      <4> QED
        BY <1>2, <1>4, <2>2, <4>1, <4>2
    <3> QED
      BY <3>2, <3>3
  <2> QED
    BY <2>1, <2>2 DEF Holds
<1>8. Owns(m, e)'
  <2>1. live' = {e[i] : i \in 1 .. m}
    <3>1. \A i \in 1 .. m : e[i] = x \/ \E k \in 1 .. n : e[i] = d[k]
      OBVIOUS
    <3>2. \A k \in 1 .. n : \E i \in 1 .. m : d[k] = e[i]
      OBVIOUS
    <3> QED
      BY <1>1, <1>2, <3>1, <3>2
  <2>2. IsFiniteSet(live)
    BY PointerFacts, FS_Subset
  <2>3. Cardinality(live \cup {x}) = Cardinality(live) + 1
    BY <1>1, <2>2, FS_AddElement
  <2> QED
    BY <1>1, <1>2, <2>1, <2>3 DEF Owns
<1> QED
  BY <1>1, <1>5, <1>6, <1>7, <1>8 DEF Lists

Reaches(f, n) == \A i \in 1 .. n : \E k \in 1 .. n : f[k] = i

\* Another use of a word, wherever its node is linked in.
LEMMA NodeCounted ==
  ASSUME NEW n, NEW d, Lists(n, d), live \subseteq Nodes, Fields,
         NEW w \in Words, NEW q \in 1 .. n, word[d[q]] = w, Increment(d[q]),
         NEW e, Runs(n, e)',
         NEW f, \A k \in 1 .. n : f[k] \in 1 .. n /\ e[f[k]] = d[k],
         \A j, k \in 1 .. n : j # q /\ k # q /\ j <= k => f[j] <= f[k],
         Reaches(f, n)
  PROVE  /\ Lists(n, e)' /\ Moved(n, d, n, e, w, f) /\ HasNow(n, e, w, freq[d[q]] + 1)
         /\ (live \subseteq Nodes)'
<1>1. /\ live' = live /\ size' = size /\ word' = word
      /\ freq' = [freq EXCEPT ![d[q]] = freq[d[q]] + 1] /\ DOMAIN freq = Nodes
  BY DEF Increment, Fields
<1>2. /\ n \in Nat
      /\ live = {d[k] : k \in 1 .. n} /\ Cardinality(live) = n /\ size = n
      /\ \A k \in 1 .. n : /\ word[d[k]] \in Words
                           /\ freq[d[k]] \in Nat /\ freq[d[k]] >= 1
      /\ \A j, k \in 1 .. n : word[d[j]] = word[d[k]] => j = k
  BY DEF Lists, Runs, Holds, Owns
<1>3. \A k \in 1 .. n : d[k] \in Nodes /\ (k # q => d[k] # d[q])
  BY <1>2
<1>4. /\ freq'[d[q]] = freq[d[q]] + 1
      /\ \A k \in 1 .. n : k # q => freq'[d[k]] = freq[d[k]]
  BY <1>1, <1>3
<1>5. \A k \in 1 .. n : word[d[k]] # w <=> k # q
  BY <1>2
<1>6. Moved(n, d, n, e, w, f)
  <2>1. \A i \in 1 .. n : word'[e[i]] # w => \E k \in 1 .. n : word[d[k]] # w /\ f[k] = i
    BY <1>1 DEF Reaches
  <2> QED
    BY <1>1, <1>4, <1>5, <2>1 DEF Moved
<1>7. HasNow(n, e, w, freq[d[q]] + 1)
  BY <1>1, <1>4 DEF HasNow
<1>8. Holds(n, e)'
  <2>1. \A k \in 1 .. n : freq'[d[k]] \in Nat /\ freq'[d[k]] >= 1
    BY <1>2, <1>4
  <2>2. \A i \in 1 .. n : \E k \in 1 .. n : e[i] = d[k] /\ f[k] = i
    BY DEF Reaches
  <2>3. ASSUME NEW i \in 1 .. n
        PROVE  word'[e[i]] \in Words /\ freq'[e[i]] \in Nat /\ freq'[e[i]] >= 1
    <3>1. PICK k \in 1 .. n : e[i] = d[k]
      BY <2>2
    <3> QED
      BY <1>1, <1>2, <2>1, <3>1
  <2>4. ASSUME NEW i \in 1 .. n, NEW j \in 1 .. n, word'[e[i]] = word'[e[j]] PROVE i = j
    <3>1. PICK g \in 1 .. n : e[i] = d[g] /\ f[g] = i
      BY <2>2
    <3>2. PICK h \in 1 .. n : e[j] = d[h] /\ f[h] = j
      BY <2>2
    <3> QED
      BY <1>1, <1>2, <2>4, <3>1, <3>2
  <2> QED
    BY <2>3, <2>4 DEF Holds
<1>9. Owns(n, e)'
  <2>1. live' = {e[i] : i \in 1 .. n}
    <3>1. \A i \in 1 .. n : \E k \in 1 .. n : e[i] = d[k]
      BY DEF Reaches
    <3>2. \A k \in 1 .. n : \E i \in 1 .. n : d[k] = e[i]
      OBVIOUS
    <3>3. live' = {d[k] : k \in 1 .. n}
      BY <1>1, <1>2
    <3> QED
      BY ONLY <3>1, <3>2, <3>3
  <2> QED
    BY <1>1, <1>2, <2>1 DEF Owns
<1> QED
  BY <1>1, <1>6, <1>7, <1>8, <1>9 DEF Lists

\* A word removed: the node at position q goes.
LEMMA NodeRemoved ==
  ASSUME NEW n, NEW d, Lists(n, d), live \subseteq Nodes,
         NEW w \in Words, NEW q \in 1 .. n, word[d[q]] = w,
         live' = live \ {d[q]}, size' = size - 1, UNCHANGED <<word, freq>>,
         NEW m, m = n - 1, NEW e, Runs(m, e)',
         NEW f, \A k \in 1 .. n : k # q => f[k] \in 1 .. m /\ e[f[k]] = d[k],
         \A j, k \in 1 .. n : j # q /\ k # q /\ j <= k => f[j] <= f[k],
         \A i \in 1 .. m : \E k \in 1 .. n : k # q /\ f[k] = i
  PROVE  /\ Lists(m, e)' /\ Moved(n, d, m, e, w, f) /\ HasNow(m, e, w, 0)
         /\ (live \subseteq Nodes)'
<1>1. word' = word /\ freq' = freq
  OBVIOUS
<1>2. /\ n \in Nat /\ m \in Nat
      /\ live = {d[k] : k \in 1 .. n} /\ Cardinality(live) = n /\ size = n
      /\ \A k \in 1 .. n : /\ word[d[k]] \in Words
                           /\ freq[d[k]] \in Nat /\ freq[d[k]] >= 1
      /\ \A j, k \in 1 .. n : word[d[j]] = word[d[k]] => j = k
  BY DEF Lists, Runs, Holds, Owns
<1>3. \A k \in 1 .. n : (word[d[k]] # w <=> k # q) /\ (d[k] = d[q] <=> k = q)
  BY <1>2
<1>4. \A i \in 1 .. m : \E k \in 1 .. n : k # q /\ e[i] = d[k] /\ f[k] = i
  OBVIOUS
<1>5. Moved(n, d, m, e, w, f)
  <2>1. \A i \in 1 .. m : word'[e[i]] # w => \E k \in 1 .. n : word[d[k]] # w /\ f[k] = i
    BY <1>3
  <2> QED
    BY <1>1, <1>3, <2>1 DEF Moved
<1>6. HasNow(m, e, w, 0)
  <2>1. ASSUME NEW i \in 1 .. m PROVE word'[e[i]] # w
    <3>1. PICK k \in 1 .. n : k # q /\ e[i] = d[k]
      BY <1>4
    <3> QED
      BY <1>1, <1>3, <3>1
  <2> QED
    BY <2>1 DEF HasNow
<1>7. Holds(m, e)'
  <2>1. ASSUME NEW i \in 1 .. m
        PROVE  word'[e[i]] \in Words /\ freq'[e[i]] \in Nat /\ freq'[e[i]] >= 1
    <3>1. PICK k \in 1 .. n : e[i] = d[k]
      BY <1>4
    <3> QED
      BY <1>1, <1>2, <3>1
  <2>2. ASSUME NEW i \in 1 .. m, NEW j \in 1 .. m, word'[e[i]] = word'[e[j]] PROVE i = j
    <3>1. PICK g \in 1 .. n : e[i] = d[g] /\ f[g] = i
      BY <1>4
    <3>2. PICK h \in 1 .. n : e[j] = d[h] /\ f[h] = j
      BY <1>4
    <3> QED
      BY <1>1, <1>2, <2>2, <3>1, <3>2
  <2> QED
    BY <2>1, <2>2 DEF Holds
<1>8. Owns(m, e)'
  <2>1. live' = {e[i] : i \in 1 .. m}
    <3>1. \A i \in 1 .. m : \E k \in 1 .. n : k # q /\ e[i] = d[k]
      BY <1>4
    <3>2. \A k \in 1 .. n : k # q => \E i \in 1 .. m : d[k] = e[i]
      OBVIOUS
    <3>3. live' = {d[k] : k \in 1 .. n} \ {d[q]}
      BY <1>2
    <3> QED
      BY ONLY <1>3, <3>1, <3>2, <3>3
  <2>2. IsFiniteSet(live) /\ d[q] \in live
    BY <1>2, PointerFacts, FS_Subset
  <2>3. Cardinality(live \ {d[q]}) = Cardinality(live) - 1
    BY ONLY <2>2, FS_RemoveElement
  <2> QED
    BY <1>2, <2>1, <2>3 DEF Owns
<1> QED
  BY <1>1, <1>5, <1>6, <1>7, <1>8 DEF Lists

-------------------------------------------------------------------------------
\* The four ways the cells change: x linked last or first, the q-th node
\* bypassed, and the q-th node moved to the front.
WithLast(n, d, x)  == [k \in 0 .. n + 1 |-> IF k <= n THEN d[k] ELSE x]
WithFirst(n, d, x) == [k \in 0 .. n + 1 |-> IF k = 0 THEN HEAD ELSE IF k = 1 THEN x ELSE d[k - 1]]
Passing(n, d, q)   == [k \in 0 .. n - 1 |-> IF k < q THEN d[k] ELSE d[k + 1]]
InFront(n, d, q)   == [k \in 0 .. n |-> IF k = 0 THEN HEAD ELSE IF k = 1 THEN d[q]
                                        ELSE IF k <= q THEN d[k - 1] ELSE d[k]]

LEMMA RunsWithLast ==
  ASSUME NEW n, NEW d, Runs(n, d), DOMAIN cells = Cells, NEW x \in Nodes,
         \A k \in 0 .. n : d[k] # x, NEW w, search(w) = d[n], LinkLast(x, w)
  PROVE  Runs(n + 1, WithLast(n, d, x))'
<1> SUFFICES ASSUME NEW m, m = n + 1, NEW e, e = [k \in 0 .. m |-> IF k <= n THEN d[k] ELSE x],
                    cells' = [cells EXCEPT ![x] = NULL, ![d[n]] = x]
             PROVE  Runs(m, e)'
  BY DEF WithLast, LinkLast, NewNode
<1>1. /\ n \in Nat /\ m \in Nat /\ d[0] = HEAD
      /\ \A k \in 0 .. n : d[k] \in Cells
      /\ \A j, k \in 0 .. n : d[j] = d[k] => j = k
      /\ \A k \in 0 .. n : cells[d[k]] = IF k = n THEN NULL ELSE d[k + 1]
  BY DEF Runs
<1>2. /\ \A k \in 0 .. n : e[k] = d[k]
      /\ e[m] = x /\ x \in Cells
      /\ \A k \in 0 .. m : k = m \/ k \in 0 .. n
  BY <1>1, PointerFacts
<1>3. e \in [0 .. m -> Cells] /\ e[0] = HEAD
  BY <1>1, <1>2
<1>4. \A j, k \in 0 .. m : e[j] = e[k] => j = k
  BY <1>1, <1>2
<1>5. /\ cells'[x] = NULL /\ cells'[d[n]] = x
      /\ \A k \in 0 .. n : k # n => cells'[d[k]] = cells[d[k]]
  BY <1>1, <1>2
<1>6. ASSUME NEW k \in 0 .. m PROVE cells'[e[k]] = IF k = m THEN NULL ELSE e[k + 1]
  <2>1. CASE k = m
    BY <1>2, <1>5, <2>1
  <2>2. CASE k = n
    BY <1>1, <1>2, <1>5, <2>2
  <2>3. CASE k # m /\ k # n
    <3>1. k \in 0 .. n /\ k + 1 \in 0 .. n
      BY <1>1, <2>3
    <3> QED
      BY <1>1, <1>2, <1>5, <2>3, <3>1
  <2> QED
    BY <2>1, <2>2, <2>3
<1> QED
  BY <1>1, <1>3, <1>4, <1>6 DEF Runs

LEMMA RunsWithFirst ==
  ASSUME NEW n, NEW d, Runs(n, d), DOMAIN cells = Cells, NEW x \in Nodes,
         \A k \in 0 .. n : d[k] # x, NEW w, LinkFirst(x, w)
  PROVE  Runs(n + 1, WithFirst(n, d, x))'
<1> SUFFICES ASSUME NEW m, m = n + 1, NEW e,
                    e = [k \in 0 .. m |-> IF k = 0 THEN HEAD ELSE IF k = 1 THEN x ELSE d[k - 1]],
                    cells' = [cells EXCEPT ![x] = cells[HEAD], ![HEAD] = x]
             PROVE  Runs(m, e)'
  BY DEF WithFirst, LinkFirst, NewNode
<1>1. /\ n \in Nat /\ m \in Nat /\ d[0] = HEAD
      /\ \A k \in 0 .. n : d[k] \in Cells
      /\ \A j, k \in 0 .. n : d[j] = d[k] => j = k
      /\ \A k \in 0 .. n : cells[d[k]] = IF k = n THEN NULL ELSE d[k + 1]
      /\ x \in Cells /\ HEAD \in Cells /\ x # HEAD
  BY PointerFacts DEF Runs
<1>2. /\ e[0] = HEAD /\ e[1] = x
      /\ \A k \in 2 .. m : e[k] = d[k - 1] /\ k - 1 \in 0 .. n /\ k - 1 # 0
      /\ \A k \in 0 .. m : k = 0 \/ k = 1 \/ k \in 2 .. m
  BY <1>1
<1>3. e \in [0 .. m -> Cells]
  BY <1>1, <1>2
<1>4. \A j, k \in 0 .. m : e[j] = e[k] => j = k
  <2> SUFFICES ASSUME NEW j \in 0 .. m, NEW k \in 0 .. m, e[j] = e[k] PROVE j = k
    OBVIOUS
  <2>1. j \in 2 .. m => e[j] # HEAD /\ e[j] # x
    BY <1>1, <1>2
  <2>2. k \in 2 .. m => e[k] # HEAD /\ e[k] # x
    BY <1>1, <1>2
  <2>3. j \in 2 .. m /\ k \in 2 .. m => j = k
    <3> SUFFICES ASSUME j \in 2 .. m, k \in 2 .. m PROVE j = k
      OBVIOUS
    <3>1. j - 1 \in 0 .. n /\ k - 1 \in 0 .. n /\ d[j - 1] = d[k - 1]
      BY <1>2
    <3>2. j - 1 = k - 1
      BY <1>1, <3>1
    <3> QED
      BY <3>2
  <2> QED
    BY <1>1, <1>2, <2>1, <2>2, <2>3
<1>5. /\ cells'[HEAD] = x /\ cells'[x] = cells[HEAD]
      /\ \A k \in 0 .. n : k # 0 => cells'[d[k]] = cells[d[k]]
  BY <1>1
<1>6. ASSUME NEW k \in 0 .. m PROVE cells'[e[k]] = IF k = m THEN NULL ELSE e[k + 1]
  <2>1. CASE k = 0
    BY <1>1, <1>2, <1>5, <2>1
  <2>2. CASE k = 1
    <3>1. cells'[e[1]] = IF 0 = n THEN NULL ELSE d[1]
      BY <1>1, <1>2, <1>5
    <3>2. n # 0 => 2 \in 2 .. m /\ e[2] = d[1]
      BY <1>1, <1>2
    <3> QED
      BY <1>1, <2>2, <3>1, <3>2
  <2>3. CASE k \in 2 .. m
    <3>1. k - 1 \in 0 .. n /\ k - 1 # 0 /\ (k - 1) + 1 = k /\ (k = m <=> k - 1 = n)
      BY <1>1, <2>3
    <3>2. cells'[e[k]] = IF k = m THEN NULL ELSE d[k]
      <4>1. e[k] = d[k - 1] /\ cells'[e[k]] = cells[d[k - 1]]
        BY <1>2, <1>5, <2>3, <3>1
      <4>2. cells[d[k - 1]] = IF k - 1 = n THEN NULL ELSE d[(k - 1) + 1]
        BY <1>1, <3>1
      <4> QED
        BY <3>1, <4>1, <4>2
    <3>3. k # m => k + 1 \in 2 .. m /\ (k + 1) - 1 = k
      BY <1>1, <2>3
    <3> QED
      BY <1>2, <3>2, <3>3
  <2> QED
    BY <1>2, <2>1, <2>2, <2>3
<1> QED
  BY <1>1, <1>2, <1>3, <1>4, <1>6 DEF Runs

\* The cell before position q bypasses its node.
LEMMA RunsWithout ==
  ASSUME NEW n, NEW d, Runs(n, d), DOMAIN cells = Cells, NEW q \in 1 .. n,
         cells' = Bypass(d[q - 1])
  PROVE  Runs(n - 1, Passing(n, d, q))'
<1> SUFFICES ASSUME NEW m, m = n - 1, NEW e, e = [k \in 0 .. m |-> IF k < q THEN d[k] ELSE d[k + 1]]
             PROVE  Runs(m, e)'
  BY DEF Passing
<1>1. /\ n \in Nat /\ m \in Nat /\ d[0] = HEAD /\ q \in Nat /\ q >= 1
      /\ \A k \in 0 .. n : d[k] \in Cells
      /\ \A j, k \in 0 .. n : d[j] = d[k] => j = k
      /\ \A k \in 0 .. n : cells[d[k]] = IF k = n THEN NULL ELSE d[k + 1]
  BY DEF Runs
<1>2. /\ \A k \in 0 .. m : k < q => k \in 0 .. n /\ e[k] = d[k]
      /\ \A k \in 0 .. m : k >= q => k + 1 \in 0 .. n /\ e[k] = d[k + 1]
      /\ 0 \in 0 .. m /\ 0 < q
  BY <1>1
<1>3. e \in [0 .. m -> Cells] /\ e[0] = HEAD
  BY <1>1, <1>2
<1>4. ASSUME NEW j \in 0 .. m, NEW k \in 0 .. m, e[j] = e[k] PROVE j = k
  <2>1. CASE j < q /\ k < q
    BY <1>1, <1>2, <1>4, <2>1
  <2>2. CASE j >= q /\ k >= q
    <3>1. j + 1 = k + 1
      BY <1>1, <1>2, <1>4, <2>2
    <3> QED
      BY <3>1
  <2>3. CASE j < q /\ k >= q
    <3>1. j = k + 1
      BY <1>1, <1>2, <1>4, <2>3
    <3> QED
      BY <2>3, <3>1
  <2>4. CASE j >= q /\ k < q
    <3>1. j + 1 = k
      BY <1>1, <1>2, <1>4, <2>4
    <3> QED
      BY <2>4, <3>1
  <2> QED
    BY <1>1, <2>1, <2>2, <2>3, <2>4
<1>5. /\ q - 1 \in 0 .. n /\ q \in 0 .. n /\ cells'[d[q - 1]] = cells[d[q]]
      /\ \A k \in 0 .. n : k # q - 1 => cells'[d[k]] = cells[d[k]]
  <2>1. q - 1 \in 0 .. n /\ q \in 0 .. n /\ q - 1 # n /\ (q - 1) + 1 = q
    BY <1>1
  <2>2. cells[d[q - 1]] = d[q]
    BY <1>1, <2>1
  <2> QED
    BY <1>1, <2>1, <2>2 DEF Bypass
<1>6. ASSUME NEW k \in 0 .. m PROVE cells'[e[k]] = IF k = m THEN NULL ELSE e[k + 1]
  <2>1. CASE k < q - 1
    <3>1. k < q /\ k + 1 < q /\ k + 1 \in 0 .. m /\ k # n /\ k # m
      BY <1>1, <2>1
    <3>2. e[k] = d[k] /\ e[k + 1] = d[k + 1] /\ k \in 0 .. n
      BY <1>2, <3>1
    <3> QED
      BY <1>1, <1>5, <2>1, <3>1, <3>2
  <2>2. CASE k = q - 1
    <3>1. k < q /\ k + 1 = q /\ (k = m <=> q = n)
      BY <1>1, <2>2
    <3>2. cells'[e[k]] = IF q = n THEN NULL ELSE d[q + 1]
      BY <1>1, <1>2, <1>5, <2>2, <3>1
    <3>3. k # m => q \in 0 .. m /\ e[q] = d[q + 1]
      <4>1. k # m => q \in 0 .. m /\ q >= q
        BY <1>1, <2>2
      <4> QED
        BY <1>2, <4>1
    <3> QED
      BY <3>1, <3>2, <3>3
  <2>3. CASE k >= q
    <3>1. k + 1 \in 0 .. n /\ k + 1 # q - 1 /\ (k = m <=> k + 1 = n) /\ e[k] = d[k + 1]
      BY <1>1, <1>2, <2>3
    <3>2. cells'[e[k]] = IF k = m THEN NULL ELSE d[(k + 1) + 1]
      BY <1>1, <1>5, <3>1
    <3>3. k # m => k + 1 \in 0 .. m /\ k + 1 >= q
      BY <1>1, <2>3
    <3>4. k # m => e[k + 1] = d[(k + 1) + 1]
      BY <1>2, <3>3
    <3> QED
      BY <3>2, <3>4
  <2> QED
    BY <1>1, <2>1, <2>2, <2>3
<1>7. \A j, k \in 0 .. m : e[j] = e[k] => j = k
  BY <1>4
<1> QED
  BY <1>1, <1>3, <1>6, <1>7 DEF Runs

\* The node at position q is bypassed and linked in front.
LEMMA RunsInFront ==
  ASSUME NEW n, NEW d, Runs(n, d), DOMAIN cells = Cells, NEW q \in 1 .. n,
         cells' = MoveToFront(d[q - 1]), d[q] # HEAD
  PROVE  Runs(n, InFront(n, d, q))'
<1> SUFFICES ASSUME NEW e, e = [k \in 0 .. n |-> IF k = 0 THEN HEAD ELSE IF k = 1 THEN d[q]
                                      ELSE IF k <= q THEN d[k - 1] ELSE d[k]]
             PROVE  Runs(n, e)'
  BY DEF InFront
<1> DEFINE x == d[q]
           links == [cells EXCEPT ![d[q - 1]] = cells[x]]
<1>1. /\ n \in Nat /\ d[0] = HEAD /\ q \in Nat /\ q >= 1 /\ q <= n /\ q - 1 \in 0 .. n
      /\ \A k \in 0 .. n : d[k] \in Cells
      /\ \A j, k \in 0 .. n : d[j] = d[k] => j = k
      /\ \A k \in 0 .. n : cells[d[k]] = IF k = n THEN NULL ELSE d[k + 1]
  BY DEF Runs
<1>2. cells[d[q - 1]] = x
  <2>1. q - 1 # n /\ (q - 1) + 1 = q
    BY <1>1
  <2> QED
    BY <1>1, <2>1
<1>3. /\ cells' = [links EXCEPT ![x] = links[HEAD], ![HEAD] = x]
      /\ x \in Cells /\ HEAD \in Cells /\ x # HEAD
  BY <1>1, <1>2, PointerFacts DEF MoveToFront, Bypass
<1>4. /\ \A k \in 0 .. n : links[d[k]] = IF k = q - 1 THEN cells[x] ELSE cells[d[k]]
      /\ DOMAIN links = Cells
  BY <1>1
<1>5. /\ cells'[HEAD] = x /\ cells'[x] = links[HEAD]
      /\ \A k \in 0 .. n : k # 0 /\ k # q => cells'[d[k]] = links[d[k]]
  <2>1. \A k \in 0 .. n : k # 0 /\ k # q => d[k] # HEAD /\ d[k] # x
    BY <1>1
  <2> HIDE DEF links, x
  <2> QED
    BY <1>1, <1>3, <1>4, <2>1
<1> HIDE DEF links, x
<1>6. /\ e[0] = HEAD
      /\ \A k \in 0 .. n : k = 1 => e[k] = x
      /\ \A k \in 0 .. n : k >= 2 /\ k <= q => e[k] = d[k - 1] /\ k - 1 \in 0 .. n /\ k - 1 # 0 /\ k - 1 # q
      /\ \A k \in 0 .. n : k >= 2 /\ k > q => e[k] = d[k] /\ k # 0 /\ k # q
      /\ \A k \in 0 .. n : k = 0 \/ k = 1 \/ (k >= 2 /\ k <= q) \/ (k >= 2 /\ k > q)
  BY <1>1 DEF x
<1>7. e \in [0 .. n -> Cells]
  <2>1. \A k \in 0 .. n : e[k] \in Cells
    BY <1>1, <1>3, <1>6
  <2> QED
    BY <2>1
\* Where the cell at k came from.
<1> DEFINE from(k) == IF k = 0 THEN 0 ELSE IF k = 1 THEN q ELSE IF k <= q THEN k - 1 ELSE k
<1>8. /\ \A k \in 0 .. n : from(k) \in 0 .. n /\ e[k] = d[from(k)]
      /\ \A j, k \in 0 .. n : from(j) = from(k) => j = k
  BY <1>1 DEF x
<1>9. \A j, k \in 0 .. n : e[j] = e[k] => j = k
  <2> SUFFICES ASSUME NEW j \in 0 .. n, NEW k \in 0 .. n, e[j] = e[k] PROVE j = k
    OBVIOUS
  <2> HIDE DEF from
  <2>1. from(j) \in 0 .. n /\ from(k) \in 0 .. n /\ d[from(j)] = d[from(k)]
    BY <1>8
  <2>2. from(j) = from(k)
    BY <1>1, <2>1
  <2> QED
    BY <1>8, <2>2
<1>10. links[HEAD] = IF q = 1 THEN cells[x] ELSE d[1]
  <2>1. 0 \in 0 .. n /\ 0 # n /\ (0 = q - 1 <=> q = 1) /\ 0 + 1 = 1
    BY <1>1
  <2> QED
    BY <1>1, <1>4, <2>1
<1>11. cells[x] = IF q = n THEN NULL ELSE d[q + 1]
  BY <1>1 DEF x
<1>12. ASSUME NEW k \in 0 .. n PROVE cells'[e[k]] = IF k = n THEN NULL ELSE e[k + 1]
  <2>1. CASE k = 0
    <3>1. 1 \in 0 .. n /\ 0 # n /\ 0 + 1 = 1
      BY <1>1
    <3> QED
      BY <1>5, <1>6, <2>1, <3>1
  <2>2. CASE k = 1 /\ q = 1
    <3>1. n # 1 => 2 \in 0 .. n /\ e[2] = d[2]
      BY <1>1, <1>6, <2>2
    <3>2. cells'[e[k]] = IF 1 = n THEN NULL ELSE d[2]
      BY <1>5, <1>6, <1>10, <1>11, <2>2
    <3> QED
      BY <2>2, <3>1, <3>2
  <2>3. CASE k = 1 /\ q # 1
    <3>1. 1 # n /\ 2 \in 0 .. n /\ 2 >= 2 /\ 2 <= q /\ 2 - 1 = 1
      BY <1>1, <2>3
    <3>2. e[2] = d[1]
      BY <1>6, <3>1
    <3> QED
      BY <1>5, <1>6, <1>10, <2>3, <3>1, <3>2
  <2>4. CASE k >= 2 /\ k < q
    <3>1. k - 1 \in 0 .. n /\ k - 1 # 0 /\ k - 1 # q /\ k - 1 # q - 1 /\ k - 1 # n
          /\ (k - 1) + 1 = k /\ k # n /\ k + 1 \in 0 .. n /\ k + 1 >= 2 /\ k + 1 <= q
          /\ (k + 1) - 1 = k /\ k <= q
      BY <1>1, <2>4
    <3>2. cells'[e[k]] = d[k]
      BY <1>1, <1>4, <1>5, <1>6, <2>4, <3>1
    <3>3. e[k + 1] = d[k]
      BY <1>6, <3>1
    <3> QED
      BY <3>1, <3>2, <3>3
  <2>5. CASE k >= 2 /\ k = q
    <3>1. k - 1 \in 0 .. n /\ k - 1 # 0 /\ k - 1 # q /\ k - 1 = q - 1 /\ k <= q
      BY <1>1, <2>5
    <3>2. cells'[e[k]] = IF q = n THEN NULL ELSE d[q + 1]
      BY <1>4, <1>5, <1>6, <1>11, <2>5, <3>1
    <3>3. k # n => k + 1 \in 0 .. n /\ k + 1 >= 2 /\ k + 1 > q
      BY <1>1, <2>5
    <3> QED
      BY <1>6, <2>5, <3>2, <3>3
  <2>6. CASE k >= 2 /\ k > q
    <3>1. k # 0 /\ k # q /\ k # q - 1
      BY <1>1, <2>6
    <3>2. cells'[e[k]] = IF k = n THEN NULL ELSE d[k + 1]
      BY <1>1, <1>4, <1>5, <1>6, <2>6, <3>1
    <3>3. k # n => k + 1 \in 0 .. n /\ k + 1 >= 2 /\ k + 1 > q
      BY <1>1, <2>6
    <3> QED
      BY <1>6, <3>2, <3>3
  <2> QED
    BY <1>1, <2>1, <2>2, <2>3, <2>4, <2>5, <2>6
<1> QED
  BY <1>1, <1>6, <1>7, <1>9, <1>12 DEF Runs

-------------------------------------------------------------------------------
LEMMA SameChain ==
  ASSUME UNCHANGED <<cells, word, freq>>
  PROVE  Order' = Order /\ Frequency' = Frequency
<1>1. cells' = cells /\ word' = word /\ freq' = freq
  OBVIOUS
<1>2. chain' = chain
  BY <1>1 DEF chain
<1>3. ASSUME NEW w PROVE search(w)' = search(w)
  BY <1>1, <1>2 DEF search, StopsAt
<1>4. Order' = Order
  BY <1>1, <1>2 DEF Order, List, Listed
<1> QED
  BY <1>1, <1>3, <1>4 DEF Frequency, Found

\* What search tells of a word that is not in the set, and of one that is.
LEMMA WordAbsent ==
  ASSUME NEW n, NEW d, Lists(n, d), live \subseteq Nodes, NEW w \in Words, ~ Found(w)
  PROVE  /\ search(w) = d[n] /\ Frequency[w] = 0
         /\ \A k \in 1 .. n : word[d[k]] # w
         /\ \A x \in Nodes \ live : \A k \in 0 .. n : d[k] # x
<1>1. PICK p : At(n, d, w, p) /\ search(w) = d[p] /\ (Found(w) <=> p < n)
  BY SearchStops
<1>2. n \in Nat /\ p = n
  BY <1>1 DEF At, Lists, Runs
<1>3. \A k \in 1 .. n : word[d[k]] # w
  BY <1>1, <1>2 DEF At
<1>4. Frequency[w] = 0
  BY <1>3, FrequenciesHold DEF FrequenciesListed, FrequenciesOf
<1>5. ASSUME NEW x \in Nodes \ live, NEW k \in 0 .. n PROVE d[k] # x
  <2>1. CASE k = 0
    BY <2>1, PointerFacts DEF Lists, Runs
  <2>2. CASE k # 0
    <3>1. k \in 1 .. n
      BY <1>2, <2>2
    <3> QED
      BY <3>1 DEF Lists, Owns
  <2> QED
    BY <2>1, <2>2
<1> QED
  BY <1>1, <1>2, <1>3, <1>4, <1>5

LEMMA WordPresent ==
  ASSUME NEW n, NEW d, Lists(n, d), live \subseteq Nodes, NEW w \in Words, Found(w)
  PROVE  \E q \in 1 .. n :
           /\ search(w) = d[q - 1] /\ cells[search(w)] = d[q] /\ d[q] # HEAD
           /\ word[d[q]] = w /\ Frequency[w] = freq[d[q]]
           /\ freq[d[q]] \in Nat /\ freq[d[q]] >= 1
<1>1. PICK p : /\ At(n, d, w, p) /\ search(w) = d[p] /\ (Found(w) <=> p < n)
               /\ (p < n => cells[search(w)] = d[p + 1])
  BY SearchStops
<1>2. n \in Nat /\ p \in 0 .. n /\ p < n /\ p + 1 \in 1 .. n /\ (p + 1) - 1 = p
  BY <1>1 DEF At, Lists, Runs
<1>3. word[d[p + 1]] = w
  BY <1>1, <1>2 DEF At
<1>4. Frequency[w] = freq[d[p + 1]] /\ freq[d[p + 1]] \in Nat /\ freq[d[p + 1]] >= 1
  BY <1>2, <1>3, FrequenciesHold DEF FrequenciesListed, FrequenciesOf, Lists, Holds
<1>5. d[p + 1] # HEAD
  BY <1>2, NodesNumbered
<1> QED
  BY <1>1, <1>2, <1>3, <1>4, <1>5

\* What every operation on w must leave: a set again, the other words in order,
\* and v as the frequency of w.
Leaves(w, v) ==
  /\ SetInv'
  /\ Without(w, Order') = Without(w, Order)
  /\ Frequency' = [Frequency EXCEPT ![w] = v]

LEMMA LeavesAll ==
  ASSUME NEW n, NEW d, Lists(n, d), live \subseteq Nodes, NEW w \in Words, NEW v, Fields',
         NEW m, NEW e, NEW f,
         Lists(m, e)' /\ Moved(n, d, m, e, w, f) /\ HasNow(m, e, w, v) /\ (live \subseteq Nodes)'
  PROVE  Leaves(w, v)
<1>1. SetInv'
  BY DEF SetInv
<1>2. /\ Without(w, Order') = Without(w, Order)
      /\ Frequency' = [Frequency EXCEPT ![w] = v]
  BY OthersStay
<1> QED
  BY <1>1, <1>2 DEF Leaves

Last(w, pairs)  == \A y \in pairs : y[1] = w => y[2] = w
First(w, pairs) == \A y \in pairs : y[2] = w => y[1] = w

\* The pairs of a list in which w stands at i only.
LEMMA PlaceOf ==
  ASSUME NEW m, NEW e, Lists(m, e)', (live \subseteq Nodes)', NEW i \in 1 .. m, NEW w, word'[e[i]] = w
  PROVE  (i = m => Last(w, Order')) /\ (i = 1 => First(w, Order'))
<1>1. /\ m \in Nat
      /\ \A y : y \in Order' <=> \E j, k \in 1 .. m : j <= k /\ y = <<word'[e[j]], word'[e[k]]>>
      /\ \A j \in 1 .. m : word'[e[j]] = w => j = i
  <2>1. ListOf(m, e)'
    BY ListsHoldNext DEF ListsListed
  <2>2. m \in Nat /\ \A j, k \in 1 .. m : word'[e[j]] = word'[e[k]] => j = k
    BY DEF Lists, Runs, Holds
  <2> QED
    BY <2>1, <2>2 DEF ListOf
<1>2. ASSUME NEW y \in Order', i = m, y[1] = w PROVE y[2] = w
  <2>1. PICK j, k \in 1 .. m : j <= k /\ y = <<word'[e[j]], word'[e[k]]>>
    BY <1>1
  <2>2. j = i
    BY <1>1, <1>2, <2>1
  <2>3. k = i
    BY <1>1, <1>2, <2>1, <2>2
  <2> QED
    BY <2>1, <2>3
<1>3. ASSUME NEW y \in Order', i = 1, y[2] = w PROVE y[1] = w
  <2>1. PICK j, k \in 1 .. m : j <= k /\ y = <<word'[e[j]], word'[e[k]]>>
    BY <1>1
  <2>2. k = i
    BY <1>1, <1>3, <2>1
  <2>3. j = i
    BY <1>1, <1>3, <2>1, <2>2
  <2> QED
    BY <2>1, <2>3
<1>4. i = m => Last(w, Order')
  BY <1>2 DEF Last
<1>5. i = 1 => First(w, Order')
  BY <1>3 DEF First
<1> QED
  BY <1>4, <1>5

LEMMA AddKeeps ==
  ASSUME SetInv, result.op # "free", NEW w \in Words, wset_add(w)
  PROVE  /\ Leaves(w, Frequency[w] + 1)
         /\ result' = [op |-> "add", word |-> w, value |-> Frequency[w] + 1]
         /\ Found(w) => Order' = Order
         /\ ~ Found(w) => Last(w, Order')
<1>1. PICK n, d : Lists(n, d)
  BY DEF SetInv
<1>2. /\ Fields /\ live \subseteq Nodes /\ Runs(n, d) /\ n \in Nat
      /\ DOMAIN cells = Cells /\ DOMAIN word = Nodes /\ DOMAIN freq = Nodes
  BY <1>1 DEF SetInv, Lists, Runs, Fields
<1>3. CASE ~ Found(w)
  <2>1. /\ search(w) = d[n] /\ Frequency[w] = 0
        /\ \A k \in 1 .. n : word[d[k]] # w
        /\ \A x \in Nodes \ live : \A k \in 0 .. n : d[k] # x
    BY <1>1, <1>2, <1>3, WordAbsent
  <2>2. PICK x \in Nodes : LinkLast(x, w)
    BY <1>3 DEF wset_add
  <2>3. result' = [op |-> "add", word |-> w, value |-> 1]
    BY <1>3 DEF wset_add, Return
  <2> DEFINE links == [cells EXCEPT ![x] = NULL, ![search(w)] = x]
             m == n + 1
             e == WithLast(n, d, x)
             f == [k \in 1 .. n |-> k]
  <2>4. NewNode(x, w, links)
    BY <2>2 DEF LinkLast
  <2>5. x \in Nodes \ live /\ Fields'
    BY <1>2, <2>4 DEF NewNode, Fields
  <2>6. m = n + 1 /\ m \in 1 .. m /\ e[m] = x
        /\ \A k \in 1 .. n : f[k] \in 1 .. m /\ e[f[k]] = d[k] /\ f[k] = k
    BY <1>2 DEF WithLast
  <2>7. \A i \in 1 .. m : i = m \/ \E k \in 1 .. n : f[k] = i
    BY <1>2
  <2>8. Runs(m, e)'
    BY <1>2, <2>1, <2>2, <2>5, RunsWithLast
  <2> HIDE DEF links, m, e, f
  <2>9. \A j, k \in 1 .. n : j <= k => f[j] <= f[k]
    BY <2>6
  <2>10. Lists(m, e)' /\ Moved(n, d, m, e, w, f) /\ HasNow(m, e, w, 1) /\ (live \subseteq Nodes)'
    BY <1>1, <1>2, <2>1, <2>4, <2>6, <2>7, <2>8, <2>9, NodeAdded
  <2>11. Leaves(w, 1)
    BY <1>1, <1>2, <2>5, <2>10, LeavesAll
  <2>12. Last(w, Order')
    <3>1. word'[x] = w
      BY <1>2, <2>4 DEF NewNode
    <3> QED
      BY <2>6, <2>10, <3>1, PlaceOf
  <2> QED
    BY <1>3, <2>1, <2>3, <2>11, <2>12
<1>4. CASE Found(w)
  <2>1. PICK q \in 1 .. n :
           /\ cells[search(w)] = d[q]
           /\ word[d[q]] = w /\ Frequency[w] = freq[d[q]]
    BY <1>1, <1>2, <1>4, WordPresent
  <2>2. Increment(d[q]) /\ result' = [op |-> "add", word |-> w, value |-> freq[d[q]] + 1]
        /\ cells' = cells
    BY <1>4, <2>1 DEF wset_add, Return
  <2> DEFINE f == [k \in 1 .. n |-> k]
  <2>3. Reaches(f, n) /\ \A k \in 1 .. n : f[k] = k
    BY DEF Reaches
  <2>4. Runs(n, d)'
    BY <1>2, <2>2 DEF Runs
  <2>5. Fields'
    BY <1>2, <2>2 DEF Fields, Increment
  <2> HIDE DEF f
  <2>6. /\ Lists(n, d)' /\ Moved(n, d, n, d, w, f) /\ HasNow(n, d, w, freq[d[q]] + 1)
        /\ (live \subseteq Nodes)'
    BY <1>1, <1>2, <2>1, <2>2, <2>3, <2>4, NodeCounted
  <2>7. Leaves(w, freq[d[q]] + 1)
    BY <1>1, <1>2, <2>5, <2>6, LeavesAll
  <2>8. Order' = Order
    <3>1. word' = word
      BY <2>2 DEF Increment
    <3>2. ListOf(n, d) /\ ListOf(n, d)'
      BY <1>1, <1>2, <2>6, ListsHold, ListsHoldNext DEF ListsListed
    <3>3. \A y : y \in Order <=> y \in Order'
      BY <3>1, <3>2 DEF ListOf
    <3>4. Order = {y \in Order : TRUE} /\ Order' = {y \in Order' : TRUE}
      BY DEF Order
    <3> QED
      BY <3>3, <3>4
  <2> QED
    BY <1>4, <2>1, <2>2, <2>7, <2>8
<1> QED
  BY <1>3, <1>4

LEMMA FastAddKeeps ==
  ASSUME SetInv, result.op # "free", NEW w \in Words, wset_fast_add(w)
  PROVE  /\ Leaves(w, Frequency[w] + 1)
         /\ result' = [op |-> "add", word |-> w, value |-> Frequency[w] + 1]
         /\ First(w, Order')
<1>1. PICK n, d : Lists(n, d)
  BY DEF SetInv
<1>2. /\ Fields /\ live \subseteq Nodes /\ Runs(n, d) /\ n \in Nat
      /\ DOMAIN cells = Cells /\ DOMAIN word = Nodes /\ DOMAIN freq = Nodes
  BY <1>1 DEF SetInv, Lists, Runs, Fields
<1>3. CASE ~ Found(w)
  <2>1. /\ Frequency[w] = 0
        /\ \A k \in 1 .. n : word[d[k]] # w
        /\ \A x \in Nodes \ live : \A k \in 0 .. n : d[k] # x
    BY <1>1, <1>2, <1>3, WordAbsent
  <2>2. PICK x \in Nodes : LinkFirst(x, w)
    BY <1>3 DEF wset_fast_add
  <2>3. result' = [op |-> "add", word |-> w, value |-> 1]
    BY <1>3 DEF wset_fast_add, Return
  <2> DEFINE links == [cells EXCEPT ![x] = cells[HEAD], ![HEAD] = x]
             m == n + 1
             e == WithFirst(n, d, x)
             f == [k \in 1 .. n |-> k + 1]
  <2>4. NewNode(x, w, links)
    BY <2>2 DEF LinkFirst
  <2>5. x \in Nodes \ live /\ Fields'
    BY <1>2, <2>4 DEF NewNode, Fields
  <2>6. m = n + 1 /\ 1 \in 1 .. m /\ e[1] = x
        /\ \A k \in 1 .. n : f[k] \in 1 .. m /\ e[f[k]] = d[k] /\ f[k] = k + 1
    <3>1. \A k \in 1 .. n : k + 1 \in 0 .. m /\ k + 1 # 0 /\ k + 1 # 1 /\ (k + 1) - 1 = k
      BY <1>2
    <3>2. \A k \in 0 .. m : e[k] = IF k = 0 THEN HEAD ELSE IF k = 1 THEN x ELSE d[k - 1]
      BY DEF WithFirst
    <3> QED
      BY <1>2, <3>1, <3>2
  <2>7. \A i \in 1 .. m : i = 1 \/ \E k \in 1 .. n : f[k] = i
    <3> SUFFICES ASSUME NEW i \in 1 .. m, i # 1 PROVE \E k \in 1 .. n : f[k] = i
      OBVIOUS
    <3>1. i - 1 \in 1 .. n /\ (i - 1) + 1 = i
      BY <1>2
    <3> QED
      BY <3>1
  <2>8. Runs(m, e)'
    BY <1>2, <2>1, <2>2, <2>5, RunsWithFirst
  <2>9. \A j, k \in 1 .. n : j <= k => f[j] <= f[k]
    BY <1>2
  <2> HIDE DEF links, m, e, f
  <2>10. Lists(m, e)' /\ Moved(n, d, m, e, w, f) /\ HasNow(m, e, w, 1) /\ (live \subseteq Nodes)'
    BY <1>1, <1>2, <2>1, <2>4, <2>6, <2>7, <2>8, <2>9, NodeAdded
  <2>11. Leaves(w, 1)
    BY <1>1, <1>2, <2>5, <2>10, LeavesAll
  <2>12. First(w, Order')
    <3>1. word'[x] = w
      BY <1>2, <2>4 DEF NewNode
    <3> QED
      BY <2>6, <2>10, <3>1, PlaceOf
  <2> QED
    BY <2>1, <2>3, <2>11, <2>12
<1>4. CASE Found(w)
  <2>1. PICK q \in 1 .. n :
           /\ search(w) = d[q - 1] /\ cells[search(w)] = d[q] /\ d[q] # HEAD
           /\ word[d[q]] = w /\ Frequency[w] = freq[d[q]]
    BY <1>1, <1>2, <1>4, WordPresent
  <2>2. Increment(d[q]) /\ result' = [op |-> "add", word |-> w, value |-> freq[d[q]] + 1]
        /\ cells' = MoveToFront(d[q - 1])
    BY <1>4, <2>1 DEF wset_fast_add, Return
  <2> DEFINE e == InFront(n, d, q)
             f == [k \in 1 .. n |-> IF k < q THEN k + 1 ELSE IF k = q THEN 1 ELSE k]
  <2>3. /\ 1 \in 1 .. n /\ e[1] = d[q]
        /\ \A k \in 1 .. n : f[k] \in 1 .. n /\ e[f[k]] = d[k]
    <3>1. \A k \in 0 .. n : e[k] = IF k = 0 THEN HEAD ELSE IF k = 1 THEN d[q]
                                   ELSE IF k <= q THEN d[k - 1] ELSE d[k]
      BY DEF InFront
    <3>2. ASSUME NEW k \in 1 .. n PROVE f[k] \in 1 .. n /\ e[f[k]] = d[k]
      <4>1. CASE k < q
        <5>1. f[k] = k + 1 /\ k + 1 \in 0 .. n /\ k + 1 \in 1 .. n /\ k + 1 # 1 /\ k + 1 # 0
              /\ k + 1 <= q /\ (k + 1) - 1 = k
          BY <1>2, <4>1
        <5> QED
          BY <3>1, <5>1
      <4>2. CASE k = q
        <5>1. f[k] = 1 /\ 1 \in 1 .. n /\ 1 \in 0 .. n
          BY <1>2, <4>2
        <5> QED
          BY <3>1, <4>2, <5>1
      <4>3. CASE k > q
        <5>1. f[k] = k /\ k \in 0 .. n /\ k # 0 /\ k # 1 /\ ~ (k <= q)
          BY <1>2, <4>3
        <5> QED
          BY <3>1, <5>1
      <4> QED
        BY <1>2, <4>1, <4>2, <4>3
    <3>3. 1 \in 1 .. n /\ 1 \in 0 .. n
      BY <1>2
    <3> QED
      BY <3>1, <3>2, <3>3
  <2>4. Runs(n, e)'
    BY <1>2, <2>1, <2>2, RunsInFront
  <2>5. Fields'
    <3>1. DOMAIN cells' = Cells
      BY <1>2, <2>2 DEF MoveToFront, Bypass
    <3> QED
      BY <1>2, <2>2, <3>1 DEF Fields, Increment
  <2>6. /\ \A j, k \in 1 .. n : j # q /\ k # q /\ j <= k => f[j] <= f[k]
        /\ Reaches(f, n)
    <3>1. \A j, k \in 1 .. n : j # q /\ k # q /\ j <= k => f[j] <= f[k]
      BY <1>2
    <3>2. ASSUME NEW i \in 1 .. n PROVE \E k \in 1 .. n : f[k] = i
      <4>1. CASE i = 1
        BY <1>2, <4>1
      <4>2. CASE i # 1 /\ i <= q
        <5>1. i - 1 \in 1 .. n /\ f[i - 1] = i
          BY <1>2, <4>2
        <5> QED
          BY <5>1
      <4>3. CASE i > q
        BY <1>2, <4>3
      <4> QED
        BY <1>2, <4>1, <4>2, <4>3
    <3> QED
      BY <3>1, <3>2 DEF Reaches
  <2> HIDE DEF e, f
  <2>7. /\ Lists(n, e)' /\ Moved(n, d, n, e, w, f) /\ HasNow(n, e, w, freq[d[q]] + 1)
        /\ (live \subseteq Nodes)'
    BY <1>1, <1>2, <2>1, <2>2, <2>3, <2>4, <2>6, NodeCounted
  <2>8. Leaves(w, freq[d[q]] + 1)
    BY <1>1, <1>2, <2>5, <2>7, LeavesAll
  <2>9. First(w, Order')
    <3>1. word'[e[1]] = w
      BY <2>1, <2>2, <2>3 DEF Increment
    <3> QED
      BY <2>3, <2>7, <3>1, PlaceOf
  <2> QED
    BY <2>1, <2>2, <2>8, <2>9
<1> QED
  BY <1>3, <1>4

LEMMA RemoveKeeps ==
  ASSUME SetInv, result.op # "free", NEW w \in Words, wset_remove(w)
  PROVE  /\ Leaves(w, 0)
         /\ result' = [op |-> "remove", word |-> w,
                       value |-> IF Frequency[w] = 0 THEN -1 ELSE Frequency[w]]
<1>1. PICK n, d : Lists(n, d)
  BY DEF SetInv
<1>2. /\ Fields /\ live \subseteq Nodes /\ Runs(n, d) /\ n \in Nat /\ size = n
      /\ DOMAIN cells = Cells /\ DOMAIN word = Nodes /\ DOMAIN freq = Nodes
  BY <1>1 DEF SetInv, Lists, Runs, Owns, Fields
<1>3. CASE ~ Found(w)
  <2>1. Frequency[w] = 0 /\ \A k \in 1 .. n : word[d[k]] # w
    BY <1>1, <1>2, <1>3, WordAbsent
  <2>2. result' = [op |-> "remove", word |-> w, value |-> -1] /\ UNCHANGED <<heap, size>>
    BY <1>3 DEF wset_remove, Return
  <2> DEFINE f == [k \in 1 .. n |-> k]
  <2>3. \A k \in 1 .. n : f[k] = k
    OBVIOUS
  <2> HIDE DEF f
  <2>4. live' = live /\ cells' = cells /\ word' = word /\ freq' = freq /\ size' = size
    BY <2>2 DEF heap
  <2>5. Lists(n, d)'
    BY <1>1, <2>4 DEF Lists, Runs, Holds, Owns
  <2>6. Fields' /\ (live \subseteq Nodes)'
    BY <1>2, <2>4 DEF Fields
  <2>7. Moved(n, d, n, d, w, f)
    BY <1>2, <2>3, <2>4 DEF Moved
  <2>8. HasNow(n, d, w, 0)
    BY <2>1, <2>4 DEF HasNow
  <2>9. Leaves(w, 0)
    BY <1>1, <1>2, <2>5, <2>6, <2>7, <2>8, LeavesAll
  <2> QED
    BY <2>1, <2>2, <2>9
<1>4. CASE Found(w)
  <2>1. PICK q \in 1 .. n :
           /\ search(w) = d[q - 1] /\ cells[search(w)] = d[q]
           /\ word[d[q]] = w /\ Frequency[w] = freq[d[q]]
           /\ freq[d[q]] \in Nat /\ freq[d[q]] >= 1
    BY <1>1, <1>2, <1>4, WordPresent
  <2>2. size # 0
    BY <1>2, <2>1
  <2>3. /\ cells' = Bypass(d[q - 1]) /\ live' = live \ {d[q]} /\ size' = size - 1
        /\ word' = word /\ freq' = freq
        /\ result' = [op |-> "remove", word |-> w, value |-> freq[d[q]]]
    BY <1>4, <2>1, <2>2 DEF wset_remove, RemoveFound, Return
  <2> DEFINE m == n - 1
             e == Passing(n, d, q)
             f == [k \in 1 .. n |-> IF k < q THEN k ELSE k - 1]
  <2>4. Runs(m, e)'
    BY <1>2, <2>3, RunsWithout
  <2>5. \A k \in 1 .. n : k # q => f[k] \in 1 .. m /\ e[f[k]] = d[k]
    <3> SUFFICES ASSUME NEW k \in 1 .. n, k # q PROVE f[k] \in 1 .. m /\ e[f[k]] = d[k]
      OBVIOUS
    <3>1. \A i \in 0 .. m : e[i] = IF i < q THEN d[i] ELSE d[i + 1]
      BY DEF Passing
    <3>2. CASE k < q
      <4>1. k \in 0 .. m /\ k \in 1 .. m /\ f[k] = k
        BY <1>2, <3>2
      <4> QED
        BY <3>1, <3>2, <4>1
    <3>3. CASE k > q
      <4>1. k - 1 \in 0 .. m /\ k - 1 \in 1 .. m /\ f[k] = k - 1 /\ ~ (k - 1 < q) /\ (k - 1) + 1 = k
        BY <1>2, <3>3
      <4> QED
        BY <3>1, <4>1
    <3> QED
      BY <1>2, <3>2, <3>3
  <2>6. m = n - 1 /\ \A j, k \in 1 .. n : j # q /\ k # q /\ j <= k => f[j] <= f[k]
    BY <1>2
  <2>7. \A i \in 1 .. m : \E k \in 1 .. n : k # q /\ f[k] = i
    <3> SUFFICES ASSUME NEW i \in 1 .. m PROVE \E k \in 1 .. n : k # q /\ f[k] = i
      OBVIOUS
    <3>1. CASE i < q
      <4>1. i \in 1 .. n /\ i # q /\ f[i] = i
        BY <1>2, <3>1
      <4> QED
        BY <4>1
    <3>2. CASE i >= q
      <4>1. i + 1 \in 1 .. n /\ i + 1 # q /\ f[i + 1] = i
        BY <1>2, <3>2
      <4> QED
        BY <4>1
    <3> QED
      BY <1>2, <3>1, <3>2
  <2> HIDE DEF m, e, f
  <2>8. /\ Lists(m, e)' /\ Moved(n, d, m, e, w, f) /\ HasNow(m, e, w, 0)
        /\ (live \subseteq Nodes)'
    BY <1>1, <1>2, <2>1, <2>3, <2>4, <2>5, <2>6, <2>7, NodeRemoved
  <2>9. Fields'
    <3>1. DOMAIN cells' = Cells
      BY <1>2, <2>3 DEF Bypass
    <3> QED
      BY <1>2, <2>3, <3>1 DEF Fields
  <2>10. Leaves(w, 0)
    BY <1>1, <1>2, <2>8, <2>9, LeavesAll
  <2>11. Frequency[w] # 0
    BY <2>1
  <2> QED
    BY <2>1, <2>3, <2>10, <2>11
<1> QED
  BY <1>3, <1>4

LEMMA LookKeeps ==
  ASSUME SetInv, result.op # "free", NEW w \in Words, wset_exists(w) \/ wset_freq(w)
  PROVE  /\ SetInv' /\ Order' = Order /\ Frequency' = Frequency
         /\ \/ result' = [op |-> "exists", word |-> w, value |-> IF Frequency[w] > 0 THEN 1 ELSE 0]
            \/ result' = [op |-> "freq", word |-> w, value |-> Frequency[w]]
<1>1. PICK n, d : Lists(n, d)
  BY DEF SetInv
<1>2. Fields /\ live \subseteq Nodes
  BY DEF SetInv
<1>3. live' = live /\ cells' = cells /\ word' = word /\ freq' = freq /\ size' = size
  BY DEF wset_exists, wset_freq, heap
<1>4. SetInv'
  <2>1. Lists(n, d)'
    BY <1>1, <1>3 DEF Lists, Runs, Holds, Owns
  <2> QED
    BY <1>2, <1>3, <2>1 DEF SetInv, Fields
<1>5. Order' = Order /\ Frequency' = Frequency
  BY <1>3, SameChain
<1>6. Found(w) <=> Frequency[w] > 0
  <2>1. ~ Found(w) => Frequency[w] = 0
    BY <1>1, <1>2, WordAbsent
  <2>2. Found(w) => Frequency[w] \in Nat /\ Frequency[w] >= 1
    BY <1>1, <1>2, WordPresent
  <2> QED
    BY <2>1, <2>2
<1>7. CASE wset_exists(w)
  BY <1>4, <1>5, <1>6, <1>7 DEF wset_exists, Return
<1>8. CASE wset_freq(w)
  BY <1>4, <1>5, <1>8 DEF wset_freq, Return, Frequency
<1> QED
  BY <1>7, <1>8

LEMMA FreeKeeps ==
  ASSUME SetInv, wset_free
  PROVE  SetInv' /\ Frequency' = Frequency /\ result' = [op |-> "free"]
<1>1. Fields' /\ (live \subseteq Nodes)'
  BY DEF SetInv, Fields, wset_free
<1>2. Frequency' = Frequency
  BY SameChain DEF wset_free
<1>3. result' = [op |-> "free"]
  BY DEF wset_free
<1> QED
  BY <1>1, <1>2, <1>3 DEF SetInv

-------------------------------------------------------------------------------
LEMMA SetStarts == Init => SetInv /\ Lists(0, [k \in 0 .. 0 |-> HEAD])
<1> SUFFICES ASSUME Init PROVE SetInv /\ Lists(0, [k \in 0 .. 0 |-> HEAD])
  OBVIOUS
<1> DEFINE d == [k \in 0 .. 0 |-> HEAD]
<1>1. Runs(0, d)
  <2>1. \A k \in 0 .. 0 : k = 0 /\ d[k] = HEAD /\ cells[d[k]] = NULL
    BY PointerFacts DEF Init
  <2>2. d \in [0 .. 0 -> Cells] /\ 0 \in 0 .. 0
    BY PointerFacts
  <2> HIDE DEF d
  <2> QED
    BY <2>1, <2>2 DEF Runs
<1>2. 1 .. 0 = {} /\ live = {} /\ size = 0
  BY DEF Init
<1>3. Holds(0, d) /\ Owns(0, d)
  <2> HIDE DEF d
  <2> QED
    BY <1>2, FS_EmptySet DEF Holds, Owns
<1>4. Lists(0, d)
  BY <1>1, <1>3 DEF Lists
<1>5. Fields
  BY DEF Init, Fields
<1> HIDE DEF d
<1>6. SetInv
  BY <1>2, <1>4, <1>5 DEF SetInv
<1> QED
  BY <1>4, <1>6 DEF d

LEMMA UseKeeps ==
  ASSUME SetInv, result.op # "free", NEW w \in Words, Use(w)
  PROVE  /\ SetInv' /\ Without(w, Order') = Without(w, Order)
         /\ result'.op # "free" /\ result'.word = w
<1>1. CASE wset_add(w)
  BY <1>1, AddKeeps DEF Leaves
<1>2. CASE wset_fast_add(w)
  BY <1>2, FastAddKeeps DEF Leaves
<1>3. CASE wset_remove(w)
  BY <1>3, RemoveKeeps DEF Leaves
<1>4. CASE wset_exists(w) \/ wset_freq(w)
  BY <1>4, LookKeeps
<1> QED
  BY <1>1, <1>2, <1>3, <1>4 DEF Use

LEMMA SetStep == SetInv /\ [Next]_vars => SetInv'
<1> SUFFICES ASSUME SetInv, [Next]_vars PROVE SetInv'
  OBVIOUS
<1>1. CASE wset_free
  BY <1>1, FreeKeeps
<1>2. CASE result.op # "free" /\ \E w \in Words : Use(w)
  BY <1>2, UseKeeps
<1>3. CASE UNCHANGED vars
  BY <1>3 DEF vars, heap, SetInv, Fields, Lists, Runs, Holds, Owns
<1> QED
  BY <1>1, <1>2, <1>3 DEF Next

\* The chain never loses a node, never closes on itself, and never holds a
\* word twice: the inductive invariant.
THEOREM WordSetInvariant == Spec => []SetInv
<1>1. Init => SetInv
  BY SetStarts
<1> QED
  BY <1>1, SetStep, PTL DEF Spec

LEMMA SetInvSays == SetInv => ListIsTheSet
<1> SUFFICES ASSUME SetInv, result.op # "free" PROVE ListIsTheSet
  BY DEF ListIsTheSet
<1>1. PICK n, d : Lists(n, d)
  BY DEF SetInv
<1>2. live \subseteq Nodes
  BY DEF SetInv
<1>3. /\ n \in Nat /\ n <= Most /\ Most \in Nat
      /\ \A k \in 0 .. n : d[k] # NULL
      /\ \A k \in 1 .. n : d[k] \in Nodes
  BY <1>1, <1>2, NodesNumbered, PointerFacts
<1>4. \E k \in DOMAIN chain : chain[k] # NULL /\ cells[chain[k]] = NULL
  <2>1. n + 1 \in 1 .. Most + 1 /\ (n + 1) - 1 = n /\ n \in 0 .. n
    BY <1>3
  <2>2. n + 1 \in DOMAIN chain /\ chain[n + 1] = d[n]
    BY <1>1, <1>2, <1>3, <2>1, ChainIs
  <2>3. cells[d[n]] = NULL
    BY <1>1, <2>1 DEF Lists, Runs
  <2> QED
    BY <1>3, <2>1, <2>2, <2>3
<1>5. ListOf(n, d)
  BY <1>1, <1>2, ListsHold DEF ListsListed
<1>6. \A j, k \in DOMAIN List : List[j] = List[k] => j = k
  BY <1>1, <1>5 DEF ListOf, Lists, Holds
<1>7. {Listed[k] : k \in DOMAIN Listed} = live
  <2>1. {Listed[k] : k \in DOMAIN Listed} = {d[k] : k \in 1 .. n}
    BY <1>5 DEF ListOf
  <2> QED
    BY <1>1, <2>1 DEF Lists, Owns
<1>8. size = Len(Listed)
  <2>1. Listed = [k \in 1 .. n |-> d[k]]
    <3>1. Listed = [k \in DOMAIN Listed |-> Listed[k]]
      BY DEF Listed
    <3> QED
      BY <1>5, <3>1 DEF ListOf
  <2>2. Len([k \in 1 .. n |-> d[k]]) = n
    BY <1>3
  <2> QED
    BY <1>1, <2>1, <2>2 DEF Lists, Owns
<1> QED
  BY <1>4, <1>6, <1>7, <1>8 DEF ListIsTheSet

\* However the operations follow each other, the chain ends, holds no word
\* twice, is all that is allocated, and the size field counts it
\* (wset.c 153-343).
THEOREM WordSetKept == Spec => []ListIsTheSet
BY WordSetInvariant, SetInvSays, PTL

\* An operation on one word neither loses, adds nor moves another
\* (wset.c 235-241, 325-326).
THEOREM WordsKeepOrder == Spec => OthersKeepOrder
<1> DEFINE Kept == result'.op # "free" =>
                     Without(result'.word, Order') = Without(result'.word, Order)
<1>1. SetInv /\ [Next]_vars => [Kept]_vars
  <2> SUFFICES ASSUME SetInv, Next, result'.op # "free"
               PROVE  Without(result'.word, Order') = Without(result'.word, Order)
    OBVIOUS
  <2>1. ~ wset_free
    BY DEF wset_free
  <2>2. PICK w \in Words : result.op # "free" /\ Use(w)
    BY <2>1 DEF Next
  <2> QED
    BY <2>2, UseKeeps
<1>2. Spec => [][Kept]_vars
  <2> HIDE DEF Kept
  <2> QED
    BY <1>1, WordSetInvariant, PTL DEF Spec
<1> QED
  BY <1>2 DEF OthersKeepOrder

\* The chain implements the table of frequencies: every call answers what the
\* table would, whichever operation built it, and wset_free ends both.
THEOREM WordSetIsBag == Spec => BagImplemented
<1>1. Init => Bag!BagInit
  <2> SUFFICES ASSUME Init PROVE Bag!BagInit
    OBVIOUS
  <2> DEFINE d == [k \in 0 .. 0 |-> HEAD]
  <2>1. Lists(0, d) /\ live \subseteq Nodes
    BY SetStarts DEF Init
  <2>2. FrequenciesOf(0, d)
    <3> HIDE DEF d
    <3> QED
      BY <2>1, FrequenciesHold DEF FrequenciesListed
  <2>3. \A w \in Words : Frequency[w] = 0
    BY <2>2 DEF FrequenciesOf
  <2>4. Frequency = [w \in Words |-> Frequency[w]]
    BY DEF Frequency
  <2>5. Frequency = [w \in Words |-> 0]
    BY <2>3, <2>4
  <2> QED
    BY <2>5 DEF Init, Bag!BagInit
<1>2. SetInv /\ [Next]_vars => [Bag!BagNext]_(Bag!bag)
  <2> SUFFICES ASSUME SetInv, [Next]_vars PROVE Bag!BagNext \/ UNCHANGED <<Frequency, result>>
    BY DEF Bag!bag
  <2>1. CASE wset_free
    BY <2>1, FreeKeeps DEF Bag!BagNext, Bag!Free
  <2>2. CASE result.op # "free" /\ \E w \in Words : Use(w)
    <3>1. PICK w \in Words : Use(w)
      BY <2>2
    <3> SUFFICES Bag!Add(w) \/ Bag!Remove(w) \/ Bag!Look(w)
      BY DEF Bag!BagNext
    <3>2. CASE wset_add(w)
      BY <2>2, <3>2, AddKeeps DEF Leaves, Bag!Add, Bag!Tell
    <3>3. CASE wset_fast_add(w)
      BY <2>2, <3>3, FastAddKeeps DEF Leaves, Bag!Add, Bag!Tell
    <3>4. CASE wset_remove(w)
      BY <2>2, <3>4, RemoveKeeps DEF Leaves, Bag!Remove, Bag!Tell
    <3>5. CASE wset_exists(w) \/ wset_freq(w)
      BY <2>2, <3>5, LookKeeps DEF Bag!Look, Bag!Tell
    <3> QED
      BY <3>1, <3>2, <3>3, <3>4, <3>5 DEF Use
  <2>3. CASE UNCHANGED vars
    BY <2>3, SameChain DEF vars, heap
  <2> QED
    BY <2>1, <2>2, <2>3 DEF Next
<1> QED
  BY <1>1, <1>2, WordSetInvariant, PTL DEF Spec, BagImplemented, Bag!BagSpec

-------------------------------------------------------------------------------
(***************************************************************************)
(* The programs, for any input.                                            *)
(***************************************************************************)
LEMMA MinIs ==
  ASSUME NEW S, S \subseteq Nat, NEW x \in S
  PROVE  Min(S) \in S /\ \A y \in S : Min(S) <= y
<1>1. \E m \in S : \A y \in S : m <= y
  <2> SUFFICES ASSUME \A m \in S : \E y \in S : ~ (m <= y) PROVE FALSE
    OBVIOUS
  <2> DEFINE T == {i \in Nat : \A y \in S : i < y}
  <2>1. 0 \in T
    <3>1. 0 \notin S
      OBVIOUS
    <3> QED
      BY <3>1
  <2>2. ASSUME NEW i \in Nat, i \in T PROVE i + 1 \in T
    <3>1. i + 1 \notin S
      <4> SUFFICES ASSUME i + 1 \in S PROVE FALSE
        OBVIOUS
      <4>1. PICK y \in S : ~ (i + 1 <= y)
        OBVIOUS
      <4> QED
        BY <2>2, <4>1
    <3> QED
      BY <2>2, <3>1
  <2>3. Nat \subseteq T
    <3> HIDE DEF T
    <3> QED
      BY <2>1, <2>2, NatInductionOnSets
  <2>4. x < x
    BY <2>3
  <2> QED
    BY <2>4
<1> QED
  BY <1>1 DEF Min

LEMMA MaxIs ==
  ASSUME NEW b \in Nat, NEW S, S \subseteq 1 .. b, NEW x \in S
  PROVE  Max(S) \in S /\ \A y \in S : Max(S) >= y
<1>1. \E m \in S : \A y \in S : m >= y
  <2> SUFFICES ASSUME \A m \in S : \E y \in S : ~ (m >= y) PROVE FALSE
    OBVIOUS
  <2> DEFINE T == {i \in Nat : \A y \in S : y <= b - i}
  <2>1. 0 \in T
    OBVIOUS
  <2>2. ASSUME NEW i \in Nat, i \in T PROVE i + 1 \in T
    <3>1. b - i \notin S
      <4> SUFFICES ASSUME b - i \in S PROVE FALSE
        OBVIOUS
      <4>1. PICK y \in S : ~ (b - i >= y)
        OBVIOUS
      <4> QED
        BY <2>2, <4>1
    <3> QED
      BY <2>2, <3>1
  <2>3. Nat \subseteq T
    <3> HIDE DEF T
    <3> QED
      BY <2>1, <2>2, NatInductionOnSets
  <2>4. x <= b - b
    BY <2>3
  <2> QED
    BY <2>4
<1> QED
  BY <1>1 DEF Max

\* Between two words: what is read ends before the input does, at its start,
\* or behind a character that belongs to no word.
Reads ==
  /\ program \in Programs
  /\ input \in UNION {[1 .. n -> Letters \cup {Blank}] : n \in 0 .. MaxInput}
  /\ at \in 1 .. Len(input) + 1
  /\ at = 1 \/ at = Len(input) + 1 \/ ~ IsLetter(at - 1)

LEMMA InputFacts ==
  ASSUME Reads
  PROVE  /\ MaxInput \in Nat /\ Len(input) \in Nat /\ Len(input) <= MaxInput
         /\ input \in Seq(Letters \cup {Blank}) /\ at \in 1 .. Len(input) + 1
<1>1. MaxInput \in Nat
  BY InputAssumption
<1>2. PICK n \in 0 .. MaxInput : input \in [1 .. n -> Letters \cup {Blank}]
  BY DEF Reads
<1>3. n \in Nat /\ n <= MaxInput
  BY <1>1
<1>4. input \in Seq(Letters \cup {Blank}) /\ Len(input) = n
  BY <1>2, <1>3
<1> QED
  BY <1>1, <1>3, <1>4 DEF Reads

\* The next word stands from s up to t.
Bounds(s, t) ==
  /\ s \in at .. Len(input) /\ t \in s + 1 .. Len(input) + 1
  /\ \A k \in at .. s - 1 : ~ IsLetter(k)
  /\ \A k \in s .. t - 1 : IsLetter(k)
  /\ ~ IsLetter(t)

LEMMA WordFound ==
  ASSUME Reads, ~ IsEof(WordStart)
  PROVE  Bounds(WordStart, WordEnd)
<1>1. Len(input) \in Nat /\ at \in 1 .. Len(input) + 1
  BY InputFacts
<1> DEFINE S == {k \in at .. Len(input) + 1 : IsLetter(k) \/ IsEof(k)}
           s == WordStart
           T == {k \in s .. Len(input) + 1 : ~ IsLetter(k)}
<1>2. s \in S /\ \A k \in S : s <= k
  <2>1. S \subseteq Nat /\ Len(input) + 1 \in S
    BY <1>1 DEF IsEof
  <2> HIDE DEF S
  <2>2. Min(S) \in S /\ \A k \in S : Min(S) <= k
    BY <2>1, MinIs
  <2> QED
    BY <2>2 DEF WordStart, S
<1>3. s \in at .. Len(input) /\ s \in Nat /\ IsLetter(s)
  BY <1>1, <1>2 DEF IsEof
<1>4. \A k \in at .. s - 1 : ~ IsLetter(k)
  <2> SUFFICES ASSUME NEW k \in at .. s - 1, IsLetter(k) PROVE FALSE
    OBVIOUS
  <2>1. k \in at .. Len(input) + 1 /\ ~ (s <= k)
    BY <1>1, <1>3
  <2>2. k \in S
    BY <2>1
  <2> QED
    BY <1>2, <2>1, <2>2
<1> HIDE DEF S
<1>5. WordEnd \in T /\ \A k \in T : WordEnd <= k
  <2>1. T \subseteq Nat /\ Len(input) + 1 \in T
    BY <1>1, <1>3 DEF IsLetter
  <2> HIDE DEF T
  <2>2. Min(T) \in T /\ \A k \in T : Min(T) <= k
    BY <2>1, MinIs
  <2> QED
    BY <2>2 DEF WordEnd, T
<1>6. WordEnd \in s + 1 .. Len(input) + 1 /\ ~ IsLetter(WordEnd)
  <2>1. WordEnd # s /\ WordEnd \in s .. Len(input) + 1 /\ ~ IsLetter(WordEnd)
    BY <1>3, <1>5
  <2> HIDE DEF s
  <2> QED
    BY <1>1, <1>3, <2>1
<1>7. \A k \in s .. WordEnd - 1 : IsLetter(k)
  <2> SUFFICES ASSUME NEW k \in s .. WordEnd - 1, ~ IsLetter(k) PROVE FALSE
    OBVIOUS
  <2> HIDE DEF s
  <2>1. k \in s .. Len(input) + 1 /\ ~ (WordEnd <= k)
    BY <1>1, <1>3, <1>6
  <2>2. k \in T
    BY <2>1
  <2> QED
    BY <1>5, <2>1, <2>2
<1> QED
  BY <1>3, <1>4, <1>6, <1>7 DEF Bounds

\* What it is for a word of n letters to stand at k.
LEMMA OccursMeans ==
  ASSUME Reads, NEW n \in Nat, n >= 1, NEW u, u \in [1 .. n -> Letters], NEW k \in 1 .. Len(input)
  PROVE  /\ OccursAt(u, k) => k + n - 1 <= Len(input)
         /\ OccursAt(u, k) <=>
              /\ k + n - 1 <= Len(input)
              /\ \A i \in 1 .. n : input[k + i - 1] = u[i]
              /\ k = 1 \/ ~ IsLetter(k - 1)
              /\ ~ IsLetter(k + n)
<1>1. Len(input) \in Nat /\ input \in Seq(Letters \cup {Blank})
  BY InputFacts
<1>2. u \in Seq(Letters) /\ Len(u) = n
  OBVIOUS
<1>3. ASSUME k + n - 1 <= Len(input)
      PROVE  SubSeq(input, k, k + n - 1) = u <=> \A i \in 1 .. n : input[k + i - 1] = u[i]
  <2> DEFINE v == SubSeq(input, k, k + n - 1)
  <2>1. v = [i \in 1 .. n |-> input[k + i - 1]]
    <3>1. v = [i \in 1 .. ((k + n - 1) - k + 1) |-> input[k + i - 1]]
      BY <1>1, <1>3
    <3>2. (k + n - 1) - k + 1 = n
      OBVIOUS
    <3> QED
      BY <3>1, <3>2
  <2>2. u = [i \in 1 .. n |-> u[i]]
    OBVIOUS
  <2> HIDE DEF v
  <2>3. (\A i \in 1 .. n : input[k + i - 1] = u[i]) => v = u
    BY <2>1, <2>2
  <2>4. v = u => \A i \in 1 .. n : input[k + i - 1] = u[i]
    BY <2>1
  <2> QED
    BY <2>3, <2>4 DEF v
<1> QED
  BY <1>2, <1>3 DEF OccursAt

LEMMA WordIs ==
  ASSUME Reads, NEW s, NEW t, Bounds(s, t)
  PROVE  /\ t - s \in 1 .. MaxInput
         /\ SubSeq(input, s, t - 1) \in [1 .. t - s -> Letters]
         /\ \A i \in 1 .. t - s : SubSeq(input, s, t - 1)[i] = input[s + i - 1]
<1>1. /\ MaxInput \in Nat /\ Len(input) \in Nat /\ Len(input) <= MaxInput
      /\ input \in Seq(Letters \cup {Blank}) /\ at \in 1 .. Len(input) + 1
  BY InputFacts
<1>2. /\ s \in 1 .. Len(input) /\ t \in s + 1 .. Len(input) + 1
      /\ t - s \in 1 .. MaxInput /\ (t - 1) - s + 1 = t - s /\ t - 1 \in 1 .. Len(input)
  BY <1>1 DEF Bounds
<1>3. SubSeq(input, s, t - 1) = [i \in 1 .. t - s |-> input[s + i - 1]]
  <2>1. SubSeq(input, s, t - 1) = [i \in 1 .. ((t - 1) - s + 1) |-> input[s + i - 1]]
    BY <1>1, <1>2
  <2> QED
    BY <1>2, <2>1
<1>4. ASSUME NEW i \in 1 .. t - s PROVE input[s + i - 1] \in Letters
  <2>1. s + i - 1 \in s .. t - 1
    BY <1>2
  <2> QED
    BY <2>1 DEF Bounds, IsLetter
<1> QED
  BY <1>2, <1>3, <1>4

\* From here up to t only the word just found stands, at s.
LEMMA OnlyThere ==
  ASSUME Reads, NEW s, NEW t, Bounds(s, t), NEW u \in Spelled,
         NEW k \in 1 .. Len(input), at <= k, k <= t
  PROVE  OccursAt(u, k) <=> k = s /\ u = SubSeq(input, s, t - 1)
<1> DEFINE w == SubSeq(input, s, t - 1)
<1>1. Len(input) \in Nat /\ at \in 1 .. Len(input) + 1 /\ MaxInput \in Nat
  BY InputFacts
<1>2. /\ s \in at .. Len(input) /\ t \in s + 1 .. Len(input) + 1
      /\ \A i \in at .. s - 1 : ~ IsLetter(i)
      /\ \A i \in s .. t - 1 : IsLetter(i)
      /\ ~ IsLetter(t)
  BY DEF Bounds
<1>3. PICK n \in 1 .. MaxInput : u \in [1 .. n -> Letters]
  BY DEF Spelled
<1>4. n \in Nat /\ n >= 1
  BY <1>1
<1>5. /\ t - s \in 1 .. MaxInput /\ w \in [1 .. t - s -> Letters]
      /\ \A i \in 1 .. t - s : w[i] = input[s + i - 1]
  BY WordIs
<1> HIDE DEF w
<1>6. ASSUME OccursAt(u, k) PROVE k = s /\ u = w
  <2>1. /\ k + n - 1 <= Len(input)
        /\ \A i \in 1 .. n : input[k + i - 1] = u[i]
        /\ k = 1 \/ ~ IsLetter(k - 1)
        /\ ~ IsLetter(k + n)
    BY <1>3, <1>4, <1>6, OccursMeans
  <2>2. \A i \in 1 .. n : IsLetter(k + i - 1)
    <3> SUFFICES ASSUME NEW i \in 1 .. n PROVE IsLetter(k + i - 1)
      OBVIOUS
    <3>1. k + i - 1 <= Len(input)
      BY <1>1, <1>4, <2>1
    <3>2. input[k + i - 1] \in Letters
      BY <1>3, <2>1
    <3> QED
      BY <3>1, <3>2 DEF IsLetter
  <2>3. IsLetter(k)
    <3>1. 1 \in 1 .. n /\ k + 1 - 1 = k
      BY <1>4
    <3> QED
      BY <2>2, <3>1
  <2>4. k >= s
    <3>1. k < s => k \in at .. s - 1
      BY <1>1, <1>2
    <3> QED
      BY <1>1, <1>2, <2>3, <3>1
  <2>5. k # t
    BY <1>2, <2>3
  <2>6. k = s
    <3>1. k # s => k # 1 /\ k - 1 \in s .. t - 1
      BY <1>1, <1>2, <2>4, <2>5
    <3> QED
      BY <1>2, <2>1, <3>1
  <2>7. ~ (s + n < t)
    <3>1. s + n < t => s + n \in s .. t - 1
      BY <1>1, <1>2, <1>4
    <3> QED
      BY <1>2, <2>1, <2>6, <3>1
  <2>8. ~ (t < s + n)
    <3>1. t < s + n => (t - s) + 1 \in 1 .. n /\ s + ((t - s) + 1) - 1 = t
      BY <1>1, <1>2, <1>4
    <3> QED
      BY <1>2, <2>2, <2>6, <3>1
  <2>9. n = t - s
    BY <1>1, <1>2, <1>4, <2>7, <2>8
  <2>10. \A i \in 1 .. n : u[i] = w[i]
    BY <1>5, <2>1, <2>6, <2>9
  <2> QED
    BY <1>3, <1>5, <2>6, <2>9, <2>10
<1>7. ASSUME k = s, u = w PROVE OccursAt(u, k)
  <2>1. /\ t - s \in Nat /\ t - s >= 1 /\ s + (t - s) = t /\ s + (t - s) - 1 <= Len(input)
    BY <1>1, <1>2
  <2>2. s = 1 \/ ~ IsLetter(s - 1)
    <3>1. CASE s = at
      <4>1. at # Len(input) + 1
        BY <1>1, <1>2, <3>1
      <4> QED
        BY <3>1, <4>1 DEF Reads
    <3>2. CASE s # at
      <4>1. s - 1 \in at .. s - 1
        BY <1>1, <1>2, <3>2
      <4> QED
        BY <1>2, <4>1
    <3> QED
      BY <3>1, <3>2
  <2>3. OccursAt(w, s)
    <3>1. s \in 1 .. Len(input)
      BY <1>1, <1>2
    <3>2. ~ IsLetter(s + (t - s))
      BY <1>2, <2>1
    <3>3. \A i \in 1 .. t - s : input[s + i - 1] = w[i]
      BY <1>5
    <3> QED
      BY <1>5, <2>1, <2>2, <3>1, <3>2, <3>3, OccursMeans
  <2> QED
    BY <1>7, <2>3
<1> QED
  BY <1>6, <1>7 DEF w

Occurrences(u, i) == {k \in 1 .. i - 1 : k <= Len(input) /\ OccursAt(u, k)}

\* What CountWord does to the part of the input read.
Advanced(s, w) ==
  /\ s \in Nat /\ at <= s
  /\ \A u \in Spelled : Occurrences(u, at)' = Occurrences(u, at) \cup IF u = w THEN {s} ELSE {}
  /\ s \in 1 .. Len(input) /\ OccursAt(w, s)
  /\ w \in Spelled

LEMMA SameText ==
  ASSUME input' = input
  PROVE  /\ \A u, k : OccursAt(u, k)' <=> OccursAt(u, k)
         /\ \A k : IsLetter(k)' <=> IsLetter(k)
<1>1. \A k : IsLetter(k)' <=> IsLetter(k)
  BY DEF IsLetter
<1> QED
  BY <1>1 DEF OccursAt

LEMMA ReadsOn ==
  ASSUME Reads, CountWord
  PROVE  Reads' /\ Advanced(WordStart, NextWord)
<1>1. PICK s, t, w : /\ s = WordStart /\ t = WordEnd /\ w = NextWord
                     /\ Bounds(s, t) /\ w = SubSeq(input, s, t - 1)
  BY WordFound DEF CountWord, NextWord
<1>2. /\ input' = input /\ program' = program
      /\ at' = Min({t + 1, Len(input) + 1})
  BY <1>1 DEF CountWord
<1>3. Len(input) \in Nat /\ at \in 1 .. Len(input) + 1
  BY InputFacts
<1>4. /\ s \in at .. Len(input) /\ t \in s + 1 .. Len(input) + 1 /\ ~ IsLetter(t)
      /\ s \in Nat /\ t \in Nat
  BY <1>1, <1>3 DEF Bounds
<1>5. at' = IF t = Len(input) + 1 THEN Len(input) + 1 ELSE t + 1
  <2> DEFINE S == {t + 1, Len(input) + 1}
  <2>1. S \subseteq Nat /\ t + 1 \in S
    BY <1>3, <1>4
  <2>2. Min(S) \in S /\ \A y \in S : Min(S) <= y
    <3> HIDE DEF S
    <3> QED
      BY <2>1, MinIs
  <2> QED
    BY <1>2, <1>3, <1>4, <2>2
<1>6. /\ \A u, k : OccursAt(u, k)' <=> OccursAt(u, k)
      /\ \A k : IsLetter(k)' <=> IsLetter(k)
  BY <1>2, SameText
<1>7. Reads'
  <2>1. at' \in 1 .. Len(input) + 1
    BY <1>3, <1>4, <1>5
  <2>2. at' = Len(input) + 1 \/ ~ IsLetter(at' - 1)
    <3>1. CASE t = Len(input) + 1
      BY <1>5, <3>1
    <3>2. CASE t # Len(input) + 1
      <4>1. at' - 1 = t
        BY <1>4, <1>5, <3>2
      <4> QED
        BY <1>4, <4>1
    <3> QED
      BY <3>1, <3>2
  <2> QED
    BY <1>2, <1>6, <2>1, <2>2 DEF Reads
<1>8. w \in Spelled
  <2>1. t - s \in 1 .. MaxInput /\ w \in [1 .. t - s -> Letters]
    BY <1>1, WordIs
  <2> QED
    BY <2>1 DEF Spelled
<1>9. s \in 1 .. Len(input) /\ OccursAt(w, s)
  <2>1. s \in 1 .. Len(input) /\ at <= s /\ s <= t
    BY <1>3, <1>4
  <2>2. OccursAt(w, s) <=> s = s /\ w = SubSeq(input, s, t - 1)
    BY <1>1, <1>8, <2>1, OnlyThere
  <2> QED
    BY <1>1, <2>1, <2>2
<1>10. ASSUME NEW u \in Spelled
       PROVE  Occurrences(u, at)' = Occurrences(u, at) \cup IF u = w THEN {s} ELSE {}
  <2> DEFINE O == {k \in 1 .. at' - 1 : k <= Len(input) /\ OccursAt(u, k)}
  <2>1. Occurrences(u, at)' = O
    BY <1>2, <1>6 DEF Occurrences
  <2>2. ASSUME NEW k \in O PROVE k \in Occurrences(u, at) \/ (u = w /\ k = s)
    <3>1. k \in 1 .. Len(input) /\ k <= t /\ OccursAt(u, k)
      BY <1>3, <1>4, <1>5
    <3>2. CASE k < at
      <4>1. k \in 1 .. at - 1
        BY <1>3, <3>2
      <4> QED
        BY <3>1, <4>1 DEF Occurrences
    <3>3. CASE at <= k
      BY <1>1, <3>1, <3>3, OnlyThere
    <3> QED
      BY <1>3, <3>2, <3>3
  <2>3. ASSUME NEW k \in Occurrences(u, at) PROVE k \in O
    <3>1. k \in 1 .. at - 1 /\ k <= Len(input) /\ OccursAt(u, k)
      BY DEF Occurrences
    <3>2. k \in 1 .. at' - 1
      BY <1>3, <1>4, <1>5, <3>1
    <3> QED
      BY <3>1, <3>2
  <2>4. u = w => s \in O
    <3>1. s \in 1 .. at' - 1 /\ s <= Len(input)
      BY <1>3, <1>4, <1>5
    <3> QED
      BY <1>9, <3>1
  <2> HIDE DEF O
  <2> QED
    BY <2>1, <2>2, <2>3, <2>4
<1>11. at <= s
  BY <1>3, <1>4
<1> QED
  BY <1>1, <1>4, <1>7, <1>8, <1>9, <1>10, <1>11 DEF Advanced

-------------------------------------------------------------------------------
\* The set counts what has been read, and nothing but words of the input.
Tallied == \A w \in Words :
  Frequency[w] = IF w \in Spelled THEN Cardinality(Occurrences(w, at)) ELSE 0

InOrder == \A y \in Order : y[1] # y[2] =>
  IF program = "wordfreq" THEN FirstUse(y[1]) < FirstUse(y[2]) ELSE LastUse(y[1]) > LastUse(y[2])

MainInv == Reads /\ SetInv /\ (result.op # "free" => Tallied /\ InOrder)

\* Every word of the list has been added.
PairsCounted == SetInv /\ result.op # "free" =>
  \A y \in Order : /\ y[1] \in Words /\ Frequency[y[1]] \in Nat /\ Frequency[y[1]] >= 1
                   /\ y[2] \in Words /\ Frequency[y[2]] \in Nat /\ Frequency[y[2]] >= 1

LEMMA PairsAreCounted == PairsCounted
<1> SUFFICES ASSUME SetInv, result.op # "free", NEW y \in Order
             PROVE  /\ y[1] \in Words /\ Frequency[y[1]] \in Nat /\ Frequency[y[1]] >= 1
                    /\ y[2] \in Words /\ Frequency[y[2]] \in Nat /\ Frequency[y[2]] >= 1
  BY DEF PairsCounted
<1>1. PICK n, d : Lists(n, d)
  BY DEF SetInv
<1>2. ListOf(n, d) /\ FrequenciesOf(n, d)
  BY <1>1, ListsHold, FrequenciesHold DEF SetInv, ListsListed, FrequenciesListed
<1>3. PICK j, k \in 1 .. n : y = <<word[d[j]], word[d[k]]>>
  BY <1>2 DEF ListOf
<1>4. \A i \in 1 .. n : /\ word[d[i]] \in Words /\ freq[d[i]] \in Nat /\ freq[d[i]] >= 1
                        /\ Frequency[word[d[i]]] = freq[d[i]]
  BY <1>1, <1>2 DEF Lists, Holds, FrequenciesOf
<1> QED
  BY <1>3, <1>4

LEMMA PairsAreCountedNext == PairsCounted'
BY PairsAreCounted, PTL

LEMMA UsesAreFinite ==
  ASSUME Reads, NEW u
  PROVE  /\ Len(input) \in Nat /\ at \in Nat
         /\ Occurrences(u, at) \subseteq 1 .. Len(input)
         /\ \A k \in Occurrences(u, at) : k < at
         /\ IsFiniteSet(Occurrences(u, at))
<1>1. Len(input) \in Nat /\ at \in 1 .. Len(input) + 1
  BY InputFacts
<1>2. Occurrences(u, at) \subseteq 1 .. Len(input) /\ \A k \in Occurrences(u, at) : k < at
  BY <1>1 DEF Occurrences
<1>3. IsFiniteSet(1 .. Len(input))
  BY <1>1, FS_Interval
<1>4. IsFiniteSet(Occurrences(u, at))
  BY <1>2, <1>3, FS_Subset
<1> QED
  BY <1>1, <1>2, <1>4

\* A word the set counts has been read; a word it does not has not.
LEMMA UsedBefore ==
  ASSUME Reads, Tallied, NEW u \in Words
  PROVE  /\ Frequency[u] >= 1 => /\ u \in Spelled
                                 /\ \E k \in Occurrences(u, at) : k < at
         /\ Frequency[u] = 0 /\ u \in Spelled => Occurrences(u, at) = {}
<1>1. /\ IsFiniteSet(Occurrences(u, at))
      /\ \A k \in Occurrences(u, at) : k < at
  BY UsesAreFinite
<1>2. Cardinality(Occurrences(u, at)) = 0 <=> Occurrences(u, at) = {}
  BY <1>1, FS_EmptySet
<1>3. Frequency[u] = IF u \in Spelled THEN Cardinality(Occurrences(u, at)) ELSE 0
  BY DEF Tallied
<1> QED
  BY <1>1, <1>2, <1>3

LEMMA TalliedOn ==
  ASSUME Reads, NEW s, NEW w, Advanced(s, w), Tallied, w \in Words,
         Frequency' = [Frequency EXCEPT ![w] = Frequency[w] + 1]
  PROVE  Tallied'
<1>1. /\ s \in Nat /\ at <= s /\ w \in Spelled
      /\ \A u \in Spelled : Occurrences(u, at)' = Occurrences(u, at) \cup IF u = w THEN {s} ELSE {}
  BY DEF Advanced
<1>2. ASSUME NEW u \in Words
      PROVE  Frequency'[u] = IF u \in Spelled THEN Cardinality(Occurrences(u, at)') ELSE 0
  <2>1. Frequency[u] = IF u \in Spelled THEN Cardinality(Occurrences(u, at)) ELSE 0
    BY DEF Tallied
  <2>2. u # w => Frequency'[u] = Frequency[u]
    BY DEF Frequency
  <2>3. CASE u = w
    <3>1. s \notin Occurrences(w, at) /\ IsFiniteSet(Occurrences(w, at))
      <4>1. at \in Nat /\ IsFiniteSet(Occurrences(w, at)) /\ \A k \in Occurrences(w, at) : k < at
        BY UsesAreFinite
      <4> QED
        BY <1>1, <4>1
    <3>2. Cardinality(Occurrences(w, at) \cup {s}) = Cardinality(Occurrences(w, at)) + 1
      BY <3>1, FS_AddElement
    <3>3. Frequency'[w] = Frequency[w] + 1
      BY DEF Frequency
    <3> QED
      BY <1>1, <2>1, <2>3, <3>2, <3>3
  <2>4. CASE u # w
    <3>1. u \in Spelled => Occurrences(u, at)' = Occurrences(u, at)
      BY <1>1, <2>4
    <3> QED
      BY <2>1, <2>2, <2>4, <3>1
  <2> QED
    BY <2>3, <2>4
<1> QED
  BY <1>2 DEF Tallied

LEMMA FirstUseIs ==
  ASSUME Reads, NEW u, NEW k \in 1 .. Len(input), OccursAt(u, k)
  PROVE  /\ FirstUse(u) <= k /\ FirstUse(u) \in Nat
         /\ Occurrences(u, at) = {} => at <= FirstUse(u)
<1> DEFINE S == {i \in 1 .. Len(input) : OccursAt(u, i)}
<1>1. Len(input) \in Nat /\ at \in 1 .. Len(input) + 1
  BY InputFacts
<1>2. S \subseteq Nat /\ k \in S
  OBVIOUS
<1>3. FirstUse(u) \in S /\ \A i \in S : FirstUse(u) <= i
  <2> HIDE DEF S
  <2>1. Min(S) \in S /\ \A i \in S : Min(S) <= i
    BY <1>2, MinIs
  <2> QED
    BY <2>1 DEF FirstUse, S
<1>4. ASSUME FirstUse(u) < at PROVE FirstUse(u) \in Occurrences(u, at)
  <2>1. FirstUse(u) \in 1 .. at - 1 /\ FirstUse(u) <= Len(input) /\ OccursAt(u, FirstUse(u))
    BY <1>1, <1>3, <1>4
  <2> QED
    BY <2>1 DEF Occurrences
<1>5. FirstUse(u) \in Nat
  BY <1>3
<1> QED
  BY <1>1, <1>2, <1>3, <1>4, <1>5

\* The words that are not w are where they were.
LEMMA OtherPairs ==
  ASSUME MainInv, result.op # "free", NEW s, NEW w \in Words, Advanced(s, w), input' = input,
         Leaves(w, Frequency[w] + 1), result'.op # "free",
         NEW y \in Order'
  PROVE  /\ \A u : (u = y[1] \/ u = y[2]) /\ u # w =>
               /\ u \in Spelled /\ \E k \in Occurrences(u, at) : k < at
               /\ LastUse(u)' = LastUse(u)
         /\ y[1] # w /\ y[2] # w => y \in Order
         /\ \A u : FirstUse(u)' = FirstUse(u)
<1>1. Reads /\ Tallied
  BY DEF MainInv
<1>2. SetInv' /\ Without(w, Order') = Without(w, Order)
      /\ Frequency' = [Frequency EXCEPT ![w] = Frequency[w] + 1]
  BY DEF Leaves
<1>3. /\ y[1] \in Words /\ Frequency'[y[1]] \in Nat /\ Frequency'[y[1]] >= 1
      /\ y[2] \in Words /\ Frequency'[y[2]] \in Nat /\ Frequency'[y[2]] >= 1
  BY <1>2, PairsAreCountedNext DEF PairsCounted
<1>4. ASSUME NEW u, u = y[1] \/ u = y[2], u # w
      PROVE  /\ u \in Spelled /\ \E k \in Occurrences(u, at) : k < at
             /\ LastUse(u)' = LastUse(u)
  <2>1. u \in Words /\ Frequency'[u] >= 1
    BY <1>3, <1>4
  <2>2. Frequency'[u] = Frequency[u]
    BY <1>2, <1>4, <2>1 DEF Frequency
  <2>3. u \in Spelled /\ \E k \in Occurrences(u, at) : k < at
    BY <1>1, <2>1, <2>2, UsedBefore
  <2>4. Occurrences(u, at)' = Occurrences(u, at)
    BY <1>4, <2>3 DEF Advanced
  <2>5. LastUse(u) = Max(Occurrences(u, at)) /\ LastUse(u)' = Max(Occurrences(u, at)')
    BY DEF LastUse, Occurrences
  <2> QED
    BY <2>3, <2>4, <2>5
<1>5. y[1] # w /\ y[2] # w => y \in Order
  BY <1>2 DEF Without
<1>6. \A u : FirstUse(u)' = FirstUse(u)
  BY SameText DEF FirstUse
<1> QED
  BY <1>4, <1>5, <1>6

\* wordfreq: a new word comes last.
LEMMA InOrderOfFirstUse ==
  ASSUME MainInv, result.op # "free", NEW s, NEW w \in Words, Advanced(s, w),
         input' = input, program' = program, program = "wordfreq", wset_add(w)
  PROVE  InOrder'
<1>1. /\ Leaves(w, Frequency[w] + 1) /\ result'.op # "free"
      /\ Found(w) => Order' = Order
      /\ ~ Found(w) => Last(w, Order')
  BY AddKeeps DEF MainInv
<1>2. Reads /\ SetInv /\ Tallied /\ InOrder
  BY DEF MainInv
<1>3. ASSUME NEW y \in Order', y[1] # y[2]
      PROVE  FirstUse(y[1])' < FirstUse(y[2])'
  <2>1. /\ \A u : (u = y[1] \/ u = y[2]) /\ u # w =>
             u \in Spelled /\ \E k \in Occurrences(u, at) : k < at
        /\ y[1] # w /\ y[2] # w => y \in Order
        /\ \A u : FirstUse(u)' = FirstUse(u)
    BY <1>1, OtherPairs
  <2>2. CASE y \in Order
    BY <1>2, <1>3, <2>1, <2>2 DEF InOrder
  <2>3. CASE y \notin Order
    <3>1. ~ Found(w) /\ Last(w, Order')
      BY <1>1, <2>3
    <3>2. y[1] # w
      BY <1>3, <3>1 DEF Last
    <3>3. y[2] = w
      BY <2>1, <2>3, <3>2
    <3>4. Frequency[w] = 0
      BY <3>1 DEF Frequency
    <3>5. /\ s \in 1 .. Len(input) /\ OccursAt(w, s) /\ w \in Spelled
      BY DEF Advanced
    <3>6. at <= FirstUse(w)
      BY <1>2, <3>4, <3>5, UsedBefore, FirstUseIs
    <3>7. PICK k \in Occurrences(y[1], at) : k < at
      BY <2>1, <3>2
    <3>8. /\ FirstUse(y[1]) <= k /\ FirstUse(y[1]) \in Nat
          /\ k \in Nat /\ FirstUse(w) \in Nat
      BY <1>2, <3>5, <3>7, FirstUseIs DEF Occurrences
    <3>9. at \in Nat
      BY <1>2, InputFacts
    <3> QED
      BY <2>1, <3>3, <3>6, <3>7, <3>8, <3>9
  <2> QED
    BY <2>2, <2>3
<1> QED
  BY <1>3 DEF InOrder

\* wordfreq-fast: the word just used comes first.
LEMMA InOrderOfLastUse ==
  ASSUME MainInv, result.op # "free", NEW s, NEW w \in Words, Advanced(s, w),
         input' = input, program' = program, program # "wordfreq", wset_fast_add(w)
  PROVE  InOrder'
<1>1. Leaves(w, Frequency[w] + 1) /\ result'.op # "free" /\ First(w, Order')
  BY FastAddKeeps DEF MainInv
<1>2. Reads /\ SetInv /\ InOrder
  BY DEF MainInv
<1>3. ASSUME NEW y \in Order', y[1] # y[2]
      PROVE  LastUse(y[1])' > LastUse(y[2])'
  <2>1. /\ \A u : (u = y[1] \/ u = y[2]) /\ u # w =>
             /\ u \in Spelled /\ \E k \in Occurrences(u, at) : k < at
             /\ LastUse(u)' = LastUse(u)
        /\ y[1] # w /\ y[2] # w => y \in Order
    BY <1>1, OtherPairs
  <2>2. y[2] # w
    BY <1>1, <1>3 DEF First
  <2>3. CASE y[1] # w
    BY <1>2, <1>3, <2>1, <2>2, <2>3 DEF InOrder
  <2>4. CASE y[1] = w
    <3>1. Len(input) \in Nat /\ at \in Nat
      BY <1>2, InputFacts
    <3>2. LastUse(y[2])' < at /\ LastUse(y[2])' \in Nat
      <4> DEFINE O == Occurrences(y[2], at)
      <4>1. O \subseteq 1 .. Len(input) /\ \A k \in O : k < at
        BY <1>2, UsesAreFinite
      <4>2. PICK k \in O : k < at
        BY <2>1, <2>2
      <4>3. LastUse(y[2]) = Max(O)
        BY DEF LastUse, Occurrences
      <4> HIDE DEF O
      <4>4. Max(O) \in O
        BY <3>1, <4>1, <4>2, MaxIs
      <4>5. LastUse(y[2])' = LastUse(y[2])
        BY <2>1, <2>2
      <4>6. Max(O) < at /\ Max(O) \in Nat
        <5>1. Max(O) \in 1 .. Len(input) /\ Max(O) < at
          BY <4>1, <4>4, Zenon
        <5> QED
          BY ONLY <5>1, <3>1
      <4> QED
        BY <4>3, <4>5, <4>6
    <3>3. LastUse(w)' >= s /\ LastUse(w)' \in Nat
      <4> DEFINE O == Occurrences(w, at) \cup {s}
      <4>1. /\ s \in 1 .. Len(input) /\ Occurrences(w, at)' = O
        BY DEF Advanced
      <4>2. O \subseteq 1 .. Len(input) /\ s \in O
        BY <1>2, <4>1, UsesAreFinite
      <4>3. LastUse(w)' = Max(Occurrences(w, at)')
        BY DEF LastUse, Occurrences
      <4> HIDE DEF O
      <4>4. Max(O) \in O /\ \A k \in O : Max(O) >= k
        BY <3>1, <4>2, MaxIs
      <4>5. Max(O) >= s /\ Max(O) \in Nat
        <5>1. Max(O) \in 1 .. Len(input) /\ Max(O) >= s
          BY <4>2, <4>4, Zenon
        <5> QED
          BY ONLY <5>1, <3>1
      <4> QED
        BY <4>1, <4>3, <4>5
    <3>4. s \in Nat /\ at <= s
      BY DEF Advanced
    <3> QED
      BY <2>4, <3>1, <3>2, <3>3, <3>4
  <2> QED
    BY <2>3, <2>4
<1>4. program' # "wordfreq"
  OBVIOUS
<1> QED
  BY <1>3, <1>4 DEF InOrder

LEMMA MainStarts == MainInit => MainInv
<1> SUFFICES ASSUME MainInit PROVE MainInv
  OBVIOUS
<1> DEFINE d == [k \in 0 .. 0 |-> HEAD]
<1>1. Init /\ program \in Programs /\ at = 1
      /\ input \in UNION {[1 .. n -> Letters \cup {Blank}] : n \in 0 .. MaxInput}
  BY DEF MainInit
<1>2. SetInv /\ Lists(0, d) /\ live \subseteq Nodes
  BY <1>1, SetStarts DEF Init
<1>3. Reads
  <2>1. MaxInput \in Nat
    BY InputAssumption
  <2>2. PICK n \in 0 .. MaxInput : input \in [1 .. n -> Letters \cup {Blank}]
    BY <1>1
  <2>3. Len(input) \in Nat
    BY <2>1, <2>2
  <2> QED
    BY <1>1, <2>3 DEF Reads
<1> HIDE DEF d
<1>4. ListOf(0, d) /\ FrequenciesOf(0, d)
  BY <1>2, ListsHold, FrequenciesHold DEF ListsListed, FrequenciesListed
<1>5. Tallied
  <2>1. \A w \in Words : Frequency[w] = 0
    BY <1>4 DEF FrequenciesOf
  <2>2. \A w : Occurrences(w, at) = {}
    BY <1>1 DEF Occurrences
  <2> QED
    BY <2>1, <2>2, FS_EmptySet DEF Tallied
<1>6. InOrder
  <2>1. \A y : y \notin Order
    BY <1>4 DEF ListOf
  <2> QED
    BY <2>1 DEF InOrder
<1> QED
  BY <1>2, <1>3, <1>5, <1>6 DEF MainInv

LEMMA CountKeeps == ASSUME MainInv, CountWord PROVE MainInv'
<1>1. Reads /\ SetInv /\ result.op # "free" /\ Tallied
  BY DEF MainInv, CountWord
<1>2. PICK s, w : s = WordStart /\ w = NextWord
  OBVIOUS
<1>3. Reads' /\ Advanced(s, w)
  BY <1>1, <1>2, ReadsOn
<1>4. w \in Words
  BY <1>3, InputAssumption DEF Advanced
<1>5. /\ IF program = "wordfreq" THEN wset_add(w) ELSE wset_fast_add(w)
      /\ input' = input /\ program' = program
  BY <1>2 DEF CountWord
<1>6. Leaves(w, Frequency[w] + 1)
  BY <1>1, <1>4, <1>5, AddKeeps, FastAddKeeps
<1>7. Tallied'
  BY <1>1, <1>3, <1>4, <1>6, TalliedOn DEF Leaves
<1>8. InOrder'
  <2>1. CASE program = "wordfreq"
    BY <1>1, <1>3, <1>4, <1>5, <2>1, InOrderOfFirstUse
  <2>2. CASE program # "wordfreq"
    BY <1>1, <1>3, <1>4, <1>5, <2>2, InOrderOfLastUse
  <2> QED
    BY <2>1, <2>2
<1> QED
  BY <1>3, <1>6, <1>7, <1>8 DEF MainInv, Leaves

LEMMA FinishKeeps == ASSUME MainInv, Finish PROVE MainInv'
<1>1. Reads /\ SetInv /\ wset_free /\ IsEof(WordStart)
      /\ input' = input /\ program' = program /\ at' = WordStart
  BY DEF MainInv, Finish
<1>2. SetInv' /\ result' = [op |-> "free"]
  BY <1>1, FreeKeeps
<1>3. WordStart = Len(input) + 1
  <2> DEFINE S == {k \in at .. Len(input) + 1 : IsLetter(k) \/ IsEof(k)}
  <2>1. Len(input) \in Nat /\ at \in 1 .. Len(input) + 1
    BY <1>1, InputFacts
  <2>2. S \subseteq Nat /\ Len(input) + 1 \in S
    BY <2>1 DEF IsEof
  <2>3. Min(S) \in S
    <3> HIDE DEF S
    <3> QED
      BY <2>2, MinIs
  <2> QED
    BY <1>1, <2>1, <2>3 DEF WordStart, IsEof
<1>4. Reads'
  <2>1. Len(input) \in Nat
    BY <1>1, InputFacts
  <2> QED
    BY <1>1, <1>3, <2>1 DEF Reads
<1> QED
  BY <1>2, <1>4 DEF MainInv

LEMMA MainStill == ASSUME MainInv, UNCHANGED <<vars, mainVars>> PROVE MainInv'
<1>1. /\ UNCHANGED vars
      /\ live' = live /\ cells' = cells /\ word' = word /\ freq' = freq /\ size' = size
      /\ result' = result /\ program' = program /\ input' = input /\ at' = at
  BY DEF vars, heap, mainVars
<1>2. SetInv'
  BY <1>1, SetStep DEF MainInv
<1>3. Reads'
  BY <1>1, SameText DEF MainInv, Reads
<1>4. Order' = Order /\ Frequency' = Frequency
  BY <1>1, SameChain
<1>5. /\ \A u : Occurrences(u, at)' = Occurrences(u, at)
      /\ \A u : FirstUse(u)' = FirstUse(u)
      /\ \A u : LastUse(u)' = LastUse(u)
  BY <1>1, SameText DEF Occurrences, FirstUse, LastUse
<1>6. Tallied => Tallied'
  BY <1>4, <1>5 DEF Tallied
<1>7. InOrder => InOrder'
  BY <1>1, <1>4, <1>5 DEF InOrder
<1> QED
  BY <1>1, <1>2, <1>3, <1>6, <1>7 DEF MainInv

LEMMA MainStep == MainInv /\ [MainNext]_<<vars, mainVars>> => MainInv'
BY CountKeeps, FinishKeeps, MainStill DEF MainNext, Exited

\* Between two words of the input, the set and what has been read agree: the
\* inductive invariant of both programs.
THEOREM ProgramInvariant == MainSpec => []MainInv
BY MainStarts, MainStep, PTL DEF MainSpec

\* Every whole word of the input is counted once for each time it occurs, the
\* first and the last word included (words.c 46-67, wordfreq.c 20-25).
THEOREM WordsAreCounted == MainSpec => []CountsOccurrences
<1>1. MainInv => CountsOccurrences
  <2> SUFFICES ASSUME MainInv, result.op # "free", NEW w \in Spelled
               PROVE  Frequency[w] =
                        Cardinality({k \in 1 .. at - 1 : k <= Len(input) /\ OccursAt(w, k)})
    BY DEF CountsOccurrences, Running
  <2>1. w \in Words
    BY InputAssumption
  <2>2. Frequency[w] = Cardinality(Occurrences(w, at))
    BY <2>1 DEF MainInv, Tallied
  <2> QED
    BY <2>2 DEF Occurrences
<1> QED
  BY <1>1, ProgramInvariant, PTL

\* wordfreq lists the words in the order of their first use, wordfreq-fast the
\* word used last first (wset.c 146-152, 186-195).
THEOREM WordsAreInOrder == MainSpec => []ListedInOrderOfUse
<1>1. MainInv => ListedInOrderOfUse
  <2> SUFFICES ASSUME MainInv, result.op # "free",
                      NEW j \in DOMAIN List, NEW k \in DOMAIN List, j < k
               PROVE  IF program = "wordfreq"
                      THEN FirstUse(List[j]) < FirstUse(List[k])
                      ELSE LastUse(List[j]) > LastUse(List[k])
    BY DEF ListedInOrderOfUse, Running
  <2>1. SetInv /\ InOrder
    BY DEF MainInv
  <2>2. PICK n, d : Lists(n, d)
    BY <2>1 DEF SetInv
  <2>3. ListOf(n, d)
    BY <2>1, <2>2, ListsHold DEF SetInv, ListsListed
  <2>4. /\ j \in 1 .. n /\ k \in 1 .. n
        /\ List[j] = word[d[j]] /\ List[k] = word[d[k]]
    BY <2>3 DEF ListOf
  <2>5. <<List[j], List[k]>> \in Order
    BY <2>3, <2>4 DEF ListOf
  <2>6. List[j] # List[k]
    BY <2>2, <2>4 DEF Lists, Holds
  <2> QED
    BY <2>1, <2>5, <2>6 DEF InOrder
<1> QED
  BY <1>1, ProgramInvariant, PTL
==================================================================================
