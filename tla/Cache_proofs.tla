------------------------------ MODULE Cache_proofs ------------------------------
(***************************************************************************)
(* Proofs about the LRU queues of the cache, for any number of sets, lines *)
(* per set and tags, and any way of cutting an address.                    *)
(***************************************************************************)
EXTENDS Cache, FiniteSetTheorems, SequenceTheorems, Sums_proofs

\* The first and the last line of a set.
LEMMA LinesFacts == 1 \in Lines /\ LineCount \in Lines /\ Lines \subseteq Nat
  BY GeometryAssumption DEF Lines

\* The facts about the walk of lru_fetch and the move to the front that every
\* kind of access shares: a line k of set s is found, moved to the front, and
\* gets a new content that is valid.
LEMMA MovedToFront ==
  ASSUME LruInv, NEW s \in Sets, NEW k \in Lines, ToFront(s, k)
  PROVE  /\ queue' \in [Sets -> [Lines -> Lines]]
         /\ \A r \in Sets : r # s => queue'[r] = queue[r]
         /\ queue'[s][1] = queue[s][k]
         /\ \A j \in Lines : 1 < j /\ j <= k =>
              j - 1 \in Lines /\ queue'[s][j] = queue[s][j - 1]
         /\ \A j \in Lines : k < j => queue'[s][j] = queue[s][j]
         /\ QueueIsPermutation'
\* The node that ends up at place j was at place from(j).
<1> DEFINE from(j) == IF j = 1 THEN k ELSE IF j <= k THEN j - 1 ELSE j
           new == [j \in Lines |-> queue[s][from(j)]]
<1>1. queue \in [Sets -> [Lines -> Lines]]
  BY DEF LruInv, TypeOK
<1>2. \A j \in Lines : from(j) \in Lines
  BY GeometryAssumption DEF Lines
<1>3. \A i, j \in Lines : from(i) = from(j) => i = j
  BY GeometryAssumption DEF Lines
<1>4. queue' = [queue EXCEPT ![s] = new]
  <2>1. new = [j \in Lines |-> IF j = 1 THEN queue[s][k]
                               ELSE IF j <= k THEN queue[s][j - 1] ELSE queue[s][j]]
    OBVIOUS
  <2> QED
    BY <2>1, Zenon DEF ToFront
<1>5. \A j \in Lines : new[j] = queue[s][from(j)]
  OBVIOUS
<1>6. new \in [Lines -> Lines]
  BY <1>1, <1>2
<1>7. queue' \in [Sets -> [Lines -> Lines]] /\ queue'[s] = new
      /\ \A r \in Sets : r # s => queue'[r] = queue[r]
  <2> HIDE DEF new
  <2> QED
    BY <1>1, <1>4, <1>6
<1>8. \A i, j \in Lines : new[i] = new[j] => i = j
  <2> HIDE DEF new, from
  <2>1. \A i, j \in Lines : queue[s][i] = queue[s][j] => i = j
    BY DEF LruInv, QueueIsPermutation
  <2> QED
    BY <1>2, <1>3, <1>5, <2>1
<1>9. ASSUME NEW l \in Lines PROVE \E j \in Lines : new[j] = l
  <2>1. PICK n \in Lines : queue[s][n] = l
    BY DEF LruInv, QueueIsPermutation
  <2>2. \E j \in Lines : from(j) = n
    <3>1. (n < k => n + 1 \in Lines /\ from(n + 1) = n) /\ (n > k => from(n) = n)
      BY GeometryAssumption DEF Lines
    <3>2. from(1) = k /\ 1 \in Lines /\ (n < k \/ n = k \/ n > k)
      BY GeometryAssumption DEF Lines
    <3> QED
      BY <3>1, <3>2
  <2> QED
    BY <1>5, <2>1, <2>2
<1>10. QueueIsPermutation'
  <2> HIDE DEF new, from
  <2>1. ASSUME NEW r \in Sets, r # s
        PROVE  /\ \A i, j \in Lines : queue'[r][i] = queue'[r][j] => i = j
               /\ \A l \in Lines : \E j \in Lines : queue'[r][j] = l
    <3>1. queue'[r] = queue[r]
      BY <1>7, <2>1
    <3>2. /\ \A i, j \in Lines : queue[r][i] = queue[r][j] => i = j
          /\ \A l \in Lines : \E j \in Lines : queue[r][j] = l
      BY DEF LruInv, QueueIsPermutation
    <3> QED
      BY <3>1, <3>2
  <2>2. /\ \A i, j \in Lines : queue'[s][i] = queue'[s][j] => i = j
        /\ \A l \in Lines : \E j \in Lines : queue'[s][j] = l
    BY <1>7, <1>8, <1>9
  <2> QED
    BY <2>1, <2>2 DEF QueueIsPermutation
<1>11. \A j \in Lines : 1 < j /\ j <= k => j - 1 \in Lines
  BY GeometryAssumption DEF Lines
<1>12. /\ new[1] = queue[s][k]
       /\ \A j \in Lines : 1 < j /\ j <= k => new[j] = queue[s][j - 1]
       /\ \A j \in Lines : k < j => new[j] = queue[s][j]
  <2>1. from(1) = k
    OBVIOUS
  <2>2. \A j \in Lines : 1 < j /\ j <= k => from(j) = j - 1
    BY LinesFacts
  <2>3. \A j \in Lines : k < j => from(j) = j
    BY DEF Lines
  <2> HIDE DEF new, from
  <2> QED
    BY <1>5, <2>1, <2>2, <2>3, LinesFacts
<1> HIDE DEF new
<1> QED
  BY <1>7, <1>10, <1>11, <1>12

\* An access to set s that ends at node k of its queue keeps the invariant.
LEMMA AccessKeepsInv ==
  ASSUME LruInv, NEW s \in Sets, NEW t \in Int, NEW k \in Lines,
         Fetches(s, k, t), ToFront(s, k),
         NEW content \in Line, content.valid, content.tag = t,
         lines' = [lines EXCEPT ![s][queue[s][k]] = content],
         TypeOK'
  PROVE  LruInv'
<1> DEFINE l == queue[s][k]
<1>1. /\ lines \in [Sets -> [Lines -> Line]] /\ queue \in [Sets -> [Lines -> Lines]]
      /\ l \in Lines
  BY DEF LruInv, TypeOK
<1>2. /\ \A r \in Sets : r # s => lines'[r] = lines[r]
      /\ lines'[s] = [lines[s] EXCEPT ![l] = content]
      /\ lines'[s][l] = content
      /\ \A m \in Lines : m # l => lines'[s][m] = lines[s][m]
  BY <1>1
<1>3. /\ \A r \in Sets : r # s => queue'[r] = queue[r]
      /\ queue'[s][1] = l
      /\ \A j \in Lines : 1 < j /\ j <= k =>
           j - 1 \in Lines /\ queue'[s][j] = queue[s][j - 1]
      /\ \A j \in Lines : k < j => queue'[s][j] = queue[s][j]
      /\ QueueIsPermutation'
  BY MovedToFront
<1>4. \A i, j \in Lines : queue[s][i] = queue[s][j] => i = j
  BY DEF LruInv, QueueIsPermutation
<1>5. \A i, j \in Lines : i < j /\ Node(s, j).valid => Node(s, i).valid
  BY DEF LruInv, UsedBeforeFree
\* The nodes that were passed over are in use and hold other tags; so do, by
\* the order of the queue, those behind, when the walk ended at a free node.
<1>6. \A j \in Lines : j < k => Node(s, j).valid /\ Node(s, j).tag # t
  BY LinesFacts DEF Fetches, Stops, IsHit, IsFree, Lines
<1>7. \A j \in Lines : j # k /\ Node(s, j).valid => Node(s, j).tag # t
  <2> SUFFICES ASSUME NEW j \in Lines, j > k, Node(s, j).valid
               PROVE  Node(s, j).tag # t
    BY <1>6, LinesFacts
  <2>1. Node(s, k).valid /\ k # LineCount
    BY <1>5, LinesFacts DEF Lines
  <2>2. Node(s, k).tag = t
    BY <2>1 DEF Fetches, Stops, IsHit, IsFree
  <2>3. queue[s][j] # queue[s][k] /\ queue[s][j] \in Lines
    BY <1>1, <1>4, LinesFacts
  <2> QED
    BY <1>1, <2>1, <2>2, <2>3 DEF LruInv, NoDuplicateTag, Node
\* Every line is in the queue: what holds of all nodes holds of all lines.
<1>8. UsedBeforeFree'
  <2> SUFFICES ASSUME NEW r \in Sets, NEW i \in Lines, NEW j \in Lines,
                      i < j, Node(r, j)'.valid
               PROVE  Node(r, i)'.valid
    BY DEF UsedBeforeFree
  <2>1. CASE r # s
    <3>1. Node(r, j)' = Node(r, j) /\ Node(r, i)' = Node(r, i)
      BY <1>2, <1>3, <2>1 DEF Node
    <3> QED
      BY <3>1 DEF LruInv, UsedBeforeFree
  <2>2. ASSUME r = s, NEW n \in Lines, n # k
        PROVE  queue[s][n] # l /\ lines'[s][queue[s][n]] = Node(s, n)
    BY <1>1, <1>2, <1>4, <2>2 DEF Node
  <2>3. CASE r = s /\ i = 1
    BY <1>2, <1>3, <2>3 DEF Node
  <2>4. CASE r = s /\ 1 < i /\ i <= k
    <3>1. i - 1 \in Lines /\ i - 1 < k /\ i - 1 # k /\ queue'[s][i] = queue[s][i - 1]
      BY <1>3, <2>4, LinesFacts
    <3>2. Node(s, i)' = Node(s, i - 1)
      BY <2>2, <2>4, <3>1 DEF Node
    <3> QED
      BY <1>6, <2>4, <3>1, <3>2
  <2>5. CASE r = s /\ k < i
    <3>1. i # k /\ j # k /\ k < j
      BY <2>5, LinesFacts
    <3>2. Node(s, i)' = Node(s, i) /\ Node(s, j)' = Node(s, j)
      BY <1>3, <2>2, <2>5, <3>1 DEF Node
    <3> QED
      BY <1>5, <2>5, <3>2
  <2> QED
    BY <2>1, <2>3, <2>4, <2>5, LinesFacts DEF Lines
\* Every other line with a tag is in the queue at a node other than k.
<1>9. NoDuplicateTag'
  <2>1. ASSUME NEW m \in Lines, m # l, lines[s][m].valid
        PROVE  lines[s][m].tag # t
    <3>1. PICK n \in Lines : queue[s][n] = m
      BY DEF LruInv, QueueIsPermutation
    <3> QED
      BY <1>7, <2>1, <3>1 DEF Node
  <2>2. ASSUME NEW m \in Lines, NEW n \in Lines, lines'[s][m].valid, lines'[s][n].valid,
               lines'[s][m].tag = lines'[s][n].tag
        PROVE  m = n
    <3>1. CASE m = l /\ n # l
      BY <1>2, <2>1, <2>2, <3>1
    <3>2. CASE m # l /\ n = l
      BY <1>2, <2>1, <2>2, <3>2
    <3>3. CASE m # l /\ n # l
      BY <1>2, <2>2, <3>3 DEF LruInv, NoDuplicateTag
    <3> QED
      BY <3>1, <3>2, <3>3
  <2> QED
    BY <1>2, <2>2 DEF LruInv, NoDuplicateTag
<1> QED
  BY <1>3, <1>8, <1>9 DEF LruInv

-------------------------------------------------------------------------------
\* The queue that lru_init_queue builds holds each line once, all of them free.
LEMMA InitInv == Init => LruInv
<1> SUFFICES ASSUME Init PROVE LruInv
  OBVIOUS
<1>1. PICK g \in [Sets -> [Lines -> Garbage]] :
        lines = [s \in Sets |-> [l \in Lines |->
                   [valid |-> FALSE, tag |-> 0, accessed |-> g[s][l]]]]
  BY DEF Init
<1>2. lines \in [Sets -> [Lines -> Line]]
  BY <1>1, GarbageAssumption DEF Line
<1>3. queue = [s \in Sets |-> [k \in Lines |-> k]]
  BY DEF Init
<1>4. \A s \in Sets, l \in Lines : ~ lines[s][l].valid
  BY <1>1
<1>5. QueueIsPermutation
  BY <1>3 DEF QueueIsPermutation
<1>6. UsedBeforeFree /\ NoDuplicateTag
  BY <1>3, <1>4 DEF UsedBeforeFree, NoDuplicateTag, Node
<1>7. TypeOK
  BY <1>2, <1>3 DEF Init, TypeOK
<1> QED
  BY <1>5, <1>6, <1>7 DEF LruInv

\* An access to tag t and byte b in set s ends at node k, whose line becomes new.
EndsAt(s, t, b, k, new) ==
  /\ Fetches(s, k, t) /\ ToFront(s, k)
  /\ new.valid /\ new.tag = t
  /\ new.accessed = IF IsHit(s, k, t) THEN Node(s, k).accessed \cup {b} ELSE {b}
  /\ lines' = [lines EXCEPT ![s][queue[s][k]] = new]

\* Every access ends at a node, whatever it is counted as.
LEMMA AccessEffect ==
  ASSUME LruInv, NEW s \in Sets, NEW t \in Int, NEW b \in Bytes,
         Hit(s, t, b) \/ ColdMiss(s, t, b) \/ ConflictMiss(s, t, b)
  PROVE  \E k \in Lines, content \in Line : EndsAt(s, t, b, k, content)
<1>1. lines \in [Sets -> [Lines -> Line]] /\ queue \in [Sets -> [Lines -> Lines]]
  BY DEF LruInv, TypeOK
<1>2. CASE Hit(s, t, b)
  <2>1. PICK k \in Lines : /\ Fetches(s, k, t) /\ IsHit(s, k, t) /\ ToFront(s, k)
                           /\ Touch(s, queue[s][k], b)
    BY <1>2 DEF Hit
  <2> DEFINE l == queue[s][k]
             content == [lines[s][l] EXCEPT !.accessed = @ \cup {b}]
  <2>2. l \in Lines /\ lines[s][l] \in Line
    BY <1>1
  <2>3. /\ content \in Line
        /\ content.valid = lines[s][l].valid /\ content.tag = lines[s][l].tag
        /\ content.accessed = lines[s][l].accessed \cup {b}
    BY <2>2 DEF Line
  <2>4. lines' = [lines EXCEPT ![s][l] = content]
    BY <2>1 DEF Touch
  <2>5. content.accessed = IF IsHit(s, k, t) THEN Node(s, k).accessed \cup {b} ELSE {b}
    BY <2>1, <2>3 DEF Node
  <2> HIDE DEF content
  <2> QED
    BY <2>1, <2>3, <2>4, <2>5 DEF IsHit, Node, EndsAt
<1>3. CASE ColdMiss(s, t, b) \/ ConflictMiss(s, t, b)
  <2> DEFINE content == [valid |-> TRUE, tag |-> t, accessed |-> {b}]
  <2>1. content \in Line /\ content.valid /\ content.tag = t /\ content.accessed = {b}
    BY DEF Line
  <2>2. PICK k \in Lines : /\ Fetches(s, k, t) /\ ~ IsHit(s, k, t) /\ ToFront(s, k)
                           /\ lines' = [lines EXCEPT ![s][queue[s][k]] = content]
    BY <1>3 DEF ColdMiss, ConflictMiss, Load, IsHit, IsFree
  <2>3. content.accessed = IF IsHit(s, k, t) THEN Node(s, k).accessed \cup {b} ELSE {b}
    BY <2>1, <2>2
  <2> HIDE DEF content
  <2>4. EndsAt(s, t, b, k, content)
    BY <2>1, <2>2, <2>3 DEF EndsAt
  <2> QED
    BY <2>1, <2>4
<1> QED
  BY <1>2, <1>3

\* An access to any set, hit or miss, keeps the queue and the tags in order.
LEMMA NextInv ==
  ASSUME LruInv, [Next]_vars
  PROVE  LruInv'
<1>1. ASSUME NEW a \in Addresses, Round(a) PROVE LruInv'
  <2> DEFINE s == SetOf[a]  t == TagOf[a]  b == ByteOf[a]
  <2>1. s \in Sets /\ t \in Int /\ b \in Bytes
    BY GeometryAssumption
  <2> HIDE DEF s, t, b
  <2>2. Hit(s, t, b) \/ ColdMiss(s, t, b) \/ ConflictMiss(s, t, b)
    BY <1>1 DEF Round, cache_access, s, t, b
  <2>3. PICK k \in Lines, content \in Line : EndsAt(s, t, b, k, content)
    BY <2>1, <2>2, AccessEffect
  <2>4. lines' \in [Sets -> [Lines -> Line]]
    BY <2>1, <2>3 DEF LruInv, TypeOK, EndsAt
  <2>5. queue' \in [Sets -> [Lines -> Lines]]
    BY <2>1, <2>3, MovedToFront DEF EndsAt
  <2>6. /\ address' \in Addresses /\ address_count' \in Nat
        /\ hits' \in Nat /\ cold' \in Nat /\ conflict' \in Nat
    BY <1>1, <2>2 DEF Round, Hit, ColdMiss, ConflictMiss, LruInv, TypeOK
  <2>7. TypeOK'
    BY <2>4, <2>5, <2>6 DEF TypeOK
  <2> QED
    BY <2>1, <2>3, <2>7, AccessKeepsInv DEF EndsAt
<1>2. CASE Next
  BY <1>1, <1>2 DEF Next, WholeLine, JunkLine, LruInv, TypeOK
<1>3. CASE UNCHANGED vars
  BY <1>3 DEF vars, counters, LruInv, TypeOK, QueueIsPermutation, UsedBeforeFree,
              NoDuplicateTag, Node
<1> QED
  BY <1>2, <1>3

-------------------------------------------------------------------------------
\* The inductive invariant of the cache holds in every execution.
THEOREM LruInvariant == Spec => []LruInv
  BY InitInv, NextInv, PTL DEF Spec

\* Every variable of the cache keeps its type, for any trace.
THEOREM CacheTypeCorrect == Spec => []TypeOK
<1>1. LruInv => TypeOK
  BY DEF LruInv
<1> QED
  BY <1>1, LruInvariant, PTL

\* The re-chaining of the nodes never loses or doubles a line (lru.c 90-94).
THEOREM QueueHoldsEveryLine == Spec => []QueueIsPermutation
<1>1. LruInv => QueueIsPermutation
  BY DEF LruInv
<1> QED
  BY <1>1, LruInvariant, PTL

\* The walk may stop at the first free line (lru.c 64): all used lines come
\* before it.
THEOREM UsedLinesComeFirst == Spec => []UsedBeforeFree
<1>1. LruInv => UsedBeforeFree
  BY DEF LruInv
<1> QED
  BY <1>1, LruInvariant, PTL

\* A block of memory is never in two lines of a set.
THEOREM TagsAreUnique == Spec => []NoDuplicateTag
<1>1. LruInv => NoDuplicateTag
  BY DEF LruInv
<1> QED
  BY <1>1, LruInvariant, PTL

-------------------------------------------------------------------------------
\* The first n nodes of the queue of s are in use, the others free.
UsesFirst(s, n) == n \in 0 .. LineCount /\ \A k \in Lines : Node(s, k).valid <=> k <= n

Block(line) == [tag |-> line.tag, bytes |-> line.accessed]
Blocks == [tag : Int, bytes : SUBSET Bytes]

LEMMA UsedCount ==
  ASSUME LruInv, NEW s \in Sets
  PROVE  \E n : UsesFirst(s, n)
<1> DEFINE S == {k \in Lines : ~ Node(s, k).valid}
<1>1. CASE S = {}
  <2>1. UsesFirst(s, LineCount)
    BY <1>1, GeometryAssumption DEF UsesFirst, Lines
  <2> QED
    BY <2>1
<1>2. CASE S # {}
  <2> DEFINE less == OpToRel(<, Nat)
  <2>1. IsWellFoundedOn(less, Nat) /\ S \subseteq Nat
    BY NatLessThanWellFounded, LinesFacts
  <2> HIDE DEF S, less
  <2>2. PICK x \in S : \A y \in S : <<y, x>> \notin less
    BY <1>2, <2>1, WFMin
  <2>3. x \in Lines /\ x \in Nat /\ ~ Node(s, x).valid /\ \A y \in S : ~ (y < x)
    BY <2>1, <2>2 DEF S, less, OpToRel
  <2>4. ASSUME NEW k \in Lines
        PROVE  Node(s, k).valid <=> k <= x - 1
    <3>1. k \in Nat
      BY LinesFacts
    <3>2. CASE k < x
      BY <2>3, <3>1, <3>2 DEF S
    <3>3. CASE k = x
      BY <2>3, <3>3
    <3>4. CASE x < k
      <4>1. ~ Node(s, k).valid
        BY <2>3, <3>4 DEF LruInv, UsedBeforeFree
      <4> QED
        BY <2>3, <3>1, <3>4, <4>1
    <3> QED
      BY <2>3, <3>1, <3>2, <3>3, <3>4
  <2>5. x - 1 \in 0 .. LineCount
    BY <2>3, GeometryAssumption DEF Lines
  <2> QED
    BY <2>4, <2>5 DEF UsesFirst
<1> QED
  BY <1>1, <1>2

\* A set of lines that are the first n ones has n members.
LEMMA FirstLines ==
  ASSUME NEW S, S \subseteq Lines, NEW n \in 0 .. LineCount,
         \A k \in Lines : k \in S <=> k <= n
  PROVE  Cardinality(S) = n /\ 1 .. n \subseteq Lines
<1>1. n \in Nat /\ n <= LineCount /\ LineCount \in Nat
  BY GeometryAssumption
<1>2. S = 1 .. n
  <2>1. 1 .. n \subseteq Lines
    BY <1>1 DEF Lines
  <2>2. \A k \in Lines : k \in 1 .. n <=> k <= n
    BY <1>1 DEF Lines
  <2> QED
    BY <2>1, <2>2
<1> QED
  BY <1>1, <1>2, FS_Interval

\* The refinement mapping in terms of the number of nodes in use.
LEMMA AbstractIs ==
  ASSUME NEW s \in Sets, NEW n
  PROVE  /\ UsesFirst(s, n) => Abstract[s] = [k \in 1 .. n |-> Block(Node(s, k))]
         /\ UsesFirst(s, n)' => Abstract'[s] = [k \in 1 .. n |-> Block(Node(s, k)')]
<1>1. ASSUME UsesFirst(s, n)
      PROVE  Abstract[s] = [k \in 1 .. n |-> Block(Node(s, k))]
  <2>1. Cardinality(Used(s)) = n
    BY <1>1, FirstLines DEF UsesFirst, Used
  <2>2. Abstract[s] = [k \in 1 .. Cardinality(Used(s)) |->
                         [tag |-> Node(s, k).tag, bytes |-> Node(s, k).accessed]]
    BY DEF Abstract
  <2> QED
    BY <2>1, <2>2 DEF Block
<1>2. ASSUME UsesFirst(s, n)'
      PROVE  Abstract'[s] = [k \in 1 .. n |-> Block(Node(s, k)')]
  <2>1. Cardinality(Used(s)') = n
    BY <1>2, FirstLines DEF UsesFirst, Used
  <2>2. Abstract'[s] = [k \in 1 .. Cardinality(Used(s)') |->
                          [tag |-> Node(s, k)'.tag, bytes |-> Node(s, k)'.accessed]]
    BY DEF Abstract
  <2> QED
    BY <2>1, <2>2 DEF Block
<1> QED
  BY <1>1, <1>2

\* What the nodes hold after an access to set s that ends at node k.
LEMMA NodesMoved ==
  ASSUME LruInv, NEW s \in Sets, NEW k \in Lines, ToFront(s, k), NEW content \in Line,
         lines' = [lines EXCEPT ![s][queue[s][k]] = content]
  PROVE  /\ \A j \in Lines : Node(s, j)' = IF j = 1 THEN content
                                           ELSE IF j <= k THEN Node(s, j - 1)
                                           ELSE Node(s, j)
         /\ \A r \in Sets, j \in Lines : r # s => Node(r, j)' = Node(r, j)
<1> DEFINE l == queue[s][k]
<1>1. /\ lines \in [Sets -> [Lines -> Line]] /\ queue \in [Sets -> [Lines -> Lines]]
      /\ l \in Lines
  BY DEF LruInv, TypeOK
<1>2. /\ \A r \in Sets : r # s => lines'[r] = lines[r]
      /\ lines'[s][l] = content
      /\ \A m \in Lines : m # l => lines'[s][m] = lines[s][m]
  BY <1>1
<1>3. /\ \A r \in Sets : r # s => queue'[r] = queue[r]
      /\ queue'[s][1] = l
      /\ \A j \in Lines : 1 < j /\ j <= k =>
           j - 1 \in Lines /\ queue'[s][j] = queue[s][j - 1]
      /\ \A j \in Lines : k < j => queue'[s][j] = queue[s][j]
  BY MovedToFront
<1>4. \A i, j \in Lines : queue[s][i] = queue[s][j] => i = j
  BY DEF LruInv, QueueIsPermutation
<1>5. ASSUME NEW j \in Lines
      PROVE  Node(s, j)' = IF j = 1 THEN content
                           ELSE IF j <= k THEN Node(s, j - 1) ELSE Node(s, j)
  <2>1. CASE j = 1
    BY <1>2, <1>3, <2>1 DEF Node
  <2>2. CASE 1 < j /\ j <= k
    <3>1. j - 1 \in Lines /\ j - 1 # k /\ queue'[s][j] = queue[s][j - 1]
      BY <1>3, <2>2, LinesFacts
    <3>2. queue[s][j - 1] # l /\ queue[s][j - 1] \in Lines
      BY <1>1, <1>4, <3>1
    <3> QED
      BY <1>2, <2>2, <3>1, <3>2 DEF Node
  <2>3. CASE k < j
    <3>1. queue[s][j] # l /\ queue[s][j] \in Lines
      BY <1>1, <1>4, <2>3, LinesFacts
    <3>2. j # 1 /\ ~ (j <= k)
      BY <2>3, LinesFacts DEF Lines
    <3> QED
      BY <1>2, <1>3, <2>3, <3>1, <3>2 DEF Node
  <2> QED
    BY <2>1, <2>2, <2>3, LinesFacts DEF Lines
<1>6. \A r \in Sets, j \in Lines : r # s => Node(r, j)' = Node(r, j)
  BY <1>2, <1>3 DEF Node
<1> QED
  BY <1>5, <1>6

\* An access puts the block it is to in front of those that were before it in
\* the queue; what is behind stays.
LEMMA BlocksMoved ==
  ASSUME LruInv, LruInv', NEW s \in Sets, NEW k \in Lines, ToFront(s, k),
         NEW content \in Line, content.valid,
         lines' = [lines EXCEPT ![s][queue[s][k]] = content],
         NEW n, UsesFirst(s, n), NEW m, m \in 0 .. LineCount,
         (k <= n /\ m = n) \/ (k = n + 1 /\ m = k)
  PROVE  /\ Abstract'[s] = [j \in 1 .. m |-> IF j = 1 THEN Block(content)
                                             ELSE IF j <= k THEN Abstract[s][j - 1]
                                             ELSE Abstract[s][j]]
         /\ \A r \in Sets : r # s => Abstract'[r] = Abstract[r]
<1>1. /\ \A j \in Lines : Node(s, j)' = IF j = 1 THEN content
                                        ELSE IF j <= k THEN Node(s, j - 1)
                                        ELSE Node(s, j)
      /\ \A r \in Sets, j \in Lines : r # s => Node(r, j)' = Node(r, j)
  BY NodesMoved
<1>2. /\ n \in Nat /\ n <= LineCount /\ m \in Nat /\ k \in Nat /\ k >= 1
      /\ LineCount \in Nat /\ k <= LineCount
      /\ \A j \in Lines : j \in Nat /\ j >= 1 /\ j <= LineCount
                          /\ (1 < j => j - 1 \in Lines)
      /\ 1 .. m \subseteq Lines /\ 1 .. n \subseteq Lines
  BY GeometryAssumption DEF UsesFirst, Lines
<1>3. \A j \in Lines : Node(s, j).valid <=> j <= n
  BY DEF UsesFirst
<1>4. UsesFirst(s, m)'
  <2>1. ASSUME NEW j \in Lines PROVE Node(s, j)'.valid <=> j <= m
    <3>1. CASE j = 1
      BY <1>1, <1>2, <3>1
    <3>2. CASE 1 < j /\ j <= k
      <4>1. Node(s, j)' = Node(s, j - 1) /\ j - 1 \in Lines
        BY <1>1, <1>2, <3>2
      <4>2. j - 1 <= n /\ j <= m
        BY <1>2, <3>2
      <4> QED
        BY <1>3, <4>1, <4>2
    <3>3. CASE k < j
      <4>1. Node(s, j)' = Node(s, j)
        BY <1>1, <1>2, <3>3
      <4>2. j <= n <=> j <= m
        BY <1>2, <3>3
      <4> QED
        BY <1>3, <4>1, <4>2
    <3>4. j = 1 \/ (1 < j /\ j <= k) \/ k < j
      BY <1>2
    <3> QED
      BY <3>1, <3>2, <3>3, <3>4, Zenon
  <2> QED
    BY <2>1 DEF UsesFirst
<1>5. Abstract[s] = [j \in 1 .. n |-> Block(Node(s, j))]
  BY AbstractIs
<1>6. Abstract'[s] = [j \in 1 .. m |-> Block(Node(s, j)')]
  BY <1>4, AbstractIs
<1>7. ASSUME NEW j \in 1 .. m
      PROVE  Block(Node(s, j)') = IF j = 1 THEN Block(content)
                                  ELSE IF j <= k THEN Abstract[s][j - 1]
                                  ELSE Abstract[s][j]
  <2>1. CASE j = 1
    BY <1>1, <1>2, <2>1
  <2>2. CASE 1 < j /\ j <= k
    <3>1. Node(s, j)' = Node(s, j - 1) /\ j - 1 \in 1 .. n /\ j # 1
      BY <1>1, <1>2, <2>2
    <3> QED
      BY <1>5, <2>2, <3>1
  <2>3. CASE k < j
    <3>1. Node(s, j)' = Node(s, j) /\ j \in 1 .. n /\ j # 1 /\ ~ (j <= k)
      BY <1>1, <1>2, <2>3
    <3> QED
      BY <1>5, <2>3, <3>1
  <2> QED
    BY <1>2, <2>1, <2>2, <2>3
<1>8. ASSUME NEW r \in Sets, r # s PROVE Abstract'[r] = Abstract[r]
  <2>1. Used(r)' = Used(r)
    BY <1>1, <1>8 DEF Used
  <2>2. PICK x : UsesFirst(r, x)
    BY UsedCount
  <2>3. UsesFirst(r, x)'
    BY <1>1, <1>8, <2>2 DEF UsesFirst
  <2>4. \A j \in 1 .. x : Node(r, j)' = Node(r, j)
    BY <1>1, <1>8, <2>2, GeometryAssumption DEF UsesFirst, Lines
  <2>5. Abstract[r] = [j \in 1 .. x |-> Block(Node(r, j))]
    BY <2>2, AbstractIs
  <2>6. Abstract'[r] = [j \in 1 .. x |-> Block(Node(r, j)')]
    BY <2>3, AbstractIs
  <2> QED
    BY <2>4, <2>5, <2>6
<1> QED
  BY <1>6, <1>7, <1>8

\* The list of blocks as a sequence, and what the walk's end says about it.
LEMMA BlockFacts ==
  ASSUME LruInv, NEW s \in Sets, NEW n, UsesFirst(s, n)
  PROVE  /\ n \in Nat /\ n <= LineCount
         /\ Abstract[s] \in [1 .. n -> Blocks]
         /\ Abstract[s] \in Seq(Blocks) /\ Len(Abstract[s]) = n /\ DOMAIN Abstract[s] = 1 .. n
         /\ \A j \in 1 .. n : j \in Lines /\ Node(s, j).valid /\ Abstract[s][j] = Block(Node(s, j))
<1>1. n \in Nat /\ n <= LineCount /\ \A j \in 1 .. n : j \in Lines /\ j <= n
  BY GeometryAssumption DEF UsesFirst, Lines
<1>2. Abstract[s] = [j \in 1 .. n |-> Block(Node(s, j))]
  BY AbstractIs
<1>3. \A j \in Lines : Node(s, j) \in Line
  BY DEF Node, LruInv, TypeOK
<1>4. \A line \in Line : Block(line) \in Blocks
  BY DEF Line, Block, Blocks
<1>5. Abstract[s] \in [1 .. n -> Blocks]
  BY <1>1, <1>2, <1>3, <1>4
<1>6. Abstract[s] \in Seq(Blocks) /\ Len(Abstract[s]) = n /\ DOMAIN Abstract[s] = 1 .. n
  BY <1>1, <1>5
<1>7. \A j \in 1 .. n : Abstract[s][j] = Block(Node(s, j))
  BY <1>2
<1> QED
  BY <1>1, <1>5, <1>6, <1>7 DEF UsesFirst

\* The first m blocks of set s but the k-th.
Others(s, k, m) ==
  [j \in 1 .. m - 1 |-> IF j < k THEN Abstract[s][j] ELSE Abstract[s][j + 1]]

\* A block in front, the others behind it.
LEMMA Brought ==
  ASSUME LruInv, LruInv', NEW s \in Sets, NEW k \in Lines, ToFront(s, k),
         NEW content \in Line, content.valid,
         lines' = [lines EXCEPT ![s][queue[s][k]] = content],
         NEW n, UsesFirst(s, n), NEW m, m \in 0 .. LineCount,
         (k <= n /\ m = n) \/ (k = n + 1 /\ m = k)
  PROVE  /\ Abstract'[s] = <<Block(content)>> \o Others(s, k, m)
         /\ \A r \in Sets : r # s => Abstract'[r] = Abstract[r]
<1> DEFINE w == Others(s, k, m)
           t == [j \in 1 .. m |-> IF j = 1 THEN Block(content)
                                  ELSE IF j <= k THEN Abstract[s][j - 1]
                                  ELSE Abstract[s][j]]
<1>1. Abstract'[s] = t /\ \A r \in Sets : r # s => Abstract'[r] = Abstract[r]
  BY BlocksMoved
<1>2. n \in Nat /\ n <= LineCount /\ Abstract[s] \in [1 .. n -> Blocks]
  BY BlockFacts
<1>3. k \in Nat /\ k >= 1 /\ m \in Nat /\ m - 1 \in Nat /\ (m - 1) + 1 = m
  BY <1>2, GeometryAssumption DEF Lines
<1>4. Block(content) \in Blocks
  BY DEF Line, Block, Blocks
<1>5. w \in [1 .. m - 1 -> Blocks]
  <2>1. ASSUME NEW j \in 1 .. m - 1
        PROVE  (j < k => j \in 1 .. n) /\ (~ (j < k) => j + 1 \in 1 .. n)
    BY <1>2, <1>3
  <2> QED
    BY <1>2, <2>1 DEF Others
<1>6. t \in [1 .. m -> Blocks]
  <2>1. ASSUME NEW j \in 1 .. m
        PROVE  (j # 1 /\ j <= k => j - 1 \in 1 .. n) /\ (~ (j <= k) => j \in 1 .. n)
    BY <1>2, <1>3
  <2> QED
    BY <1>2, <1>4, <2>1
<1>7. t[1] = Block(content)
  BY <1>3
<1>8. ASSUME NEW j \in 1 .. m - 1 PROVE t[j + 1] = w[j]
  <2>1. j + 1 \in 1 .. m /\ j + 1 # 1 /\ (j + 1) - 1 = j /\ (j < k <=> j + 1 <= k)
    BY <1>3
  <2> QED
    BY <2>1 DEF Others
<1>9. t = <<Block(content)>> \o w
  <2>1. PICK p \in Nat : p = m - 1 /\ m = p + 1
    BY <1>3
  <2>2. PICK u, v, x : u = t /\ v = Block(content) /\ x = w
    OBVIOUS
  <2>3. /\ v \in Blocks /\ x \in [1 .. p -> Blocks] /\ u \in [1 .. p + 1 -> Blocks]
        /\ u[1] = v /\ \A j \in 1 .. p : u[j + 1] = x[j]
    <3> HIDE DEF t, w
    <3> QED
      BY <1>4, <1>5, <1>6, <1>7, <1>8, <2>1, <2>2
  <2>4. u = <<v>> \o x
    BY ONLY <2>1, <2>3, Pushed
  <2> QED
    BY <2>2, <2>4
<1> HIDE DEF t, w
<1> QED
  BY <1>1, <1>9 DEF w

\* The abstract cache is a function on the sets.
LEMMA AbstractDomain ==
  /\ Abstract = [r \in Sets |-> Abstract[r]]
  /\ Abstract' = [r \in Sets |-> Abstract'[r]]
  BY DEF Abstract

LEMMA HitImplements ==
  ASSUME LruInv, LruInv', NEW s \in Sets, NEW t \in Int, NEW b \in Bytes, Hit(s, t, b)
  PROVE  A!Use(s, t, b)
<1>1. PICK k \in Lines : /\ Fetches(s, k, t) /\ IsHit(s, k, t) /\ ToFront(s, k)
                         /\ Touch(s, queue[s][k], b)
  BY DEF Hit
<1>2. PICK n : UsesFirst(s, n)
  BY UsedCount
<1>3. Node(s, k).valid /\ Node(s, k).tag = t /\ k <= n /\ n \in 0 .. LineCount
  BY <1>1, <1>2 DEF IsHit, UsesFirst
<1>4. lines \in [Sets -> [Lines -> Line]] /\ queue[s][k] \in Lines /\ Node(s, k) \in Line
  BY DEF LruInv, TypeOK, Node
<1> DEFINE content == [Node(s, k) EXCEPT !.accessed = @ \cup {b}]
<1>5. /\ content \in Line /\ content.valid
      /\ Block(content) = [tag |-> t, bytes |-> Node(s, k).accessed \cup {b}]
  BY <1>3, <1>4 DEF Line, Block
<1>6. lines' = [lines EXCEPT ![s][queue[s][k]] = content]
  BY <1>1 DEF Touch, Node
<1> HIDE DEF content
<1>7. k \in DOMAIN Abstract[s] /\ Abstract[s][k] = Block(Node(s, k)) /\ Len(Abstract[s]) = n
  <2>1. /\ n \in Nat /\ Len(Abstract[s]) = n /\ DOMAIN Abstract[s] = 1 .. n
        /\ \A j \in 1 .. n : Abstract[s][j] = Block(Node(s, j))
    BY <1>2, BlockFacts
  <2>2. k \in 1 .. n
    BY <1>3, <2>1 DEF Lines
  <2> QED
    BY <2>1, <2>2
<1>8. A!Bring(s, t, Abstract[s][k].bytes \cup {b}, A!Without(s, k))
  <2>1. A!Without(s, k) = Others(s, k, n)
    BY <1>7 DEF A!Without, Others
  <2>2. Abstract' = [Abstract EXCEPT ![s] = <<Block(content)>> \o Others(s, k, n)]
    <3>1. /\ Abstract'[s] = <<Block(content)>> \o Others(s, k, n)
          /\ \A r \in Sets : r # s => Abstract'[r] = Abstract[r]
      BY <1>1, <1>2, <1>3, <1>5, <1>6, Brought
    <3> QED
      BY <3>1, AbstractDomain
  <2>3. Abstract[s][k].bytes = Node(s, k).accessed
    BY <1>7 DEF Block
  <2>4. Block(content) = [tag |-> t, bytes |-> Abstract[s][k].bytes \cup {b}]
    BY <1>5, <2>3
  <2> QED
    BY <2>1, <2>2, <2>4 DEF A!Bring
<1>9. <<hits, cold, conflict>>' = [<<hits, cold, conflict>> EXCEPT ![1] = @ + 1]
  BY DEF Hit
<1>10. Abstract[s][k].tag = t
  BY <1>3, <1>7 DEF Block
<1> QED
  BY <1>7, <1>8, <1>9, <1>10 DEF A!Use

\* A miss: no block has the tag, and the walk ends at the first free node or,
\* with none free, at the last one.
LEMMA MissImplements ==
  ASSUME LruInv, LruInv', NEW s \in Sets, NEW t \in Int, NEW b \in Bytes,
         ColdMiss(s, t, b) \/ ConflictMiss(s, t, b)
  PROVE  A!Use(s, t, b)
<1> DEFINE new == [valid |-> TRUE, tag |-> t, accessed |-> {b}]
<1>1. PICK k \in Lines :
        /\ Fetches(s, k, t) /\ ~ IsHit(s, k, t) /\ ToFront(s, k)
        /\ lines' = [lines EXCEPT ![s][queue[s][k]] = new]
        /\ \/ /\ IsFree(s, k)
              /\ cold' = cold + 1 /\ UNCHANGED <<hits, conflict>>
           \/ /\ ~ IsFree(s, k)
              /\ conflict' = conflict + 1 /\ UNCHANGED <<hits, cold>>
  BY DEF ColdMiss, ConflictMiss, Load, IsHit, IsFree
<1>2. PICK n : UsesFirst(s, n)
  BY UsedCount
<1>3. PICK content \in Line :
        /\ content = new /\ content.valid
        /\ Block(content) = [tag |-> t, bytes |-> {b}]
  <2>1. new \in Line /\ new.valid /\ Block(new) = [tag |-> t, bytes |-> {b}]
    BY DEF Line, Block
  <2> HIDE DEF new
  <2> QED
    BY <2>1
<1> HIDE DEF new
<1>4. /\ n \in Nat /\ n <= LineCount
      /\ Abstract[s] \in [1 .. n -> Blocks] /\ Len(Abstract[s]) = n
      /\ Abstract[s] \in Seq(Blocks) /\ DOMAIN Abstract[s] = 1 .. n
      /\ \A j \in 1 .. n : j \in Lines /\ Node(s, j).valid /\ Abstract[s][j] = Block(Node(s, j))
  BY <1>2, BlockFacts
<1>5. k \in Nat /\ k >= 1 /\ k <= LineCount /\ LineCount \in Nat
  BY GeometryAssumption DEF Lines
\* Node k - 1 was passed, so it is in use; what is behind k is in use only if k is.
<1>6. IsFree(s, k) => k = n + 1
  <2> SUFFICES ASSUME IsFree(s, k) PROVE k = n + 1
    OBVIOUS
  <2>1. ~ (k <= n)
    BY <1>2 DEF UsesFirst, IsFree
  <2>2. ~ (n + 1 < k)
    <3> SUFFICES ASSUME n + 1 < k PROVE FALSE
      OBVIOUS
    <3>1. n + 1 \in Lines /\ n + 1 \in 1 .. k - 1 /\ ~ (n + 1 <= n)
      BY <1>4, <1>5 DEF Lines
    <3>2. ~ Node(s, n + 1).valid
      BY <1>2, <3>1 DEF UsesFirst
    <3> QED
      BY <1>1, <3>1, <3>2 DEF Fetches, Stops, IsFree
  <2> QED
    BY <1>4, <1>5, <2>1, <2>2
<1>7. ~ IsFree(s, k) => k = n /\ n = LineCount
  <2> SUFFICES ASSUME ~ IsFree(s, k) PROVE k = n /\ n = LineCount
    OBVIOUS
  <2>1. k = LineCount
    BY <1>1 DEF Fetches, Stops
  <2>2. k <= n
    BY <1>2 DEF UsesFirst, IsFree
  <2> QED
    BY <1>4, <1>5, <2>1, <2>2
<1>8. ~ A!Holds(s, t)
  <2> SUFFICES ASSUME NEW j \in 1 .. n PROVE Abstract[s][j].tag # t
    BY <1>4 DEF A!Holds
  <2>1. j \in Lines /\ Node(s, j).valid /\ Abstract[s][j].tag = Node(s, j).tag
    <3>1. \A line : Block(line).tag = line.tag
      BY DEF Block
    <3> QED
      BY <1>4, <3>1
  <2>2. CASE j \in 1 .. k - 1
    BY <1>1, <2>1, <2>2 DEF Fetches, Stops, IsHit
  <2>3. CASE j = k
    BY <1>1, <2>1, <2>3 DEF IsHit
  <2> QED
    BY <1>4, <1>5, <1>6, <1>7, <2>2, <2>3
<1>9. k \in Lines /\ ToFront(s, k) /\ lines' = [lines EXCEPT ![s][queue[s][k]] = content]
  BY <1>1, <1>3
<1>10. CASE IsFree(s, k)
  <2>1. k \in 0 .. LineCount /\ k = n + 1
    BY <1>5, <1>6, <1>10
  <2>2. Abstract' = [Abstract EXCEPT ![s] = <<Block(content)>> \o Others(s, k, k)]
    <3>1. (k <= n /\ k = n) \/ (k = n + 1 /\ k = k)
      BY <2>1
    <3>2. /\ Abstract'[s] = <<Block(content)>> \o Others(s, k, k)
          /\ \A r \in Sets : r # s => Abstract'[r] = Abstract[r]
      <4>1. /\ ToFront(s, k) /\ content \in Line /\ content.valid /\ UsesFirst(s, n)
            /\ lines' = [lines EXCEPT ![s][queue[s][k]] = content]
            /\ k \in 0 .. LineCount
        BY <1>2, <1>3, <1>9, <2>1
      <4> QED
        BY ONLY LruInv, LruInv', s \in Sets, k \in Lines, <3>1, <4>1, Brought
    <3> QED
      BY <3>2, AbstractDomain
  <2>3. Others(s, k, k) = Abstract[s]
    <3>1. k - 1 = n /\ \A j \in 1 .. n : j < k
      BY <1>4, <2>1
    <3>2. Abstract[s] = [j \in 1 .. n |-> Abstract[s][j]]
      BY <1>4
    <3> QED
      BY ONLY <3>1, <3>2 DEF Others
  <2>4. A!Bring(s, t, {b}, Abstract[s])
    BY <1>3, <2>2, <2>3 DEF A!Bring
  <2>5. Len(Abstract[s]) < LineCount
    BY <1>4, <1>5, <2>1
  <2>6. <<hits, cold, conflict>>' = [<<hits, cold, conflict>> EXCEPT ![2] = @ + 1]
    BY <1>1, <1>10
  <2> QED
    BY <1>8, <2>4, <2>5, <2>6 DEF A!Use
<1>11. CASE ~ IsFree(s, k)
  <2>1. n \in 0 .. LineCount /\ k = n /\ n = LineCount
    BY <1>4, <1>5, <1>7, <1>11
  <2>2. Abstract' = [Abstract EXCEPT ![s] = <<Block(content)>> \o Others(s, k, n)]
    <3>1. /\ Abstract'[s] = <<Block(content)>> \o Others(s, k, n)
          /\ \A r \in Sets : r # s => Abstract'[r] = Abstract[r]
      <4>1. k <= n /\ n \in 0 .. LineCount
        BY <1>4, <2>1
      <4> QED
        BY <1>2, <1>3, <1>9, <4>1, Brought
    <3> QED
      BY <3>1, AbstractDomain
  <2>3. SubSeq(Abstract[s], 1, LineCount - 1) = Others(s, k, n)
    BY <1>4, <2>1 DEF Others
  <2>4. A!Bring(s, t, {b}, SubSeq(Abstract[s], 1, LineCount - 1))
    BY <1>3, <2>2, <2>3 DEF A!Bring
  <2>5. Len(Abstract[s]) = LineCount
    BY <1>4, <2>1
  <2>6. <<hits, cold, conflict>>' = [<<hits, cold, conflict>> EXCEPT ![3] = @ + 1]
    BY <1>1, <1>11
  <2> QED
    BY <1>8, <2>4, <2>5, <2>6 DEF A!Use
<1> QED
  BY <1>10, <1>11

\* Queues and lines implement least-recently-used replacement: for every
\* geometry and trace each access is the hit or miss it is counted as, and
\* evicts the block used longest ago (lru.c 41-99, cache.c 102-126).
THEOREM LruIsImplemented == Spec => LruImplemented
<1>1. Init => A!AbstractInit
  <2> SUFFICES ASSUME Init PROVE A!AbstractInit
    OBVIOUS
  <2>1. LruInv
    BY InitInv
  <2>2. ASSUME NEW s \in Sets PROVE Abstract[s] = <<>>
    <3>1. \A k \in Lines : ~ Node(s, k).valid
      BY DEF Init, Node
    <3>2. UsesFirst(s, 0)
      BY <3>1, GeometryAssumption DEF UsesFirst, Lines
    <3>3. Abstract[s] = [j \in 1 .. 0 |-> Block(Node(s, j))]
      BY <3>2, AbstractIs
    <3> QED
      BY <3>3
  <2>3. Abstract = [s \in Sets |-> <<>>]
    BY <2>2 DEF Abstract
  <2>4. address \in Addresses /\ hits = 0 /\ cold = 0 /\ conflict = 0
    BY DEF Init
  <2> QED
    BY <2>3, <2>4, GeometryAssumption DEF A!AbstractInit
<1>2. LruInv /\ LruInv' /\ [Next]_vars => [A!AbstractNext]_(A!abstract)
  <2> SUFFICES ASSUME LruInv, LruInv', [Next]_vars
               PROVE  [A!AbstractNext]_(A!abstract)
    OBVIOUS
  <2>1. ASSUME NEW a \in Addresses, Round(a) PROVE A!AbstractNext
    <3> DEFINE s == SetOf[a]  t == TagOf[a]  b == ByteOf[a]
    <3>1. s \in Sets /\ t \in Int /\ t \in {TagOf[c] : c \in Addresses} /\ b \in Bytes
      BY GeometryAssumption
    <3>2. <<SetOf[address], TagOf[address], ByteOf[address]>>' = <<s, t, b>>
      BY <2>1 DEF Round
    <3> HIDE DEF s, t, b
    <3>3. Hit(s, t, b) \/ ColdMiss(s, t, b) \/ ConflictMiss(s, t, b)
      BY <2>1 DEF Round, cache_access, s, t, b
    <3>4. A!Use(s, t, b)
      BY <3>1, <3>3, HitImplements, MissImplements
    <3> QED
      BY <3>1, <3>2, <3>4 DEF A!AbstractNext
  <2>2. CASE Next
    BY <2>1, <2>2 DEF Next, WholeLine, JunkLine, LruInv, TypeOK
  <2>3. CASE UNCHANGED vars
    BY <2>3 DEF vars, counters, A!abstract, Abstract, Used, Node
  <2> QED
    BY <2>2, <2>3
<1> QED
  BY <1>1, <1>2, LruInvariant, PTL DEF Spec, LruImplemented, A!AbstractSpec
==============================================================================
