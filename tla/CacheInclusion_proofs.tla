------------------------- MODULE CacheInclusion_proofs -------------------------
(***************************************************************************)
(* The larger of two caches holds what the smaller one does, for any       *)
(* number of sets and lines, any cut of an address and any trace.          *)
(***************************************************************************)
EXTENDS CacheInclusion, Cache_proofs

\* The lemmas about a cache, for the smaller one.
S == INSTANCE Cache_proofs WITH
  LineCount <- LineCount - 1, lines <- lines2, queue <- queue2,
  address_count <- address_count2, hits <- hits2, cold <- cold2,
  conflict <- conflict2

\* Node for node, the smaller queue is the beginning of the larger one: the same
\* tags in the same order.  A block that only the larger cache has kept may have
\* more of its bytes used.
SameOrder ==
  \A s \in Sets, k \in S!Lines :
    /\ S!Node(s, k).valid <=> Node(s, k).valid
    /\ S!Node(s, k).valid => /\ S!Node(s, k).tag = Node(s, k).tag
                             /\ S!Node(s, k).accessed \subseteq Node(s, k).accessed

StackInv == LruInv /\ S!LruInv /\ SameOrder

\* The smaller cache is a cache.
LEMMA SmallerGeometry ==
  /\ LineCount - 1 \in Nat \ {0}
  /\ SetOf \in [Addresses -> Sets] /\ TagOf \in [Addresses -> Int]
  /\ ByteOf \in [Addresses -> Bytes]
  BY GeometryAssumption, SmallerAssumption

LEMMA LineFacts ==
  /\ LineCount \in Nat /\ LineCount > 1
  /\ \A k \in Lines : k \in Nat /\ k >= 1 /\ k <= LineCount
                      /\ (k # LineCount => k \in S!Lines)
                      /\ (k # 1 => k - 1 \in Lines)
  /\ \A k \in S!Lines : /\ k \in Nat /\ k >= 1 /\ k <= LineCount - 1
                        /\ k \in Lines /\ k # LineCount
                        /\ (k # 1 => k - 1 \in S!Lines)
  /\ LineCount - 1 \in S!Lines
  BY GeometryAssumption, SmallerAssumption DEF Lines, S!Lines

\* Both walks end at the same node, or the larger one has passed all nodes of the
\* smaller and ends at its last.
LEMMA SameWalk ==
  ASSUME SameOrder, NEW s \in Sets, NEW t \in Int,
         NEW k \in Lines, Fetches(s, k, t),
         NEW j \in S!Lines, S!Fetches(s, j, t)
  PROVE  \/ j = k /\ (S!IsHit(s, j, t) <=> IsHit(s, k, t))
         \/ j = LineCount - 1 /\ k = LineCount /\ ~ S!IsHit(s, j, t)
<1>1. \A i \in S!Lines : /\ S!IsHit(s, i, t) <=> IsHit(s, i, t)
                         /\ S!IsFree(s, i) <=> IsFree(s, i)
  BY DEF SameOrder, S!IsHit, IsHit, S!IsFree, IsFree
<1>2. /\ \A i \in 1 .. k - 1 : ~ IsHit(s, i, t) /\ ~ IsFree(s, i)
      /\ IsHit(s, k, t) \/ IsFree(s, k) \/ k = LineCount
  BY DEF Fetches, Stops
<1>3. /\ \A i \in 1 .. j - 1 : /\ ~ S!IsHit(s, i, t) /\ ~ S!IsFree(s, i)
                               /\ i # LineCount - 1
      /\ S!IsHit(s, j, t) \/ S!IsFree(s, j) \/ j = LineCount - 1
  BY DEF S!Fetches, S!Stops
<1>4. CASE j < k
  <2>1. j \in 1 .. k - 1
    BY <1>4, LineFacts
  <2>2. j = LineCount - 1 /\ ~ S!IsHit(s, j, t)
    BY <1>1, <1>2, <1>3, <2>1
  <2>3. k = LineCount
    BY <1>4, <2>2, LineFacts
  <2> QED
    BY <2>2, <2>3
<1>5. CASE k < j
  <2>1. k \in 1 .. j - 1 /\ k # LineCount /\ k \in S!Lines
    BY <1>5, LineFacts
  <2> QED
    BY <1>1, <1>2, <1>3, <2>1
<1>6. CASE j = k
  BY <1>1, <1>6
<1>7. j < k \/ k < j \/ j = k
  BY LineFacts
<1> QED
  BY <1>4, <1>5, <1>6, <1>7

\* An access of both caches to a set keeps the order the same.
LEMMA AccessKeepsOrder ==
  ASSUME StackInv, NEW s \in Sets, NEW t \in Int, NEW b \in Bytes,
         Hit(s, t, b) \/ ColdMiss(s, t, b) \/ ConflictMiss(s, t, b),
         S!Hit(s, t, b) \/ S!ColdMiss(s, t, b) \/ S!ConflictMiss(s, t, b)
  PROVE  SameOrder'
<1>1. LruInv /\ S!LruInv /\ SameOrder
  BY DEF StackInv
<1>2. PICK k \in Lines, c \in Line : EndsAt(s, t, b, k, c)
  BY <1>1, AccessEffect
<1>3. PICK j \in S!Lines, d \in S!Line : S!EndsAt(s, t, b, j, d)
  BY <1>1, S!AccessEffect, SmallerGeometry, GarbageAssumption, TraceAssumption
<1>4. /\ \A i \in Lines : Node(s, i)' = IF i = 1 THEN c
                                        ELSE IF i <= k THEN Node(s, i - 1)
                                        ELSE Node(s, i)
      /\ \A r \in Sets, i \in Lines : r # s => Node(r, i)' = Node(r, i)
  BY <1>1, <1>2, NodesMoved DEF EndsAt
<1>5. /\ \A i \in S!Lines : S!Node(s, i)' = IF i = 1 THEN d
                                            ELSE IF i <= j THEN S!Node(s, i - 1)
                                            ELSE S!Node(s, i)
      /\ \A r \in Sets, i \in S!Lines : r # s => S!Node(r, i)' = S!Node(r, i)
  BY <1>1, <1>3, S!NodesMoved, SmallerGeometry, GarbageAssumption, TraceAssumption DEF S!EndsAt
<1>6. \/ j = k /\ (S!IsHit(s, j, t) <=> IsHit(s, k, t))
      \/ j = LineCount - 1 /\ k = LineCount /\ ~ S!IsHit(s, j, t)
  BY <1>1, <1>2, <1>3, SameWalk DEF EndsAt, S!EndsAt
<1>7. d.accessed \subseteq c.accessed
  <2>1. CASE S!IsHit(s, j, t)
    <3>1. j = k /\ IsHit(s, k, t)
      BY <1>6, <2>1
    <3>2. S!Node(s, j).accessed \subseteq Node(s, k).accessed
      BY <1>1, <2>1, <3>1 DEF SameOrder, S!IsHit
    <3> QED
      BY <1>2, <1>3, <2>1, <3>1, <3>2 DEF EndsAt, S!EndsAt
  <2>2. CASE ~ S!IsHit(s, j, t)
    BY <1>2, <1>3, <2>2 DEF EndsAt, S!EndsAt
  <2> QED
    BY <2>1, <2>2
<1>8. ASSUME NEW i \in S!Lines
      PROVE  /\ S!Node(s, i)'.valid <=> Node(s, i)'.valid
             /\ S!Node(s, i)'.valid => /\ S!Node(s, i)'.tag = Node(s, i)'.tag
                                       /\ S!Node(s, i)'.accessed \subseteq Node(s, i)'.accessed
  <2>1. CASE i = 1
    <3>1. S!Node(s, i)' = d /\ Node(s, i)' = c
      BY <1>4, <1>5, <2>1, LineFacts
    <3> QED
      BY <1>2, <1>3, <1>7, <3>1 DEF EndsAt, S!EndsAt
  <2>2. CASE i # 1 /\ i <= j
    <3>1. S!Node(s, i)' = S!Node(s, i - 1) /\ Node(s, i)' = Node(s, i - 1) /\ i - 1 \in S!Lines
      BY <1>4, <1>5, <1>6, <2>2, LineFacts
    <3> QED
      BY <1>1, <3>1 DEF SameOrder
  <2>3. CASE i # 1 /\ ~ (i <= j)
    <3>1. S!Node(s, i)' = S!Node(s, i) /\ Node(s, i)' = Node(s, i)
      BY <1>4, <1>5, <1>6, <2>3, LineFacts
    <3> QED
      BY <1>1, <3>1 DEF SameOrder
  <2> QED
    BY <2>1, <2>2, <2>3
<1>9. ASSUME NEW r \in Sets, r # s, NEW i \in S!Lines
      PROVE  S!Node(r, i)' = S!Node(r, i) /\ Node(r, i)' = Node(r, i)
  BY <1>4, <1>5, <1>9, LineFacts
<1> QED
  BY <1>1, <1>8, <1>9 DEF SameOrder

-------------------------------------------------------------------------------
\* The definitions of the smaller cache are those the lemmas are about.
LEMMA SmallerSteps ==
  /\ Small!Init => S!Init
  /\ \A a \in Addresses : Small!Round(a) = S!Round(a)
<1>1. Small!Init => S!Init
  BY DEF Small!Init, S!Init, Small!Lines, S!Lines
<1>2. ASSUME NEW a \in Addresses PROVE Small!Round(a) = S!Round(a)
  BY DEF Small!Round, S!Round, Small!cache_access, S!cache_access,
         Small!Hit, S!Hit, Small!ColdMiss, S!ColdMiss, Small!ConflictMiss, S!ConflictMiss,
         Small!Fetches, S!Fetches, Small!Stops, S!Stops, Small!IsHit, S!IsHit,
         Small!IsFree, S!IsFree, Small!Node, S!Node, Small!Lines, S!Lines,
         Small!ToFront, S!ToFront, Small!Load, S!Load, Small!Touch, S!Touch
<1> QED
  BY <1>1, <1>2

LEMMA InitStack == BothInit => StackInv
<1> SUFFICES ASSUME BothInit PROVE StackInv
  OBVIOUS
<1>1. Init /\ S!Init
  BY SmallerSteps DEF BothInit
<1>2. LruInv /\ S!LruInv
  BY <1>1, InitInv, S!InitInv, SmallerGeometry, GarbageAssumption, TraceAssumption
<1>3. \A s \in Sets, k \in Lines : ~ Node(s, k).valid
  BY <1>1 DEF Init, Node
<1>4. \A s \in Sets, k \in S!Lines : ~ S!Node(s, k).valid
  BY <1>1 DEF S!Init, S!Node
<1> QED
  BY <1>2, <1>3, <1>4, LineFacts DEF StackInv, SameOrder

\* Both caches see the same access.
LEMMA StepStack ==
  ASSUME StackInv, [BothNext]_both
  PROVE  StackInv'
<1>1. LruInv /\ S!LruInv /\ SameOrder
  BY DEF StackInv
<1>2. CASE BothNext
  <2>1. PICK a \in Addresses : Round(a) /\ S!Round(a)
    <3>1. \A a, c \in Addresses : Round(a) /\ Small!Round(c) => a = c
      BY DEF Round, Small!Round
    <3>2. address \in Addresses
      BY <1>1 DEF LruInv, TypeOK
    <3> QED
      BY <1>2, <3>1, <3>2, SmallerSteps
         DEF BothNext, WholeLine, JunkLine, Small!WholeLine, Small!JunkLine
  <2>2. Next /\ S!Next
    BY <2>1 DEF Next, WholeLine, S!Next, S!WholeLine
  <2>3. LruInv' /\ S!LruInv'
    BY <1>1, <2>2, NextInv, S!NextInv, SmallerGeometry, GarbageAssumption, TraceAssumption
  <2> DEFINE s == SetOf[a]  t == TagOf[a]  b == ByteOf[a]
  <2>4. s \in Sets /\ t \in Int /\ b \in Bytes
    BY GeometryAssumption
  <2>5. /\ Hit(s, t, b) \/ ColdMiss(s, t, b) \/ ConflictMiss(s, t, b)
        /\ S!Hit(s, t, b) \/ S!ColdMiss(s, t, b) \/ S!ConflictMiss(s, t, b)
    BY <2>1 DEF Round, cache_access, S!Round, S!cache_access
  <2> HIDE DEF s, t, b
  <2>6. SameOrder'
    BY <2>4, <2>5, AccessKeepsOrder
  <2> QED
    BY <2>3, <2>6 DEF StackInv
<1>3. CASE UNCHANGED both
  <2>1. UNCHANGED vars /\ UNCHANGED S!vars
    BY <1>3 DEF both, vars, counters, S!vars, S!counters
  <2>2. LruInv' /\ S!LruInv'
    BY <1>1, <2>1, NextInv, S!NextInv, SmallerGeometry, GarbageAssumption, TraceAssumption
  <2>3. SameOrder'
    BY <1>1, <1>3 DEF both, vars, SameOrder, Node, S!Node
  <2> QED
    BY <2>2, <2>3 DEF StackInv
<1> QED
  BY <1>2, <1>3

-------------------------------------------------------------------------------
\* What the smaller cache holds the larger one holds, with at least the bytes
\* used: a larger cache never misses where a smaller one hits (lru.c 41-99).
THEOREM InclusionHolds == BothSpec => []Inclusion
<1>1. StackInv => Inclusion
  <2> SUFFICES ASSUME StackInv, NEW s \in Sets, NEW l \in Small!Lines, lines2[s][l].valid
               PROVE  \E m \in Lines : /\ lines[s][m].valid
                                       /\ lines[s][m].tag = lines2[s][l].tag
                                       /\ lines2[s][l].accessed \subseteq lines[s][m].accessed
    BY DEF Inclusion
  <2>1. l \in S!Lines
    BY DEF Small!Lines, S!Lines
  <2>2. PICK k \in S!Lines : queue2[s][k] = l
    BY <2>1 DEF StackInv, S!LruInv, S!QueueIsPermutation
  <2>3. S!Node(s, k) = lines2[s][l] /\ Node(s, k) = lines[s][queue[s][k]]
    BY <2>2 DEF S!Node, Node
  <2>4. queue[s][k] \in Lines
    BY LineFacts DEF StackInv, LruInv, TypeOK
  <2> QED
    BY <2>3, <2>4 DEF StackInv, SameOrder
<1> QED
  BY <1>1, InitStack, StepStack, PTL DEF BothSpec
================================================================================
