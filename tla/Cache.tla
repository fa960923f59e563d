---------------------------------- MODULE Cache ----------------------------------
(***************************************************************************)
(* The cache simulator: the cache and its lines (cache.c), the LRU queue of *)
(* each set (lru.c) and the CPU that replays an address trace and counts    *)
(* (cpu.c).  How an address is cut into set, tag and byte is a parameter    *)
(* here; module Bits has the code's.                                        *)
(***************************************************************************)
EXTENDS Integers, FiniteSets, Sequences

CONSTANTS
  Addresses,    \* the addresses a trace may hold
  Sets, Bytes,  \* the indices of sets and of bytes in a block
  LineCount,    \* lines per set
  SetOf, TagOf, ByteOf,  \* get_set, get_line and get_byte as functions
  Garbage,      \* what accessed bytes malloc may return: some subsets of Bytes
  MaxAccesses   \* bound on the length of the trace

ASSUME GeometryAssumption ==
  /\ LineCount \in Nat \ {0}
  /\ SetOf \in [Addresses -> Sets]
  /\ TagOf \in [Addresses -> Int]
  /\ ByteOf \in [Addresses -> Bytes]
ASSUME GarbageAssumption == Garbage \subseteq SUBSET Bytes
ASSUME TraceAssumption == MaxAccesses \in Nat

Lines == 1 .. LineCount
Line  == [valid : BOOLEAN, tag : Int, accessed : SUBSET Bytes]

VARIABLES
  lines,     \* lines[s][l]: line l of set s; accessed as the set of its 1 bytes
  queue,     \* queue[s][k]: the line the k-th node of the LRU queue points to
  address,   \* the address field of the trace_line buffer in run_cpu
  address_count, hits, cold, conflict

counters == <<address_count, hits, cold, conflict>>
vars == <<lines, queue, address, counters>>

\* make_block leaves the accessed bytes as malloc returns them, and run_cpu
\* its buffer as the stack holds it.
Init ==
  /\ \E g \in [Sets -> [Lines -> Garbage]] :
       lines = [s \in Sets |-> [l \in Lines |->
                  [valid |-> FALSE, tag |-> 0, accessed |-> g[s][l]]]]
  /\ queue = [s \in Sets |-> [k \in Lines |-> k]]
  /\ address \in Addresses
  /\ address_count = 0 /\ hits = 0 /\ cold = 0 /\ conflict = 0

\* The line in the k-th node of the queue of set s.
Node(s, k) == lines[s][queue[s][k]]

IsHit(s, k, t) == Node(s, k).valid /\ Node(s, k).tag = t
IsFree(s, k)   == ~ Node(s, k).valid

\* lru_fetch walks the queue up to the first node that holds the tag, is
\* free, or has no successor.
Stops(s, k, t) == IsHit(s, k, t) \/ IsFree(s, k) \/ k = LineCount

Fetches(s, k, t) == Stops(s, k, t) /\ \A j \in 1 .. k - 1 : ~ Stops(s, j, t)

\* Mutants: the line numbers are shifted instead of the nodes, one node too
\* few is shifted, and the node goes to the wrong end.
ToFrontNumbers(s, k) ==
  queue' = [queue EXCEPT ![s] =
              [j \in Lines |-> IF j = 1 THEN queue[s][k]
                               ELSE IF j <= k THEN queue[s][j] - 1
                               ELSE queue[s][j]]]
ToFrontShort(s, k) ==
  queue' = [queue EXCEPT ![s] =
              [j \in Lines |-> IF j = 1 THEN queue[s][k]
                               ELSE IF j < k THEN queue[s][j - 1]
                               ELSE queue[s][j]]]
ToBack(s, k) ==
  queue' = [queue EXCEPT ![s] =
              [j \in Lines |-> IF j = LineCount THEN queue[s][k]
                               ELSE IF j >= k THEN queue[s][j + 1]
                               ELSE queue[s][j]]]

\* ... and moves that node to the front.
ToFront(s, k) ==
  queue' = [queue EXCEPT ![s] =
              [j \in Lines |-> IF j = 1 THEN queue[s][k]
                               ELSE IF j <= k THEN queue[s][j - 1]
                               ELSE queue[s][j]]]

\* A miss takes the line over for the tag and clears its accessed bytes;
\* any access sets its own byte.
\* Mutant: the accessed bytes of the block that goes out stay.
LoadKeepingBytes(s, l, t, b) ==
  lines' = [lines EXCEPT ![s][l] =
              [valid |-> TRUE, tag |-> t, accessed |-> @.accessed \cup {b}]]

Load(s, l, t, b) ==
  lines' = [lines EXCEPT ![s][l] = [valid |-> TRUE, tag |-> t, accessed |-> {b}]]

Touch(s, l, b) ==
  lines' = [lines EXCEPT ![s][l].accessed = @ \cup {b}]

\* Mutant: a hit leaves the queue as it is, which makes it first in, first out.
HitInPlace(s, t, b) ==
  /\ \E k \in Lines :
       /\ Fetches(s, k, t)
       /\ IsHit(s, k, t)
       /\ Touch(s, queue[s][k], b)
  /\ hits' = hits + 1
  /\ UNCHANGED <<queue, cold, conflict>>

Hit(s, t, b) ==
  /\ \E k \in Lines :
       /\ Fetches(s, k, t)
       /\ IsHit(s, k, t)
       /\ ToFront(s, k)
       /\ Touch(s, queue[s][k], b)
  /\ hits' = hits + 1
  /\ UNCHANGED <<cold, conflict>>

ColdMiss(s, t, b) ==
  /\ \E k \in Lines :
       /\ Fetches(s, k, t)
       /\ IsFree(s, k)
       /\ ToFront(s, k)
       /\ Load(s, queue[s][k], t, b)
  /\ cold' = cold + 1
  /\ UNCHANGED <<hits, conflict>>

ConflictMiss(s, t, b) ==
  /\ \E k \in Lines :
       /\ Fetches(s, k, t)
       /\ ~ IsHit(s, k, t) /\ ~ IsFree(s, k)
       /\ ToFront(s, k)
       /\ Load(s, queue[s][k], t, b)
  /\ conflict' = conflict + 1
  /\ UNCHANGED <<hits, cold>>

cache_access(a) ==
  LET s == SetOf[a]  t == TagOf[a]  b == ByteOf[a]
  IN Hit(s, t, b) \/ ColdMiss(s, t, b) \/ ConflictMiss(s, t, b)

\* One round of run_cpu.  A line that fscanf converts only in part is not
\* EOF: it counts as an access to the address read before.
Round(a) ==
  /\ address_count < MaxAccesses
  /\ address' = a
  /\ address_count' = address_count + 1
  /\ cache_access(a)

WholeLine == \E a \in Addresses : Round(a)
JunkLine  == Round(address)

Next == WholeLine \/ JunkLine

Spec == Init /\ [][Next]_vars

-------------------------------------------------------------------------------
\* Whatever the trace, queue entries stay line numbers of their set.
TypeOK ==
  /\ lines \in [Sets -> [Lines -> Line]]
  /\ queue \in [Sets -> [Lines -> Lines]]
  /\ address \in Addresses
  /\ address_count \in Nat /\ hits \in Nat /\ cold \in Nat /\ conflict \in Nat

\* However its nodes were chained, the queue of a set still holds every line
\* of the set exactly once (lru.c 90-94).
QueueIsPermutation ==
  \A s \in Sets :
    /\ \A j, k \in Lines : queue[s][j] = queue[s][k] => j = k
    /\ \A l \in Lines : \E k \in Lines : queue[s][k] = l

\* The free lines stay behind the used ones, so a walk that stops at a free
\* line has not passed over a line holding the tag further back (lru.c 53-75).
UsedBeforeFree ==
  \A s \in Sets : \A k \in Lines, j \in Lines :
    j < k /\ Node(s, k).valid => Node(s, j).valid

\* No tag is held by two lines of a set.
NoDuplicateTag ==
  \A s \in Sets : \A l, m \in Lines :
    lines[s][l].valid /\ lines[s][m].valid /\ lines[s][l].tag = lines[s][m].tag
      => l = m

LruInv == TypeOK /\ QueueIsPermutation /\ UsedBeforeFree /\ NoDuplicateTag

-------------------------------------------------------------------------------
\* The lines of a set in use, in queue order, as blocks of the abstract cache.
Used(s) == {k \in Lines : Node(s, k).valid}

Abstract ==
  [s \in Sets |-> [k \in 1 .. Cardinality(Used(s)) |->
     [tag |-> Node(s, k).tag, bytes |-> Node(s, k).accessed]]]

A == INSTANCE LruCache WITH
       Tags <- {TagOf[a] : a \in Addresses}, Capacity <- LineCount,
       recency <- Abstract,
       asked <- <<SetOf[address], TagOf[address], ByteOf[address]>>,
       tally <- <<hits, cold, conflict>>

\* The queues and lines implement least-recently-used replacement, with every
\* access counted as what it is, and the accessed bytes of a block are
\* those used since it was loaded, never what malloc left there.
LruImplemented == A!AbstractSpec
==============================================================================
