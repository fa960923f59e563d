----------------------------- MODULE CacheInclusion -----------------------------
(***************************************************************************)
(* Two caches that differ by one line per set replay the same trace.  LRU  *)
(* is a stack algorithm: the larger one never misses where the smaller one *)
(* hits.  Cache is the larger one.                                         *)
(***************************************************************************)
EXTENDS MCCache

\* The smaller one has lines, too.
ASSUME SmallerAssumption == LineCount > 1

VARIABLES lines2, queue2, address_count2, hits2, cold2, conflict2

Small == INSTANCE Cache WITH
  LineCount <- LineCount - 1, lines <- lines2, queue <- queue2,
  address_count <- address_count2, hits <- hits2, cold <- cold2,
  conflict <- conflict2

both == <<vars, lines2, queue2, address_count2, hits2, cold2, conflict2>>

BothInit == Init /\ Small!Init

BothNext ==
  \/ WholeLine /\ Small!WholeLine
  \/ JunkLine /\ Small!JunkLine

BothSpec == BothInit /\ [][BothNext]_both

\* What the smaller cache holds the larger one holds too (lru.c as a whole:
\* the order in the queue must be that of use, not only its first node).
Inclusion ==
  \A s \in Sets : \A l \in Small!Lines : lines2[s][l].valid =>
    \E m \in Lines : /\ lines[s][m].valid
                     /\ lines[s][m].tag = lines2[s][l].tag
                     /\ lines2[s][l].accessed \subseteq lines[s][m].accessed
==============================================================================
