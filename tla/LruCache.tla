-------------------------------- MODULE LruCache --------------------------------
(***************************************************************************)
(* What a set-associative cache with least-recently-used replacement is:   *)
(* each set remembers its last Capacity distinct tags in order of use, and *)
(* for each of them the bytes used since it was loaded.                    *)
(***************************************************************************)
EXTENDS Integers, Sequences

CONSTANTS Sets, Tags, Bytes, Capacity

VARIABLES
  recency,   \* recency[s]: the blocks held, the most recently used first
  asked,     \* the last access: a set, a tag and a byte
  tally      \* how many hits, cold misses and conflict misses

abstract == <<recency, asked, tally>>

AbstractInit ==
  /\ recency = [s \in Sets |-> <<>>]
  /\ asked \in Sets \X Tags \X Bytes
  /\ tally = <<0, 0, 0>>

Holds(s, t) == \E k \in DOMAIN recency[s] : recency[s][k].tag = t

\* The blocks of s but the k-th, in their order.
Without(s, k) ==
  [j \in 1 .. Len(recency[s]) - 1 |->
     IF j < k THEN recency[s][j] ELSE recency[s][j + 1]]

Bring(s, t, bytes, rest) ==
  recency' = [recency EXCEPT ![s] = <<[tag |-> t, bytes |-> bytes]>> \o rest]

Use(s, t, b) ==
  \/ \E k \in DOMAIN recency[s] :
       /\ recency[s][k].tag = t
       /\ Bring(s, t, recency[s][k].bytes \cup {b}, Without(s, k))
       /\ tally' = [tally EXCEPT ![1] = @ + 1]
  \/ /\ ~ Holds(s, t) /\ Len(recency[s]) < Capacity
     /\ Bring(s, t, {b}, recency[s])
     /\ tally' = [tally EXCEPT ![2] = @ + 1]
  \/ /\ ~ Holds(s, t) /\ Len(recency[s]) = Capacity
     /\ Bring(s, t, {b}, SubSeq(recency[s], 1, Capacity - 1))
     /\ tally' = [tally EXCEPT ![3] = @ + 1]

AbstractNext ==
  \E s \in Sets, t \in Tags, b \in Bytes : Use(s, t, b) /\ asked' = <<s, t, b>>

AbstractSpec == AbstractInit /\ [][AbstractNext]_abstract
==============================================================================
