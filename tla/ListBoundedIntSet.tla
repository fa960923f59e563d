--------------------------- MODULE ListBoundedIntSet ---------------------------
(***************************************************************************)
(* The bounded set of non-negative ints (ListBoundedIntSet.java): a chain  *)
(* of nodes allocated once; -1 marks an empty node.                        *)
(***************************************************************************)
EXTENDS Integers, Sequences, FiniteSets

CONSTANTS
  Values,     \* the ints in use
  Capacity,   \* the size given to the constructor
  NULL

ASSUME CapacityAssumption == Capacity \in Nat \ {0} /\ NULL \notin 1 .. Capacity
ASSUME ValuesAssumption == Values \subseteq Nat

Nodes == 1 .. Capacity

VARIABLES
  head,      \* the first node
  next,      \* of a node, by getNext and setNext
  value,     \* of a node
  result     \* of the last call

vars == <<head, next, value, result>>

\* The constructor from an array; with only -1s in it, it is the other one.
Init ==
  /\ head = 1
  /\ next = [n \in Nodes |-> IF n = Capacity THEN NULL ELSE n + 1]
  /\ value \in [Nodes -> Values \cup {-1}]
  /\ \A m, n \in Nodes : m < n => value[n] = -1 \/ value[m] \notin {-1, value[n]}
  /\ result = [op |-> "new", value |-> 0, got |-> 0]

\* The chain from head; it is cut where it would go round.
chain[k \in 1 .. Capacity + 1] ==
  IF k = 1 THEN head
  ELSE IF chain[k - 1] = NULL THEN NULL ELSE next[chain[k - 1]]

At(k) == value[chain[k]]

\* The positions a search may stop at: the value, an empty node, the end.
Holds(k, v) == chain[k] # NULL /\ At(k) = v
Ends(k)     == chain[k] # NULL => At(k) < 0
StopsAt(k, v) == (Holds(k, v) \/ Ends(k)) /\ \A j \in 1 .. k - 1 : ~ Holds(j, v) /\ ~ Ends(j)

Return(op, v, got) == result' = [op |-> op, value |-> v, got |-> got]

\* Mutant: the node before is not linked around the node pulled.
PullWithoutUnchaining(k) ==
  \/ /\ k = 1
     /\ UNCHANGED <<head, next>>
  \/ /\ k > 1
     /\ next' = [next EXCEPT ![chain[k]] = head]
     /\ head' = chain[k]

\* The first node stays; the others are unchained and put before the head.
pullToHead(k) ==
  \/ /\ k = 1
     /\ UNCHANGED <<head, next>>
  \/ /\ k > 1
     /\ next' = [next EXCEPT ![chain[k - 1]] = next[chain[k]], ![chain[k]] = head]
     /\ head' = chain[k]

contains(v) == \E k \in DOMAIN chain :
  /\ StopsAt(k, v)
  /\ \/ /\ ~ Ends(k)
        /\ pullToHead(k)
        /\ Return("contains", v, TRUE)
     \/ /\ Ends(k)
        /\ Return("contains", v, FALSE)
        /\ UNCHANGED <<head, next>>
  /\ UNCHANGED value

\* From the node found on, every node takes the value of its successor, up
\* to the first one without a successor or with an empty one.
ShiftsUpTo(k, m) ==
  /\ m \in k .. Capacity /\ chain[m] # NULL /\ Ends(m + 1)
  /\ \A j \in k .. m - 1 : ~ Ends(j + 1)

\* Mutant: the last node keeps the value it has handed on.
ShiftedTooShort(k, m) ==
  [n \in Nodes |-> IF n \in {chain[j] : j \in k .. m - 1} THEN value[next[n]] ELSE value[n]]

Shifted(k, m) ==
  [n \in Nodes |->
     IF n \in {chain[j] : j \in k .. m}
     THEN IF next[n] = NULL THEN -1 ELSE value[next[n]]
     ELSE value[n]]

remove(v) ==
  /\ \E k \in DOMAIN chain :
       /\ StopsAt(k, v)
       /\ \/ /\ ~ Ends(k)
             /\ \E m \in k .. Capacity :
                  /\ ShiftsUpTo(k, m)
                  /\ value' = Shifted(k, m)
                  /\ Return("remove", v, TRUE)
          \/ /\ Ends(k)
             /\ Return("remove", v, FALSE)
             /\ UNCHANGED value
  /\ UNCHANGED <<head, next>>

\* add stops at the value, an empty node or the last node.
IsLast(k) == next[chain[k]] = NULL
AddStopsAt(k, v) ==
  /\ chain[k] # NULL
  /\ Holds(k, v) \/ At(k) = -1 \/ IsLast(k)
  /\ \A j \in 1 .. k - 1 : ~ Holds(j, v) /\ At(j) # -1 /\ ~ IsLast(j)

add(v) == \E k \in Nodes :
  /\ AddStopsAt(k, v)
  /\ pullToHead(k)
  /\ \/ /\ Holds(k, v)
        /\ Return("add", v, 0)
        /\ UNCHANGED value
     \/ /\ At(k) = -1
        /\ value' = [value EXCEPT ![chain[k]] = v]
        /\ Return("add", v, 1)
     \/ /\ ~ Holds(k, v) /\ At(k) # -1
        /\ value' = [value EXCEPT ![chain[k]] = v]
        /\ Return("add", v, 2)

size == \E k \in DOMAIN chain :
  /\ Ends(k) /\ \A j \in 1 .. k - 1 : ~ Ends(j)
  /\ Return("size", 0, k - 1)
  /\ UNCHANGED <<head, next, value>>

capacity == \E k \in DOMAIN chain :
  /\ chain[k] = NULL /\ \A j \in 1 .. k - 1 : chain[j] # NULL
  /\ Return("capacity", 0, k - 1)
  /\ UNCHANGED <<head, next, value>>

Next == size \/ capacity \/ \E v \in Values : contains(v) \/ remove(v) \/ add(v)

Spec == Init /\ [][Next]_vars
-------------------------------------------------------------------------------
\* "All ListNode objects are allocated when a set is created, and simply move
\* around in the list thereafter": none is lost, none is reached twice, and
\* the empty ones are at the end (ListBoundedIntSet.java 2-6, 160-161).
NodesMoveAround ==
  /\ {chain[k] : k \in Nodes} = Nodes
  /\ chain[Capacity + 1] = NULL
  /\ \A j, k \in Nodes : j < k =>
       At(k) = -1 \/ At(j) \notin {-1, At(k)}

\* The values of the nodes that are not empty, which come first.
Filled == Cardinality({k \in Nodes : At(k) >= 0})
Listed == [k \in 1 .. Filled |-> At(k)]

R == INSTANCE RecentInts WITH recent <- Listed, answer <- result

\* The chain implements the set of recent ints: the order is that of use, a
\* full set discards the value used longest ago, and every call tells what
\* happened.
RecentImplemented == R!RecentSpec
================================================================================
