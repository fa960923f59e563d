-------------------------------- MODULE Huffman --------------------------------
(***************************************************************************)
(* Building a Huffman tree from a file (huffman.c, pqueue.c, tree_new).    *)
(* A node is its id, the place it has in the sequence of nodes; 0 is NULL. *)
(***************************************************************************)
EXTENDS Integers, Sequences, FiniteSets, SequencesExt, Sums

CONSTANTS
  NUMBER_OF_CHARS,   \* 256 in the code
  MAXSIZE,           \* room in the priority queue, 256 in the code
  Inputs             \* the files considered

Chars == 0 .. NUMBER_OF_CHARS - 1

\* Byte 255 is -1 as a char, and -1 is EOF (huffman.c 76-77).
CharEOF == NUMBER_OF_CHARS - 1

NULL == 0

ASSUME SizesAssumption ==
  /\ NUMBER_OF_CHARS \in Nat \ {0}
  /\ MAXSIZE \in Nat
  /\ MAXSIZE >= NUMBER_OF_CHARS
ASSUME InputsAssumption == Inputs \subseteq Seq(Chars)

VARIABLES
  input,   \* the characters of the file
  phase,   \* "count", "nodes", "build" or "built"
  at,      \* characters read in "count", the table's index in "nodes"
  table,   \* frequencies
  nodes,   \* the tree nodes, in the order of their ids
  queue,   \* the ids in the priority queue
  root     \* what huffman_build_tree returns

huffVars == <<input, phase, at, table, nodes, queue, root>>

HuffInit ==
  /\ input \in Inputs
  /\ phase = "count" /\ at = 0
  /\ table = [c \in Chars |-> 0]
  /\ nodes = <<>> /\ queue = <<>> /\ root = NULL

-------------------------------------------------------------------------------
Sorted(q, forest) ==
  \A i, j \in DOMAIN q : i < j => forest[q[i]].v <= forest[q[j]].v

\* Mutant: the queue is not sorted again.
SortingsNone(q, forest) == {q}

\* qsort leaves nodes of equal frequency in any order.
Sortings(q, forest) ==
  {s \in [DOMAIN q -> ToSet(q)] : ToSet(s) = ToSet(q) /\ Sorted(s, forest)}

pqueue_enqueue(q, n, forest) ==
  IF Len(q) >= MAXSIZE THEN {q} ELSE Sortings(Append(q, n), forest)

-------------------------------------------------------------------------------
\* Mutant: the result of fgetc is kept as an int.
MoreInputAsInt == at < Len(input)

\* Mutant: the last character is read and not counted.
MoreInputButLast == at + 1 < Len(input) /\ input[at + 1] # CharEOF

MoreInput == at < Len(input) /\ input[at + 1] # CharEOF

CountChar ==
  /\ phase = "count" /\ MoreInput
  /\ table' = [table EXCEPT ![input[at + 1]] = @ + 1]
  /\ at' = at + 1
  /\ UNCHANGED <<input, phase, nodes, queue, root>>

InputEnds ==
  /\ phase = "count" /\ ~ MoreInput
  /\ phase' = "nodes"
  /\ at' = 0
  /\ UNCHANGED <<input, table, nodes, queue, root>>

\* Mutant: the index moves only with a leaf.
create_tree_nodes_stuck ==
  /\ phase = "nodes" /\ at \in Chars
  /\ IF table[at] > 0
     THEN /\ nodes' = Append(nodes, [type |-> "LEAF", c |-> at, v |-> table[at],
                                     left |-> NULL, right |-> NULL])
          /\ queue' \in pqueue_enqueue(queue, Len(nodes'), nodes')
          /\ at' = at + 1
     ELSE UNCHANGED <<nodes, queue, at>>
  /\ UNCHANGED <<input, phase, table, root>>

\* One character of the table: a leaf, if the file has it.
create_tree_nodes ==
  /\ phase = "nodes" /\ at \in Chars
  /\ IF table[at] > 0
     THEN /\ nodes' = Append(nodes, [type |-> "LEAF", c |-> at, v |-> table[at],
                                     left |-> NULL, right |-> NULL])
          /\ queue' \in pqueue_enqueue(queue, Len(nodes'), nodes')
     ELSE UNCHANGED <<nodes, queue>>
  /\ at' = at + 1
  /\ UNCHANGED <<input, phase, table, root>>

NodesDone ==
  /\ phase = "nodes" /\ at \notin Chars
  /\ phase' = "build"
  /\ UNCHANGED <<input, at, table, nodes, queue, root>>

\* Mutant: the second node is looked at and stays in the queue.
TakenOne(q) == Tail(q)

\* The queue without the two nodes build_tree dequeues.
TakenTwo(q) == Tail(Tail(q))

Internal(L, R) ==
  [type |-> "INTERNAL", c |-> 0, v |-> nodes[L].v + nodes[R].v, left |-> L, right |-> R]

build_tree ==
  /\ phase = "build" /\ Len(queue) > 1
  /\ nodes' = Append(nodes, Internal(queue[1], queue[2]))
  /\ queue' \in pqueue_enqueue(TakenTwo(queue), Len(nodes'), nodes')
  /\ UNCHANGED <<input, phase, at, table, root>>

\* The last dequeue returns NULL if the file had no character.
BuildDone ==
  /\ phase = "build" /\ Len(queue) <= 1
  /\ phase' = "built"
  /\ root' = IF queue = <<>> THEN NULL ELSE queue[1]
  /\ queue' = <<>>
  /\ UNCHANGED <<input, at, table, nodes>>

HuffNext ==
  CountChar \/ InputEnds \/ create_tree_nodes \/ NodesDone \/ build_tree \/ BuildDone

HuffSpec == HuffInit /\ [][HuffNext]_huffVars

-------------------------------------------------------------------------------
LeavesOf(forest) == {n \in DOMAIN forest : forest[n].type = "LEAF"}

\* The frequency of a set of nodes.
Weight(S, forest) ==
  SumTo([n \in DOMAIN forest |-> IF n \in S THEN forest[n].v ELSE 0], Len(forest))

\* The nodes of the tree of n: itself and those of its children.
Below(n, forest) ==
  LET below[m \in 0 .. Len(forest)] ==
        IF m = NULL THEN {}
        ELSE {m} \cup below[forest[m].left] \cup below[forest[m].right]
  IN below[n]

Roots == ToSet(queue) \cup ({root} \ {NULL})

\* The trees in the queue share no node, together they have every node there
\* is, and the frequency of each is that of its leaves, whatever ties the sort
\* breaks: nothing is lost when nodes move through the queue, and tree_free
\* frees no node twice (huffman.c 137-165, tree.c 51-59).
ForestOfAllNodes ==
  /\ UNION {Below(n, nodes) : n \in Roots} = DOMAIN nodes
  /\ \A m, n \in Roots : m # n => Below(m, nodes) \cap Below(n, nodes) = {}
  /\ \A n \in Roots : nodes[n].v = Weight(Below(n, nodes) \cap LeavesOf(nodes), nodes)
  /\ \A n \in DOMAIN nodes : nodes[n].left # NULL =>
       Below(nodes[n].left, nodes) \cap Below(nodes[n].right, nodes) = {}

\* The array of the queue has a free entry at any time: pqueue_enqueue drops
\* no node, and the entry pqueue_dequeue reads behind the last one is inside
\* the array (pqueue.c 94-142).
QueueHasRoom == Len(queue) < MAXSIZE

\* The bits of the file coded with the tree: each leaf costs its frequency on
\* every internal node above it.
TreeCost == Weight({n \in Below(root, nodes) : nodes[n].type = "INTERNAL"}, nodes)

\* What it costs to divide the leaves T among two trees, f the cost of each.
Splits(f, T) ==
  LET one == CHOOSE n \in T : TRUE
      rest == T \ {one}
  IN {f[A \cup {one}] + f[rest \ A] : A \in (SUBSET rest) \ {rest}}

\* The least number of bits any binary tree over the leaves S needs.
LeastCost(S) ==
  LET least[T \in SUBSET S] ==
        IF Cardinality(T) <= 1 THEN 0 ELSE Weight(T, nodes) + Min(Splits(least, T))
  IN least[S]

\* The tree built codes the counted characters in as few bits as any tree, in
\* whatever order qsort puts equal frequencies (huffman.c 24-26).
OptimalTree == phase = "built" /\ root # NULL => TreeCost = LeastCost(LeavesOf(nodes))
===============================================================================
