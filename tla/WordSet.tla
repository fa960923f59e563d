-------------------------------- MODULE WordSet --------------------------------
(***************************************************************************)
(* The set of words of the word frequency programs (wset.c): a chain of    *)
(* nodes on the heap.  search returns the address of the cell that points  *)
(* to a node, which is the set's head field or the next field of a node;   *)
(* every operation is one call, as the programs have one thread.           *)
(***************************************************************************)
EXTENDS Integers, FiniteSets, Sequences

CONSTANTS
  Words,
  Nodes,    \* the nodes malloc may return
  NULL, HEAD, \* the null pointer, and the cell that is the head field
  MaxFreq   \* bound on the frequency of a word

ASSUME PointersAssumption ==
  /\ IsFiniteSet(Nodes)
  /\ NULL \notin Nodes /\ HEAD \notin Nodes /\ NULL # HEAD
ASSUME BoundAssumption == MaxFreq \in Nat

VARIABLES
  live,             \* the nodes allocated
  cells,            \* what a cell points to, cells[HEAD] being the head field
  word, freq,       \* of a node
  size,             \* the size field
  result            \* of the last call

heap == <<live, cells, word, freq>>
vars == <<heap, size, result>>

Cells    == Nodes \cup {HEAD}
Pointers == Nodes \cup {NULL}

\* wset_new.  A node not allocated holds what it held before; at first that
\* is fixed here, as nothing reads it.
Init ==
  /\ live = {}
  /\ cells = [c \in Cells |-> NULL]
  /\ word = [n \in Nodes |-> CHOOSE w \in Words : TRUE]
  /\ freq = [n \in Nodes |-> 0]
  /\ size = 0
  /\ result = [op |-> "new"]

\* The chain from the head field, as a sequence of cells: the k-th is the
\* one before the k-th node.  A chain without end is cut.
chain[k \in 1 .. Cardinality(Nodes) + 1] ==
  IF k = 1 THEN HEAD
  ELSE IF chain[k - 1] = NULL THEN NULL ELSE cells[chain[k - 1]]

InChain(c) == c # NULL /\ \E k \in DOMAIN chain : chain[k] = c

\* search stops at the first cell whose node holds w, or at the last cell.
StopsAt(c, w) == cells[c] = NULL \/ word[cells[c]] = w

search(w) ==
  LET k == CHOOSE j \in DOMAIN chain :
             /\ StopsAt(chain[j], w)
             /\ \A i \in 1 .. j - 1 : ~ StopsAt(chain[i], w)
  IN chain[k]

Found(w) == cells[search(w)] # NULL

Return(op, w, value) == result' = [op |-> op, word |-> w, value |-> value]

\* node_new, linked in as "links" says, with the frequency 1 it then gets.
NewNode(n, w, links) ==
  /\ n \in Nodes \ live
  /\ live' = live \cup {n}
  /\ word' = [word EXCEPT ![n] = w]
  /\ freq' = [freq EXCEPT ![n] = 1]
  /\ cells' = links
  /\ size' = size + 1

LinkLast(n, w)  == NewNode(n, w, [cells EXCEPT ![n] = NULL, ![search(w)] = n])
LinkFirst(n, w) == NewNode(n, w, [cells EXCEPT ![n] = cells[HEAD], ![HEAD] = n])

\* Mutant: the count starts over.
Restart(n) ==
  /\ freq[n] < MaxFreq
  /\ freq' = [freq EXCEPT ![n] = 1]
  /\ UNCHANGED <<live, word, size>>

Increment(n) ==
  /\ freq[n] < MaxFreq
  /\ freq' = [freq EXCEPT ![n] = @ + 1]
  /\ UNCHANGED <<live, word, size>>

wset_add(w) ==
  \/ /\ ~ Found(w)
     /\ \E n \in Nodes : LinkLast(n, w)
     /\ Return("add", w, 1)
  \/ /\ Found(w)
     /\ LET n == cells[search(w)] IN Increment(n) /\ Return("add", w, freq[n] + 1)
     /\ UNCHANGED cells

\* The cell found is made to bypass the node before the head field is read;
\* when that cell is the head field itself, the node goes back where it was.
Bypass(c) == [cells EXCEPT ![c] = cells[cells[c]]]

\* Mutant: the head field is read before the node is bypassed.
MoveToFrontStale(c) ==
  LET n == cells[c] IN [Bypass(c) EXCEPT ![n] = cells[HEAD], ![HEAD] = n]

MoveToFront(c) ==
  LET n == cells[c]  links == Bypass(c) IN [links EXCEPT ![n] = links[HEAD], ![HEAD] = n]

wset_fast_add(w) ==
  \/ /\ ~ Found(w)
     /\ \E n \in Nodes : LinkFirst(n, w)
     /\ Return("add", w, 1)
  \/ /\ Found(w)
     /\ LET c == search(w)  n == cells[c] IN
          Increment(n) /\ cells' = MoveToFront(c) /\ Return("add", w, freq[n] + 1)

\* Mutant: the node removed and every node before it are lost.
RemoveUpTo(w) ==
  LET c == search(w)  n == cells[c] IN
  /\ cells' = [cells EXCEPT ![HEAD] = cells[n]]
  /\ live' = live \ {n}
  /\ size' = size - 1
  /\ Return("remove", w, freq[n])
  /\ UNCHANGED <<word, freq>>

\* The node is freed: what it holds stays until malloc returns it again.
RemoveFound(w) ==
  LET c == search(w)  n == cells[c] IN
  /\ cells' = Bypass(c)
  /\ live' = live \ {n}
  /\ size' = size - 1
  /\ Return("remove", w, freq[n])
  /\ UNCHANGED <<word, freq>>

wset_remove(w) ==
  \/ /\ size # 0 /\ Found(w)
     /\ RemoveFound(w)
  \/ /\ size = 0 \/ ~ Found(w)
     /\ Return("remove", w, -1)
     /\ UNCHANGED <<heap, size>>

wset_exists(w) ==
  /\ Return("exists", w, IF Found(w) THEN 1 ELSE 0)
  /\ UNCHANGED <<heap, size>>

wset_freq(w) ==
  /\ Return("freq", w, IF Found(w) THEN freq[cells[search(w)]] ELSE 0)
  /\ UNCHANGED <<heap, size>>

Use(w) ==
  \/ wset_add(w) \/ wset_fast_add(w) \/ wset_remove(w)
  \/ wset_exists(w) \/ wset_freq(w)

\* wset_free frees the node the head field points to and the set; the nodes
\* behind the first stay allocated.
wset_free ==
  /\ result.op # "free"
  /\ live' = live \ {cells[HEAD]}
  /\ result' = [op |-> "free"]
  /\ UNCHANGED <<cells, word, freq, size>>

Next == wset_free \/ (result.op # "free" /\ \E w \in Words : Use(w))

Spec == Init /\ [][Next]_vars
-------------------------------------------------------------------------------
\* The nodes of the list, in order.
Listed == [k \in {j \in 1 .. Cardinality(Nodes) : chain[j + 1] # NULL} |-> chain[k + 1]]
List == [k \in DOMAIN Listed |-> word[Listed[k]]]

\* However the operations follow each other, the chain ends, holds no word
\* twice and is all there is: the size field counts it, no node allocated is
\* lost and no node freed is still linked (wset.c 153-343).
ListIsTheSet == result.op # "free" =>
  /\ \E k \in DOMAIN chain : chain[k] # NULL /\ cells[chain[k]] = NULL
  /\ \A j, k \in DOMAIN List : List[j] = List[k] => j = k
  /\ {Listed[k] : k \in DOMAIN Listed} = live
  /\ size = Len(Listed)

\* The pairs of words in the list of which the second is not before the first.
Order == LET l == List IN
  {<<l[e[1]], l[e[2]]>> : e \in {i \in (DOMAIN l) \X (DOMAIN l) : i[1] <= i[2]}}

Without(w, pairs) == {e \in pairs : e[1] # w /\ e[2] # w}

\* An operation on one word neither loses, adds nor moves another: what stands
\* in the list, and in which order, is as before
\* (the relinking in wset_fast_add and wset_remove, wset.c 235-241, 325-326).
OthersKeepOrder ==
  [][result'.op # "free" =>
       Without(result'.word, Order') = Without(result'.word, Order)]_vars

Frequency == [w \in Words |-> IF Found(w) THEN freq[cells[search(w)]] ELSE 0]

Bag == INSTANCE WordBag WITH count <- Frequency, answer <- result

\* The chain implements the word bag: the results of all operations are
\* those of a frequency table, whichever of wset_add and wset_fast_add
\* built it.
BagImplemented == Bag!BagSpec
===============================================================================
