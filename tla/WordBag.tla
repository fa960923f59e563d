-------------------------------- MODULE WordBag --------------------------------
(***************************************************************************)
(* What a word set promises (the comments of wset.c): a frequency per      *)
(* word.  Every operation is atomic and tells its result.                  *)
(***************************************************************************)
EXTENDS Integers

CONSTANT Words

VARIABLES
  count,    \* count[w]: how often w was added since it was last removed
  answer    \* of the last operation: [op, word, value], or "none"

bag == <<count, answer>>

BagInit ==
  /\ count = [w \in Words |-> 0]
  /\ answer = [op |-> "new"]

Tell(op, w, value) == answer' = [op |-> op, word |-> w, value |-> value]

Add(w) ==
  /\ count' = [count EXCEPT ![w] = @ + 1]
  /\ Tell("add", w, count[w] + 1)

Remove(w) ==
  /\ count' = [count EXCEPT ![w] = 0]
  /\ Tell("remove", w, IF count[w] = 0 THEN -1 ELSE count[w])

Look(w) ==
  /\ UNCHANGED count
  /\ \/ Tell("exists", w, IF count[w] > 0 THEN 1 ELSE 0)
     \/ Tell("freq", w, count[w])

\* The end of the bag.
Free == UNCHANGED count /\ answer' = [op |-> "free"]

BagNext == Free \/ \E w \in Words : Add(w) \/ Remove(w) \/ Look(w)

BagSpec == BagInit /\ [][BagNext]_bag
===============================================================================
