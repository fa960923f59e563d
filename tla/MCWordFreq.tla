------------------------------ MODULE MCWordFreq ------------------------------
(***************************************************************************)
(* The clients of a word set: both programs on every short input, and a    *)
(* client that calls anything in any order.                                *)
(***************************************************************************)
EXTENDS WordFreq, TLC

CONSTANTS
  ClientWords,   \* the words of the third client
  ClientFreq     \* bound on their frequency

MCWords == Spelled
MCClientWords == UNION {[1 .. n -> Letters] : n \in 1 .. 3}

ClientInit == Init /\ program = "client" /\ input = <<>> /\ at = 1

ClientNext ==
  /\ program = "client" /\ result.op # "free"
  /\ \E w \in ClientWords : Use(w)
  /\ \A n \in Nodes : freq'[n] <= ClientFreq
  /\ UNCHANGED mainVars

MCInit == MainInit \/ ClientInit
MCNext == MainNext \/ ClientNext
MCSpec == MCInit /\ [][MCNext]_<<vars, mainVars>>

\* Which node malloc returns makes no difference.
Symmetry == Permutations(Nodes)
===============================================================================
