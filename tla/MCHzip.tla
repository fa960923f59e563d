--------------------------------- MODULE MCHzip ---------------------------------
(***************************************************************************)
(* All short files over the characters, and longer ones with uneven        *)
(* frequencies, in which equal characters stand together.                  *)
(***************************************************************************)
EXTENDS Hzip

CONSTANTS
  MaxInput,   \* bound on the length of the short files
  MaxFreq     \* bound on the frequency of a character in the others

Run(c, n) == [i \in 1 .. n |-> c]

\* NUMBER_OF_CHARS is 5: four ordinary characters, then byte 255 or not.
RunsOfChars ==
  {Run(0, f[0]) \o Run(1, f[1]) \o Run(2, f[2]) \o Run(3, f[3]) \o Run(CharEOF, n) :
     f \in [0 .. 3 -> 0 .. MaxFreq], n \in 0 .. 1}

Files == BoundedSeq(Chars, MaxInput) \cup RunsOfChars
===============================================================================
