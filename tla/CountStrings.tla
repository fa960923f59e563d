------------------------------ MODULE CountStrings ------------------------------
(***************************************************************************)
(* count-strings: main() prepares a table of strings, count_occurrences    *)
(* reads standard input piece by piece and searches each piece for each    *)
(* string (count-strings.c).                                               *)
(***************************************************************************)
EXTENDS Integers, Sequences, SequencesExt, FiniteSetsExt

CONSTANTS
  Letters, Newline,
  Tables,      \* the tables of strings the program is started with
  BufferSize,  \* of the buffer max, 1000 in the code
  CountBits,   \* the width of the counters
  MaxText      \* bound on the length of the input

ASSUME BufferAssumption == BufferSize \in Nat \ {0, 1} /\ CountBits \in Nat

VARIABLES
  text,     \* standard input
  at,       \* characters read
  strings,  \* the table's strings
  count,    \* the table's counts
  max,      \* the buffer, up to its 0
  i,        \* the loop's index, from 1 on; 0 before a piece is read
  found     \* offset of the pointer, OUTSIDE when behind the buffer

OUTSIDE == -1

vars == <<text, at, strings, count, max, i, found>>

Init ==
  /\ text \in BoundedSeq(Letters \cup {Newline}, MaxText) /\ at = 0
  /\ strings \in Tables
  /\ count = [k \in DOMAIN strings |-> 0]
  /\ max = <<>> /\ i = 0 /\ found = 0

\* The last character of the piece fgets reads: a newline, the last one that
\* fits, or the last there is.
PieceEnd ==
  Min({k \in at + 1 .. Len(text) : text[k] = Newline} \cup {at + BufferSize - 1, Len(text)})

fgets ==
  /\ i = 0 /\ at < Len(text)
  /\ max' = SubSeq(text, at + 1, PieceEnd)
  /\ at' = PieceEnd
  /\ i' = 1 /\ found' = 0
  /\ UNCHANGED <<text, strings, count>>

\* Where s stands in t, as offsets.
Occurrences(s, t) == {k \in 0 .. Len(t) - Len(s) : SubSeq(t, k + 1, k + Len(s)) = s}

\* The results of strstr: the empty string is found wherever one looks, and a
\* table that holds it is never searched to the end.
strstr(s) ==
  IF found = OUTSIDE THEN {found}
  ELSE LET hits == {k \in Occurrences(s, max) : k >= found}
       IN IF hits = {} THEN {} ELSE {Min(hits)}

\* Mutant: the search goes on behind the string found.
NextCharBehind(k, s) == k + Len(s)

\* Mutant: the search goes on where it was.
NextCharSame(k, s) == k

\* One character on; the pointer to the final 0 is the last in the buffer.
NextChar(k, s) == IF k = OUTSIDE \/ k = Len(max) THEN OUTSIDE ELSE k + 1

Count ==
  /\ i \in DOMAIN strings
  /\ \E k \in strstr(strings[i]) : found' = NextChar(k, strings[i])
  /\ count' = [count EXCEPT ![i] = (@ + 1) % 2^CountBits]
  /\ UNCHANGED <<text, at, strings, max, i>>

NextString ==
  /\ i \in DOMAIN strings
  /\ strstr(strings[i]) = {}
  /\ i' = (i + 1) % (Len(strings) + 1)
  /\ found' = 0
  /\ UNCHANGED <<text, at, strings, count, max>>

\* fgets returns NULL: the counts are printed.
Printed == i = 0 /\ at = Len(text)

Next == fgets \/ Count \/ NextString \/ (Printed /\ UNCHANGED vars)

\* One thread, which never waits for another.
Spec == Init /\ [][Next]_vars /\ WF_vars(Next)

-------------------------------------------------------------------------------
LineStart(k) == Max({0} \cup {j \in 1 .. k : text[j] = Newline})

\* An occurrence at offset k crosses a cut: its line is cut after every
\* BufferSize - 1 characters.
Cut(k, s) ==
  LET piece(j) == (j - LineStart(k)) \div (BufferSize - 1)
  IN piece(k) # piece(k + Len(s) - 1)

\* The counts printed are those of all occurrences, overlapping ones each
\* ("string aba occurs twice in the input ababa", count-strings.c 40-42), in
\* all lines, but for those across a cut of a line too long for the buffer.
CountsOccurrences ==
  Printed => \A e \in DOMAIN strings :
    count[e] = Cardinality({k \in Occurrences(strings[e], text) : ~ Cut(k, strings[e])})

\* "The function returns once it reaches end-of-file on the input stream"
\* (count-strings.c 42-43).
Returns == <>Printed
================================================================================
