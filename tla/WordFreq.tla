-------------------------------- MODULE WordFreq --------------------------------
(***************************************************************************)
(* The programs wordfreq and wordfreq-fast: words_next_word (words.c) cuts *)
(* standard input into words, main() adds each to a word set.              *)
(***************************************************************************)
EXTENDS WordSet, FiniteSetsExt

CONSTANTS
  Letters,    \* the characters isalnum accepts
  Blank,      \* any other character
  MaxInput    \* bound on the length of the input; a word fits the buffer

\* What a word of the input can be.
Spelled == UNION {[1 .. n -> Letters] : n \in 1 .. MaxInput}

ASSUME InputAssumption ==
  /\ Blank \notin Letters /\ MaxInput \in Nat
  /\ Spelled \subseteq Words

VARIABLES
  program,   \* "wordfreq" or "wordfreq-fast"
  input,     \* what standard input holds
  at         \* the next character getchar returns

Programs == {"wordfreq", "wordfreq-fast"}

mainVars == <<program, input, at>>

MainInit ==
  /\ Init
  /\ program \in Programs
  /\ input \in UNION {[1 .. n -> Letters \cup {Blank}] : n \in 0 .. MaxInput}
  /\ at = 1

IsLetter(k) == k <= Len(input) /\ input[k] \in Letters
IsEof(k)    == k > Len(input)

\* The leading characters that belong to no word are skipped ...
WordStart == Min({k \in at .. Len(input) + 1 : IsLetter(k) \/ IsEof(k)})

\* Mutant: a word ends with the input's last character but one.
WordEndShort ==
  Min({k \in WordStart .. Len(input) : ~ IsLetter(k)} \cup {Max({WordStart, Len(input)})})

\* ... and the character that ends the word is read.
WordEnd == Min({k \in WordStart .. Len(input) + 1 : ~ IsLetter(k)})

NextWord == SubSeq(input, WordStart, WordEnd - 1)

CountWord ==
  /\ result.op # "free"
  /\ ~ IsEof(WordStart)
  /\ IF program = "wordfreq" THEN wset_add(NextWord) ELSE wset_fast_add(NextWord)
  /\ at' = Min({WordEnd + 1, Len(input) + 1})
  /\ UNCHANGED <<program, input>>

\* words_next_word returns NULL: main() prints and frees the set.
Finish ==
  /\ IsEof(WordStart)
  /\ wset_free
  /\ at' = WordStart
  /\ UNCHANGED <<program, input>>

Exited == result.op = "free" /\ UNCHANGED <<vars, mainVars>>

MainNext == CountWord \/ Finish \/ Exited

MainSpec == MainInit /\ [][MainNext]_<<vars, mainVars>>
-------------------------------------------------------------------------------
\* w stands in the input at k as a whole word.
OccursAt(w, k) ==
  /\ k + Len(w) - 1 <= Len(input)
  /\ SubSeq(input, k, k + Len(w) - 1) = w
  /\ k = 1 \/ ~ IsLetter(k - 1)
  /\ ~ IsLetter(k + Len(w))

Running == program \in Programs /\ result.op # "free"

\* At any time the set holds the frequencies of the words read so far, each
\* occurrence counted once, the first and the last of the input included
\* (words.c 46-67, wordfreq.c 20-25).
CountsOccurrences ==
  Running =>
    \A w \in Spelled :
      Frequency[w] = Cardinality({k \in 1 .. at - 1 : k <= Len(input) /\ OccursAt(w, k)})

FirstUse(w) == Min({k \in 1 .. Len(input) : OccursAt(w, k)})
LastUse(w)  == Max({k \in 1 .. at - 1 : k <= Len(input) /\ OccursAt(w, k)})

\* Both programs print the same frequencies; wordfreq lists the words in the
\* order of their first use, wordfreq-fast the word used last first
\* (wset.c 146-152, 186-195).
ListedInOrderOfUse ==
  Running =>
    \A j, k \in DOMAIN List : j < k =>
      IF program = "wordfreq"
      THEN FirstUse(List[j]) < FirstUse(List[k])
      ELSE LastUse(List[j]) > LastUse(List[k])
===============================================================================
