-------------------------------- MODULE Packing --------------------------------
(***************************************************************************)
(* The bytes of the bank simulation: how a command is laid out in a        *)
(* message (command.c), and in the header of a trace file (twriter.c and   *)
(* trace.c).                                                               *)
(***************************************************************************)
EXTENDS Integers, Sequences, Bitwise

CONSTANT ByteBits   \* bits of a byte, 8 in the code: an int has four bytes

Byte     == 2^ByteBits
WordBound == 2^(4 * ByteBits - 1)
WordInts     == -WordBound .. WordBound - 1

Unsigned(n) == n % (2 * WordBound)
Signed(u)   == IF u < WordBound THEN u ELSE u - 2 * WordBound

\* Byte k of four, the most significant first, is shifted by this many bits.
Place(k) == ByteBits * (4 - k)

pack_int(in) == [k \in 1 .. 4 |-> (Unsigned(in) \div 2^Place(k)) % Byte]

\* The bytes ORed into a word that already holds `word`.
OrBytes(word, b) ==
  Signed(Unsigned(word) | (b[1] * 2^Place(1)) | (b[2] * 2^Place(2))
           | (b[3] * 2^Place(3)) | b[4])

unpack_int(b) == OrBytes(0, b)

\* A message: the command byte and four ints.
cmd_pack(c, id, from, to, amt) ==
  <<c>> \o pack_int(id) \o pack_int(from) \o pack_int(to) \o pack_int(amt)

Field(msg, n) == unpack_int(SubSeq(msg, 4 * n - 2, 4 * n + 1))

cmd_unpack(msg) ==
  [cmd |-> msg[1], id |-> Field(msg, 1), from |-> Field(msg, 2),
   to |-> Field(msg, 3), amt |-> Field(msg, 4)]

\* main() of twriter.c: the header of a trace file.
Header(atms, accts) == pack_int(atms) \o pack_int(accts)

-------------------------------------------------------------------------------
\* What cmd_unpack reads is what cmd_pack wrote, whatever ints a message holds,
\* negative ones too: no byte goes astray between the four ints, and none is
\* taken for a sign (command.c 22-53).
MessageSurvives ==
  \A c \in {0, Byte - 1} : \A n \in WordInts :
    LET k == Signed(Unsigned(5 * n)) IN
    cmd_unpack(cmd_pack(c, n, -1 - n, k, 0))
      = [cmd |-> c, id |-> n, from |-> -1 - n, to |-> k, amt |-> 0]

\* The counters of a trace file, zero before the file is opened, come out as
\* twriter.c wrote them (trace.c 18-39, twriter.c 56-71).
CountsSurvive ==
  \A n \in WordInts : LET h == Header(n, -1 - n) IN
    /\ OrBytes(0, SubSeq(h, 1, 4)) = n
    /\ OrBytes(0, SubSeq(h, 5, 8)) = -1 - n
===============================================================================
