--------------------------------- MODULE BitsIO ---------------------------------
(***************************************************************************)
(* Files of bits (bits-io.c).  A byte in a file is ones, a zero and then   *)
(* the bits written; the byte being read is the bits left, a one and then  *)
(* zeros.  stdio accepts bytes before they are on the disk.                *)
(***************************************************************************)
EXTENDS Integers, Sequences, SequencesExt

CONSTANTS
  ByteBits,   \* bits of a byte, 8 in the code
  HashByte,   \* the full byte that is a '#', 35 in the code
  IoFaults    \* what may fail: a subset of {"fopen", "fprintf", "fputc", "flush"}

\* What a 1 in each place of a byte counts, and one place above it.
Pow2[n \in 0 .. ByteBits] == IF n = 0 THEN 1 ELSE 2 * Pow2[n - 1]

ASSUME ByteAssumption ==
  ByteBits \in Nat \ {0, 1} /\ HashByte \in 0 .. Pow2[ByteBits - 1] - 1
ASSUME IoFaultsAssumption == IoFaults \subseteq {"fopen", "fprintf", "fputc", "flush"}

\* The '#' around the records of the tree.
HASH == 0

Modulus == Pow2[ByteBits]
TopBit  == Pow2[ByteBits - 1]
Bytes   == 0 .. Modulus - 1

NO_BITS_WRITTEN == Modulus - 2
ALL_BITS_READ   == TopBit
EOF_VALUE       == Modulus - 1
EOF             == -1

VARIABLES
  mode,    \* "none", "w", "r", or "failed": closing ended before fclose
  byte,    \* the byte buffer
  count,   \* bytes read or written
  stdio,   \* bytes fputc has accepted and not flushed
  text,    \* the tree in the file: HASH, its records, HASH
  disk,    \* the bytes of the file, behind the tree
  offset,  \* bytes fgetc has returned
  ret,     \* what the last call returned
  lost     \* history: bytes accepted did not get on the disk

bitsVars == <<mode, byte, count, stdio, text, disk, offset, ret, lost>>

BitsInit ==
  /\ mode = "none" /\ byte = 0 /\ count = 0
  /\ stdio = <<>> /\ text = <<>> /\ disk = <<>> /\ offset = 0 /\ ret = 0
  /\ lost = FALSE

\* NULL, and no mode, if fopen fails.
bits_io_open(m) ==
  /\ mode = "none"
  /\ \/ "fopen" \in IoFaults /\ UNCHANGED bitsVars
     \/ /\ mode' = m
        /\ count' = 0
        /\ offset' = 0
        /\ byte' = IF m = "w" THEN NO_BITS_WRITTEN ELSE ALL_BITS_READ
        /\ IF m = "w" THEN text' = <<>> /\ disk' = <<>> ELSE UNCHANGED <<text, disk>>
        /\ UNCHANGED <<stdio, ret, lost>>

\* The result of tree_serialize is dropped.
bits_io_write_tree(serialized) ==
  /\ mode = "w"
  /\ text' = serialized
  /\ UNCHANGED <<mode, byte, count, stdio, disk, offset, ret, lost>>

Shift(b, bit) == (2 * b + bit) % Modulus

\* Mutant: the byte goes out one bit before it is full.
bits_io_write_bit_early(bit) ==
  LET new == Shift(byte, bit) IN
  /\ mode = "w"
  /\ IF new % 2 = 1 THEN byte' = new /\ UNCHANGED <<stdio, count>>
     ELSE stdio' = Append(stdio, new) /\ byte' = NO_BITS_WRITTEN /\ count' = count + 1
  /\ ret' = bit
  /\ UNCHANGED <<mode, text, disk, offset, lost>>

\* A byte whose top bit is 0 is full and goes to the file.
bits_io_write_bit(bit) ==
  LET new == Shift(byte, bit) IN
  /\ mode = "w"
  /\ \/ /\ new >= TopBit
        /\ byte' = new
        /\ ret' = bit
        /\ UNCHANGED <<stdio, count>>
     \/ /\ new < TopBit
        /\ stdio' = Append(stdio, new)
        /\ byte' = NO_BITS_WRITTEN
        /\ count' = count + 1
        /\ ret' = bit
     \/ /\ new < TopBit /\ "fputc" \in IoFaults
        /\ byte' = EOF_VALUE
        /\ count' = count + 1
        /\ ret' = EOF
        /\ UNCHANGED stdio
  /\ UNCHANGED <<mode, text, disk, offset, lost>>

Shortened(seq) == {SubSeq(seq, 1, n) : n \in 0 .. Len(seq) - 1}

\* fflush and fclose: what stdio accepted gets on the disk, or only the first of
\* it; nobody looks at what the two return.  Nobody has looked either at what
\* fprintf returned: the end of the tree may be missing in front of the bytes,
\* and only here, where the file gets its contents, is that decided.
Flushed(bytes) ==
  /\ \/ text' = text /\ disk' = disk \o bytes /\ UNCHANGED lost
     \/ /\ "fprintf" \in IoFaults /\ mode = "w"
        /\ text' \in Shortened(text) /\ disk' = disk \o bytes /\ UNCHANGED lost
     \/ /\ "flush" \in IoFaults /\ mode = "w"
        /\ \/ text' = text /\ disk' \in Shortened(bytes)
           \/ text' \in Shortened(text) /\ disk' = <<>>
        /\ lost' = TRUE
  /\ stdio' = <<>>
  /\ mode' = "none"
  /\ ret' = 0

PartialByte == mode = "w" /\ byte # NO_BITS_WRITTEN

\* Mutant: the last byte is written only when it is full.
bits_io_close_without_last ==
  /\ mode \in {"w", "r"}
  /\ Flushed(stdio)
  /\ UNCHANGED <<byte, count, offset>>

bits_io_close ==
  /\ mode \in {"w", "r"}
  /\ \/ /\ PartialByte
        /\ Flushed(Append(stdio, byte))
        /\ count' = count + 1
     \/ /\ PartialByte /\ "fputc" \in IoFaults
        /\ mode' = "failed"
        /\ count' = count + 1
        /\ ret' = EOF
        /\ UNCHANGED <<stdio, text, disk, lost>>
     \/ /\ ~ PartialByte
        /\ Flushed(stdio)
        /\ UNCHANGED count
  /\ UNCHANGED <<byte, offset>>

LeadingOnes(b) ==
  CHOOSE k \in 0 .. ByteBits - 1 : b \div Pow2[ByteBits - 1 - k] = Pow2[k + 1] - 2

\* The ones and the zero are shifted out; the first shift brings in a 1, all
\* others a 0.
Aligned(b) == (b * Pow2[LeadingOnes(b) + 1] + Pow2[LeadingOnes(b)]) % Modulus

TakeBit(b) == ret' = b \div TopBit /\ byte' = Shift(b, 0)

bits_io_read_bit ==
  /\ mode = "r"
  /\ IF byte = ALL_BITS_READ /\ offset < Len(disk)
     THEN LET c == disk[offset + 1] IN
       /\ offset' = offset + 1
       /\ IF c = EOF_VALUE THEN ret' = EOF /\ UNCHANGED <<byte, count>>
          ELSE TakeBit(Aligned(c)) /\ count' = count + 1
     ELSE
       /\ IF byte \in {ALL_BITS_READ, EOF_VALUE} THEN ret' = EOF /\ UNCHANGED byte
          ELSE TakeBit(byte)
       /\ UNCHANGED <<offset, count>>
  /\ UNCHANGED <<mode, stdio, text, disk, lost>>

-------------------------------------------------------------------------------
\* What a byte of the file means: the bits to the right of the first 0.
BitsIn(b) ==
  LET n == ByteBits - 1 - LeadingOnes(b)
  IN [j \in 1 .. n |-> (b \div Pow2[n - j]) % 2]

BitsOf(bytes) == FlattenSeq([k \in DOMAIN bytes |-> BitsIn(bytes[k])])
===============================================================================
