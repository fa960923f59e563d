---------------------------------- MODULE Hzip ----------------------------------
(***************************************************************************)
(* huffc and then huffd on the file it wrote (huffc.c, huffd.c, encoder.c, *)
(* decoder.c, table.c, the tree's text in tree.c).  Huffman builds the     *)
(* tree, BitsIO has the file of bits; one bit, one record of the text or   *)
(* one call is a step.                                                     *)
(***************************************************************************)
EXTENDS Huffman, BitsIO

VARIABLES
  prog,     \* what runs: "build", "tree", "huffc", "huffd", "read", "decode", "free",
            \* and the ends "done", "reported", "crashed" and "endless"
  read,     \* characters the encoder has read, pieces of text the decoder has
  code,     \* bits of the current character still to be written
  tree,     \* the decoder's nodes
  chain,    \* the decoder's list of nodes, as ids from head on
  p,        \* decode_one's node
  output    \* the characters decoded

hzipVars == <<prog, read, code, tree, chain, p, output>>
vars == <<huffVars, bitsVars, hzipVars>>

Init ==
  /\ HuffInit /\ BitsInit
  /\ prog = "build" /\ read = 0 /\ code = <<>>
  /\ tree = <<>> /\ chain = <<>> /\ p = NULL /\ output = <<>>

Build == prog = "build" /\ HuffNext /\ UNCHANGED <<bitsVars, hzipVars>>

-------------------------------------------------------------------------------
\* The leaves below a node with the path to each: 1 is left, 0 is right.
Paths(n) ==
  LET paths[m \in DOMAIN nodes] ==
        IF nodes[m].type = "LEAF" THEN {<<nodes[m].c, <<>> >>}
        ELSE {<<x[1], <<1>> \o x[2]>> : x \in paths[nodes[m].left]}
             \cup {<<x[1], <<0>> \o x[2]>> : x \in paths[nodes[m].right]}
  IN paths[n]

\* The characters with a bit array, and the bits.
Coded == {x[1] : x \in Paths(root)}
table_bit_encode(c) == (CHOOSE x \in Paths(root) : x[1] = c)[2]

\* Children come before their parent.
tree_serialize_rec(n) ==
  LET ids[m \in DOMAIN nodes] ==
        IF nodes[m].type = "LEAF" THEN <<m>>
        ELSE ids[nodes[m].left] \o ids[nodes[m].right] \o <<m>>
  IN ids[n]

tree_serialize(n) == <<HASH>> \o tree_serialize_rec(n) \o <<HASH>>

encoder_new ==
  /\ prog = "build" /\ phase = "built"
  /\ IF root = NULL THEN prog' = "reported" /\ UNCHANGED bitsVars
     ELSE /\ bits_io_open("w")
          /\ prog' = IF mode' = "w" THEN "tree" ELSE "reported"
  /\ UNCHANGED <<huffVars, read, code, tree, chain, p, output>>

\* encoder_encode first writes the tree.
EncodeTree ==
  /\ prog = "tree"
  /\ bits_io_write_tree(tree_serialize(root))
  /\ prog' = "huffc"
  /\ UNCHANGED <<huffVars, read, code, tree, chain, p, output>>

\* A character: its bits, or an access through the NULL in the table.
EncodeChar ==
  /\ prog = "huffc" /\ code = <<>> /\ read < Len(input)
  /\ IF input[read + 1] \in Coded
     THEN code' = table_bit_encode(input[read + 1]) /\ UNCHANGED prog
     ELSE prog' = "crashed" /\ UNCHANGED code
  /\ read' = read + 1
  /\ UNCHANGED <<huffVars, bitsVars, tree, chain, p, output>>

EncodeBit ==
  /\ prog = "huffc" /\ code # <<>>
  /\ bits_io_write_bit(Head(code))
  /\ code' = Tail(code)
  /\ prog' = IF ret' = EOF THEN "reported" ELSE prog
  /\ UNCHANGED <<huffVars, read, tree, chain, p, output>>

\* huffc ends with encoder_free, which closes the file.
encoder_free ==
  /\ prog = "huffc" /\ code = <<>> /\ read = Len(input)
  /\ bits_io_close
  /\ prog' = IF ret' = EOF THEN "reported" ELSE "huffd"
  /\ UNCHANGED <<huffVars, read, code, tree, chain, p, output>>

-------------------------------------------------------------------------------
\* The output file may fail to open as well.
decoder_new ==
  /\ prog = "huffd"
  /\ bits_io_open("r")
  /\ read' = 0
  /\ \/ prog' = IF mode' = "r" THEN "read" ELSE "reported"
     \/ "fopen" \in IoFaults /\ prog' = "reported"
  /\ UNCHANGED <<huffVars, code, tree, chain, p, output>>

Place(n) == IF \E j \in DOMAIN chain : chain[j] = n
            THEN CHOOSE j \in DOMAIN chain : chain[j] = n
            ELSE 0

\* The list without the children of a record.  The walk removes a node by
\* writing to the node before it, which it may have just removed: of two
\* neighbours only the first goes.
Unlinked(left, right) ==
  LET gone == {Place(left), Place(right)} \ {0}
      really == {j \in gone : j = 1 \/ j - 1 \notin gone}
  IN [k \in 1 .. Len(chain) - Cardinality(really) |->
        chain[CHOOSE j \in DOMAIN chain \ really :
                k = Cardinality({i \in 1 .. j : i \notin really})]]

\* The child of a record: the node in the list with its id.
Child(id) == IF Place(id) = 0 THEN NULL ELSE id

ReadStart ==
  /\ prog = "read" /\ read = 0 /\ text # <<>>
  /\ read' = 1
  /\ UNCHANGED <<huffVars, bitsVars, prog, code, tree, chain, p, output>>

AtRecord == read \in 1 .. Len(text) - 1 /\ text[read + 1] # HASH

ReadRecord ==
  /\ prog = "read" /\ AtRecord
  /\ LET n == text[read + 1]
         new == [nodes[n] EXCEPT !.left = Child(@), !.right = Child(@)] IN
       /\ tree' = [m \in DOMAIN tree \cup {n} |-> IF m = n THEN new ELSE tree[m]]
       /\ chain' = <<n>> \o Unlinked(nodes[n].left, nodes[n].right)
  /\ read' = read + 1
  /\ UNCHANGED <<huffVars, bitsVars, prog, code, p, output>>

\* The '#' behind a record: that of the text or, if the text ends before, a
\* byte of bits that looks like one.
AtHash ==
  /\ chain # <<>> /\ ~ AtRecord
  /\ read < Len(text) \/ (disk # <<>> /\ disk[1] = HashByte)

\* Every next pointer behind the head's is reset, the last one through p,
\* which is NULL if the head is alone in the list.  With a leaf at the head
\* decode_one returns its character without reading a bit, for ever.
TreeIsRead ==
  /\ prog = "read" /\ AtHash
  /\ offset' = IF read < Len(text) THEN 0 ELSE 1
  /\ prog' = CASE Len(chain) = 1 -> "crashed"
               [] Len(chain) > 1 /\ tree[Head(chain)].type = "LEAF" -> "endless"
               [] OTHER -> "decode"
  /\ chain' = IF Len(chain) > 2 THEN SubSeq(chain, 1, 2) ELSE chain
  /\ p' = Head(chain)
  /\ UNCHANGED <<huffVars, mode, byte, count, stdio, text, disk, ret, lost, read, code, tree, output>>

\* The text ends and the bytes behind it are not of the form of a text: NULL.
\* (That they spell a whole record is left out.)
TreeIsCut ==
  /\ prog = "read" /\ read = Len(text) /\ ~ AtHash
  /\ bits_io_close
  /\ prog' = "reported"
  /\ UNCHANGED <<huffVars, read, code, tree, chain, p, output>>

\* One step down the tree, and the character if there is a leaf.
decode_one ==
  /\ prog = "decode"
  /\ bits_io_read_bit
  /\ LET next == IF ret' = 1 THEN tree[p].left ELSE tree[p].right IN
       CASE ret' = EOF \/ next = NULL ->
              prog' = "free" /\ UNCHANGED <<p, output>>
         [] ret' # EOF /\ next # NULL /\ tree[next].type = "LEAF" ->
              output' = Append(output, tree[next].c) /\ p' = Head(chain) /\ UNCHANGED prog
         [] OTHER -> p' = next /\ UNCHANGED <<prog, output>>
  /\ UNCHANGED <<huffVars, read, code, tree, chain>>

decoder_free ==
  /\ prog = "free"
  /\ bits_io_close
  /\ prog' = "done"
  /\ UNCHANGED <<huffVars, read, code, tree, chain, p, output>>

Ended == prog \in {"done", "reported", "crashed"}

Next ==
  \/ Build \/ encoder_new \/ EncodeTree \/ EncodeChar \/ EncodeBit \/ encoder_free
  \/ decoder_new \/ ReadStart \/ ReadRecord \/ TreeIsRead \/ TreeIsCut
  \/ decode_one \/ decoder_free
  \/ (Ended \/ prog = "endless") /\ UNCHANGED vars

\* Two sequential programs that never block.
Spec == Init /\ [][Next]_vars /\ WF_vars(Next)

-------------------------------------------------------------------------------
\* The end of the tree is missing in the file, and the byte behind it is a '#'.
Misread ==
  /\ Len(text) < 3 \/ text[Len(text)] # HASH
  /\ disk # <<>> /\ disk[1] = HashByte

\* What huffd decodes is what huffc was given, and on the way never anything
\* but its beginning: the tree, the codes, the bits in bytes and the list the
\* tree is read with fit together for every file and every order of ties.  A
\* loss at the end of the file that close does not notice costs no more than
\* the end of the output, and a tree that is not all in the file is reported,
\* or the byte behind it must be a '#' (encoder.c 83-109, bits-io.c 334-342,
\* decoder.c 29-114).
RoundTrip == ~ Misread =>
  /\ IsPrefix(output, input)
  /\ prog = "done" /\ ~ lost => output = input

Coding(chars) == FlattenSeq([k \in DOMAIN chars |-> table_bit_encode(chars[k])])

\* While huffc writes, what stdio holds, the byte buffer and the bits still to
\* be written are the code of the characters read: no bit is lost, added or
\* moved, and no marker is taken for a bit (bits-io.c 300-325).  When the file
\* is closed all of them are on the disk.
FormatHolds ==
  /\ prog = "huffc" =>
       /\ BitsOf(stdio) \o BitsIn(byte) \o code = Coding(SubSeq(input, 1, read))
       /\ count = Len(stdio)
  /\ prog = "huffd" /\ ~ lost => BitsOf(disk) = Coding(input)

\* The programs crash on two kinds of files only, one with byte 255, whose
\* characters are not all in the table, and one with a single character; and on
\* a file whose tree was cut and is taken for whole.
CrashesOnlyOn ==
  prog = "crashed" =>
    CharEOF \in ToSet(input) \/ Cardinality(ToSet(input)) = 1 \/ Misread

\* Both programs come to an end, for the bits give out; only a tree that was cut
\* behind a leaf and is taken for whole decodes for ever (decoder.c 76-114).
BothEnd == <>(Ended \/ (prog = "endless" /\ Misread))
===============================================================================
