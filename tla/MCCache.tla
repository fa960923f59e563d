--------------------------------- MODULE MCCache ---------------------------------
(***************************************************************************)
(* A small cache with the code's own way of cutting addresses.             *)
(***************************************************************************)
EXTENDS Cache, TLC

CONSTANTS
  W, SetBits, BlockBits,
  TagCount   \* tags in use in set 0

MCGarbage == {0 .. 2^BlockBits - 1}

B == INSTANCE Bits

\* In every geometry in which no shift count reaches the width of the word the
\* code's cut is right.
ASSUME SplitAssumption == \A g \in B!InnerGeometries : B!SplitsAddress(g)

Geometry == [set_bits |-> SetBits, block_bits |-> BlockBits]

SetOfWord  == [a \in B!Words |-> B!get_set(Geometry, a)]
TagOfWord  == [a \in B!Words |-> B!get_line(Geometry, a)]
ByteOfWord == [a \in B!Words |-> B!get_byte(Geometry, a)]

\* The first TagCount tags of set 0, and one address of every other set.
MCAddresses ==
  {a \in B!Words : IF SetOfWord[a] = 0 THEN TagOfWord[a] < TagCount
                   ELSE TagOfWord[a] = 0 /\ ByteOfWord[a] = 0}
MCSets   == 0 .. 2^SetBits - 1
MCBytes  == 0 .. 2^BlockBits - 1
MCSetOf  == [a \in MCAddresses |-> SetOfWord[a]]
MCTagOf  == [a \in MCAddresses |-> TagOfWord[a]]
MCByteOf == [a \in MCAddresses |-> ByteOfWord[a]]
==============================================================================
