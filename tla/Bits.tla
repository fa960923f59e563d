---------------------------------- MODULE Bits ----------------------------------
(***************************************************************************)
(* How the cache simulator cuts an address into tag, set and byte (bits.c).*)
(* Shifts are those of an unsigned W-bit word, W = 32 in the code.  C does *)
(* not define a shift by W or more; the machine the code is built for      *)
(* takes the count modulo W, which is what the build's -O0 code gives.     *)
(***************************************************************************)
EXTENDS Integers

CONSTANT W   \* bits of an address

Words == 0 .. 2^W - 1

Shl(x, n) == (x * 2^(n % W)) % 2^W
Shr(x, n) == x \div 2^(n % W)

\* g is a geometry [set_bits, block_bits]
TagBits(g) == W - (g.set_bits + g.block_bits)

get_set(g, address)  == Shr(Shl(address, TagBits(g)), g.block_bits + TagBits(g))
get_line(g, address) == Shr(address, g.set_bits + g.block_bits)
get_byte(g, address) ==
  LET tagset == TagBits(g) + g.set_bits
  IN Shr(Shl(address, tagset), tagset)

\* The geometries main() accepts: any number of bits, within an address.
Geometries == {g \in [set_bits : 0 .. W, block_bits : 0 .. W] :
                 g.set_bits + g.block_bits <= W}

\* The geometries in which no shift count reaches W.
InnerGeometries == {g \in Geometries : /\ g.set_bits > 0
                                       /\ g.block_bits > 0
                                       /\ g.set_bits + g.block_bits < W}

\* Tag, set and byte are the fields of the address and together all of it:
\* set and byte are valid indices, and no two addresses look alike to the
\* cache (bits.c 5-30, used as indices at cache.c 103-123).
SplitsAddress(g) ==
  \A address \in Words :
    LET s == get_set(g, address)  t == get_line(g, address)  b == get_byte(g, address)
    IN /\ s < 2^g.set_bits /\ b < 2^g.block_bits
       /\ address = (t * 2^g.set_bits + s) * 2^g.block_bits + b
==============================================================================
