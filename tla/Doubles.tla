---------------------------------- MODULE Doubles ----------------------------------
(***************************************************************************)
(* Java's doubles between 0 and 1 (IEEE 754, rounded to nearest, ties to   *)
(* even), as multiples of the least double: a double has Precision         *)
(* significant bits, fewer where it is so small that not all are left, and *)
(* below that it is 0.                                                     *)
(***************************************************************************)
EXTENDS Integers

CONSTANTS
  Precision,  \* 53 for doubles
  Least       \* the least double is 2^-Least; 1074 for doubles

ASSUME DoublesAssumption == /\ Precision \in Nat \ {0}
                            /\ Least \in Nat /\ Precision < Least

One == 2^Least

\* The first number that needs one bit more.
Full == 2^Precision

\* 0/0; any comparison with it is false.
NaN == -1

Less(a, b) == a # NaN /\ b # NaN /\ a < b

Spacings == {2^k : k \in 0 .. Least - Precision + 1}

\* num / den to the nearest integer, and to the even one of two.
HalfEven(num, den) ==
  LET down == num \div den
      rest == 2 * (num % den)
  IN IF rest > den \/ (rest = den /\ down % 2 = 1) THEN down + 1 ELSE down

\* The double nearest to num / den: all significant bits are used, or the spacing
\* is the least.
Rounded(num, den) ==
  LET spacing == CHOOSE s \in Spacings :
        LET bits == num \div (den * s)
        IN bits < Full /\ (s = 1 \/ 2 * bits >= Full)
  IN spacing * HalfEven(num, den * spacing)

Plus(a, b) == Rounded(a + b, 1)
Minus(a, b) == Rounded(a - b, 1)
Times(a, b) == Rounded(a * b, One)
DividedBy(a, b) == IF b = 0 THEN NaN ELSE Rounded(a * One, b)
====================================================================================
