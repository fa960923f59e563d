--------------------------------- MODULE Classify ---------------------------------
(***************************************************************************)
(* The naive Bayes classifier behind the chart (Computations.java), on a   *)
(* table like that of Model.  Each product, sum and quotient is rounded,   *)
(* in the order of the loops, and small products underflow.                *)
(***************************************************************************)
EXTENDS Doubles, FiniteSetsExt

CONSTANTS
  D,        \* number of digits, 10 in the code
  H, W,     \* rows and columns of an image, 12 and 12 in the code
  Whole,    \* probabilities are n / Whole
  Entries   \* the n that the table has

ASSUME ClassifierAssumption ==
  /\ D \in Nat \ {0} /\ H \in Nat \ {0} /\ W \in Nat \ {0} /\ Whole \in Nat \ {0}
  /\ One % Whole = 0
  /\ \A n \in Entries : 0 < n /\ 2 * n < Whole /\ n < Full

Digits == 0 .. D - 1
Cell == (0 .. H - 1) \X (0 .. W - 1)

\* x[i][j], by row and column; 1 for a white pixel.
Images == [Cell -> {0, 1}]

\* PXgD: P(pixel = 1 | digit) * Whole.  Every entry of the table is below a half,
\* and a double here.
Models == [Digits -> [Cell -> Entries]]

getPXijeq1gD(M, c, d) == M[d][c] * (One \div Whole)

getPD == Rounded(One, D)

conditionalProbabilityXijgD(M, c, v, d) ==
  LET cond == getPXijeq1gD(M, c, d) IN IF v = 1 THEN cond ELSE Minus(One, cond)

\* P(x | d): the pixels row by row, each product rounded before the next.
conditionalProbabilityXgD(M, x, d) ==
  LET tot[n \in 0 .. H * W] ==
        IF n = 0 THEN One
        ELSE LET c == <<(n - 1) \div W, (n - 1) % W>>
             IN Times(tot[n - 1], conditionalProbabilityXijgD(M, c, x[c], d))
  IN tot[H * W]

\* Mutant: the version that is commented out in the code, in which each pixel
\* brings the factors of the digit and of the whole image once more.
jointPerPixel(M, x, d) ==
  LET factor == Times(getPD, conditionalProbabilityXgD(M, x, d))
      tot[n \in 0 .. H * W] == IF n = 0 THEN One ELSE Times(tot[n - 1], factor)
  IN tot[H * W]

jointProbabilityXD(M, x, d) == Times(getPD, conditionalProbabilityXgD(M, x, d))

marginalProbabilityX(M, x) ==
  LET tot[k \in 0 .. D] ==
        IF k = 0 THEN 0 ELSE Plus(tot[k - 1], jointProbabilityXD(M, x, k - 1))
  IN tot[D]

conditionalProbabilityDgX(M, d, x) ==
  DividedBy(jointProbabilityXD(M, x, d), marginalProbabilityX(M, x))
====================================================================================
