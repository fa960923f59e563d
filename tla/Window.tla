---------------------------------- MODULE Window ----------------------------------
(***************************************************************************)
(* The window of GUIClassification: the picture that the pad hands to the  *)
(* timer's listener is an image for the classifier, whose posteriors are   *)
(* the bars of the chart.                                                  *)
(***************************************************************************)
EXTENDS Pad, Classify

ASSUME WindowAssumption == H = Cells /\ W = Cells

\* img2intarray: by row and column, 1 where the picture is not black.
ImageOf(picture) == [c \in Cell |-> IF <<c[2], c[1]>> \in picture THEN 1 ELSE 0]

\* The bars that the listener gives to the chart for an image: <<digit, value>>.
Bars(M, x) == {<<d, conditionalProbabilityDgX(M, d, x)>> : d \in Digits}

-------------------------------------------------------------------------------
\* P(x | d) * Whole^(H * W), without any rounding.
Likelihood(M, x, d) ==
  MapThenFoldSet(LAMBDA u, v : u * v, 1,
                 LAMBDA c : IF x[c] = 1 THEN M[d][c] ELSE Whole - M[d][c],
                 LAMBDA S : CHOOSE c \in S : TRUE, Cell)

\* A likelihood with which P(x, d) is twice the least double that has all bits.
Normal == D * (Whole^(H * W) \div (One \div Full))

\* As in Model, the white image, which is the least likely one of every digit, is
\* far above underflow for some digit.
Tables == {M \in Models : \E d \in Digits : Likelihood(M, [c \in Cell |-> 1], d) >= Normal}

\* How often the two bars may have been rounded: for every pixel in the difference
\* from 1 and in the product, by the factor of the digit and by the quotient.
Roundings == 2 * (2 * H * W + 2)

\* The second is higher beyond what as many roundings can hide.
ClearlyLess(a, b) == b >= Normal /\ a < b - Roundings * (b \div Full + 1)

\* Every bar is a number, they add up to 1 but for the rounding of each of them
\* and of the marginal, and the bar of a digit that is clearly likelier is higher.
Tell(bars, likely) ==
  /\ \A b \in bars : b[2] # NaN
  /\ LET off == One - MapThenSumSet(LAMBDA b : b[2], bars)
         most == (D + 1) * (One \div Full)
     IN off \in -most .. most
  /\ \A b, c \in bars : ClearlyLess(likely[b[1]], likely[c[1]]) => Less(b[2], c[2])

\* The images whose bars do not tell the truth, with some table.
Misjudged == UNION {
  {x \in Images : ~ Tell(Bars(M, x), [d \in Digits |-> Likelihood(M, x, d)])} : M \in Tables}

\* When the drawing is left alone, the bars of the chart are at last posteriors
\* for the picture of it, whatever was classified in between: a digit that is more
\* likely beyond rounding has the higher bar, although some 300 operations are
\* rounded in the order of the loops, products of unlikely digits underflow, and
\* sum and quotient are of such products (GUIClassification.java 44-56,
\* Computations.java 7-72).
ChartTellsDigits ==
  <>[][FALSE]_drawn =>
    <>[](ImageOf(shown) = ImageOf(Picture) /\ ImageOf(shown) \notin Misjudged)
====================================================================================
