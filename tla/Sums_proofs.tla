------------------------------- MODULE Sums_proofs -------------------------------
(***************************************************************************)
(* Lemmas about sums, the induction principle they rest on, stated for a   *)
(* set instead of a predicate so that the provers can instantiate it, and  *)
(* one about sequences.                                                    *)
(***************************************************************************)
EXTENDS Sums, WellFoundedInduction, SequenceTheorems, TLAPS

\* A set of numbers with 0 and with every successor holds every natural number.
LEMMA NatInductionOnSets ==
  ASSUME NEW S, 0 \in S, \A n \in Nat : n \in S => n + 1 \in S
  PROVE  Nat \subseteq S
<1> DEFINE R == OpToRel(<, Nat)
           T == Nat \ S
<1>1. SUFFICES ASSUME T # {} PROVE FALSE
  OBVIOUS
<1>2. IsWellFoundedOn(R, Nat)
  BY NatLessThanWellFounded
<1>3. T \subseteq Nat
  OBVIOUS
<1> HIDE DEF R, T
<1>4. PICK x \in T : \A y \in T : <<y, x>> \notin R
  BY <1>1, <1>2, <1>3, WFMin
<1>5. x \in Nat /\ x \notin S
  BY <1>4 DEF T
<1>6. x # 0 /\ x - 1 \in Nat
  BY <1>5
<1>7. <<x - 1, x>> \in R
  BY <1>5, <1>6 DEF R, OpToRel
<1>8. x - 1 \in S
  BY <1>4, <1>6, <1>7 DEF T
<1> QED
  BY <1>5, <1>6, <1>8

\* A function that adds up the values of f.
Adds(u, f, n) == u = [k \in 0 .. n |-> IF k = 0 THEN 0 ELSE u[k - 1] + f[k]]

\* There is one for every length: the recursion is well defined.
LEMMA AddsExists ==
  ASSUME NEW f, NEW n \in Nat
  PROVE  \E u : Adds(u, f, n)
<1> DEFINE S == {m \in Nat : \E u : Adds(u, f, m)}
<1>1. 0 \in S
  <2>1. Adds([k \in 0 .. 0 |-> 0], f, 0)
    BY DEF Adds
  <2> QED
    BY <2>1
<1>2. ASSUME NEW m \in Nat, m \in S
      PROVE  m + 1 \in S
  <2>1. PICK u : Adds(u, f, m)
    BY <1>2
  <2> DEFINE v == [k \in 0 .. m + 1 |-> IF k = m + 1 THEN u[m] + f[m + 1] ELSE u[k]]
  <2>2. \A k \in 0 .. m : u[k] = IF k = 0 THEN 0 ELSE u[k - 1] + f[k]
    BY <2>1 DEF Adds
  <2>3. ASSUME NEW k \in 0 .. m + 1
        PROVE  v[k] = IF k = 0 THEN 0 ELSE v[k - 1] + f[k]
    <3>1. CASE k = m + 1
      BY <3>1
    <3>2. CASE k \in 0 .. m
      BY <2>2, <3>2
    <3> QED
      BY <3>1, <3>2
  <2>4. v = [k \in 0 .. m + 1 |-> v[k]]
    OBVIOUS
  <2>5. Adds(v, f, m + 1)
    BY <2>3, <2>4 DEF Adds
  <2> QED
    BY <2>5
<1> HIDE DEF S
<1>3. n \in S
  BY <1>1, <1>2, NatInductionOnSets
<1> QED
  BY <1>3 DEF S

\* The sums of values that agree are equal, also when one goes on further.
LEMMA AddsAgree ==
  ASSUME NEW f, NEW g, NEW u, NEW v, NEW n \in Nat, NEW m \in Nat, n <= m,
         Adds(u, f, n), Adds(v, g, m), \A k \in 1 .. n : f[k] = g[k]
  PROVE  \A k \in 0 .. n : u[k] = v[k]
<1> DEFINE S == {k \in Nat : k <= n => u[k] = v[k]}
<1>1. /\ \A k \in 0 .. n : u[k] = IF k = 0 THEN 0 ELSE u[k - 1] + f[k]
      /\ \A k \in 0 .. m : v[k] = IF k = 0 THEN 0 ELSE v[k - 1] + g[k]
  BY DEF Adds
<1>2. 0 \in S
  BY <1>1
<1>3. ASSUME NEW k \in Nat, k \in S
      PROVE  k + 1 \in S
  <2> SUFFICES ASSUME k + 1 <= n PROVE u[k + 1] = v[k + 1]
    OBVIOUS
  <2>1. u[k] = v[k]
    BY <1>3
  <2>2. k + 1 \in 0 .. n /\ k + 1 \in 0 .. m /\ k + 1 \in 1 .. n /\ (k + 1) - 1 = k
    OBVIOUS
  <2>3. u[k + 1] = u[k] + f[k + 1] /\ v[k + 1] = v[k] + g[k + 1]
    BY <1>1, <2>2
  <2> QED
    BY <2>1, <2>2, <2>3
<1> HIDE DEF S
<1>4. Nat \subseteq S
  BY <1>2, <1>3, NatInductionOnSets
<1> QED
  BY <1>4 DEF S

\* A sum is the last value of a function that adds up.
LEMMA SumToAdds ==
  ASSUME NEW f, NEW n \in Nat
  PROVE  \E u : Adds(u, f, n) /\ SumTo(f, n) = u[n]
<1> DEFINE u == CHOOSE x : Adds(x, f, n)
<1>1. Adds(u, f, n)
  BY AddsExists
<1>2. SumTo(f, n) = u[n]
  BY DEF SumTo, Adds
<1> QED
  BY <1>1, <1>2

\* The sum of nothing, and of one value more.
LEMMA SumToNext ==
  ASSUME NEW f
  PROVE  /\ SumTo(f, 0) = 0
         /\ \A n \in Nat : SumTo(f, n + 1) = SumTo(f, n) + f[n + 1]
<1>1. SumTo(f, 0) = 0
  <2>1. PICK u : Adds(u, f, 0) /\ SumTo(f, 0) = u[0]
    BY SumToAdds
  <2> QED
    BY <2>1 DEF Adds
<1>2. ASSUME NEW n \in Nat
      PROVE  SumTo(f, n + 1) = SumTo(f, n) + f[n + 1]
  <2>1. PICK u : Adds(u, f, n) /\ SumTo(f, n) = u[n]
    BY SumToAdds
  <2>2. PICK v : Adds(v, f, n + 1) /\ SumTo(f, n + 1) = v[n + 1]
    BY SumToAdds
  <2>3. u[n] = v[n]
    BY <2>1, <2>2, AddsAgree
  <2>4. v[n + 1] = v[n] + f[n + 1]
    BY <2>2 DEF Adds
  <2> QED
    BY <2>1, <2>2, <2>3, <2>4
<1> QED
  BY <1>1, <1>2

\* A sum depends on the values it adds up only.
LEMMA SumToAgree ==
  ASSUME NEW f, NEW g, NEW n \in Nat, \A k \in 1 .. n : f[k] = g[k]
  PROVE  SumTo(f, n) = SumTo(g, n)
<1>1. PICK u : Adds(u, f, n) /\ SumTo(f, n) = u[n]
  BY SumToAdds
<1>2. PICK v : Adds(v, g, n) /\ SumTo(g, n) = v[n]
  BY SumToAdds
<1>3. \A k \in 0 .. n : u[k] = v[k]
  BY <1>1, <1>2, AddsAgree
<1> QED
  BY <1>1, <1>2, <1>3

\* Integers add up to an integer.
LEMMA SumToInt ==
  ASSUME NEW f, NEW n \in Nat, \A k \in 1 .. n : f[k] \in Int
  PROVE  SumTo(f, n) \in Int
<1> DEFINE S == {k \in Nat : k <= n => SumTo(f, k) \in Int}
<1>1. 0 \in S
  BY SumToNext
<1>2. ASSUME NEW k \in Nat, k \in S
      PROVE  k + 1 \in S
  <2> SUFFICES ASSUME k + 1 <= n PROVE SumTo(f, k + 1) \in Int
    OBVIOUS
  <2>1. SumTo(f, k) \in Int /\ f[k + 1] \in Int
    BY <1>2
  <2>2. SumTo(f, k + 1) = SumTo(f, k) + f[k + 1]
    BY SumToNext
  <2> QED
    BY <2>1, <2>2
<1> HIDE DEF S
<1>3. n \in S
  BY <1>1, <1>2, NatInductionOnSets
<1> QED
  BY <1>3 DEF S

\* Changing one value changes the sum by the difference.
LEMMA SumToChange ==
  ASSUME NEW f, NEW g, NEW n \in Nat, NEW j \in 1 .. n,
         \A k \in 1 .. n : f[k] \in Int /\ g[k] \in Int,
         \A k \in 1 .. n : k # j => f[k] = g[k]
  PROVE  SumTo(g, n) = SumTo(f, n) + g[j] - f[j]
<1> DEFINE S == {m \in Nat : j <= m /\ m <= n => SumTo(g, m) = SumTo(f, m) + g[j] - f[j]}
<1>1. 0 \in S
  OBVIOUS
<1>2. ASSUME NEW m \in Nat, m \in S
      PROVE  m + 1 \in S
  <2> SUFFICES ASSUME j <= m + 1, m + 1 <= n
               PROVE  SumTo(g, m + 1) = SumTo(f, m + 1) + g[j] - f[j]
    OBVIOUS
  <2>1. /\ SumTo(f, m + 1) = SumTo(f, m) + f[m + 1]
        /\ SumTo(g, m + 1) = SumTo(g, m) + g[m + 1]
    BY SumToNext
  <2>2. SumTo(f, m) \in Int /\ SumTo(g, m) \in Int
    BY SumToInt
  <2>3. f[m + 1] \in Int /\ g[m + 1] \in Int /\ f[j] \in Int /\ g[j] \in Int
    OBVIOUS
  <2>4. CASE j = m + 1
    <3>1. SumTo(f, m) = SumTo(g, m)
      BY <2>4, SumToAgree
    <3> QED
      BY <2>1, <2>2, <2>3, <2>4, <3>1
  <2>5. CASE j <= m
    <3>1. SumTo(g, m) = SumTo(f, m) + g[j] - f[j]
      BY <1>2, <2>5
    <3>2. f[m + 1] = g[m + 1]
      BY <2>5
    <3> QED
      BY <2>1, <2>2, <2>3, <3>1, <3>2
  <2> QED
    BY <2>4, <2>5
<1> HIDE DEF S
<1>3. n \in S
  BY <1>1, <1>2, NatInductionOnSets
<1> QED
  BY <1>3 DEF S

\* The sum of the sums of two values is the sum of their sums.
LEMMA SumToPlus ==
  ASSUME NEW f, NEW g, NEW h, NEW n \in Nat,
         \A k \in 1 .. n : f[k] \in Int /\ g[k] \in Int /\ h[k] = f[k] + g[k]
  PROVE  SumTo(h, n) = SumTo(f, n) + SumTo(g, n)
<1> DEFINE S == {m \in Nat : m <= n => SumTo(h, m) = SumTo(f, m) + SumTo(g, m)}
<1>1. 0 \in S
  BY SumToNext
<1>2. ASSUME NEW m \in Nat, m \in S
      PROVE  m + 1 \in S
  <2> SUFFICES ASSUME m + 1 <= n
               PROVE  SumTo(h, m + 1) = SumTo(f, m + 1) + SumTo(g, m + 1)
    OBVIOUS
  <2>1. /\ SumTo(f, m + 1) = SumTo(f, m) + f[m + 1]
        /\ SumTo(g, m + 1) = SumTo(g, m) + g[m + 1]
        /\ SumTo(h, m + 1) = SumTo(h, m) + h[m + 1]
    BY SumToNext
  <2>2. SumTo(f, m) \in Int /\ SumTo(g, m) \in Int
    BY SumToInt
  <2>3. f[m + 1] \in Int /\ g[m + 1] \in Int /\ h[m + 1] = f[m + 1] + g[m + 1]
    OBVIOUS
  <2>4. SumTo(h, m) = SumTo(f, m) + SumTo(g, m)
    BY <1>2
  <2> QED
    BY <2>1, <2>2, <2>3, <2>4
<1> HIDE DEF S
<1>3. n \in S
  BY <1>1, <1>2, NatInductionOnSets
<1> QED
  BY <1>3 DEF S

-------------------------------------------------------------------------------
\* A sequence with v in front of w.
LEMMA Pushed ==
  ASSUME NEW V, NEW m \in Nat, NEW v \in V, NEW w, w \in [1 .. m -> V],
         NEW s, s \in [1 .. m + 1 -> V],
         s[1] = v, \A j \in 1 .. m : s[j + 1] = w[j]
  PROVE  s = <<v>> \o w
<1>1. w \in Seq(V) /\ Len(w) = m /\ s \in Seq(V) /\ Len(s) = m + 1
  OBVIOUS
<1>2. <<v>> \in Seq(V) /\ Len(<<v>>) = 1 /\ <<v>>[1] = v
  OBVIOUS
<1> DEFINE t == <<v>> \o w
<1>3. /\ t \in Seq(V) /\ Len(t) = 1 + m
      /\ \A i \in 1 .. 1 + m : t[i] = IF i <= 1 THEN <<v>>[i] ELSE w[i - 1]
  BY <1>1, <1>2, ConcatProperties
<1> HIDE DEF t
<1>4. ASSUME NEW i \in 1 .. m + 1 PROVE s[i] = t[i]
  <2>1. CASE i = 1
    BY <1>2, <1>3, <2>1
  <2>2. CASE i # 1
    <3>1. i - 1 \in 1 .. m /\ (i - 1) + 1 = i
      BY <2>2
    <3> QED
      BY <1>3, <2>2, <3>1
  <2> QED
    BY <2>1, <2>2
<1> QED
  BY <1>1, <1>3, <1>4, SeqEqual DEF t
================================================================================
