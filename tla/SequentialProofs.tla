-------------------------- MODULE SequentialProofs --------------------------
(***************************************************************************)
(* Proofs about the code that runs alone, to its end and in one thread:    *)
(* the pure algorithms, for every input, and the cache in memory, for any  *)
(* number of keys and places.                                              *)
(***************************************************************************)
EXTENDS MCAlgorithms, TtlCache, FiniteSetTheorems, NaturalsInduction, WellFoundedInduction, TLAPS

-----------------------------------------------------------------------------
(* Induction, without a rule of induction: the provers cannot put a        *)
(* predicate for an operator, so it is a set, and its least exception.     *)

(* The least of a set of numbers.                                          *)
LEMMA LeastIsLeast ==
  ASSUME NEW T \in SUBSET Nat, T # {}
  PROVE  Min(T) \in T /\ \A y \in T : Min(T) <= y
<1> DEFINE Below == {p \in Nat \X Nat : p[1] < p[2]}
<1>1. IsWellFoundedOn(Below, Nat)
  BY NatLessThanWellFounded DEF OpToRel
<1>2. PICK m \in T : \A y \in T : <<y, m>> \notin Below
  BY <1>1, WFMin
<1>3. \A y \in T : m <= y
  <2> SUFFICES ASSUME NEW y \in T, ~(m <= y) PROVE FALSE
    OBVIOUS
  <2>1. <<y, m>> \in Nat \X Nat /\ y < m
    OBVIOUS
  <2> QED BY <1>2, <2>1
<1> QED BY <1>3 DEF Min

(* Induction over an interval, with a set for the predicate.               *)
LEMMA Induction ==
  ASSUME NEW n \in Nat, NEW T, 0 \in T,
         \A i \in 1 .. n : i - 1 \in T => i \in T
  PROVE  0 .. n \subseteq T
<1> DEFINE Below == {p \in Nat \X Nat : p[1] < p[2]}
           left == {i \in 0 .. n : i \notin T}
<1> SUFFICES ASSUME left # {} PROVE FALSE
  OBVIOUS
<1>1. IsWellFoundedOn(Below, Nat)
  BY NatLessThanWellFounded DEF OpToRel
<1>2. left \subseteq Nat
  OBVIOUS
<1>3. PICK m \in left : \A y \in left : <<y, m>> \notin Below
  BY <1>1, <1>2, WFMin
<1>4. m \in 1 .. n /\ m - 1 \in 0 .. n
  OBVIOUS
<1>5. m - 1 \in left
  BY <1>3, <1>4
<1>6. <<m - 1, m>> \in Below
  BY <1>4
<1> QED BY <1>3, <1>5, <1>6

(* What steps lead from a beginning to, a function that maps each number   *)
(* of steps to where they lead.                                            *)
IsRun(f, S, n, base, step) ==
  f \in [0 .. n -> S] /\ f[0] = base /\ \A i \in 1 .. n : f[i] = step[<<f[i - 1], i>>]

(* A recursive function over 0 .. n exists: as a set of pairs it is the    *)
(* least one closed under the step, built up one argument at a time.       *)
LEMMA RunExists ==
  ASSUME NEW S, NEW n \in Nat, NEW base \in S, NEW step \in [S \X (1 .. n) -> S]
  PROVE  \E f : IsRun(f, S, n, base, step)
<1> DEFINE Reached == {m \in 0 .. n : \E f : IsRun(f, S, m, base, step)}
<1>1. 0 \in Reached
  <2> DEFINE f == [i \in 0 .. 0 |-> base]
  <2>1. IsRun(f, S, 0, base, step)
    BY DEF IsRun
  <2> QED BY <2>1
<1>2. \A m \in 1 .. n : m - 1 \in Reached => m \in Reached
  <2> SUFFICES ASSUME NEW m \in 1 .. n, m - 1 \in Reached PROVE m \in Reached
    OBVIOUS
  <2>1. PICK f : IsRun(f, S, m - 1, base, step)
    OBVIOUS
  <2> DEFINE g == [i \in 0 .. m |-> IF i = m THEN step[<<f[m - 1], m>>] ELSE f[i]]
  <2>2. f[m - 1] \in S
    BY <2>1 DEF IsRun
  <2>3. step[<<f[m - 1], m>>] \in S
    BY <2>2
  <2>4. g \in [0 .. m -> S] /\ g[0] = base
    BY <2>1, <2>3 DEF IsRun
  <2>5. \A i \in 1 .. m : g[i] = step[<<g[i - 1], i>>]
    <3> SUFFICES ASSUME NEW i \in 1 .. m PROVE g[i] = step[<<g[i - 1], i>>]
      OBVIOUS
    <3>1. CASE i = m
      <4>1. g[i - 1] = f[m - 1] /\ g[i] = step[<<f[m - 1], m>>]
        BY <3>1
      <4> QED BY <4>1, <3>1
    <3>2. CASE i # m
      <4>1. i \in 1 .. m - 1 /\ g[i - 1] = f[i - 1] /\ g[i] = f[i]
        BY <3>2
      <4> QED BY <2>1, <4>1 DEF IsRun
    <3> QED BY <3>1, <3>2
  <2>6. IsRun(g, S, m, base, step)
    BY <2>4, <2>5 DEF IsRun
  <2> QED BY <2>6
<1>3. n \in Reached
  <2> HIDE DEF Reached
  <2> QED BY <1>1, <1>2, Induction
<1> QED BY <1>3

-----------------------------------------------------------------------------
(* Indicators, analysis and report.                                        *)

(* The sums of the first numbers, each from the one before.                *)
LEMMA TotalsInTurn ==
  ASSUME NEW c \in Seq(Int)
  PROVE  /\ Totals(c)[0] = 0
         /\ \A i \in 1 .. Len(c) : Totals(c)[i] = Totals(c)[i - 1] + c[i]
         /\ \A i \in 0 .. Len(c) : Totals(c)[i] \in Int
<1> DEFINE n == Len(c)
           step == [p \in Int \X (1 .. n) |-> p[1] + c[p[2]]]
           Turn(f) == [i \in 0 .. n |-> IF i = 0 THEN 0 ELSE f[i - 1] + c[i]]
           sum == Totals(c)
<1>1. sum = CHOOSE f : f = Turn(f)
  BY DEF Totals
<1>2. n \in Nat /\ \A i \in 1 .. n : c[i] \in Int
  OBVIOUS
<1> HIDE DEF n
<1>3. step \in [Int \X (1 .. n) -> Int]
  BY <1>2
<1>4. PICK f : IsRun(f, Int, n, 0, step)
  <2>1. 0 \in Int
    OBVIOUS
  <2> HIDE DEF step
  <2> QED BY <1>2, <1>3, <2>1, RunExists
<1>5. f = Turn(f)
  <2>1. \A i \in 1 .. n : f[i] = f[i - 1] + c[i]
    <3> SUFFICES ASSUME NEW i \in 1 .. n PROVE f[i] = f[i - 1] + c[i]
      OBVIOUS
    <3>1. i - 1 \in 0 .. n
      BY <1>2
    <3>2. f[i - 1] \in Int /\ f[i] = step[<<f[i - 1], i>>]
      BY <1>4, <3>1 DEF IsRun
    <3> QED BY <3>2
  <2>2. f \in [0 .. n -> Int] /\ f[0] = 0
    BY <1>4 DEF IsRun
  <2> QED BY <1>2, <2>1, <2>2
<1>6. sum = Turn(sum)
  BY <1>1, <1>5
<1> HIDE DEF sum
<1>7. sum[0] = 0 /\ \A i \in 1 .. n : sum[i] = sum[i - 1] + c[i]
  <2> DEFINE g == Turn(sum)
  <2>1. g[0] = 0 /\ \A i \in 1 .. n : g[i] = sum[i - 1] + c[i]
    BY <1>2
  <2> QED BY <1>6, <2>1
<1>8. 0 .. n \subseteq {i \in 0 .. n : sum[i] \in Int}
  <2> DEFINE T == {i \in 0 .. n : sum[i] \in Int}
  <2>1. 0 \in T
    BY <1>2, <1>7
  <2>2. \A i \in 1 .. n : i - 1 \in T => i \in T
    BY <1>2, <1>7
  <2> HIDE DEF T
  <2> QED BY <1>2, <2>1, <2>2, Induction DEF T
<1> QED BY <1>7, <1>8 DEF sum, n

(* The total of a part is the difference of two sums.                      *)
LEMMA TotalOfPart ==
  ASSUME NEW c \in Seq(Int), NEW a \in 0 .. Len(c), NEW b \in a .. Len(c)
  PROVE  Total(SubSeq(c, a + 1, b)) = Totals(c)[b] - Totals(c)[a]
<1> DEFINE part == SubSeq(c, a + 1, b)
           n == b - a
           T == {k \in 0 .. n : Totals(part)[k] = Totals(c)[a + k] - Totals(c)[a]}
<1>1. /\ part \in Seq(Int) /\ Len(part) = n /\ n \in Nat /\ a \in Nat /\ b \in Nat
      /\ \A k \in 1 .. n : part[k] = c[a + k]
  OBVIOUS
<1> HIDE DEF part
<1>2. \A k \in 0 .. n : a + k \in 0 .. Len(c)
  BY <1>1
<1>3. 0 \in T
  <2>1. Totals(c)[a] \in Int /\ a + 0 = a
    BY <1>1, TotalsInTurn
  <2>2. Totals(part)[0] = 0
    BY <1>1, TotalsInTurn
  <2> QED BY <1>1, <2>1, <2>2
<1>4. \A k \in 1 .. n : k - 1 \in T => k \in T
  <2> SUFFICES ASSUME NEW k \in 1 .. n, Totals(part)[k - 1] = Totals(c)[a + (k - 1)] - Totals(c)[a]
               PROVE  Totals(part)[k] = Totals(c)[a + k] - Totals(c)[a]
    BY <1>1
  <2>1. Totals(part)[k] = Totals(part)[k - 1] + part[k]
    BY <1>1, TotalsInTurn
  <2>2. a + k \in 1 .. Len(c) /\ (a + k) - 1 = a + (k - 1)
    BY <1>1
  <2>3. Totals(c)[a + k] = Totals(c)[a + (k - 1)] + c[a + k]
    BY <2>2, TotalsInTurn
  <2>4. /\ Totals(c)[a] \in Int /\ c[a + k] \in Int
    BY <2>2, TotalsInTurn
  <2>5. Totals(c)[a + (k - 1)] \in Int
    <3>1. a + (k - 1) \in 0 .. Len(c)
      BY <1>1
    <3> QED BY <3>1, TotalsInTurn
  <2>6. \A x, y, z \in Int : (x - y) + z = (x + z) - y
    OBVIOUS
  <2>7. Totals(part)[k] = (Totals(c)[a + (k - 1)] - Totals(c)[a]) + c[a + k]
    BY <1>1, <2>1
  <2> QED BY <2>3, <2>4, <2>5, <2>6, <2>7
<1>5. n \in T
  <2>1. n \in Nat /\ n \in 0 .. n
    BY <1>1
  <2> HIDE DEF T, n
  <2>2. 0 .. n \subseteq T
    BY <1>3, <1>4, <2>1, Induction
  <2> QED BY <2>1, <2>2
<1>6. a + n = b
  BY <1>1
<1> QED BY <1>1, <1>5, <1>6 DEF Total, part

(* The total of numbers that are not negative.                             *)
LEMMA TotalIsNat ==
  ASSUME NEW c \in Seq(Nat)
  PROVE  Total(c) \in Nat
<1> DEFINE n == Len(c)
           T == {k \in 0 .. n : Totals(c)[k] \in Nat}
<1>1. c \in Seq(Int) /\ n \in Nat /\ \A k \in 1 .. n : c[k] \in Nat
  OBVIOUS
<1>2. 0 \in T
  BY <1>1, TotalsInTurn
<1>3. \A k \in 1 .. n : k - 1 \in T => k \in T
  BY <1>1, TotalsInTurn
<1>4. n \in T
  <2>1. n \in 0 .. n
    BY <1>1
  <2> HIDE DEF T, n
  <2>2. 0 .. n \subseteq T
    BY <1>1, <1>2, <1>3, Induction
  <2> QED BY <2>1, <2>2
<1> QED BY <1>4 DEF Total

(* The sum of the window up to a price, as a difference of two totals.     *)
WindowSum(c, p, i) == Totals(c)[i] - (IF i > p THEN Totals(c)[i - p] ELSE 0)

(* What leaves the window and what enters it, as the sum slides.           *)
LEMMA WindowSlides ==
  ASSUME NEW c \in Seq(Int), NEW p \in Nat \ {0}
  PROVE  /\ WindowSum(c, p, 0) = 0
         /\ \A i \in 0 .. Len(c) : WindowSum(c, p, i) \in Int
         /\ \A i \in 1 .. Len(c) :
              WindowSum(c, p, i) = WindowSum(c, p, i - 1) + c[i] - (IF i > p THEN c[i - p] ELSE 0)
<1>1. Totals(c)[0] = 0
  BY TotalsInTurn
<1>2. \A i \in 0 .. Len(c) : Totals(c)[i] \in Int
  BY TotalsInTurn
<1>3. \A i \in 1 .. Len(c) : Totals(c)[i] = Totals(c)[i - 1] + c[i] /\ c[i] \in Int
  BY TotalsInTurn
<1>4. WindowSum(c, p, 0) = 0
  BY <1>1 DEF WindowSum
<1>5. ASSUME NEW i \in 0 .. Len(c) PROVE WindowSum(c, p, i) \in Int
  <2>1. i > p => i - p \in 0 .. Len(c)
    OBVIOUS
  <2> QED BY <1>2, <2>1 DEF WindowSum
<1>6. ASSUME NEW i \in 1 .. Len(c)
      PROVE  WindowSum(c, p, i) = WindowSum(c, p, i - 1) + c[i] - (IF i > p THEN c[i - p] ELSE 0)
  <2>1. i \in 0 .. Len(c) /\ i - 1 \in 0 .. Len(c)
    OBVIOUS
  <2>2. \A x, y, z, u : x \in Int /\ y \in Int /\ z \in Int /\ u \in Int =>
          (x + y) - (z + u) = ((x - z) + y) - u
    OBVIOUS
  <2>3. CASE i > p
    <3>1. i - p \in 1 .. Len(c) /\ i - p \in 0 .. Len(c) /\ (i - p) - 1 \in 0 .. Len(c)
      BY <2>3
    <3>2. Totals(c)[i - p] = Totals(c)[(i - p) - 1] + c[i - p] /\ c[i - p] \in Int
      BY <1>3, <3>1
    <3>3. WindowSum(c, p, i) = (Totals(c)[i - 1] + c[i]) - (Totals(c)[(i - p) - 1] + c[i - p])
      BY <1>3, <2>3, <3>2 DEF WindowSum
    <3>4. WindowSum(c, p, i) = ((Totals(c)[i - 1] - Totals(c)[(i - p) - 1]) + c[i]) - c[i - p]
      <4> DEFINE x == Totals(c)[i - 1]
                 z == Totals(c)[(i - p) - 1]
      <4>1. x \in Int /\ c[i] \in Int /\ z \in Int /\ c[i - p] \in Int
        BY <1>2, <1>3, <2>1, <3>1, <3>2
      <4>2. WindowSum(c, p, i) = (x + c[i]) - (z + c[i - p])
        BY <3>3
      <4> HIDE DEF x, z
      <4>3. WindowSum(c, p, i) = ((x - z) + c[i]) - c[i - p]
        BY <2>2, <4>1, <4>2
      <4> QED BY <4>3 DEF x, z
    <3>5. WindowSum(c, p, i - 1) = Totals(c)[i - 1] - Totals(c)[(i - p) - 1]
      <4>1. CASE i - 1 > p
        <5>1. (i - 1) - p = (i - p) - 1
          OBVIOUS
        <5> QED BY <4>1, <5>1 DEF WindowSum
      <4>2. CASE ~(i - 1 > p)
        <5>1. (i - p) - 1 = 0
          BY <4>2, <2>3
        <5> QED BY <4>2, <5>1, <1>1 DEF WindowSum
      <4> QED BY <4>1, <4>2
    <3>6. WindowSum(c, p, i) = (WindowSum(c, p, i - 1) + c[i]) - c[i - p]
      BY <3>4, <3>5
    <3>7. WindowSum(c, p, i - 1) \in Int /\ c[i] \in Int /\ c[i - p] \in Int
      BY <1>3, <1>5, <2>1, <3>1
    <3> QED BY <2>3, <3>6, <3>7
  <2>4. CASE ~(i > p)
    <3>1. ~(i - 1 > p)
      BY <2>4
    <3>2. WindowSum(c, p, i) = (Totals(c)[i - 1] + c[i]) - 0
      BY <1>3, <2>4 DEF WindowSum
    <3>3. WindowSum(c, p, i - 1) = Totals(c)[i - 1] - 0
      BY <3>1 DEF WindowSum
    <3>4. Totals(c)[i - 1] \in Int /\ c[i] \in Int
      BY <1>2, <1>3, <2>1
    <3> QED BY <2>4, <3>2, <3>3, <3>4
  <2> QED BY <2>3, <2>4
<1> QED BY <1>4, <1>5, <1>6

(* The sliding sum is the sum of the window.                               *)
LEMMA SlidingIsWindow ==
  ASSUME NEW c \in Seq(Int), NEW p \in Nat \ {0}
  PROVE  \A i \in 0 .. Len(c) : SlidingSum(c, p)[i] = WindowSum(c, p, i)
<1> DEFINE n == Len(c)
           Leaves(i) == IF i > p THEN c[i - p] ELSE 0
           Turn(f) == [i \in 0 .. n |-> IF i = 0 THEN 0 ELSE f[i - 1] + c[i] - Leaves(i)]
           sum == SlidingSum(c, p)
           window == [i \in 0 .. n |-> WindowSum(c, p, i)]
           T == {i \in 0 .. n : sum[i] = window[i]}
<1>1. sum = CHOOSE f : f = Turn(f)
  BY DEF SlidingSum
<1>2. n \in Nat
  OBVIOUS
<1>3. \A i \in 1 .. n : i - 1 \in 0 .. n
  BY <1>2
<1> HIDE DEF Leaves
<1>4. /\ window[0] = 0
      /\ \A i \in 1 .. n : window[i] = window[i - 1] + c[i] - Leaves(i)
  BY <1>2, <1>3, WindowSlides DEF Leaves
<1> HIDE DEF n
<1>5. window = Turn(window)
  <2>1. window = [i \in 0 .. n |-> window[i]]
    OBVIOUS
  <2> HIDE DEF window
  <2>2. \A i \in 0 .. n : window[i] = IF i = 0 THEN 0 ELSE window[i - 1] + c[i] - Leaves(i)
    BY <1>2, <1>4
  <2> QED BY <2>1, <2>2
<1>6. sum = Turn(sum)
  BY <1>1, <1>5
<1> HIDE DEF sum
<1>7. sum[0] = 0 /\ \A i \in 1 .. n : sum[i] = sum[i - 1] + c[i] - Leaves(i)
  <2> DEFINE g == Turn(sum)
  <2>1. g[0] = 0 /\ \A i \in 1 .. n : g[i] = sum[i - 1] + c[i] - Leaves(i)
    BY <1>2
  <2> QED BY <1>6, <2>1
<1> HIDE DEF window
<1>8. 0 .. n \subseteq T
  <2>1. 0 \in T
    BY <1>2, <1>4, <1>7
  <2>2. \A i \in 1 .. n : i - 1 \in T => i \in T
    BY <1>2, <1>4, <1>7
  <2> HIDE DEF T
  <2> QED BY <1>2, <2>1, <2>2, Induction
<1> QED BY <1>8 DEF window, sum, n

(* Each point of the series is the mean of the closes of its window.       *)
LEMMA SeriesIsMeans ==
  ASSUME NEW c \in Seq(Int), NEW p \in Nat \ {0}, NEW i \in 1 .. Len(c)
  PROVE  SmaSeries(c, p)[i] = IF i < p THEN Null ELSE <<Total(SubSeq(c, i - p + 1, i)), p>>
<1>1. SmaSeries(c, p)[i] = IF i >= p THEN <<SlidingSum(c, p)[i], p>> ELSE Null
  BY DEF SmaSeries
<1>2. SlidingSum(c, p)[i] = WindowSum(c, p, i)
  <2>1. i \in 0 .. Len(c)
    OBVIOUS
  <2> QED BY <2>1, SlidingIsWindow
<1>3. CASE i >= p
  <2>1. i - p \in 0 .. Len(c) /\ i \in (i - p) .. Len(c)
    BY <1>3
  <2>2. Total(SubSeq(c, (i - p) + 1, i)) = Totals(c)[i] - Totals(c)[i - p]
    BY <2>1, TotalOfPart
  <2>3. WindowSum(c, p, i) = Totals(c)[i] - Totals(c)[i - p]
    <3>1. CASE i = p
      BY <3>1, TotalsInTurn DEF WindowSum
    <3>2. CASE i > p
      BY <3>2 DEF WindowSum
    <3> QED BY <1>3, <3>1, <3>2
  <2> QED BY <1>1, <1>2, <1>3, <2>2, <2>3
<1>4. CASE ~(i >= p)
  BY <1>1, <1>4
<1> QED BY <1>3, <1>4

(* The headline average is the last point of the series.                   *)
LEMMA HeadlineIsLast ==
  ASSUME NEW c \in Seq(Int), c # <<>>, NEW p \in Nat \ {0}
  PROVE  /\ Sma(c, p) = SmaSeries(c, p)[Len(c)]
         /\ Sma(c, p) = Null <=> Len(c) < p
<1>1. Len(c) \in 1 .. Len(c)
  OBVIOUS
<1>2. SmaSeries(c, p)[Len(c)]
          = IF Len(c) < p THEN Null ELSE <<Total(SubSeq(c, Len(c) - p + 1, Len(c))), p>>
  BY <1>1, SeriesIsMeans
<1>3. \A x : <<x, p>> # Null
  BY DEF Null
<1> QED BY <1>2, <1>3 DEF Sma

(* A price is positive, and so is the denominator of a fraction.           *)
Positive == Nat \ {0}
Fraction == Int \X Positive

(* Fractions are ordered by the products of what stands across.            *)
LEMMA CrossProducts ==
  ASSUME NEW a \in Int, NEW b \in Positive, NEW c \in Int, NEW d \in Positive, NEW e \in Int,
         NEW f \in Positive,
         a * d <= c * b, c * f <= e * d
  PROVE  a * f <= e * b
<1>1. (a * d) * f <= (c * b) * f
  BY DEF Positive
<1>2. (c * f) * b <= (e * d) * b
  BY DEF Positive
<1>3. (a * f) * d <= (e * b) * d
  BY <1>1, <1>2 DEF Positive
<1> QED BY <1>3 DEF Positive

(* Fractions are compared by cross-multiplication, which is a total        *)
(* order.                                                                  *)
LEMMA AtMostIsOrder ==
  /\ \A x \in Fraction : AtMost(x, x)
  /\ \A x, y \in Fraction : AtMost(x, y) \/ Less(y, x)
  /\ \A x, y \in Fraction : Less(x, y) => AtMost(x, y)
  /\ \A x, y, z \in Fraction : AtMost(x, y) /\ AtMost(y, z) => AtMost(x, z)
<1>1. ASSUME NEW x \in Fraction, NEW y \in Fraction
      PROVE  AtMost(x, y) <=> x[1] * y[2] <= y[1] * x[2]
  <2>1. x[1] \in Int /\ x[2] \in Int /\ y[1] \in Int /\ y[2] \in Int
    BY DEF Fraction, Positive
  <2>2. \A p, q \in Int : ~(q < p) <=> p <= q
    OBVIOUS
  <2>3. x[1] * y[2] \in Int /\ y[1] * x[2] \in Int
    BY <2>1
  <2> QED BY <2>2, <2>3 DEF AtMost, Less
<1>2. ASSUME NEW x \in Fraction PROVE AtMost(x, x)
  <2>1. x[1] * x[2] \in Int
    BY DEF Fraction, Positive
  <2> QED BY <1>1, <2>1
<1>3. ASSUME NEW x \in Fraction, NEW y \in Fraction, Less(x, y) PROVE AtMost(x, y)
  <2>1. x[1] * y[2] \in Int /\ y[1] * x[2] \in Int
    BY DEF Fraction, Positive
  <2>2. \A p, q \in Int : p < q => p <= q
    OBVIOUS
  <2> QED BY <1>1, <1>3, <2>1, <2>2 DEF Less
<1>4. ASSUME NEW x \in Fraction, NEW y \in Fraction, NEW z \in Fraction, AtMost(x, y), AtMost(y, z)
      PROVE  AtMost(x, z)
  <2>1. /\ x[1] \in Int /\ y[1] \in Int /\ z[1] \in Int
        /\ x[2] \in Positive /\ y[2] \in Positive /\ z[2] \in Positive
    BY DEF Fraction
  <2>2. x[1] * y[2] <= y[1] * x[2] /\ y[1] * z[2] <= z[1] * y[2]
    BY <1>1, <1>4
  <2>3. x[1] * z[2] <= z[1] * x[2]
    BY <2>1, <2>2, CrossProducts
  <2> QED BY <1>1, <2>3
<1> QED BY <1>2, <1>3, <1>4 DEF AtMost

(* The fall from one price to a later one.                                 *)
Fall(from, to) == <<(to - from) * 100, from>>

(* A fall in per cent is a fraction.                                       *)
LEMMA FallIsFraction ==
  ASSUME NEW from \in Positive, NEW to \in Positive
  PROVE  Fall(from, to) \in Fraction
BY DEF Fall, Fraction, Positive

(* The fall from a higher price is the worse.                              *)
LEMMA HigherIsWorse ==
  ASSUME NEW low \in Positive, NEW high \in Positive, NEW to \in Positive, low <= high
  PROVE  AtMost(Fall(high, to), Fall(low, to))
<1>1. to * low <= to * high
  BY DEF Positive
<1>2. ((to - high) * 100) * low = (to * low) * 100 - (high * low) * 100
  BY DEF Positive
<1>3. ((to - low) * 100) * high = (to * high) * 100 - (high * low) * 100
  BY DEF Positive
<1>4. to * low \in Int /\ to * high \in Int /\ high * low \in Int
  BY DEF Positive
<1>5. \A x, y, z \in Int : x <= y => ~(y * 100 - z * 100 < x * 100 - z * 100)
  OBVIOUS
<1>6. ~(((to - low) * 100) * high < ((to - high) * 100) * low)
  BY <1>1, <1>2, <1>3, <1>4, <1>5
<1> QED BY <1>6 DEF AtMost, Less, Fall

(* What is known after the first i prices: the peak is the highest, and    *)
(* the worst is the fall from some price to a later one, and no better     *)
(* than any other.                                                         *)
Peak(c, i, peak) == /\ \A j \in 1 .. i : c[j] <= peak
                    /\ \E j \in 1 .. i : c[j] = peak

Worst(c, i, worst) ==
  /\ \A to \in 1 .. i : \A from \in 1 .. to : AtMost(worst, Fall(c[from], c[to]))
  /\ \E to \in 1 .. i : \E from \in 1 .. to : Same(worst, Fall(c[from], c[to]))

Fallen == [peak : Positive, worst : Fraction]

(* One price more.                                                         *)
Later(acc, close) ==
  LET peak == IF close > acc.peak THEN close ELSE acc.peak
  IN  [peak |-> peak,
       worst |-> IF peak > 0 /\ Less(Fall(peak, close), acc.worst)
                 THEN Fall(peak, close) ELSE acc.worst]

(* One price more keeps the peak and the worst fall what they are called.  *)
LEMMA LaterIsFallen ==
  ASSUME NEW acc \in Fallen, NEW close \in Positive
  PROVE  /\ Later(acc, close) \in Fallen
         /\ Later(acc, close).peak = IF close > acc.peak THEN close ELSE acc.peak
         /\ Later(acc, close).worst = IF Less(Fall(Later(acc, close).peak, close), acc.worst)
                                      THEN Fall(Later(acc, close).peak, close) ELSE acc.worst
<1> DEFINE peak == IF close > acc.peak THEN close ELSE acc.peak
<1>1. peak \in Positive /\ peak > 0
  BY DEF Fallen, Positive
<1>2. Fall(peak, close) \in Fraction
  BY <1>1, FallIsFraction
<1>3. Later(acc, close) =
        [peak |-> peak,
         worst |-> IF peak > 0 /\ Less(Fall(peak, close), acc.worst)
                   THEN Fall(peak, close) ELSE acc.worst]
  BY DEF Later
<1> HIDE DEF peak
<1>4. acc.worst \in Fraction
  BY DEF Fallen
<1>5. Later(acc, close) \in Fallen
  BY <1>1, <1>2, <1>3, <1>4 DEF Fallen
<1> QED BY <1>1, <1>3, <1>5 DEF peak

(* The accumulator, from one price to the next.                            *)
LEMMA DrawdownsInTurn ==
  ASSUME NEW c \in Seq(Positive), c # <<>>
  PROVE  /\ Drawdowns(c)[0] = [peak |-> c[1], worst |-> <<0, 1>>]
         /\ \A i \in 0 .. Len(c) : Drawdowns(c)[i] \in Fallen
         /\ \A i \in 1 .. Len(c) : Drawdowns(c)[i] = Later(Drawdowns(c)[i - 1], c[i])
<1> DEFINE n == Len(c)
           base == [peak |-> c[1], worst |-> <<0, 1>>]
           step == [p \in Fallen \X (1 .. n) |-> Later(p[1], c[p[2]])]
           Turn(f) == [i \in 0 .. n |-> IF i = 0 THEN base ELSE Later(f[i - 1], c[i])]
           acc == Drawdowns(c)
<1>1. acc = CHOOSE f : f = Turn(f)
  BY DEF Drawdowns, Later, Fall
<1>2. n \in Nat /\ \A i \in 1 .. n : c[i] \in Positive
  OBVIOUS
<1>3. base \in Fallen
  <2>1. c[1] \in Positive
    OBVIOUS
  <2> QED BY <2>1 DEF Fallen, Fraction, Positive
<1> HIDE DEF n, base
<1>4. step \in [Fallen \X (1 .. n) -> Fallen]
  BY <1>2, LaterIsFallen
<1>5. PICK f : IsRun(f, Fallen, n, base, step)
  <2> HIDE DEF step
  <2> QED BY <1>2, <1>3, <1>4, RunExists
<1>6. \A i \in 1 .. n : i - 1 \in 0 .. n
  BY <1>2
<1>7. f = Turn(f)
  <2>1. \A i \in 1 .. n : f[i] = Later(f[i - 1], c[i])
    <3> SUFFICES ASSUME NEW i \in 1 .. n PROVE f[i] = Later(f[i - 1], c[i])
      OBVIOUS
    <3>1. f[i - 1] \in Fallen /\ f[i] = step[<<f[i - 1], i>>]
      BY <1>5, <1>6 DEF IsRun
    <3> QED BY <3>1
  <2>2. f \in [0 .. n -> Fallen] /\ f[0] = base
    BY <1>5 DEF IsRun
  <2> QED BY <1>2, <2>1, <2>2
<1>8. acc = Turn(acc)
  BY <1>1, <1>7
<1> HIDE DEF acc
<1>9. acc[0] = base /\ \A i \in 1 .. n : acc[i] = Later(acc[i - 1], c[i])
  <2> DEFINE g == Turn(acc)
  <2>1. g[0] = base /\ \A i \in 1 .. n : g[i] = Later(acc[i - 1], c[i])
    BY <1>2
  <2> QED BY <1>8, <2>1
<1>10. 0 .. n \subseteq {i \in 0 .. n : acc[i] \in Fallen}
  <2> DEFINE T == {i \in 0 .. n : acc[i] \in Fallen}
  <2>1. 0 \in T
    BY <1>2, <1>3, <1>9
  <2>2. \A i \in 1 .. n : i - 1 \in T => i \in T
    BY <1>2, <1>9, LaterIsFallen
  <2> HIDE DEF T
  <2> QED BY <1>2, <2>1, <2>2, Induction DEF T
<1> QED BY <1>9, <1>10 DEF acc, n, base

(* The peak and the worst fall after the first price ...                   *)
LEMMA FirstPrice ==
  ASSUME NEW c \in Seq(Positive), c # <<>>,
         NEW next, next = Later([peak |-> c[1], worst |-> <<0, 1>>], c[1])
  PROVE  Peak(c, 1, next.peak) /\ Worst(c, 1, next.worst)
<1> DEFINE base == [peak |-> c[1], worst |-> <<0, 1>>]
<1>1. c[1] \in Positive
  OBVIOUS
<1>2. base \in Fallen
  BY <1>1 DEF Fallen, Fraction, Positive
<1>3. base.peak = c[1] /\ base.worst = <<0, 1>>
  OBVIOUS
<1> HIDE DEF base
<1>4. Fall(c[1], c[1]) = <<0, c[1]>>
  BY <1>1 DEF Fall, Positive
<1>5. next.peak = c[1]
  BY <1>1, <1>2, <1>3, LaterIsFallen DEF base
<1>6. ~Less(<<0, c[1]>>, <<0, 1>>) /\ ~Less(<<0, 1>>, <<0, c[1]>>) /\ Same(<<0, 1>>, <<0, c[1]>>)
  BY <1>1 DEF Less, Same, Positive
<1>7. next.worst = <<0, 1>>
  BY <1>1, <1>2, <1>3, <1>4, <1>5, <1>6, LaterIsFallen DEF base
<1>8. 1 .. 1 = {1}
  OBVIOUS
<1>9. Peak(c, 1, next.peak)
  BY <1>1, <1>5, <1>8 DEF Peak, Positive
<1>10. AtMost(<<0, 1>>, Fall(c[1], c[1])) /\ Same(<<0, 1>>, Fall(c[1], c[1]))
  BY <1>4, <1>6 DEF AtMost
<1>11. Worst(c, 1, next.worst)
  BY <1>7, <1>8, <1>10 DEF Worst
<1> QED BY <1>9, <1>11

(* ... and after each further one.                                         *)
LEMMA FurtherPrice ==
  ASSUME NEW c \in Seq(Positive), NEW i \in 2 .. Len(c), NEW acc \in Fallen,
         Peak(c, i - 1, acc.peak), Worst(c, i - 1, acc.worst),
         NEW next, next = Later(acc, c[i])
  PROVE  Peak(c, i, next.peak) /\ Worst(c, i, next.worst)
<1> DEFINE fall == Fall(next.peak, c[i])
<1>1. /\ \A j \in 1 .. i : c[j] \in Positive
      /\ 1 .. i - 1 \subseteq 1 .. i /\ i \in 1 .. i /\ \A j \in 1 .. i : j = i \/ j \in 1 .. i - 1
  OBVIOUS
<1>2. acc.peak \in Positive /\ acc.worst \in Fraction
  BY DEF Fallen
<1>3. next \in Fallen /\ next.peak \in Positive /\ next.worst \in Fraction
  BY <1>1, LaterIsFallen DEF Fallen
<1>4. next.peak = IF c[i] > acc.peak THEN c[i] ELSE acc.peak
  BY <1>1, LaterIsFallen
<1>5. next.worst = IF Less(fall, acc.worst) THEN fall ELSE acc.worst
  BY <1>1, LaterIsFallen
<1>6. Peak(c, i, next.peak)
  <2>1. \A j \in 1 .. i - 1 : c[j] <= acc.peak
    BY DEF Peak
  <2>2. acc.peak <= next.peak /\ c[i] <= next.peak
    BY <1>1, <1>2, <1>4 DEF Positive
  <2>3. \A x, y, z \in Positive : x <= y /\ y <= z => x <= z
    BY DEF Positive
  <2>4. \A j \in 1 .. i : c[j] <= next.peak
    BY <1>1, <1>2, <1>3, <2>1, <2>2, <2>3
  <2>5. \E j \in 1 .. i : c[j] = next.peak
    <3>1. CASE next.peak = c[i]
      BY <1>1, <3>1
    <3>2. CASE next.peak = acc.peak
      BY <1>1, <3>2 DEF Peak
    <3> QED BY <1>4, <3>1, <3>2
  <2> QED BY <2>4, <2>5 DEF Peak
<1>7. fall \in Fraction
  BY <1>1, <1>3, FallIsFraction
<1>8. AtMost(next.worst, fall) /\ AtMost(next.worst, acc.worst)
  BY <1>2, <1>5, <1>7, AtMostIsOrder DEF AtMost
<1>9. \A from \in 1 .. i : AtMost(fall, Fall(c[from], c[i]))
  BY <1>1, <1>3, <1>6, HigherIsWorse DEF Peak
<1> HIDE DEF fall
<1>10. \A to, from \in 1 .. i : Fall(c[from], c[to]) \in Fraction
  BY <1>1, FallIsFraction
<1>11. ASSUME NEW to \in 1 .. i, NEW from \in 1 .. to PROVE AtMost(next.worst, Fall(c[from], c[to]))
  <2>1. from \in 1 .. i
    OBVIOUS
  <2>2. CASE to = i
    BY <1>3, <1>7, <1>8, <1>9, <1>10, <2>1, <2>2, AtMostIsOrder
  <2>3. CASE to \in 1 .. i - 1
    <3>1. AtMost(acc.worst, Fall(c[from], c[to]))
      BY <2>3 DEF Worst
    <3> QED BY <1>2, <1>3, <1>8, <1>10, <2>1, <3>1, AtMostIsOrder
  <2> QED BY <1>1, <2>2, <2>3
<1>12. \E to \in 1 .. i : \E from \in 1 .. to : Same(next.worst, Fall(c[from], c[to]))
  <2>1. CASE next.worst = acc.worst
    BY <1>1, <2>1 DEF Worst
  <2>2. CASE next.worst = fall
    <3>1. PICK j \in 1 .. i : c[j] = next.peak
      BY <1>6 DEF Peak
    <3>2. Same(next.worst, Fall(c[j], c[i]))
      BY <2>2, <3>1 DEF Same, fall
    <3> QED BY <1>1, <3>2
  <2> QED BY <1>5, <2>1, <2>2
<1> QED BY <1>6, <1>11, <1>12 DEF Worst

(* The drawdown is the worst fall between any two prices.                  *)
LEMMA DrawdownIsWorst ==
  ASSUME NEW c \in Seq(Positive), c # <<>>
  PROVE  /\ MaxDrawdownPct(c) \in Fraction
         /\ \A f \in Falls(c) : AtMost(MaxDrawdownPct(c), f)
         /\ \E f \in Falls(c) : Same(MaxDrawdownPct(c), f)
<1> DEFINE n == Len(c)
           acc == Drawdowns(c)
           T == {i \in 0 .. n : i > 0 => Peak(c, i, acc[i].peak) /\ Worst(c, i, acc[i].worst)}
<1>1. n \in Nat /\ n > 0
  OBVIOUS
<1>2. /\ acc[0] = [peak |-> c[1], worst |-> <<0, 1>>]
      /\ \A i \in 0 .. n : acc[i] \in Fallen
      /\ \A i \in 1 .. n : acc[i] = Later(acc[i - 1], c[i])
  BY DrawdownsInTurn
<1> HIDE DEF acc
<1>3. 0 \in T
  BY <1>1
<1>4. \A i \in 1 .. n : i - 1 \in T => i \in T
  <2> SUFFICES ASSUME NEW i \in 1 .. n, i - 1 \in T
               PROVE  Peak(c, i, acc[i].peak) /\ Worst(c, i, acc[i].worst)
    BY <1>1
  <2>1. CASE i = 1
    BY <1>2, <2>1, FirstPrice
  <2>2. CASE i # 1
    <3>1. i \in 2 .. Len(c) /\ i - 1 \in 0 .. n /\ i - 1 > 0
      BY <2>2
    <3>2. Peak(c, i - 1, acc[i - 1].peak) /\ Worst(c, i - 1, acc[i - 1].worst)
      BY <3>1
    <3>3. acc[i - 1] \in Fallen /\ acc[i] = Later(acc[i - 1], c[i])
      BY <1>2, <3>1
    <3> HIDE DEF T
    <3> QED BY <3>1, <3>2, <3>3, FurtherPrice
  <2> QED BY <2>1, <2>2
<1>5. n \in T
  <2>1. n \in 0 .. n
    BY <1>1
  <2> HIDE DEF T, n
  <2>2. 0 .. n \subseteq T
    BY <1>1, <1>3, <1>4, Induction
  <2> QED BY <2>1, <2>2
<1>6. /\ MaxDrawdownPct(c) = acc[n].worst /\ acc[n].worst \in Fraction
      /\ Worst(c, n, MaxDrawdownPct(c))
  BY <1>1, <1>2, <1>5 DEF MaxDrawdownPct, acc, Fallen
<1> HIDE DEF T
<1>7. ASSUME NEW f \in Falls(c) PROVE AtMost(MaxDrawdownPct(c), f)
  <2>1. PICK q \in (1 .. n) \X (1 .. n) : q[1] <= q[2] /\ f = Fall(c[q[1]], c[q[2]])
    BY DEF Falls, Fall
  <2>2. q[2] \in 1 .. n /\ q[1] \in 1 .. q[2]
    BY <2>1
  <2> QED BY <1>6, <2>1, <2>2 DEF Worst
<1>8. \E f \in Falls(c) : Same(MaxDrawdownPct(c), f)
  <2>1. PICK to \in 1 .. n : \E from \in 1 .. to : Same(MaxDrawdownPct(c), Fall(c[from], c[to]))
    BY <1>6 DEF Worst
  <2>2. PICK from \in 1 .. to : Same(MaxDrawdownPct(c), Fall(c[from], c[to]))
    BY <2>1
  <2>3. <<from, to>> \in (1 .. n) \X (1 .. n) /\ from <= to
    BY <1>1
  <2>4. Fall(c[from], c[to]) \in Falls(c)
    BY <2>3 DEF Falls, Fall
  <2> QED BY <2>2, <2>4
<1> QED BY <1>6, <1>7, <1>8

(* A gain and a loss are not negative.                                     *)
LEMMA GainAndLoss ==
  ASSUME NEW c \in Seq(Int), NEW i \in 2 .. Len(c)
  PROVE  Gain(c, i) \in Nat /\ Loss(c, i) \in Nat
<1>1. c[i] \in Int /\ c[i - 1] \in Int
  OBVIOUS
<1> QED BY <1>1 DEF Gain, Loss

Average == [gain : Nat, loss : Nat, scale : Positive]

Swapped(a) == [gain |-> a.loss, loss |-> a.gain, scale |-> a.scale]

(* One price more, with the gain and the loss it brings.                   *)
Smoothed(a, gain, loss, p) ==
  [gain |-> a.gain * (p - 1) + gain * a.scale * p,
   loss |-> a.loss * (p - 1) + loss * a.scale * p,
   scale |-> a.scale * p]

(* Wilder's smoothing keeps averages averages, and does to the mirror      *)
(* what it does to the original with gain and loss swapped.                *)
LEMMA SmoothedIsAverage ==
  ASSUME NEW a \in Average, NEW gain \in Nat, NEW loss \in Nat, NEW p \in Nat \ {0}
  PROVE  /\ Smoothed(a, gain, loss, p) \in Average
         /\ Smoothed(Swapped(a), loss, gain, p) = Swapped(Smoothed(a, gain, loss, p))
<1>1. a.gain \in Nat /\ a.loss \in Nat /\ a.scale \in Positive
  BY DEF Average
<1>2. ASSUME NEW x \in Nat, NEW y \in Nat, NEW z \in Positive
      PROVE  x * (p - 1) + y * z * p \in Nat /\ z * p \in Positive
  <2>1. x * (p - 1) \in Nat /\ y * z \in Nat
    BY DEF Positive
  <2>2. (y * z) * p \in Nat
    BY <2>1
  <2>3. z * p \in Positive
    BY DEF Positive
  <2>4. \A u, v \in Nat : u + v \in Nat
    OBVIOUS
  <2> QED BY <2>1, <2>2, <2>3, <2>4
<1>3. Smoothed(a, gain, loss, p) \in Average
  BY <1>1, <1>2 DEF Smoothed, Average
<1>4. Smoothed(Swapped(a), loss, gain, p) = Swapped(Smoothed(a, gain, loss, p))
  BY DEF Smoothed, Swapped
<1> QED BY <1>3, <1>4

(* The averages of the first gains and losses.                             *)
Seed(c, p) == [gain |-> Total([i \in 1 .. p |-> Gain(c, i + 1)]),
               loss |-> Total([i \in 1 .. p |-> Loss(c, i + 1)]), scale |-> 1]

(* The first averages are averages.                                        *)
LEMMA SeedIsAverage ==
  ASSUME NEW c \in Seq(Int), NEW p \in Nat \ {0}, p < Len(c)
  PROVE  Seed(c, p) \in Average
<1>1. ASSUME NEW i \in 1 .. p PROVE Gain(c, i + 1) \in Nat /\ Loss(c, i + 1) \in Nat
  <2>1. i + 1 \in 2 .. Len(c)
    OBVIOUS
  <2> QED BY <2>1, GainAndLoss
<1> DEFINE gains == [i \in 1 .. p |-> Gain(c, i + 1)]
           losses == [i \in 1 .. p |-> Loss(c, i + 1)]
<1>2. gains \in Seq(Nat) /\ losses \in Seq(Nat)
  BY <1>1
<1> HIDE DEF gains, losses
<1>3. Total(gains) \in Nat /\ Total(losses) \in Nat
  BY <1>2, TotalIsNat
<1> QED BY <1>3 DEF Seed, Average, Positive, gains, losses

(* The averages, from one price to the next.                               *)
LEMMA AveragesInTurn ==
  ASSUME NEW c \in Seq(Int), NEW p \in Nat \ {0}, p < Len(c)
  PROVE  /\ Averages(c, p)[p + 1] = Seed(c, p)
         /\ \A i \in p + 1 .. Len(c) : Averages(c, p)[i] \in Average
         /\ \A i \in p + 2 .. Len(c) :
              Averages(c, p)[i] = Smoothed(Averages(c, p)[i - 1], Gain(c, i), Loss(c, i), p)
<1> DEFINE n == Len(c)
           m == n - (p + 1)
           seed == Seed(c, p)
           Onward(a, i) == Smoothed(a, Gain(c, i), Loss(c, i), p)
           step == [q \in Average \X (1 .. m) |-> Onward(q[1], q[2] + (p + 1))]
           Turn(f) == [i \in p + 1 .. n |-> IF i = p + 1 THEN seed ELSE Onward(f[i - 1], i)]
           avg == Averages(c, p)
<1>1. avg = CHOOSE f : f = Turn(f)
  BY DEF Averages, Seed, Smoothed
<1>2. n \in Nat /\ m \in Nat /\ n = m + (p + 1) /\ p + 1 \in p + 1 .. n
  OBVIOUS
<1>3. \A i \in p + 1 .. n : i \in 2 .. n
  BY <1>2
<1>4. \A i \in p + 1 .. n : \A a \in Average : Onward(a, i) \in Average
  BY <1>3, GainAndLoss, SmoothedIsAverage
<1>5. seed \in Average
  BY SeedIsAverage
<1> HIDE DEF seed, Onward
<1>6. step \in [Average \X (1 .. m) -> Average]
  <2>1. ASSUME NEW q \in Average \X (1 .. m) PROVE Onward(q[1], q[2] + (p + 1)) \in Average
    <3>1. q[1] \in Average /\ q[2] + (p + 1) \in p + 1 .. n
      BY <1>2
    <3> QED BY <1>4, <3>1
  <2> QED BY <2>1
<1>7. PICK g : IsRun(g, Average, m, seed, step)
  <2> HIDE DEF step, m
  <2> QED BY <1>2, <1>5, <1>6, RunExists
<1> DEFINE f == [i \in p + 1 .. n |-> g[i - (p + 1)]]
<1>8. f = Turn(f)
  <2>1. f[p + 1] = seed
    <3>1. (p + 1) - (p + 1) = 0
      OBVIOUS
    <3> QED BY <1>2, <1>7, <3>1 DEF IsRun
  <2>2. \A i \in p + 2 .. n : f[i] = Onward(f[i - 1], i)
    <3> SUFFICES ASSUME NEW i \in p + 2 .. n PROVE f[i] = Onward(f[i - 1], i)
      OBVIOUS
    <3> DEFINE k == i - (p + 1)
    <3>1. k \in 1 .. m /\ k - 1 \in 0 .. m /\ k + (p + 1) = i /\ (i - 1) - (p + 1) = k - 1
      BY <1>2
    <3>2. f[i] = g[k] /\ f[i - 1] = g[k - 1]
      BY <1>2, <3>1
    <3> HIDE DEF f, k
    <3>3. g[k - 1] \in Average /\ g[k] = step[<<g[k - 1], k>>]
      BY <1>7, <3>1 DEF IsRun
    <3>4. g[k] = Onward(g[k - 1], k + (p + 1))
      BY <3>1, <3>3
    <3> QED BY <3>1, <3>2, <3>4
  <2>3. f = [i \in p + 1 .. n |-> f[i]]
    OBVIOUS
  <2> HIDE DEF f
  <2>4. \A i \in p + 1 .. n : i = p + 1 \/ i \in p + 2 .. n
    BY <1>2
  <2>5. \A i \in p + 1 .. n : f[i] = IF i = p + 1 THEN seed ELSE Onward(f[i - 1], i)
    BY <2>1, <2>2, <2>4
  <2> QED BY <2>3, <2>5
<1>9. avg = Turn(avg)
  BY <1>1, <1>8
<1> HIDE DEF avg
<1>10. avg[p + 1] = seed /\ \A i \in p + 2 .. n : avg[i] = Onward(avg[i - 1], i)
  <2> DEFINE h == Turn(avg)
  <2>1. h[p + 1] = seed /\ \A i \in p + 2 .. n : h[i] = Onward(avg[i - 1], i)
    BY <1>2
  <2> QED BY <1>9, <2>1
<1>11. \A i \in p + 1 .. n : avg[i] \in Average
  <2> DEFINE T == {k \in 0 .. m : avg[k + (p + 1)] \in Average}
  <2>1. 0 \in T
    <3>1. 0 + (p + 1) = p + 1 /\ 0 \in 0 .. m
      BY <1>2
    <3> QED BY <1>5, <1>10, <3>1
  <2>2. \A k \in 1 .. m : k - 1 \in T => k \in T
    <3> SUFFICES ASSUME NEW k \in 1 .. m, k - 1 \in T PROVE k \in T
      OBVIOUS
    <3>1. /\ k + (p + 1) \in p + 2 .. n /\ k + (p + 1) \in p + 1 .. n
          /\ (k + (p + 1)) - 1 = (k - 1) + (p + 1) /\ k \in 0 .. m
      BY <1>2
    <3>2. avg[(k - 1) + (p + 1)] \in Average
      OBVIOUS
    <3> QED BY <1>4, <1>10, <3>1, <3>2
  <2>3. \A i \in p + 1 .. n : i - (p + 1) \in 0 .. m /\ (i - (p + 1)) + (p + 1) = i
    BY <1>2
  <2> HIDE DEF m
  <2>4. 0 .. m \subseteq T
    <3> HIDE DEF T
    <3> QED BY <1>2, <2>1, <2>2, Induction
  <2> QED BY <2>3, <2>4
<1> QED BY <1>10, <1>11 DEF avg, n, seed, Onward

(* Upside down, a gain is a loss.                                          *)
LEMMA MirrorSwaps ==
  ASSUME NEW c \in Seq(1 .. MaxPrice)
  PROVE  /\ Mirror(c) \in Seq(1 .. MaxPrice) /\ Len(Mirror(c)) = Len(c)
         /\ \A i \in 2 .. Len(c) : Gain(Mirror(c), i) = Loss(c, i)
                /\ Loss(Mirror(c), i) = Gain(c, i)
<1>1. MaxPrice \in Nat
  BY AnalyticsConstants
<1>2. \A i \in 1 .. Len(c) : c[i] \in Int /\ MaxPrice + 1 - c[i] \in 1 .. MaxPrice
  BY <1>1
<1>3. Mirror(c) \in Seq(1 .. MaxPrice) /\ Len(Mirror(c)) = Len(c)
  BY <1>2 DEF Mirror
<1>4. ASSUME NEW i \in 2 .. Len(c)
      PROVE  Gain(Mirror(c), i) = Loss(c, i) /\ Loss(Mirror(c), i) = Gain(c, i)
  <2>1. i \in 1 .. Len(c) /\ i - 1 \in 1 .. Len(c)
    OBVIOUS
  <2>2. Mirror(c)[i] = MaxPrice + 1 - c[i] /\ Mirror(c)[i - 1] = MaxPrice + 1 - c[i - 1]
    BY <2>1 DEF Mirror
  <2>3. c[i] \in Int /\ c[i - 1] \in Int
    BY <1>2, <2>1
  <2>4. ASSUME NEW x \in Int, NEW y \in Int
        PROVE  /\ (IF MaxPrice + 1 - x > MaxPrice + 1 - y
                    THEN (MaxPrice + 1 - x) - (MaxPrice + 1 - y) ELSE 0)
                    = (IF x < y THEN y - x ELSE 0)
               /\ (IF MaxPrice + 1 - x < MaxPrice + 1 - y
                    THEN (MaxPrice + 1 - y) - (MaxPrice + 1 - x) ELSE 0)
                    = (IF x > y THEN x - y ELSE 0)
    BY <1>1
  <2> QED BY <2>2, <2>3, <2>4 DEF Gain, Loss
<1> QED BY <1>3, <1>4

(* Prices in whole cents are positive numbers.                             *)
LEMMA PricesAreNumbers ==
  ASSUME NEW c \in Seq(1 .. MaxPrice)
  PROVE  c \in Seq(Positive) /\ c \in Seq(Int)
<1>1. 1 .. MaxPrice \subseteq Positive /\ 1 .. MaxPrice \subseteq Int
  BY AnalyticsConstants DEF Positive
<1>2. /\ c = [i \in 1 .. Len(c) |-> c[i]] /\ Len(c) \in Nat
      /\ \A i \in 1 .. Len(c) : c[i] \in Positive /\ c[i] \in Int
  <2>1. c = [i \in 1 .. Len(c) |-> c[i]] /\ Len(c) \in Nat
    OBVIOUS
  <2>2. \A i \in 1 .. Len(c) : c[i] \in 1 .. MaxPrice
    BY AnalyticsConstants
  <2> QED BY <1>1, <2>1, <2>2
<1>3. \A S : (\A i \in 1 .. Len(c) : c[i] \in S) => c \in Seq(S)
  BY <1>2
<1> QED BY <1>2, <1>3

(* A mirrored run of prices gains where the original loses, at every bar.  *)
LEMMA AveragesSwap ==
  ASSUME NEW c \in Seq(1 .. MaxPrice), NEW p \in Nat \ {0}, p < Len(c)
  PROVE  \A i \in p + 1 .. Len(c) : Averages(Mirror(c), p)[i] = Swapped(Averages(c, p)[i])
<1> DEFINE n == Len(c)
           m == n - (p + 1)
           d == Mirror(c)
           there == Averages(d, p)
           here == Averages(c, p)
           T == {k \in 0 .. m : there[k + (p + 1)] = Swapped(here[k + (p + 1)])}
<1>1. /\ d \in Seq(Int) /\ c \in Seq(Int) /\ Len(d) = n
      /\ \A i \in 2 .. n : Gain(d, i) = Loss(c, i) /\ Loss(d, i) = Gain(c, i)
  BY MirrorSwaps, PricesAreNumbers
<1>2. n \in Nat /\ m \in Nat /\ n = m + (p + 1) /\ p < n
  OBVIOUS
<1> HIDE DEF d
<1>3. /\ there[p + 1] = Seed(d, p)
      /\ \A i \in p + 2 .. n : there[i] = Smoothed(there[i - 1], Gain(d, i), Loss(d, i), p)
  BY <1>1, <1>2, AveragesInTurn
<1>4. /\ here[p + 1] = Seed(c, p)
      /\ \A i \in p + 1 .. n : here[i] \in Average
      /\ \A i \in p + 2 .. n : here[i] = Smoothed(here[i - 1], Gain(c, i), Loss(c, i), p)
  BY <1>1, <1>2, AveragesInTurn
<1>5. Seed(d, p) = Swapped(Seed(c, p))
  <2>1. \A i \in 1 .. p : i + 1 \in 2 .. n
    BY <1>2
  <2>2. /\ [i \in 1 .. p |-> Gain(d, i + 1)] = [i \in 1 .. p |-> Loss(c, i + 1)]
        /\ [i \in 1 .. p |-> Loss(d, i + 1)] = [i \in 1 .. p |-> Gain(c, i + 1)]
    BY <1>1, <2>1
  <2> QED BY <2>2 DEF Seed, Swapped
<1> HIDE DEF there, here, n
<1>6. 0 \in T
  <2>1. 0 + (p + 1) = p + 1 /\ 0 \in 0 .. m
    BY <1>2
  <2> QED BY <1>3, <1>4, <1>5, <2>1
<1>7. \A k \in 1 .. m : k - 1 \in T => k \in T
  <2> SUFFICES ASSUME NEW k \in 1 .. m, k - 1 \in T PROVE k \in T
    OBVIOUS
  <2> DEFINE i == k + (p + 1)
             a == here[i - 1]
  <2>1. /\ i \in p + 2 .. n /\ i \in 2 .. n /\ i - 1 \in p + 1 .. n
        /\ i - 1 = (k - 1) + (p + 1) /\ k \in 0 .. m
    BY <1>2
  <2>2. there[i - 1] = Swapped(a) /\ a \in Average
    BY <1>4, <2>1
  <2>3. Gain(c, i) \in Nat /\ Loss(c, i) \in Nat /\ Gain(d, i) = Loss(c, i)
        /\ Loss(d, i) = Gain(c, i)
    BY <1>1, <2>1, GainAndLoss DEF n
  <2>4. there[i] = Smoothed(there[i - 1], Gain(d, i), Loss(d, i), p)
    BY <1>3, <2>1
  <2>5. here[i] = Smoothed(a, Gain(c, i), Loss(c, i), p)
    BY <1>4, <2>1
  <2> HIDE DEF i, a
  <2>6. there[i] = Swapped(here[i])
    BY <2>2, <2>3, <2>4, <2>5, SmoothedIsAverage
  <2> QED BY <2>1, <2>6 DEF i
<1>8. \A i \in p + 1 .. n : i - (p + 1) \in 0 .. m /\ (i - (p + 1)) + (p + 1) = i
  BY <1>2
<1> HIDE DEF m
<1>9. 0 .. m \subseteq T
  <2> HIDE DEF T
  <2> QED BY <1>2, <1>6, <1>7, Induction
<1> QED BY <1>8, <1>9 DEF there, here, n, d

(* The RSI lies in 0..100, and upside down it is what is left of 100.      *)
LEMMA RsiIsFair ==
  ASSUME NEW c \in Seq(1 .. MaxPrice), NEW p \in Nat \ {0}
  PROVE  /\ Rsi(c, p) = Null <=> Len(c) <= p
         /\ Rsi(c, p) # Null =>
              /\ Rsi(c, p) \in Fraction
              /\ AtMost(Percent(0), Rsi(c, p)) /\ AtMost(Rsi(c, p), Percent(100))
              /\ Same(Rsi(Mirror(c), p), <<100 * Rsi(c, p)[2] - Rsi(c, p)[1], Rsi(c, p)[2]>>)
<1> DEFINE a == Averages(c, p)[Len(c)]
           b == Averages(Mirror(c), p)[Len(Mirror(c))]
           Index(x) == IF x.loss = 0 THEN (IF x.gain = 0 THEN Percent(50) ELSE Percent(100))
                       ELSE <<100 * x.gain, x.gain + x.loss>>
<1>1. Len(Mirror(c)) = Len(c) /\ Len(c) \in Nat /\ c \in Seq(Int)
  BY MirrorSwaps, PricesAreNumbers
<1>2. CASE Len(c) <= p
  BY <1>1, <1>2 DEF Rsi
<1>3. CASE p < Len(c)
  <2>1. Rsi(c, p) = Index(a) /\ Rsi(Mirror(c), p) = Index(b)
    BY <1>1, <1>3 DEF Rsi
  <2>2. a \in Average /\ b = Swapped(a)
    <3>1. Len(c) \in p + 1 .. Len(c)
      BY <1>1, <1>3
    <3> QED BY <1>1, <1>3, <3>1, AveragesInTurn, AveragesSwap
  <2> HIDE DEF a, b
  <2>3. PICK g \in Nat, l \in Nat : a.gain = g /\ a.loss = l /\ b.gain = l /\ b.loss = g
    BY <2>2 DEF Average, Swapped
  <2>4. Index(a) = IF l = 0 THEN (IF g = 0 THEN <<50, 1>> ELSE <<100, 1>>) ELSE <<100 * g, g + l>>
    BY <2>3 DEF Percent
  <2>5. Index(b) = IF g = 0 THEN (IF l = 0 THEN <<50, 1>> ELSE <<100, 1>>) ELSE <<100 * l, l + g>>
    BY <2>3 DEF Percent
  <2>6. Index(a) \in Fraction
    BY <2>4 DEF Fraction, Positive
  <2> HIDE DEF Index
  <2>7. Rsi(c, p) # Null
    <3>1. \A x, y : <<x, y>> # <<>>
      OBVIOUS
    <3> QED BY <2>1, <2>6, <3>1 DEF Fraction, Null
  <2>8. AtMost(<<0, 1>>, Index(a)) /\ AtMost(Index(a), <<100, 1>>)
    <3>1. CASE l = 0
      BY <2>4, <3>1 DEF AtMost, Less
    <3>2. CASE l # 0
      BY <2>4, <3>2 DEF AtMost, Less
    <3> QED BY <3>1, <3>2
  <2>9. Same(Index(b), <<100 * Index(a)[2] - Index(a)[1], Index(a)[2]>>)
    <3>1. CASE l = 0
      BY <2>4, <2>5, <3>1 DEF Same
    <3>2. CASE l # 0 /\ g = 0
      BY <2>4, <2>5, <3>2 DEF Same
    <3>3. CASE l # 0 /\ g # 0
      <4>1. Index(a) = <<100 * g, g + l>> /\ Index(b) = <<100 * l, l + g>>
        BY <2>4, <2>5, <3>3
      <4>2. 100 * (g + l) - 100 * g = 100 * l /\ g + l = l + g
        OBVIOUS
      <4> QED BY <4>1, <4>2 DEF Same
    <3> QED BY <3>1, <3>2, <3>3
  <2> QED BY <1>3, <2>1, <2>6, <2>7, <2>8, <2>9 DEF Percent
<1> QED BY <1>1, <1>2, <1>3

(* A number is not the null of an indicator that has too few bars.         *)
LEMMA FractionIsKnown ==
  ASSUME NEW f \in Fraction
  PROVE  f # Null
<1>1. PICK x \in Int, y \in Positive : f = <<x, y>>
  BY DEF Fraction
<1>2. <<x, y>> # <<>>
  OBVIOUS
<1> QED BY <1>1, <1>2 DEF Null

(* What is cut from a series: its end, and all of it if it is short.       *)
LEMMA WindowIsEnd ==
  ASSUME NEW S, NEW c \in Seq(S), c # <<>>, NEW want \in Nat \ {0}
  PROVE  LET window == SliceSeriesToRange(c, want)
             w == window.closes
         IN  /\ w \in Seq(S) /\ w # <<>> /\ w[Len(w)] = c[Len(c)]
             /\ Len(w) = (IF Len(c) < want THEN Len(c) ELSE want)
             /\ window.warnings = {} => Len(w) = want
<1> DEFINE w == SliceSeriesToRange(c, want).closes
<1>1. /\ w = IF Len(c) > want THEN SubSeq(c, Len(c) - want + 1, Len(c)) ELSE c
      /\ SliceSeriesToRange(c, want).warnings = IF Len(c) < want THEN {"short window"} ELSE {}
  BY DEF SliceSeriesToRange
<1>2. Len(c) \in Nat /\ Len(c) > 0
  OBVIOUS
<1>3. CASE Len(c) > want
  <2>1. w = SubSeq(c, Len(c) - want + 1, Len(c))
    BY <1>1, <1>3
  <2>2. Len(c) - want + 1 \in 1 .. Len(c)
    BY <1>2, <1>3
  <2> HIDE DEF w
  <2>3. w \in Seq(S) /\ Len(w) = want /\ w[want] = c[Len(c)]
    BY <2>1, <2>2
  <2> QED BY <1>3, <2>3 DEF w
<1>4. CASE ~(Len(c) > want)
  <2>1. w = c
    BY <1>1, <1>4
  <2> HIDE DEF w
  <2>2. w \in Seq(S) /\ w # <<>> /\ w[Len(w)] = c[Len(c)] /\ Len(w) = Len(c)
    BY <2>1
  <2>3. Len(w) = (IF Len(c) < want THEN Len(c) ELSE want)
    BY <1>2, <1>4, <2>2
  <2>4. SliceSeriesToRange(c, want).warnings = {} => Len(w) = want
    <3>1. {"short window"} # {}
      OBVIOUS
    <3>2. CASE Len(c) < want
      BY <1>1, <3>1, <3>2
    <3>3. CASE ~(Len(c) < want)
      BY <1>2, <1>4, <2>2, <3>3
    <3> QED BY <3>2, <3>3
  <2> QED BY <2>2, <2>3, <2>4 DEF w
<1> QED BY <1>3, <1>4

(* The three judgements.                                                   *)
Trend == {"unknown", "uptrend", "downtrend", "sideways"}
Momentum == {"unknown", "overbought", "oversold", "neutral"}
Risk == {"unknown", "high", "low", "medium"}

(* The trend is one of four words, unknown exactly when an average is      *)
(* null (analyzeTrend).                                                    *)
LEMMA TrendIs ==
  ASSUME NEW price, NEW short, NEW long
  PROVE  /\ AnalyzeTrend(price, short, long) \in Trend
         /\ AnalyzeTrend(price, short, long) = "unknown" <=> short = Null \/ long = Null
BY DEF AnalyzeTrend, Trend

(* The momentum is one of its words, unknown exactly when the RSI is       *)
(* null.                                                                   *)
LEMMA MomentumIs ==
  ASSUME NEW rsi
  PROVE  /\ AnalyzeMomentum(rsi) \in Momentum
         /\ AnalyzeMomentum(rsi) = "unknown" <=> rsi = Null
BY DEF AnalyzeMomentum, Momentum

(* The risk is one of its words, unknown exactly when a measure is null.   *)
LEMMA RiskIs ==
  ASSUME NEW vol, NEW dd
  PROVE  /\ AnalyzeRisk(vol, dd) \in Risk
         /\ AnalyzeRisk(vol, dd) = "unknown" <=> vol = Null \/ dd = Null
BY DEF AnalyzeRisk, Risk

(* The score is missing if one of them is unknown, and lies in 0..100.     *)
LEMMA ScoreIs ==
  ASSUME NEW trend \in Trend,
         NEW momentum \in Momentum,
         NEW risk \in Risk
  PROVE  /\ "unknown" \in {trend, momentum, risk} => ComputeScore(trend, momentum, risk) = NoScore
         /\ "unknown" \notin {trend, momentum, risk} =>
              ComputeScore(trend, momentum, risk) \in 0 .. 100
<1> DEFINE score == 50 + Weight[trend] + Weight[momentum] + Weight[risk]
<1>1. CASE "unknown" \in {trend, momentum, risk}
  BY <1>1 DEF ComputeScore
<1>2. CASE "unknown" \notin {trend, momentum, risk}
  <2>1. Weight[trend] \in Int /\ Weight[momentum] \in Int /\ Weight[risk] \in Int
    BY <1>2 DEF Weight, Trend, Momentum, Risk
  <2>2. score \in Int
    BY <2>1
  <2>3. ComputeScore(trend, momentum, risk)
            = IF score < 0 THEN 0 ELSE IF score > 100 THEN 100 ELSE score
    BY <1>2 DEF ComputeScore
  <2> HIDE DEF score
  <2>4. ComputeScore(trend, momentum, risk) \in 0 .. 100
    BY <2>2, <2>3
  <2> QED BY <1>2, <2>4
<1> QED BY <1>1, <1>2

(* The volatility is known from three prices on.                           *)
LEMMA VolatilityIs ==
  ASSUME NEW c \in Seq(Positive), NEW volatility \in Fraction
  PROVE  AnnualizedVolatilityPct(c, volatility) = Null <=> Len(c) < 3
<1> DEFINE returns == {i \in 2 .. Len(c) : c[i - 1] > 0 /\ c[i] > 0}
<1>1. returns = 2 .. Len(c)
  <2>1. \A i \in 1 .. Len(c) : c[i] > 0
    BY DEF Positive
  <2>2. \A i \in 2 .. Len(c) : i \in 1 .. Len(c) /\ i - 1 \in 1 .. Len(c)
    OBVIOUS
  <2> QED BY <2>1, <2>2
<1>2. Cardinality(2 .. Len(c)) = IF 2 > Len(c) THEN 0 ELSE Len(c) - 2 + 1
  <2>1. 2 \in Int /\ Len(c) \in Int
    OBVIOUS
  <2> QED BY <2>1, FS_Interval
<1>3. Cardinality(returns) < 2 <=> Len(c) < 3
  <2>1. Len(c) \in Nat
    OBVIOUS
  <2> HIDE DEF returns
  <2> QED BY <1>1, <1>2, <2>1
<1>4. volatility # Null
  BY FractionIsKnown
<1> QED BY <1>3, <1>4 DEF AnnualizedVolatilityPct

(* A report tells one story.                                               *)
THEOREM EveryReportIsConsistent ==
  ASSUME NEW c \in Seq(1 .. MaxPrice), c # <<>>, NEW want \in Nat \ {0}, NEW volatility \in Fraction
  PROVE  ReportHolds(c, want, volatility)
<1> DEFINE window == SliceSeriesToRange(c, want)
           w == window.closes
           n == Len(w)
           r == BuildStockReport(window, volatility)
           rsi == Rsi(w, RsiPeriod)
           dd == MaxDrawdownPct(w)
           vol == AnnualizedVolatilityPct(w, volatility)
           trend == AnalyzeTrend(<<Last(w), 1>>, Sma(w, SmaShort), Sma(w, SmaLong))
           momentum == AnalyzeMomentum(rsi)
           risk == AnalyzeRisk(vol, dd)
           score == ComputeScore(trend, momentum, risk)
           points == [i \in 1 .. n |-> [close |-> w[i], short |-> SmaSeries(w, SmaShort)[i],
                                        long |-> SmaSeries(w, SmaLong)[i]]]
           IsMean(v, i, p) == IF i < p THEN v = Null
                              ELSE Same(v, <<Total(SubSeq(w, i - p + 1, i)), p>>)
<1>1. /\ SmaShort \in Nat \ {0} /\ SmaLong \in Nat \ {0} /\ RsiPeriod \in Nat \ {0}
      /\ SmaShort <= SmaLong /\ RsiPeriod < SmaLong /\ 3 <= SmaLong
  BY AnalyticsConstants
<1>2. /\ w \in Seq(1 .. MaxPrice) /\ w # <<>> /\ w[n] = c[Len(c)]
      /\ n = (IF Len(c) < want THEN Len(c) ELSE want)
      /\ window.warnings = {} => n = want
  BY WindowIsEnd
<1>3. /\ r.series = points /\ r.short = Sma(w, SmaShort) /\ r.long = Sma(w, SmaLong)
      /\ r.rsi = rsi /\ r.drawdown = dd /\ r.score = score
      /\ r.warnings = window.warnings \cup (IF n < SmaLong THEN {"short history"} ELSE {})
  BY DEF BuildStockReport
<1> HIDE DEF w, window, r
<1>4. w \in Seq(Positive) /\ w \in Seq(Int) /\ n \in Nat /\ n > 0 /\ n \in 1 .. n
  BY <1>2, PricesAreNumbers
<1>5. /\ Last(points) = points[n] /\ Len(points) = n /\ Last(c) = c[Len(c)]
      /\ \A i \in 1 .. n : /\ points[i].close = w[i]
                          /\ points[i].short = SmaSeries(w, SmaShort)[i]
                          /\ points[i].long = SmaSeries(w, SmaLong)[i]
  BY <1>4 DEF Last
<1> HIDE DEF points
<1>6. Len(r.series) = (IF Len(c) < want THEN Len(c) ELSE want) /\ Last(r.series).close = Last(c)
  BY <1>2, <1>3, <1>4, <1>5
<1>7. ASSUME NEW i \in 1 .. n, NEW p \in Nat \ {0} PROVE IsMean(SmaSeries(w, p)[i], i, p)
  <2>1. SmaSeries(w, p)[i] = IF i < p THEN Null ELSE <<Total(SubSeq(w, i - p + 1, i)), p>>
    BY <1>4, SeriesIsMeans
  <2> QED BY <2>1 DEF Same
<1>8. \A i \in 1 .. n : IsMean(r.series[i].short, i, SmaShort)
          /\ IsMean(r.series[i].long, i, SmaLong)
  BY <1>1, <1>3, <1>5, <1>7
<1>9. r.short = Last(r.series).short /\ r.long = Last(r.series).long
  BY <1>1, <1>2, <1>3, <1>4, <1>5, HeadlineIsLast
<1>10. /\ dd \in Fraction
       /\ \A f \in Falls(w) : AtMost(dd, f)
       /\ \E f \in Falls(w) : Same(dd, f)
  BY <1>2, <1>4, DrawdownIsWorst
<1>11. /\ rsi = Null <=> n <= RsiPeriod
       /\ rsi # Null =>
            /\ AtMost(Percent(0), rsi) /\ AtMost(rsi, Percent(100))
            /\ Same(Rsi(Mirror(w), RsiPeriod), <<100 * rsi[2] - rsi[1], rsi[2]>>)
  BY <1>1, <1>2, RsiIsFair
<1>12. /\ trend \in Trend
       /\ momentum \in Momentum
       /\ risk \in Risk
  BY TrendIs, MomentumIs, RiskIs
<1>13. "unknown" \in {trend, momentum, risk} => n < SmaLong
  <2>1. trend = "unknown" => n < SmaShort \/ n < SmaLong
    BY <1>1, <1>2, <1>4, TrendIs, HeadlineIsLast
  <2>2. momentum = "unknown" => n <= RsiPeriod
    BY <1>11, MomentumIs
  <2>3. risk = "unknown" => n < 3
    BY <1>4, <1>10, RiskIs, VolatilityIs, FractionIsKnown
  <2> HIDE DEF trend, momentum, risk
  <2> QED BY <1>1, <1>4, <2>1, <2>2, <2>3
<1> HIDE DEF trend, momentum, risk
<1>14. /\ "unknown" \in {trend, momentum, risk} => score = NoScore
       /\ "unknown" \notin {trend, momentum, risk} => score \in 0 .. 100
  BY <1>12, ScoreIs
<1>15. IF score = NoScore THEN "unknown" \in {trend, momentum, risk} ELSE score \in 0 .. 100
  <2>1. NoScore \notin 0 .. 100
    BY DEF NoScore
  <2> QED BY <1>14, <2>1
<1> HIDE DEF score
<1>16. IF r.score = NoScore THEN "short history" \in r.warnings ELSE r.score \in 0 .. 100
  BY <1>3, <1>13, <1>15
<1>17. r.warnings = {} => r.score # NoScore /\ n = want
  BY <1>2, <1>3, <1>16
<1> HIDE DEF rsi, dd, n, IsMean
<1>18. r.rsi # Null =>
         /\ AtMost(Percent(0), r.rsi) /\ AtMost(r.rsi, Percent(100))
         /\ Same(Rsi(Mirror(w), RsiPeriod), <<100 * r.rsi[2] - r.rsi[1], r.rsi[2]>>)
  BY <1>3, <1>11
<1>19. /\ \A f \in Falls(w) : AtMost(r.drawdown, f)
       /\ \E f \in Falls(w) : Same(r.drawdown, f)
  BY <1>3, <1>10
<1> QED BY <1>6, <1>8, <1>9, <1>16, <1>17, <1>18, <1>19 DEF ReportHolds, window, w, r, n, IsMean

-----------------------------------------------------------------------------
(* The chart of the page.                                                  *)

(* What the quotient and the remainder are.                                *)
LEMMA Division ==
  ASSUME NEW a \in Nat, NEW b \in Nat \ {0}
  PROVE  /\ a \div b \in Nat /\ a % b \in 0 .. b - 1
         /\ a % b = a - (a \div b) * b
BY SMT

(* The stride is the least that leaves no more bars than the cap.          *)
LEMMA StrideIsLeast ==
  ASSUME NEW n \in Nat \ {0}, NEW cap \in Nat \ {0}, NEW s \in Nat, NEW rest \in 0 .. cap - 1,
         rest = n + cap - 1 - s * cap
  PROVE  s # 0 /\ n <= s * cap /\ (s - 1) * cap < n
<1>1. n <= s * cap
  BY SMT
<1>2. s # 0
  BY <1>1
<1>3. (s - 1) * cap = s * cap - cap
  BY SMT
<1> QED BY <1>1, <1>2, <1>3

(* What is left after taking every s-th of n bars fits under the cap.      *)
LEMMA SampleFits ==
  ASSUME NEW n \in Nat, NEW cap \in Nat, NEW s \in Nat, n <= s * cap,
         NEW q \in Nat, q * s < n
  PROVE  q < cap
<1> SUFFICES ASSUME cap <= q PROVE FALSE
  OBVIOUS
<1>1. s * cap <= s * q
  BY SMT
<1>2. s * q = q * s
  BY SMT
<1> QED BY <1>1, <1>2

(* The chart shows the first and the last bar, one more than the cap at    *)
(* most, and skips no more than it must, for every number of bars and      *)
(* every cap (chart.ts:15-46).                                             *)
THEOREM EveryChartIsFair ==
  ASSUME NEW n \in Nat \ {0}, NEW cap \in Nat \ {0}
  PROVE  ChartHolds(n, cap)
<1> DEFINE bars == [i \in 1 .. n |-> i]
           s == (n + cap - 1) \div cap
           q == (n - 1) \div s
           r == (n - 1) % s
           strided == [i \in 1 .. q + 1 |-> bars[(i - 1) * s + 1]]
           shown == PrepareChartData(bars, cap)
<1>1. bars \in Seq(Nat) /\ Len(bars) = n /\ Last(bars) = n /\ \A i \in 1 .. n : bars[i] = i
  BY DEF Last
<1>2. shown = IF n <= cap THEN bars ELSE IF r = 0 THEN strided ELSE Append(strided, n)
  <2> HIDE DEF bars
  <2> QED BY <1>1 DEF PrepareChartData
<1> DEFINE Fair == /\ Len(shown) <= cap + 1
                   /\ n <= cap => Len(shown) = n
                   /\ shown[1] = 1 /\ Last(shown) = n
                   /\ \A i \in 1 .. Len(shown) - 1 : /\ shown[i] < shown[i + 1]
                                                     /\ (shown[i + 1] - shown[i] - 1) * cap < n
<1> SUFFICES Fair
  BY DEF ChartHolds
<1>3. CASE n <= cap
  <2>1. shown = bars
    BY <1>2, <1>3
  <2> HIDE DEF shown
  <2>2. \A i \in 1 .. n - 1 : /\ shown[i] = i /\ shown[i + 1] = i + 1
                              /\ ((i + 1) - i - 1) * cap = 0
    BY <1>1, <2>1
  <2>3. \A i \in 1 .. Len(shown) - 1 : /\ shown[i] < shown[i + 1]
                                       /\ (shown[i + 1] - shown[i] - 1) * cap < n
    <3> HIDE DEF bars
    <3> QED BY <1>1, <2>1, <2>2
  <2> QED BY <1>1, <1>3, <2>1, <2>3
<1>4. CASE n > cap
  <2>1. s \in Nat \ {0} /\ n <= s * cap /\ (s - 1) * cap < n
    <3>1. n + cap - 1 \in Nat
      OBVIOUS
    <3>2. \A a \in Nat : /\ a \div cap \in Nat
                         /\ \E rest \in 0 .. cap - 1 : rest = a - (a \div cap) * cap
      BY Division
    <3>3. s \in Nat /\ \E rest \in 0 .. cap - 1 : rest = (n + cap - 1) - s * cap
      BY <3>1, <3>2, Zenon
    <3>4. \E rest \in 0 .. cap - 1 : rest = n + cap - 1 - s * cap
      BY <3>3
    <3> HIDE DEF s
    <3> QED BY <3>3, <3>4, StrideIsLeast
  <2>2. q \in Nat /\ r \in 0 .. s - 1 /\ r = n - 1 - q * s
    <3>1. n - 1 \in Nat
      OBVIOUS
    <3> HIDE DEF s
    <3> QED BY <2>1, <3>1, Division
  <2> HIDE DEF s, q, r, bars
  <2> DEFINE Place(i) == (i - 1) * s + 1
  <2>3. q * s \in Nat /\ (q + 1 - 1) * s = q * s
    BY <2>1, <2>2
  <2>4. q < cap
    BY <2>1, <2>2, <2>3, SampleFits
  <2>5. \A i \in 1 .. q + 1 : Place(i) \in 1 .. Place(q + 1) /\ Place(i) <= n
    <3> SUFFICES ASSUME NEW i \in 1 .. q + 1 PROVE Place(i) \in 1 .. Place(q + 1) /\ Place(i) <= n
      OBVIOUS
    <3> QED BY <2>1, <2>2, <2>3
  <2>6. \A i \in 1 .. q : Place(i + 1) = Place(i) + s
    BY <2>1, <2>2
  <2>7. Place(q + 1) = n - r
    BY <2>2, <2>3
  <2>8. strided \in Seq(Nat) /\ Len(strided) = q + 1 /\ \A i \in 1 .. q + 1 : strided[i] = Place(i)
    <3>1. \A i \in 1 .. q + 1 : bars[Place(i)] = Place(i) /\ Place(i) \in Nat
      BY <1>1, <2>5
    <3>2. q + 1 \in Nat
      BY <2>2
    <3> HIDE DEF Place
    <3> QED BY <3>1, <3>2 DEF Place
  <2> HIDE DEF strided
  <2>9. strided[1] = 1
    BY <2>1, <2>2, <2>8
  <2> HIDE DEF Place
  <2>10. \A i \in 1 .. q : /\ strided[i] < strided[i + 1]
                           /\ (strided[i + 1] - strided[i] - 1) * cap < n
    <3> SUFFICES ASSUME NEW i \in 1 .. q
                 PROVE  /\ strided[i] < strided[i + 1]
                        /\ (strided[i + 1] - strided[i] - 1) * cap < n
      OBVIOUS
    <3>1. strided[i] = Place(i) /\ strided[i + 1] = Place(i) + s /\ Place(i) \in Int
      BY <2>2, <2>5, <2>6, <2>8
    <3>2. (Place(i) + s) - Place(i) - 1 = s - 1
      BY <2>1, <3>1
    <3> QED BY <2>1, <3>1, <3>2
  <2>11. CASE r = 0
    <3>1. shown = strided
      BY <1>2, <1>4, <2>11
    <3>2. Last(shown) = n
      BY <2>2, <2>7, <2>8, <2>11, <3>1 DEF Last
    <3> HIDE DEF shown
    <3>3. Len(shown) = q + 1 /\ Len(shown) - 1 = q /\ Len(shown) <= cap + 1
      BY <2>2, <2>4, <2>8, <3>1
    <3> QED BY <1>4, <2>9, <2>10, <3>1, <3>2, <3>3
  <2>12. CASE r # 0
    <3>1. shown = Append(strided, n)
      BY <1>2, <1>4, <2>12
    <3> HIDE DEF shown
    <3>2. /\ Len(shown) = q + 2 /\ Len(shown) - 1 = q + 1 /\ Len(shown) <= cap + 1
          /\ shown[q + 2] = n /\ \A i \in 1 .. q + 1 : shown[i] = strided[i]
      BY <2>2, <2>4, <2>8, <3>1
    <3>3. Last(shown) = n /\ shown[1] = 1
      BY <2>2, <2>9, <3>2 DEF Last
    <3>4. /\ shown[q + 1] = n - r /\ n - r < n /\ n - (n - r) - 1 = r - 1
      <4>1. q + 1 \in 1 .. q + 1 /\ r \in Nat \ {0}
        BY <2>1, <2>2, <2>12
      <4>2. shown[q + 1] = n - r
        BY <2>7, <2>8, <3>2, <4>1
      <4> QED BY <4>1, <4>2
    <3>5. (r - 1) * cap < n
      <4>1. \A x, y \in Nat : x <= y => x * cap <= y * cap
        BY SMT
      <4>2. r - 1 \in Nat /\ s - 1 \in Nat /\ r - 1 <= s - 1
        BY <2>1, <2>2, <2>12
      <4>3. (r - 1) * cap <= (s - 1) * cap
        BY <4>1, <4>2
      <4>4. (r - 1) * cap \in Int /\ (s - 1) * cap \in Int
        BY <4>2
      <4> QED BY <2>1, <4>3, <4>4
    <3>6. \A i \in 1 .. q + 1 : /\ shown[i] < shown[i + 1]
                                /\ (shown[i + 1] - shown[i] - 1) * cap < n
      <4> SUFFICES ASSUME NEW i \in 1 .. q + 1
                   PROVE  /\ shown[i] < shown[i + 1]
                          /\ (shown[i + 1] - shown[i] - 1) * cap < n
        OBVIOUS
      <4>1. CASE i = q + 1
        <5>1. shown[i + 1] = n /\ shown[i] = n - r
          BY <2>2, <3>2, <3>4, <4>1
        <5> QED BY <3>4, <3>5, <5>1
      <4>2. CASE i # q + 1
        <5>1. i \in 1 .. q /\ shown[i] = strided[i] /\ shown[i + 1] = strided[i + 1]
          BY <2>2, <3>2, <4>2
        <5> QED BY <2>10, <5>1
      <4> QED BY <4>1, <4>2
    <3> QED BY <1>4, <3>2, <3>3, <3>6
  <2> QED BY <2>11, <2>12
<1> QED BY <1>3, <1>4

-----------------------------------------------------------------------------
(* The text of a CSV file.                                                 *)

(* Where the reader stands after a part of a text, and what comes next.    *)
Read(s, part, next) == After(s, part, next)[Len(part)]
Ahead(part, next) == IF part = <<>> THEN next ELSE part[1]
Following(part, next, i) == IF i < Len(part) THEN part[i + 1] ELSE next

(* A part of the text is read one character at a time, each with the one   *)
(* that follows it at hand.                                                *)
LEMMA AfterInTurn ==
  ASSUME NEW Char, NEW s, NEW part \in Seq(Char), NEW next
  PROVE  /\ After(s, part, next)[0] = s
         /\ \A i \in 1 .. Len(part) :
              After(s, part, next)[i] =
                ReadCharacter(After(s, part, next)[i - 1], part[i], Following(part, next, i))
<1> DEFINE n == Len(part)
           Step(state, i) == ReadCharacter(state, part[i], Following(part, next, i))
           Turn(f, m) == [i \in 0 .. m |-> IF i = 0 THEN s ELSE Step(f[i - 1], i)]
           after == After(s, part, next)
           T == {m \in 0 .. n : \E f : f = Turn(f, m)}
<1>1. after = CHOOSE f : f = Turn(f, n)
  BY DEF After, Following
<1>2. n \in Nat
  OBVIOUS
<1> HIDE DEF n, Step
<1>3. 0 \in T
  <2> DEFINE f == [i \in 0 .. 0 |-> s]
  <2>1. f = Turn(f, 0)
    BY <1>2
  <2>2. 0 \in 0 .. n
    BY <1>2
  <2> QED BY <2>1, <2>2
<1>4. \A m \in 1 .. n : m - 1 \in T => m \in T
  <2> SUFFICES ASSUME NEW m \in 1 .. n, m - 1 \in T PROVE m \in T
    OBVIOUS
  <2> SUFFICES \E g : g = Turn(g, m)
    <3>1. m \in 0 .. n
      BY <1>2
    <3> QED BY <3>1
  <2>0. PICK f : f = Turn(f, m - 1)
    OBVIOUS
  <2> DEFINE g == [i \in 0 .. m |-> IF i = m THEN Step(f[m - 1], m) ELSE f[i]]
  <2>1. \A i \in 0 .. m - 1 : f[i] = IF i = 0 THEN s ELSE Step(f[i - 1], i)
    <3> DEFINE h == Turn(f, m - 1)
    <3>1. \A i \in 0 .. m - 1 : h[i] = IF i = 0 THEN s ELSE Step(f[i - 1], i)
      OBVIOUS
    <3> HIDE DEF h
    <3>2. f = h
      BY <2>0 DEF h
    <3> QED BY <3>1, <3>2
  <2>2. \A i \in 0 .. m : i = m \/ i \in 0 .. m - 1
    OBVIOUS
  <2>3. \A i \in 0 .. m - 1 : g[i] = f[i]
    OBVIOUS
  <2>4. g[m] = Step(f[m - 1], m) /\ m - 1 \in 0 .. m - 1 /\ m # 0
    OBVIOUS
  <2>5. \A i \in 1 .. m - 1 : i - 1 \in 0 .. m - 1
    OBVIOUS
  <2>6. g = [i \in 0 .. m |-> g[i]]
    OBVIOUS
  <2> HIDE DEF g
  <2>7. \A i \in 0 .. m : g[i] = IF i = 0 THEN s ELSE Step(g[i - 1], i)
    <3> SUFFICES ASSUME NEW i \in 0 .. m PROVE g[i] = IF i = 0 THEN s ELSE Step(g[i - 1], i)
      OBVIOUS
    <3>1. CASE i = m
      BY <2>3, <2>4, <3>1
    <3>2. CASE i = 0 /\ i # m
      BY <2>1, <2>2, <2>3, <3>2
    <3>3. CASE i # 0 /\ i # m
      <4>1. i \in 0 .. m - 1 /\ i - 1 \in 0 .. m - 1
        BY <3>3
      <4> QED BY <2>1, <2>3, <3>3, <4>1
    <3> QED BY <3>1, <3>2, <3>3
  <2> QED BY <2>6, <2>7
<1>5. n \in T
  <2>1. n \in 0 .. n
    BY <1>2
  <2> HIDE DEF T
  <2>2. 0 .. n \subseteq T
    BY <1>2, <1>3, <1>4, Induction
  <2> QED BY <2>1, <2>2
<1>6. after = Turn(after, n)
  BY <1>1, <1>5
<1> HIDE DEF after
<1>7. after[0] = s /\ \A i \in 1 .. n : after[i] = Step(after[i - 1], i)
  <2> DEFINE g == Turn(after, n)
  <2>1. g[0] = s /\ \A i \in 1 .. n : g[i] = Step(after[i - 1], i)
    BY <1>2
  <2> QED BY <1>6, <2>1
<1> QED BY <1>7 DEF after, n, Step

(* Nothing is read, or one character more.                                 *)
LEMMA ReadNone ==
  ASSUME NEW s, NEW next
  PROVE  Read(s, <<>>, next) = s
<1> DEFINE none == <<>>
<1>1. none \in Seq({0}) /\ Len(none) = 0
  OBVIOUS
<1> HIDE DEF none
<1>2. \A p \in Seq({0}) : After(s, p, next)[0] = s
  BY AfterInTurn
<1>3. Read(s, none, next) = s
  BY <1>1, <1>2 DEF Read
<1> QED BY <1>3 DEF none

(* One character more is one step of the reader more.                      *)
LEMMA ReadOne ==
  ASSUME NEW Char, NEW s, NEW part \in Seq(Char), NEW ch \in Char, NEW next
  PROVE  Read(s, Append(part, ch), next) = ReadCharacter(Read(s, part, ch), ch, next)
<1> DEFINE n == Len(part)
           longer == Append(part, ch)
           here == After(s, part, ch)
           there == After(s, longer, next)
           T == {i \in 0 .. n : here[i] = there[i]}
<1>3. /\ longer \in Seq(Char) /\ Len(longer) = n + 1 /\ n \in Nat
      /\ longer[n + 1] = ch /\ \A i \in 1 .. n : longer[i] = part[i]
  OBVIOUS
<1> HIDE DEF longer, n
<1>4. /\ here[0] = s
      /\ \A i \in 1 .. n : here[i] = ReadCharacter(here[i - 1], part[i], Following(part, ch, i))
  BY AfterInTurn DEF n
<1>5. /\ there[0] = s
      /\ \A i \in 1 .. n + 1 : there[i]
             = ReadCharacter(there[i - 1], longer[i], Following(longer, next, i))
  <2>0. longer \in Seq(Char)
    BY <1>3
  <2>1. there[0] = s
    BY <2>0, AfterInTurn
  <2>2. \A i \in 1 .. Len(longer) :
          there[i] = ReadCharacter(there[i - 1], longer[i], Following(longer, next, i))
    BY <2>0, AfterInTurn
  <2> QED BY <1>3, <2>1, <2>2
<1> HIDE DEF here, there
<1>6. 0 \in T
  BY <1>3, <1>4, <1>5
<1>7. \A i \in 1 .. n : i - 1 \in T => i \in T
  <2> SUFFICES ASSUME NEW i \in 1 .. n, here[i - 1] = there[i - 1] PROVE here[i] = there[i]
    BY <1>3
  <2>1. Following(part, ch, i) = Following(longer, next, i)
    <3>1. CASE i < n
      <4>1. i + 1 \in 1 .. n /\ i < Len(longer)
        BY <1>3, <3>1
      <4> QED BY <1>3, <3>1, <4>1 DEF Following, n
    <3>2. CASE i = n
      <4>1. n < Len(longer) /\ ~(n < Len(part))
        BY <1>3 DEF n
      <4> QED BY <1>3, <3>2, <4>1 DEF Following
    <3> QED BY <1>3, <3>1, <3>2
  <2>2. i \in 1 .. n + 1 /\ longer[i] = part[i]
    BY <1>3
  <2> QED BY <1>4, <1>5, <2>1, <2>2
<1>8. n \in T
  <2>1. n \in 0 .. n
    BY <1>3
  <2> HIDE DEF T
  <2>2. 0 .. n \subseteq T
    BY <1>3, <1>6, <1>7, Induction
  <2> QED BY <2>1, <2>2
<1>9. there[n + 1] = ReadCharacter(there[n], ch, next)
  <2>1. n + 1 \in 1 .. n + 1 /\ (n + 1) - 1 = n
    BY <1>3
  <2>2. Following(longer, next, n + 1) = next
    BY <1>3 DEF Following
  <2> QED BY <1>3, <1>5, <2>1, <2>2
<1>10. Read(s, longer, next) = ReadCharacter(Read(s, part, ch), ch, next)
  BY <1>3, <1>8, <1>9 DEF Read, here, there, n
<1> QED BY <1>10 DEF longer

(* A text in two parts is read in two parts.                               *)
LEMMA ReadOn ==
  ASSUME NEW Char, NEW s, NEW a \in Seq(Char), NEW b \in Seq(Char), NEW next
  PROVE  Read(s, a \o b, next) = Read(Read(s, a, Ahead(b, next)), b, next)
<1> DEFINE n == Len(b)
           Begin(m) == SubSeq(b, 1, m)
           Holds(m) == \A after : Read(s, a \o Begin(m), after)
                                    = Read(Read(s, a, Ahead(Begin(m), after)), Begin(m), after)
           T == {m \in 0 .. n : Holds(m)}
<1>1. n \in Nat /\ Begin(n) = b /\ Begin(0) = <<>> /\ a \o <<>> = a
  OBVIOUS
<1>2. \A m \in 0 .. n : Begin(m) \in Seq(Char)
  OBVIOUS
<1>3. ASSUME NEW m \in 1 .. n
      PROVE  /\ Begin(m) = Append(Begin(m - 1), b[m]) /\ b[m] \in Char /\ m - 1 \in 0 .. n
             /\ Begin(m - 1) \in Seq(Char) /\ a \o Begin(m - 1) \in Seq(Char)
             /\ a \o Begin(m) = Append(a \o Begin(m - 1), b[m])
             /\ \A after : Ahead(Begin(m - 1), b[m]) = Ahead(Begin(m), after)
  <2> DEFINE shorter == Begin(m - 1)
  <2>1. m - 1 \in 0 .. n /\ b[m] \in Char
    OBVIOUS
  <2>2. Begin(m) = Append(shorter, b[m])
    OBVIOUS
  <2>3. shorter \in Seq(Char) /\ Len(shorter) = m - 1
    OBVIOUS
  <2>4. m # 1 => shorter[1] = b[1]
    OBVIOUS
  <2>5. m = 1 => shorter = <<>>
    OBVIOUS
  <2> HIDE DEF shorter
  <2>6. a \o Append(shorter, b[m]) = Append(a \o shorter, b[m]) /\ a \o shorter \in Seq(Char)
    BY <2>1, <2>3
  <2> HIDE DEF Begin
  <2>7. Append(shorter, b[m]) # <<>> /\ Append(shorter, b[m])[1] = b[1]
    <3>0. Append(shorter, b[m]) # <<>>
      BY <2>1, <2>3
    <3>2. CASE m = 1
      <4>1. shorter \in Seq(Char) /\ Len(shorter) = 0
        BY <2>3, <3>2
      <4>2. Append(shorter, b[m])[Len(shorter) + 1] = b[m]
        BY <2>1, <4>1
      <4>3. b[m] = b[1] /\ Len(shorter) + 1 = 1
        BY <3>2, <4>1
      <4> QED BY <3>0, <4>2, <4>3
    <3>3. CASE m # 1
      <4>1. 1 \in 1 .. Len(shorter)
        BY <2>3, <3>3
      <4>2. Append(shorter, b[m])[1] = shorter[1]
        BY <2>1, <2>3, <4>1
      <4> QED BY <2>4, <3>0, <3>3, <4>2
    <3> QED BY <3>2, <3>3
  <2>8. m # 1 => shorter # <<>>
    BY <2>3
  <2>9. \A after : Ahead(shorter, b[m]) = Ahead(Append(shorter, b[m]), after)
    BY <2>4, <2>5, <2>7, <2>8 DEF Ahead
  <2> HIDE DEF Begin
  <2> QED BY <2>1, <2>2, <2>3, <2>6, <2>9 DEF shorter
<1> HIDE DEF Begin, n
<1>4. 0 \in T
  <2>1. 0 \in 0 .. n
    BY <1>1
  <2>2. \A after, state : Read(state, <<>>, after) = state
    BY ReadNone
  <2> QED BY <1>1, <2>1, <2>2 DEF Ahead
<1>5. \A m \in 1 .. n : m - 1 \in T => m \in T
  <2> SUFFICES ASSUME NEW m \in 1 .. n, Holds(m - 1) PROVE Holds(m)
    BY <1>1
  <2> SUFFICES ASSUME NEW after
               PROVE  Read(s, a \o Begin(m), after)
                          = Read(Read(s, a, Ahead(Begin(m), after)), Begin(m), after)
    OBVIOUS
  <2> DEFINE ch == b[m]
             from == Read(s, a, Ahead(Begin(m), after))
  <2>1. Ahead(Begin(m - 1), ch) = Ahead(Begin(m), after)
    BY <1>3
  <2>2. Read(s, a \o Begin(m - 1), ch) = Read(from, Begin(m - 1), ch)
    BY <2>1
  <2> HIDE DEF from
  <2> DEFINE shorter == Begin(m - 1)
  <2>3. /\ shorter \in Seq(Char) /\ a \o shorter \in Seq(Char) /\ ch \in Char
        /\ Begin(m) = Append(shorter, ch) /\ a \o Begin(m) = Append(a \o shorter, ch)
    BY <1>3
  <2> HIDE DEF shorter, ch
  <2>4. Read(s, a \o Begin(m), after) = ReadCharacter(Read(s, a \o shorter, ch), ch, after)
    <3> DEFINE both == a \o shorter
    <3>1. both \in Seq(Char) /\ ch \in Char
      BY <2>3
    <3> HIDE DEF both
    <3>2. Read(s, Append(both, ch), after) = ReadCharacter(Read(s, both, ch), ch, after)
      BY <3>1, ReadOne
    <3> QED BY <2>3, <3>2 DEF both
  <2>5. Read(from, Begin(m), after) = ReadCharacter(Read(from, shorter, ch), ch, after)
    <3>1. Read(from, Append(shorter, ch), after)
              = ReadCharacter(Read(from, shorter, ch), ch, after)
      BY <2>3, ReadOne
    <3> QED BY <2>3, <3>1
  <2> QED BY <2>2, <2>4, <2>5 DEF from, shorter, ch
<1>6. n \in T
  <2>1. n \in 0 .. n
    BY <1>1
  <2> HIDE DEF T
  <2>2. 0 .. n \subseteq T
    BY <1>1, <1>4, <1>5, Induction
  <2> QED BY <2>1, <2>2
<1> QED BY <1>1, <1>6

(* The first members of a sequence, and one more.                          *)
LEMMA FirstMembers ==
  ASSUME NEW S, NEW seq \in Seq(S)
  PROVE  /\ Len(seq) \in Nat /\ SubSeq(seq, 1, 0) = <<>> /\ SubSeq(seq, 1, Len(seq)) = seq
         /\ \A m \in 0 .. Len(seq) : /\ SubSeq(seq, 1, m) \in Seq(S) /\ Len(SubSeq(seq, 1, m)) = m
                                     /\ \A i \in 1 .. m : SubSeq(seq, 1, m)[i] = seq[i]
         /\ \A m \in 1 .. Len(seq) : /\ seq[m] \in S /\ m - 1 \in 0 .. Len(seq)
                                     /\ SubSeq(seq, 1, m) = Append(SubSeq(seq, 1, m - 1), seq[m])
<1>1. /\ Len(seq) \in Nat /\ SubSeq(seq, 1, 0) = <<>> /\ SubSeq(seq, 1, Len(seq)) = seq
  OBVIOUS
<1>2. ASSUME NEW m \in 0 .. Len(seq)
      PROVE  /\ SubSeq(seq, 1, m) \in Seq(S) /\ Len(SubSeq(seq, 1, m)) = m
             /\ \A i \in 1 .. m : SubSeq(seq, 1, m)[i] = seq[i]
  OBVIOUS
<1>3. ASSUME NEW m \in 1 .. Len(seq)
      PROVE  /\ seq[m] \in S /\ m - 1 \in 0 .. Len(seq)
             /\ SubSeq(seq, 1, m) = Append(SubSeq(seq, 1, m - 1), seq[m])
  OBVIOUS
<1> QED BY <1>1, <1>2, <1>3

(* The parts of a text in a row, one after the other.                      *)
LEMMA FlattenInTurn ==
  ASSUME NEW S, NEW parts \in Seq(Seq(S)), parts # <<>>
  PROVE  \E f : /\ f[1] = parts[1]
                /\ \A i \in 2 .. Len(parts) : f[i] = f[i - 1] \o parts[i]
                /\ FlattenSeq(parts) = f[Len(parts)]
<1> DEFINE n == Len(parts)
           Turn(f, m) == [i \in 1 .. m |-> IF i = 1 THEN parts[1] ELSE f[i - 1] \o parts[i]]
           flatten == CHOOSE f : f = Turn(f, n)
           T == {m \in 0 .. n : \E f : f = Turn(f, m)}
<1>1. n \in Nat \ {0}
  OBVIOUS
<1>2. FlattenSeq(parts) = flatten[n]
  BY <1>1 DEF FlattenSeq
<1> HIDE DEF n
<1>3. 0 \in T
  <2> DEFINE f == [i \in 1 .. 0 |-> 0]
  <2>1. f = Turn(f, 0)
    BY <1>1
  <2>2. 0 \in 0 .. n
    BY <1>1
  <2> QED BY <2>1, <2>2
<1>4. \A m \in 1 .. n : m - 1 \in T => m \in T
  <2> SUFFICES ASSUME NEW m \in 1 .. n, m - 1 \in T PROVE m \in T
    OBVIOUS
  <2> SUFFICES \E g : g = Turn(g, m)
    <3>1. m \in 0 .. n
      BY <1>1
    <3> QED BY <3>1
  <2>0. PICK f : f = Turn(f, m - 1)
    OBVIOUS
  <2> DEFINE Longer(h, i) == IF i = 1 THEN parts[1] ELSE h[i - 1] \o parts[i]
             g == [i \in 1 .. m |-> IF i = m THEN Longer(f, m) ELSE f[i]]
  <2>1. \A i \in 1 .. m - 1 : f[i] = Longer(f, i)
    <3> DEFINE h == Turn(f, m - 1)
    <3>1. \A i \in 1 .. m - 1 : h[i] = Longer(f, i)
      OBVIOUS
    <3> HIDE DEF h
    <3>2. f = h
      BY <2>0 DEF h
    <3> QED BY <3>1, <3>2
  <2>2. \A i \in 1 .. m - 1 : g[i] = f[i]
    BY <1>1
  <2>3. g[m] = Longer(f, m) /\ m \in Nat
    BY <1>1
  <2>4. g = [i \in 1 .. m |-> g[i]]
    OBVIOUS
  <2> HIDE DEF g
  <2>5. \A i \in 1 .. m : Longer(g, i) = Longer(f, i)
    <3> SUFFICES ASSUME NEW i \in 1 .. m PROVE Longer(g, i) = Longer(f, i)
      OBVIOUS
    <3>1. CASE i = 1
      BY <3>1
    <3>2. CASE i # 1
      <4>1. i - 1 \in 1 .. m - 1
        BY <2>3, <3>2
      <4> QED BY <2>2, <3>2, <4>1
    <3> QED BY <3>1, <3>2
  <2>6. \A i \in 1 .. m : g[i] = Longer(g, i)
    <3> SUFFICES ASSUME NEW i \in 1 .. m PROVE g[i] = Longer(g, i)
      OBVIOUS
    <3>1. CASE i = m
      BY <2>3, <2>5, <3>1
    <3>2. CASE i # m
      <4>1. i \in 1 .. m - 1
        BY <2>3, <3>2
      <4>2. g[i] = Longer(f, i)
        BY <2>1, <2>2, <4>1
      <4> QED BY <2>5, <4>2
    <3> QED BY <3>1, <3>2
  <2>7. g = [i \in 1 .. m |-> Longer(g, i)]
    <3> HIDE DEF Longer
    <3> QED BY <2>4, <2>6
  <2>8. g = Turn(g, m)
    BY <2>7
  <2> QED BY <2>8
<1>5. n \in T
  <2>1. n \in 0 .. n
    BY <1>1
  <2> HIDE DEF T
  <2>2. 0 .. n \subseteq T
    BY <1>1, <1>3, <1>4, Induction
  <2> QED BY <2>1, <2>2
<1>6. flatten = Turn(flatten, n)
  BY <1>1, <1>5
<1> HIDE DEF flatten
<1>7. flatten[1] = parts[1] /\ \A i \in 2 .. n : flatten[i] = flatten[i - 1] \o parts[i]
  <2> DEFINE g == Turn(flatten, n)
  <2>1. \A i \in 1 .. n : g[i] = IF i = 1 THEN parts[1] ELSE flatten[i - 1] \o parts[i]
    OBVIOUS
  <2>2. 1 \in 1 .. n /\ \A i \in 2 .. n : i \in 1 .. n /\ i # 1
    BY <1>1
  <2> HIDE DEF g
  <2>3. flatten = g
    BY <1>6 DEF g
  <2> QED BY <2>1, <2>2, <2>3
<1> QED BY <1>2, <1>7 DEF n
(* Flattening a longer list of parts appends the last part.                *)
LEMMA FlattenMore ==
  ASSUME NEW S
  PROVE  /\ FlattenSeq(<<>>) = <<>>
         /\ \A parts \in Seq(Seq(S)), part \in Seq(S) :
              /\ FlattenSeq(parts) \in Seq(S)
              /\ FlattenSeq(Append(parts, part)) = FlattenSeq(parts) \o part
<1>1. FlattenSeq(<<>>) = <<>>
  BY DEF FlattenSeq
<1>2. ASSUME NEW parts \in Seq(Seq(S)) PROVE FlattenSeq(parts) \in Seq(S)
  <2>1. CASE parts = <<>>
    <3>1. FlattenSeq(parts) = <<>>
      BY <1>1, <2>1
    <3>2. <<>> \in Seq(S)
      OBVIOUS
    <3> QED BY <3>1, <3>2
  <2>2. CASE parts # <<>>
    <3> DEFINE n == Len(parts)
    <3>1. n \in Nat \ {0} /\ \A i \in 1 .. n : parts[i] \in Seq(S)
      BY <2>2
    <3>2. PICK f : /\ f[1] = parts[1] /\ FlattenSeq(parts) = f[n]
                   /\ \A i \in 2 .. n : f[i] = f[i - 1] \o parts[i]
      BY <2>2, FlattenInTurn
    <3> HIDE DEF n
    <3> DEFINE T == {i \in 0 .. n : i = 0 \/ f[i] \in Seq(S)}
    <3>3. 0 \in T
      BY <3>1
    <3>4. ASSUME NEW i \in 1 .. n, i - 1 \in T PROVE i \in T
      <4>1. CASE i = 1
        BY <3>1, <3>2, <4>1
      <4>2. CASE i # 1
        <5>1. i \in 2 .. n /\ i \in 0 .. n /\ i - 1 # 0
          BY <3>1, <4>2
        <5>2. f[i - 1] \in Seq(S) /\ parts[i] \in Seq(S)
          BY <3>1, <3>4, <5>1
        <5>3. f[i] = f[i - 1] \o parts[i]
          BY <3>2, <5>1
        <5>4. f[i] \in Seq(S)
          BY <5>2, <5>3
        <5> QED BY <5>1, <5>4
      <4> QED BY <4>1, <4>2
    <3>5. n \in T
      <4>1. n \in 0 .. n
        BY <3>1
      <4> HIDE DEF T
      <4>2. 0 .. n \subseteq T
        BY <3>1, <3>3, <3>4, Induction
      <4> QED BY <4>1, <4>2
    <3> QED BY <3>1, <3>2, <3>5
  <2> QED BY <2>1, <2>2
<1>3. ASSUME NEW parts \in Seq(Seq(S)), NEW part \in Seq(S)
      PROVE  FlattenSeq(Append(parts, part)) = FlattenSeq(parts) \o part
  <2> DEFINE n == Len(parts)
             longer == Append(parts, part)
  <2>1. /\ longer \in Seq(Seq(S)) /\ longer # <<>> /\ Len(longer) = n + 1 /\ n \in Nat
        /\ longer[n + 1] = part /\ \A i \in 1 .. n : longer[i] = parts[i]
    <3>1. /\ longer \in Seq(Seq(S)) /\ Len(longer) = n + 1 /\ n \in Nat
          /\ longer[n + 1] = part /\ \A i \in 1 .. n : longer[i] = parts[i]
      OBVIOUS
    <3> HIDE DEF longer
    <3>2. longer # <<>>
      BY <3>1
    <3> QED BY <3>1, <3>2
  <2> HIDE DEF longer, n
  <2>2. PICK f : /\ f[1] = longer[1] /\ FlattenSeq(longer) = f[n + 1]
                 /\ \A i \in 2 .. n + 1 : f[i] = f[i - 1] \o longer[i]
    <3>1. \E f : /\ f[1] = longer[1]
                 /\ \A i \in 2 .. Len(longer) : f[i] = f[i - 1] \o longer[i]
                 /\ FlattenSeq(longer) = f[Len(longer)]
      BY <2>1, FlattenInTurn
    <3> QED BY <2>1, <3>1
  <2>3. CASE parts = <<>>
    <3>1. n = 0 /\ longer[1] = part /\ FlattenSeq(longer) = f[1]
      BY <2>1, <2>2, <2>3 DEF n
    <3>2. <<>> \o part = part
      OBVIOUS
    <3> QED BY <1>1, <2>2, <2>3, <3>1, <3>2 DEF longer
  <2>4. CASE parts # <<>>
    <3>1. n \in Nat \ {0}
      BY <2>1, <2>4 DEF n
    <3>2. PICK g : /\ g[1] = parts[1] /\ FlattenSeq(parts) = g[n]
                   /\ \A i \in 2 .. n : g[i] = g[i - 1] \o parts[i]
      BY <2>4, FlattenInTurn DEF n
    <3> DEFINE T == {i \in 0 .. n : i = 0 \/ f[i] = g[i]}
    <3>3. 0 \in T
      BY <3>1
    <3>4. ASSUME NEW i \in 1 .. n, i - 1 \in T PROVE i \in T
      <4>1. CASE i = 1
        <5>1. 1 \in 0 .. n /\ 1 \in 1 .. n
          BY <3>1
        <5> QED BY <2>1, <2>2, <3>2, <4>1, <5>1
      <4>2. CASE i # 1
        <5>1. i \in 2 .. n /\ i \in 2 .. n + 1 /\ i \in 0 .. n /\ i - 1 # 0
          BY <3>1, <4>2
        <5>2. f[i - 1] = g[i - 1]
          BY <3>4, <5>1
        <5> QED BY <2>1, <2>2, <3>2, <5>1, <5>2
      <4> QED BY <4>1, <4>2
    <3>5. f[n] = g[n]
      <4>1. n \in 0 .. n
        BY <3>1
      <4> HIDE DEF T
      <4>2. 0 .. n \subseteq T
        BY <3>1, <3>3, <3>4, Induction
      <4>3. n \in T
        BY <4>1, <4>2
      <4> QED BY <3>1, <4>3 DEF T
    <3>6. n + 1 \in 2 .. n + 1 /\ (n + 1) - 1 = n
      BY <3>1
    <3>7. f[n + 1] = f[n] \o part
      BY <2>1, <2>2, <3>6
    <3> QED BY <2>2, <3>2, <3>5, <3>7 DEF longer
  <2> QED BY <2>3, <2>4
<1> QED BY <1>1, <1>2, <1>3
(* A text and another behind it ...                                        *)
LEMMA FlattenBoth ==
  ASSUME NEW S, NEW a \in Seq(Seq(S)), NEW b \in Seq(Seq(S))
  PROVE  FlattenSeq(a \o b) = FlattenSeq(a) \o FlattenSeq(b)
<1> DEFINE n == Len(b)
           T == {m \in 0 .. n : FlattenSeq(a \o SubSeq(b, 1, m))
                                  = FlattenSeq(a) \o FlattenSeq(SubSeq(b, 1, m))}
<1>1. /\ n \in Nat /\ SubSeq(b, 1, 0) = <<>> /\ SubSeq(b, 1, n) = b
      /\ \A m \in 1 .. n : /\ SubSeq(b, 1, m - 1) \in Seq(Seq(S)) /\ b[m] \in Seq(S)
                            /\ SubSeq(b, 1, m) = Append(SubSeq(b, 1, m - 1), b[m])
  BY FirstMembers
<1> HIDE DEF n
<1>2. FlattenSeq(a) \in Seq(S)
  BY FlattenMore
<1>3. 0 \in T
  <2>1. a \o <<>> = a /\ FlattenSeq(a) \o <<>> = FlattenSeq(a)
    BY <1>2
  <2>2. FlattenSeq(<<>>) = <<>>
    BY FlattenMore
  <2> DEFINE empty == <<>>
  <2>3. FlattenSeq(a \o empty) = FlattenSeq(a) \o FlattenSeq(empty) /\ SubSeq(b, 1, 0) = empty
    BY <1>1, <2>1, <2>2
  <2> HIDE DEF empty
  <2>4. 0 \in 0 .. n
    BY <1>1
  <2> QED BY <2>3, <2>4
<1>4. ASSUME NEW m \in 1 .. n, m - 1 \in T PROVE m \in T
  <2> DEFINE shorter == SubSeq(b, 1, m - 1)
             part == b[m]
  <2>1. shorter \in Seq(Seq(S)) /\ part \in Seq(S) /\ SubSeq(b, 1, m) = Append(shorter, part)
    BY <1>1
  <2>2. FlattenSeq(a \o shorter) = FlattenSeq(a) \o FlattenSeq(shorter)
    BY <1>4
  <2>3. m \in 0 .. n
    BY <1>1
  <2> HIDE DEF shorter, part
  <2>4. a \o Append(shorter, part) = Append(a \o shorter, part) /\ a \o shorter \in Seq(Seq(S))
    BY <2>1
  <2>5. FlattenSeq(Append(a \o shorter, part)) = FlattenSeq(a \o shorter) \o part
    BY <2>1, <2>4, FlattenMore
  <2>6. FlattenSeq(Append(shorter, part)) = FlattenSeq(shorter) \o part
        /\ FlattenSeq(shorter) \in Seq(S)
    BY <2>1, FlattenMore
  <2>7. (FlattenSeq(a) \o FlattenSeq(shorter)) \o part
            = FlattenSeq(a) \o (FlattenSeq(shorter) \o part)
    BY <1>2, <2>1, <2>6
  <2> QED BY <2>1, <2>2, <2>3, <2>4, <2>5, <2>6, <2>7
<1>5. n \in T
  <2>1. n \in 0 .. n
    BY <1>1
  <2> HIDE DEF T
  <2>2. 0 .. n \subseteq T
    BY <1>1, <1>3, <1>4, Induction
  <2> QED BY <2>1, <2>2
<1> QED BY <1>1, <1>5

(* ... and its line feeds.                                                 *)
LEMMA LineFeedsMore ==
  ASSUME NEW S, NEW text \in Seq(S), NEW ch \in S
  PROVE  /\ LineFeeds(<<>>) = 0
         /\ LineFeeds(text) \in Nat
         /\ LineFeeds(Append(text, ch)) = LineFeeds(text) + (IF ch = LF THEN 1 ELSE 0)
<1> DEFINE n == Len(text)
           longer == Append(text, ch)
           here == {i \in 1 .. n : text[i] = LF}
<1>1. /\ n \in Nat /\ DOMAIN text = 1 .. n /\ DOMAIN longer = 1 .. n + 1
      /\ longer[n + 1] = ch /\ \A i \in 1 .. n : longer[i] = text[i]
  OBVIOUS
<1>2. LineFeeds(<<>>) = 0
  <2>1. {i \in DOMAIN <<>> : <<>>[i] = LF} = {}
    OBVIOUS
  <2> QED BY <2>1, FS_EmptySet DEF LineFeeds
<1> HIDE DEF n, longer
<1>3. LineFeeds(text) = Cardinality(here) /\ IsFiniteSet(here) /\ Cardinality(here) \in Nat
      /\ n + 1 \notin here
  <2>1. IsFiniteSet(1 .. n)
    BY <1>1, FS_Interval
  <2>2. IsFiniteSet(here)
    BY <2>1, FS_Subset
  <2>3. n + 1 \notin here
    BY <1>1
  <2> QED BY <1>1, <2>2, <2>3, FS_CardinalityType DEF LineFeeds
<1>4. LineFeeds(longer) = Cardinality({i \in 1 .. n + 1 : longer[i] = LF})
  BY <1>1 DEF LineFeeds
<1>5. {i \in 1 .. n + 1 : longer[i] = LF} = IF ch = LF THEN here \cup {n + 1} ELSE here
  <2>1. \A i \in 1 .. n + 1 : i \in 1 .. n \/ i = n + 1
    BY <1>1
  <2>2. \A i \in 1 .. n : i \in 1 .. n + 1 /\ i # n + 1
    BY <1>1
  <2>3. n + 1 \in 1 .. n + 1
    BY <1>1
  <2> QED BY <1>1, <2>1, <2>2, <2>3
<1>6. Cardinality(here \cup {n + 1}) = Cardinality(here) + 1
  BY <1>3, FS_AddElement
<1>7. LineFeeds(longer) = LineFeeds(text) + (IF ch = LF THEN 1 ELSE 0)
  <2>1. CASE ch = LF
    BY <1>3, <1>4, <1>5, <1>6, <2>1
  <2>2. CASE ch # LF
    <3>1. LineFeeds(longer) = LineFeeds(text) /\ LineFeeds(text) \in Nat
      BY <1>3, <1>4, <1>5, <2>2
    <3> QED BY <2>2, <3>1
  <2> QED BY <2>1, <2>2
<1> QED BY <1>2, <1>3, <1>7 DEF longer

(* The line feeds of two parts add up.                                     *)
LEMMA LineFeedsBoth ==
  ASSUME NEW S, NEW a \in Seq(S), NEW b \in Seq(S)
  PROVE  LineFeeds(a \o b) = LineFeeds(a) + LineFeeds(b)
<1> DEFINE n == Len(b)
           T == {m \in 0 .. n : LineFeeds(a \o SubSeq(b, 1, m))
                                  = LineFeeds(a) + LineFeeds(SubSeq(b, 1, m))}
<1>1. /\ n \in Nat /\ SubSeq(b, 1, 0) = <<>> /\ SubSeq(b, 1, n) = b
      /\ \A m \in 1 .. n : /\ SubSeq(b, 1, m - 1) \in Seq(S) /\ b[m] \in S
                            /\ SubSeq(b, 1, m) = Append(SubSeq(b, 1, m - 1), b[m])
  BY FirstMembers
<1> HIDE DEF n
<1>2. \A text \in Seq(S) : LineFeeds(text) \in Nat
  <2>1. ASSUME NEW text \in Seq(S) PROVE LineFeeds(text) \in Nat
    <3> DEFINE every == S \cup {LF}
    <3>1. text \in Seq(every) /\ LF \in every
      OBVIOUS
    <3> HIDE DEF every
    <3> QED BY <3>1, LineFeedsMore
  <2> QED BY <2>1
<1>3. 0 \in T
  <2>1. a \o <<>> = a
    OBVIOUS
  <2>2. LineFeeds(<<>>) = 0
    <3>1. <<>> \in Seq({0}) /\ 0 \in {0}
      OBVIOUS
    <3> QED BY <3>1, LineFeedsMore
  <2> DEFINE empty == <<>>
  <2>3. LineFeeds(a) \in Nat
    BY <1>2
  <2>4. LineFeeds(a \o empty) = LineFeeds(a) + LineFeeds(empty) /\ SubSeq(b, 1, 0) = empty
    BY <1>1, <2>1, <2>2, <2>3
  <2> HIDE DEF empty
  <2>5. 0 \in 0 .. n
    BY <1>1
  <2> QED BY <2>4, <2>5
<1>4. ASSUME NEW m \in 1 .. n, m - 1 \in T PROVE m \in T
  <2> DEFINE shorter == SubSeq(b, 1, m - 1)
             ch == b[m]
  <2>1. shorter \in Seq(S) /\ ch \in S /\ SubSeq(b, 1, m) = Append(shorter, ch)
    BY <1>1
  <2>2. LineFeeds(a \o shorter) = LineFeeds(a) + LineFeeds(shorter)
    BY <1>4
  <2>3. m \in 0 .. n
    BY <1>1
  <2> HIDE DEF shorter, ch
  <2>4. a \o Append(shorter, ch) = Append(a \o shorter, ch) /\ a \o shorter \in Seq(S)
    BY <2>1
  <2>5. LineFeeds(Append(a \o shorter, ch)) = LineFeeds(a \o shorter) + (IF ch = LF THEN 1 ELSE 0)
    BY <2>1, <2>4, LineFeedsMore
  <2>6. LineFeeds(Append(shorter, ch)) = LineFeeds(shorter) + (IF ch = LF THEN 1 ELSE 0)
    BY <2>1, LineFeedsMore
  <2>7. LineFeeds(a) \in Nat /\ LineFeeds(shorter) \in Nat
    BY <1>2, <2>1
  <2>8. \A x, y, z \in Int : (x + y) + z = x + (y + z)
    OBVIOUS
  <2>9. LineFeeds(a \o Append(shorter, ch)) = LineFeeds(a) + LineFeeds(Append(shorter, ch))
    BY <2>2, <2>4, <2>5, <2>6, <2>7, <2>8
  <2> QED BY <2>1, <2>3, <2>9
<1>5. n \in T
  <2>1. n \in 0 .. n
    BY <1>1
  <2> HIDE DEF T
  <2>2. 0 .. n \subseteq T
    BY <1>1, <1>3, <1>4, Induction
  <2> QED BY <2>1, <2>2
<1> QED BY <1>1, <1>5

(* The reader at a place of a text.                                        *)
At(records, fields, field, inQuotes, line, startLine, started, skip) ==
  [records |-> records, field |-> field, fields |-> fields, inQuotes |-> inQuotes,
   line |-> line, startLine |-> startLine, started |-> started, skip |-> skip]

(* What is read once a record is at its end.                               *)
Recorded(records, fields, line) ==
  IF fields = Blank THEN records ELSE Append(records, [fields |-> fields, line |-> line])

Ended(records, fields, line, startLine, skip) ==
  At(Recorded(records, fields, startLine), <<>>, <<>>, FALSE, line + 1, startLine, FALSE, skip)

PlacesOf(records, fields, field, inQuotes, line, startLine, started, skip) ==
  [records : {records}, field : {field}, fields : {fields}, inQuotes : {inQuotes},
   line : {line}, startLine : {startLine}, started : {started}, skip : {skip}]

(* The states of the reader are the records of their nine fields.          *)
LEMMA AtPlace ==
  ASSUME NEW r, NEW fs, NEW f, NEW q, NEW l, NEW sl, NEW st, NEW sk
  PROVE  /\ At(r, fs, f, q, l, sl, st, sk) \in PlacesOf(r, fs, f, q, l, sl, st, sk)
         /\ \A s \in PlacesOf(r, fs, f, q, l, sl, st, sk) : s = At(r, fs, f, q, l, sl, st, sk)
<1>1. At(r, fs, f, q, l, sl, st, sk) \in PlacesOf(r, fs, f, q, l, sl, st, sk)
  BY DEF At, PlacesOf
<1>2. \A s \in PlacesOf(r, fs, f, q, l, sl, st, sk) : s = At(r, fs, f, q, l, sl, st, sk)
  BY DEF At, PlacesOf
<1> QED BY <1>1, <1>2

(* The characters the reader tells apart are different ones.               *)
LEMMA CharactersDiffer ==
  /\ Quote # Comma /\ Quote # CR /\ Quote # LF /\ Comma # CR /\ Comma # LF /\ CR # LF
  /\ "end" \notin {Quote, Comma, CR, LF}
BY DEF Quote, Comma, CR, LF

(* The line after a character, and the one a record begins on.             *)
NextLine(line, ch) == IF ch = LF THEN line + 1 ELSE line
Begun(started, startLine, line) == IF started THEN startLine ELSE line

(* What a character does outside of quotes ...                             *)
ReadsOutside(r, fs, f, l, sl, st) ==
  LET s == At(r, fs, f, FALSE, l, sl, st, FALSE)
      begin == Begun(st, sl, l)
  IN  /\ \A next :
           /\ ReadCharacter(s, Quote, next) = At(r, fs, f, TRUE, l, begin, TRUE, FALSE)
           /\ ReadCharacter(s, Comma, next)
                  = At(r, Append(fs, f), <<>>, FALSE, l, begin, TRUE, FALSE)
           /\ ReadCharacter(s, LF, next) = Ended(r, Append(fs, f), l, begin, FALSE)
      /\ ReadCharacter(s, CR, LF) = Ended(r, Append(fs, f), l, begin, TRUE)
      /\ \A next : next # LF => ReadCharacter(s, CR, next)
             = Ended(r, Append(fs, f), l, begin, FALSE)
      /\ \A ch, next : ch \notin {Quote, Comma, CR, LF} =>
           ReadCharacter(s, ch, next) = At(r, fs, Append(f, ch), FALSE, l, begin, TRUE, FALSE)

(* What the reader does with each character outside quotes                 *)
(* (parsePriceCsv.ts:126-147).                                             *)
LEMMA ReadOutside ==
  ASSUME NEW r, NEW fs, NEW f, NEW l, NEW sl, NEW st \in BOOLEAN
  PROVE  ReadsOutside(r, fs, f, l, sl, st)
<1> DEFINE s == At(r, fs, f, FALSE, l, sl, st, FALSE)
           begin == Begun(st, sl, l)
           new == At(r, fs, f, FALSE, l, begin, TRUE, FALSE)
<1>1. (IF s.started \/ s.inQuotes THEN s ELSE [s EXCEPT !.startLine = s.line, !.started = TRUE])
          = new
  BY DEF At, Begun
<1>2. ~s.skip /\ ~new.inQuotes
  BY DEF At
<1>3. ASSUME NEW c, NEW next PROVE ReadCharacter(s, c, next) =
        CASE c = Quote -> [new EXCEPT !.inQuotes = TRUE]
          [] c = Comma -> PushField(new)
          [] c = CR -> PushRecord([new EXCEPT !.line = @ + 1, !.skip = next = LF])
          [] c = LF -> PushRecord([new EXCEPT !.line = @ + 1])
          [] OTHER -> [new EXCEPT !.field = Append(@, c)]
  <2> HIDE DEF s, new
  <2> QED BY <1>1, <1>2 DEF ReadCharacter
<1> HIDE DEF s, begin
<1>0. /\ new \in PlacesOf(r, fs, f, FALSE, l, begin, TRUE, FALSE)
      /\ new.fields = fs /\ new.field = f /\ new.line = l
  BY AtPlace DEF At
<1> HIDE DEF new
<1>4. [new EXCEPT !.inQuotes = TRUE] = At(r, fs, f, TRUE, l, begin, TRUE, FALSE)
  <2>1. [new EXCEPT !.inQuotes = TRUE] \in PlacesOf(r, fs, f, TRUE, l, begin, TRUE, FALSE)
    BY <1>0 DEF PlacesOf
  <2> QED BY <2>1, AtPlace
<1>5. PushField(new) = At(r, Append(fs, f), <<>>, FALSE, l, begin, TRUE, FALSE)
  <2> DEFINE longer == Append(fs, f)
             empty == <<>>
             pushed == [new EXCEPT !.fields = longer, !.field = empty]
  <2>1. PushField(new) = pushed
    BY <1>0 DEF PushField
  <2> HIDE DEF longer, empty
  <2>2. pushed \in PlacesOf(r, longer, empty, FALSE, l, begin, TRUE, FALSE)
    BY <1>0 DEF PlacesOf
  <2> HIDE DEF pushed
  <2>3. pushed = At(r, longer, empty, FALSE, l, begin, TRUE, FALSE)
    BY <2>2, AtPlace
  <2> QED BY <2>1, <2>3 DEF longer, empty
<1>6. ASSUME NEW skip
      PROVE  PushRecord(At(r, fs, f, FALSE, l + 1, begin, TRUE, skip))
                 = Ended(r, Append(fs, f), l, begin, skip)
  <2> DEFINE t == At(r, fs, f, FALSE, l + 1, begin, TRUE, skip)
             longer == Recorded(r, Append(fs, f), begin)
             empty == <<>>
             line == l + 1
             pushed == [t EXCEPT !.records = longer, !.fields = empty, !.field = empty,
                                 !.started = FALSE]
  <2>1. /\ t \in PlacesOf(r, fs, f, FALSE, l + 1, begin, TRUE, skip)
        /\ t.records = r /\ t.fields = fs /\ t.field = f /\ t.startLine = begin
    BY AtPlace DEF At
  <2> HIDE DEF t
  <2>2. PushRecord(t) = pushed
    BY <2>1 DEF PushRecord, Recorded, Blank
  <2> HIDE DEF longer, empty, line
  <2>3. pushed \in PlacesOf(longer, empty, empty, FALSE, line, begin, FALSE, skip)
    BY <2>1 DEF PlacesOf, line
  <2> HIDE DEF pushed
  <2>4. pushed = At(longer, empty, empty, FALSE, line, begin, FALSE, skip)
    BY <2>3, AtPlace
  <2> QED BY <2>2, <2>4 DEF Ended, t, longer, empty, line
<1>7. ASSUME NEW crlf
      PROVE  /\ [new EXCEPT !.line = @ + 1, !.skip = crlf]
                    = At(r, fs, f, FALSE, l + 1, begin, TRUE, crlf)
             /\ [new EXCEPT !.line = @ + 1] = At(r, fs, f, FALSE, l + 1, begin, TRUE, FALSE)
  <2> DEFINE line == l + 1
             before == [new EXCEPT !.line = @ + 1, !.skip = crlf]
             alone == [new EXCEPT !.line = @ + 1]
  <2> HIDE DEF line
  <2>1. before \in PlacesOf(r, fs, f, FALSE, line, begin, TRUE, crlf)
    BY <1>0 DEF PlacesOf, line
  <2>2. alone \in PlacesOf(r, fs, f, FALSE, line, begin, TRUE, FALSE)
    BY <1>0 DEF PlacesOf, line
  <2> HIDE DEF before, alone
  <2>3. before = At(r, fs, f, FALSE, line, begin, TRUE, crlf)
    BY <2>1, AtPlace
  <2>4. alone = At(r, fs, f, FALSE, line, begin, TRUE, FALSE)
    BY <2>2, AtPlace
  <2> QED BY <2>3, <2>4 DEF line, before, alone
<1>8. ASSUME NEW ch
      PROVE  [new EXCEPT !.field = Append(@, ch)]
                 = At(r, fs, Append(f, ch), FALSE, l, begin, TRUE, FALSE)
  <2> DEFINE longer == Append(f, ch)
             added == [new EXCEPT !.field = Append(@, ch)]
  <2>1. added \in PlacesOf(r, fs, longer, FALSE, l, begin, TRUE, FALSE)
    BY <1>0 DEF PlacesOf
  <2> HIDE DEF longer, added
  <2>2. added = At(r, fs, longer, FALSE, l, begin, TRUE, FALSE)
    BY <2>1, AtPlace
  <2> QED BY <2>2 DEF longer, added
<1> HIDE DEF s, begin, new
<1>9. ASSUME NEW next
      PROVE  /\ ReadCharacter(s, Quote, next) = At(r, fs, f, TRUE, l, begin, TRUE, FALSE)
             /\ ReadCharacter(s, Comma, next)
                    = At(r, Append(fs, f), <<>>, FALSE, l, begin, TRUE, FALSE)
  BY <1>3, <1>4, <1>5, CharactersDiffer
<1>10. ASSUME NEW ch, ch \notin {Quote, Comma, CR, LF}, NEW next
       PROVE  ReadCharacter(s, ch, next) = At(r, fs, Append(f, ch), FALSE, l, begin, TRUE, FALSE)
  BY <1>3, <1>8, <1>10
<1>11. ASSUME NEW next
       PROVE  ReadCharacter(s, LF, next) = Ended(r, Append(fs, f), l, begin, FALSE)
  <2>1. ReadCharacter(s, LF, next) = PushRecord([new EXCEPT !.line = @ + 1])
    BY <1>3, CharactersDiffer
  <2> QED BY <1>6, <1>7, <2>1
<1>12. ASSUME NEW next, NEW crlf \in BOOLEAN, crlf <=> next = LF
       PROVE  ReadCharacter(s, CR, next) = Ended(r, Append(fs, f), l, begin, crlf)
  <2>1. ReadCharacter(s, CR, next) = PushRecord([new EXCEPT !.line = @ + 1, !.skip = next = LF])
    BY <1>3, CharactersDiffer
  <2>2. (next = LF) = crlf
    BY <1>12
  <2>3. ReadCharacter(s, CR, next) = PushRecord([new EXCEPT !.line = @ + 1, !.skip = crlf])
    BY <2>1, <2>2
  <2> QED BY <1>6, <1>7, <2>3
<1>13. /\ ReadCharacter(s, CR, LF) = Ended(r, Append(fs, f), l, begin, TRUE)
       /\ \A next : next # LF => ReadCharacter(s, CR, next)
              = Ended(r, Append(fs, f), l, begin, FALSE)
  BY <1>12
<1> QED BY <1>9, <1>10, <1>11, <1>13 DEF s, begin, ReadsOutside

(* ... and inside.                                                         *)
ReadsInside(r, fs, f, l, sl) ==
  LET s == At(r, fs, f, TRUE, l, sl, TRUE, FALSE)
  IN  /\ ReadCharacter(s, Quote, Quote) = At(r, fs, Append(f, Quote), TRUE, l, sl, TRUE, TRUE)
      /\ \A next : next # Quote => ReadCharacter(s, Quote, next)
             = At(r, fs, f, FALSE, l, sl, TRUE, FALSE)
      /\ \A ch, next : ch # Quote =>
           ReadCharacter(s, ch, next)
               = At(r, fs, Append(f, ch), TRUE, NextLine(l, ch), sl, TRUE, FALSE)

(* What the reader does with each character inside quotes                  *)
(* (parsePriceCsv.ts:112-125).                                             *)
LEMMA ReadInside ==
  ASSUME NEW r, NEW fs, NEW f, NEW l, NEW sl
  PROVE  ReadsInside(r, fs, f, l, sl)
<1> DEFINE s == At(r, fs, f, TRUE, l, sl, TRUE, FALSE)
<1>1. ~s.skip /\ s.inQuotes /\ s.started
  BY DEF At
<1>2. /\ [s EXCEPT !.field = Append(@, Quote), !.skip = TRUE]
             = At(r, fs, Append(f, Quote), TRUE, l, sl, TRUE, TRUE)
      /\ [s EXCEPT !.inQuotes = FALSE] = At(r, fs, f, FALSE, l, sl, TRUE, FALSE)
      /\ \A ch : [s EXCEPT !.field = Append(@, ch), !.line = NextLine(@, ch)]
                  = At(r, fs, Append(f, ch), TRUE, NextLine(l, ch), sl, TRUE, FALSE)
  <2>1. s \in PlacesOf(r, fs, f, TRUE, l, sl, TRUE, FALSE)
    BY AtPlace
  <2> HIDE DEF s
  <2>2. [s EXCEPT !.field = Append(@, Quote), !.skip = TRUE]
            = At(r, fs, Append(f, Quote), TRUE, l, sl, TRUE, TRUE)
    <3> DEFINE longer == Append(f, Quote)
               first == [s EXCEPT !.field = Append(@, Quote), !.skip = TRUE]
    <3>1. first \in PlacesOf(r, fs, longer, TRUE, l, sl, TRUE, TRUE)
      BY <2>1 DEF PlacesOf
    <3> HIDE DEF longer, first
    <3>2. first = At(r, fs, longer, TRUE, l, sl, TRUE, TRUE)
      BY <3>1, AtPlace
    <3> QED BY <3>2 DEF longer, first
  <2>3. [s EXCEPT !.inQuotes = FALSE] = At(r, fs, f, FALSE, l, sl, TRUE, FALSE)
    <3>1. [s EXCEPT !.inQuotes = FALSE] \in PlacesOf(r, fs, f, FALSE, l, sl, TRUE, FALSE)
      BY <2>1 DEF PlacesOf
    <3> QED BY <3>1, AtPlace
  <2>4. ASSUME NEW ch
        PROVE  [s EXCEPT !.field = Append(@, ch), !.line = NextLine(@, ch)]
                 = At(r, fs, Append(f, ch), TRUE, NextLine(l, ch), sl, TRUE, FALSE)
    <3> DEFINE longer == Append(f, ch)
               line == NextLine(l, ch)
               added == [s EXCEPT !.field = Append(@, ch), !.line = NextLine(@, ch)]
    <3>1. added \in PlacesOf(r, fs, longer, TRUE, line, sl, TRUE, FALSE)
      BY <2>1 DEF PlacesOf
    <3> HIDE DEF longer, line, added
    <3>2. added = At(r, fs, longer, TRUE, line, sl, TRUE, FALSE)
      BY <3>1, AtPlace
    <3> QED BY <3>2 DEF longer, line, added
  <2> QED BY <2>2, <2>3, <2>4
<1> HIDE DEF s
<1>3. /\ ReadCharacter(s, Quote, Quote) = [s EXCEPT !.field = Append(@, Quote), !.skip = TRUE]
      /\ \A next : next # Quote => ReadCharacter(s, Quote, next) = [s EXCEPT !.inQuotes = FALSE]
      /\ \A ch, next : ch # Quote => ReadCharacter(s, ch, next)
                         = [s EXCEPT !.field = Append(@, ch), !.line = NextLine(@, ch)]
  BY <1>1 DEF ReadCharacter, NextLine
<1>4. ASSUME NEW ch, NEW next, ch # Quote
      PROVE  ReadCharacter(s, ch, next)
                 = At(r, fs, Append(f, ch), TRUE, NextLine(l, ch), sl, TRUE, FALSE)
  <2>1. ReadCharacter(s, ch, next) = [s EXCEPT !.field = Append(@, ch), !.line = NextLine(@, ch)]
    BY <1>3, <1>4
  <2>2. [s EXCEPT !.field = Append(@, ch), !.line = NextLine(@, ch)]
          = At(r, fs, Append(f, ch), TRUE, NextLine(l, ch), sl, TRUE, FALSE)
    BY <1>2
  <2> QED BY <2>1, <2>2
<1> QED BY <1>2, <1>3, <1>4 DEF s, ReadsInside

(* A character that has been taken care of.                                *)
LEMMA ReadSkipped ==
  ASSUME NEW r, NEW fs, NEW f, NEW q, NEW l, NEW sl, NEW st, NEW ch, NEW next
  PROVE  ReadCharacter(At(r, fs, f, q, l, sl, st, TRUE), ch, next)
             = At(r, fs, f, q, l, sl, st, FALSE)
<1> DEFINE s == At(r, fs, f, q, l, sl, st, TRUE)
<1>1. s.skip /\ [s EXCEPT !.skip = FALSE] = At(r, fs, f, q, l, sl, st, FALSE)
  <2>1. s.skip /\ s \in PlacesOf(r, fs, f, q, l, sl, st, TRUE)
    BY AtPlace DEF At
  <2> HIDE DEF s
  <2>2. [s EXCEPT !.skip = FALSE] \in PlacesOf(r, fs, f, q, l, sl, st, FALSE)
    BY <2>1 DEF PlacesOf
  <2> QED BY <2>1, <2>2, AtPlace
<1> HIDE DEF s
<1>2. ReadCharacter(s, ch, next) = [s EXCEPT !.skip = FALSE]
  BY <1>1 DEF ReadCharacter
<1> QED BY <1>1, <1>2 DEF s

(* A text of one or two characters.                                        *)
LEMMA ReadSingle ==
  ASSUME NEW s, NEW a, NEW next
  PROVE  Read(s, <<a>>, next) = ReadCharacter(s, a, next)
<1> DEFINE none == <<>>
<1>1. none \in Seq({a}) /\ a \in {a} /\ <<a>> = Append(none, a)
  OBVIOUS
<1>2. Read(s, none, a) = s
  BY ReadNone
<1> HIDE DEF none
<1>3. Read(s, Append(none, a), next) = ReadCharacter(Read(s, none, a), a, next)
  BY <1>1, ReadOne
<1> QED BY <1>1, <1>2, <1>3

(* Two quotes are two steps of the reader, the first with the second       *)
(* ahead.                                                                  *)
LEMMA ReadDouble ==
  ASSUME NEW s, NEW next
  PROVE  Read(s, <<Quote, Quote>>, next)
             = ReadCharacter(ReadCharacter(s, Quote, Quote), Quote, next)
<1> DEFINE one == <<Quote>>
<1>1. one \in Seq({Quote}) /\ Quote \in {Quote} /\ <<Quote, Quote>> = Append(one, Quote)
  OBVIOUS
<1>2. Read(s, one, Quote) = ReadCharacter(s, Quote, Quote)
  BY ReadSingle
<1> HIDE DEF one
<1>3. Read(s, Append(one, Quote), next) = ReadCharacter(Read(s, one, Quote), Quote, next)
  BY <1>1, ReadOne
<1> QED BY <1>1, <1>2, <1>3

(* A record that began on line `begin` has got as far as the field f.      *)
Reading(s, records, fields, field, line, begin) ==
  \E startLine, started :
    /\ started \in BOOLEAN
    /\ s = At(records, fields, field, FALSE, line, startLine, started, FALSE)
    /\ begin = Begun(started, startLine, line)
    /\ started \/ (fields = <<>> /\ field = <<>>)

(* A reader inside a record, with nothing pending, is reading its last     *)
(* field.                                                                  *)
LEMMA ReadingGoesOn ==
  ASSUME NEW r, NEW fs, NEW f, NEW l, NEW begin
  PROVE  Reading(At(r, fs, f, FALSE, l, begin, TRUE, FALSE), r, fs, f, l, begin)
<1> DEFINE s == At(r, fs, f, FALSE, l, begin, TRUE, FALSE)
           on == TRUE
<1>1. on \in BOOLEAN /\ on /\ s = At(r, fs, f, FALSE, l, begin, on, FALSE)
      /\ begin = Begun(on, begin, l)
  BY DEF Begun
<1> HIDE DEF s, on
<1>2. \E startLine, started : /\ started \in BOOLEAN
                              /\ s = At(r, fs, f, FALSE, l, startLine, started, FALSE)
                              /\ begin = Begun(started, startLine, l)
                              /\ started \/ (fs = <<>> /\ f = <<>>)
  BY <1>1
<1> QED BY <1>2 DEF Reading, s

(* A field that is written as it is.                                       *)
LEMMA PlainIsRead ==
  ASSUME NEW Char, NEW field \in Seq(Char),
         \A i \in 1 .. Len(field) : field[i] \notin {Quote, Comma, CR, LF},
         NEW s, NEW r, NEW fs, NEW l \in Nat, NEW begin, Reading(s, r, fs, <<>>, l, begin),
         NEW next
  PROVE  Reading(Read(s, field, next), r, fs, field, l, begin)
<1> DEFINE n == Len(field)
           Holds(m) ==
               \A after :
                   Reading(Read(s, SubSeq(field, 1, m), after), r, fs, SubSeq(field, 1, m), l,
                           begin)
           T == {m \in 0 .. n : Holds(m)}
<1>1. /\ n \in Nat /\ SubSeq(field, 1, 0) = <<>> /\ SubSeq(field, 1, n) = field
      /\ \A m \in 1 .. n : /\ SubSeq(field, 1, m - 1) \in Seq(Char) /\ field[m] \in Char
                            /\ SubSeq(field, 1, m) = Append(SubSeq(field, 1, m - 1), field[m])
  BY FirstMembers
<1> HIDE DEF n
<1>2. 0 \in T
  <2>1. \A after : Read(s, <<>>, after) = s
    BY ReadNone
  <2> DEFINE none == <<>>
  <2>2. \A after : Reading(Read(s, none, after), r, fs, none, l, begin)
    BY <2>1
  <2>3. SubSeq(field, 1, 0) = none
    BY <1>1
  <2> HIDE DEF none
  <2>4. Holds(0)
    BY <2>2, <2>3
  <2>5. 0 \in 0 .. n
    BY <1>1
  <2> HIDE DEF Holds
  <2> QED BY <2>4, <2>5
<1>3. ASSUME NEW m \in 1 .. n, m - 1 \in T PROVE m \in T
  <2> DEFINE shorter == SubSeq(field, 1, m - 1)
             ch == field[m]
  <2>1. shorter \in Seq(Char) /\ ch \in Char /\ SubSeq(field, 1, m) = Append(shorter, ch)
    BY <1>1
  <2>2. \A after : Reading(Read(s, shorter, after), r, fs, shorter, l, begin)
    BY <1>3
  <2>3. ch \notin {Quote, Comma, CR, LF} /\ m \in 0 .. n
    BY <1>1 DEF n
  <2> HIDE DEF shorter, ch
  <2>4. ASSUME NEW after
        PROVE  Reading(Read(s, Append(shorter, ch), after), r, fs, Append(shorter, ch), l, begin)
    <3>1. PICK sl, st : /\ st \in BOOLEAN
                        /\ Read(s, shorter, ch) = At(r, fs, shorter, FALSE, l, sl, st, FALSE)
                        /\ begin = Begun(st, sl, l)
      BY <2>2 DEF Reading
    <3>2. Read(s, Append(shorter, ch), after) = ReadCharacter(Read(s, shorter, ch), ch, after)
      BY <2>1, ReadOne
    <3>3. ReadCharacter(At(r, fs, shorter, FALSE, l, sl, st, FALSE), ch, after)
            = At(r, fs, Append(shorter, ch), FALSE, l, begin, TRUE, FALSE)
      <4>1. ReadsOutside(r, fs, shorter, l, sl, st)
        BY <3>1, ReadOutside
      <4> QED BY <2>3, <3>1, <4>1 DEF ReadsOutside
    <3>5. Read(s, Append(shorter, ch), after)
              = At(r, fs, Append(shorter, ch), FALSE, l, begin, TRUE, FALSE)
      BY <3>1, <3>2, <3>3
    <3> DEFINE there == Read(s, Append(shorter, ch), after)
               longer == Append(shorter, ch)
    <3> HIDE DEF there, longer
    <3>6. there = At(r, fs, longer, FALSE, l, begin, TRUE, FALSE)
      BY <3>5 DEF there, longer
    <3>7. Reading(there, r, fs, longer, l, begin)
      BY <3>6, ReadingGoesOn
    <3> QED BY <3>7 DEF there, longer
  <2>5. Holds(m)
    BY <2>1, <2>4
  <2> HIDE DEF Holds
  <2> QED BY <2>3, <2>5
<1>4. n \in T
  <2>1. n \in 0 .. n
    BY <1>1
  <2> HIDE DEF T
  <2>2. 0 .. n \subseteq T
    BY <1>1, <1>2, <1>3, Induction
  <2> QED BY <2>1, <2>2
<1>5. Holds(n)
  BY <1>4
<1> QED BY <1>1, <1>5

(* What stands between the quotes of a field: a quote in it is doubled.    *)
Doubled(field) ==
    [i \in DOMAIN field |-> IF field[i] = Quote THEN <<Quote, Quote>> ELSE <<field[i]>>]

Inside(r, fs, field, l, begin) == At(r, fs, field, TRUE, l + LineFeeds(field), begin, TRUE, FALSE)

(* A field with its quotes doubled is read back inside quotes, and the     *)
(* lines it spans are counted.                                             *)
LEMMA DoubledIsRead ==
  ASSUME NEW Char, Quote \in Char, NEW field \in Seq(Char),
         NEW s, NEW r, NEW fs, NEW l \in Nat, NEW begin, s = Inside(r, fs, <<>>, l, begin),
         NEW next
  PROVE  /\ Doubled(field) \in Seq(Seq(Char))
         /\ Read(s, FlattenSeq(Doubled(field)), next) = Inside(r, fs, field, l, begin)
<1> DEFINE n == Len(field)
           d == Doubled(field)
           Holds(m) == \A after : Read(s, FlattenSeq(SubSeq(d, 1, m)), after)
                                    = Inside(r, fs, SubSeq(field, 1, m), l, begin)
           T == {m \in 0 .. n : Holds(m)}
<1>1. /\ n \in Nat /\ SubSeq(field, 1, 0) = <<>> /\ SubSeq(field, 1, n) = field
      /\ \A m \in 1 .. n : /\ SubSeq(field, 1, m - 1) \in Seq(Char) /\ field[m] \in Char
                            /\ SubSeq(field, 1, m) = Append(SubSeq(field, 1, m - 1), field[m])
  BY FirstMembers
<1>2. /\ d \in Seq(Seq(Char)) /\ Len(d) = n
      /\ \A m \in 1 .. n : d[m] = IF field[m] = Quote THEN <<Quote, Quote>> ELSE <<field[m]>>
  <2> DEFINE Part(ch) == IF ch = Quote THEN <<Quote, Quote>> ELSE <<ch>>
  <2>1. \A ch \in Char : Part(ch) \in Seq(Char)
    OBVIOUS
  <2>2. d = [m \in 1 .. n |-> Part(field[m])]
    BY DEF Doubled
  <2> HIDE DEF Part, n
  <2>3. \A m \in 1 .. n : Part(field[m]) \in Seq(Char)
    BY <1>1, <2>1
  <2>4. d \in Seq(Seq(Char)) /\ Len(d) = n /\ \A m \in 1 .. n : d[m] = Part(field[m])
    BY <1>1, <2>2, <2>3
  <2> QED BY <2>4 DEF Part
<1> HIDE DEF n, d
<1>3. /\ SubSeq(d, 1, 0) = <<>> /\ SubSeq(d, 1, n) = d
      /\ \A m \in 1 .. n : /\ SubSeq(d, 1, m - 1) \in Seq(Seq(Char)) /\ d[m] \in Seq(Char)
                            /\ SubSeq(d, 1, m) = Append(SubSeq(d, 1, m - 1), d[m])
  BY <1>2, FirstMembers
<1>4. 0 \in T
  <2>1. \A after, state : Read(state, <<>>, after) = state
    BY ReadNone
  <2>2. FlattenSeq(<<>>) = <<>>
    BY FlattenMore
  <2> DEFINE none == <<>>
  <2>3. \A after : Read(s, FlattenSeq(none), after) = Inside(r, fs, none, l, begin)
    BY <2>1, <2>2
  <2>4. SubSeq(field, 1, 0) = none /\ SubSeq(d, 1, 0) = none
    BY <1>1, <1>3
  <2> HIDE DEF none
  <2>5. Holds(0)
    BY <2>3, <2>4
  <2>6. 0 \in 0 .. n
    BY <1>1
  <2> HIDE DEF Holds
  <2> QED BY <2>5, <2>6
<1>5. ASSUME NEW m \in 1 .. n, m - 1 \in T PROVE m \in T
  <2> DEFINE shorter == SubSeq(field, 1, m - 1)
             ch == field[m]
             written == SubSeq(d, 1, m - 1)
             more == d[m]
             before == FlattenSeq(written)
             line == l + LineFeeds(shorter)
  <2>1. shorter \in Seq(Char) /\ ch \in Char /\ SubSeq(field, 1, m) = Append(shorter, ch)
    BY <1>1
  <2>2. written \in Seq(Seq(Char)) /\ more \in Seq(Char)
        /\ SubSeq(d, 1, m) = Append(written, more)
    BY <1>3
  <2>3. more = (IF ch = Quote THEN <<Quote, Quote>> ELSE <<ch>>) /\ m \in 0 .. n
    BY <1>1, <1>2
  <2>4. \A after : Read(s, before, after) = Inside(r, fs, shorter, l, begin)
    BY <1>5
  <2> HIDE DEF shorter, ch, written, more
  <2>5. before \in Seq(Char) /\ FlattenSeq(Append(written, more)) = before \o more
    BY <2>2, FlattenMore
  <2> HIDE DEF before
  <2>6. LineFeeds(shorter) \in Nat
        /\ LineFeeds(Append(shorter, ch)) = LineFeeds(shorter) + (IF ch = LF THEN 1 ELSE 0)
    BY <2>1, LineFeedsMore
  <2>7. l + LineFeeds(Append(shorter, ch)) = NextLine(line, ch)
    BY <2>6 DEF NextLine
  <2>8. ASSUME NEW after
        PROVE  Read(s, before \o more, after) = Inside(r, fs, Append(shorter, ch), l, begin)
    <3> DEFINE here == At(r, fs, shorter, TRUE, line, begin, TRUE, FALSE)
               there ==
                   At(r, fs, Append(shorter, ch), TRUE, NextLine(line, ch), begin, TRUE, FALSE)
    <3>1. Read(s, before \o more, after) = Read(here, more, after)
      <4>1. Read(s, before, Ahead(more, after)) = here
        BY <2>4 DEF Inside
      <4> HIDE DEF here
      <4>2. Read(s, before \o more, after)
                = Read(Read(s, before, Ahead(more, after)), more, after)
        BY <2>2, <2>5, ReadOn
      <4> QED BY <4>1, <4>2
    <3> HIDE DEF line
    <3>0. ReadsInside(r, fs, shorter, line, begin)
      BY ReadInside
    <3>2. CASE ch = Quote
      <4> DEFINE doubled == At(r, fs, Append(shorter, Quote), TRUE, line, begin, TRUE, TRUE)
      <4>1. Read(here, <<Quote, Quote>>, after)
                = ReadCharacter(ReadCharacter(here, Quote, Quote), Quote, after)
        BY ReadDouble
      <4>2. ReadCharacter(here, Quote, Quote) = doubled
        BY <3>0 DEF ReadsInside
      <4>3. ReadCharacter(doubled, Quote, after)
                = At(r, fs, Append(shorter, Quote), TRUE, line, begin, TRUE, FALSE)
        BY ReadSkipped
      <4>4. NextLine(line, ch) = line
        BY <3>2, CharactersDiffer DEF NextLine
      <4>5. Read(here, more, after) = there
        BY <2>3, <3>2, <4>1, <4>2, <4>3, <4>4
      <4> QED BY <2>7, <3>1, <4>5 DEF Inside
    <3>3. CASE ch # Quote
      <4>1. Read(here, <<ch>>, after) = ReadCharacter(here, ch, after)
        BY ReadSingle
      <4>2. ReadCharacter(here, ch, after) = there
        BY <3>0, <3>3 DEF ReadsInside
      <4>3. Read(here, more, after) = there
        BY <2>3, <3>3, <4>1, <4>2
      <4> QED BY <2>7, <3>1, <4>3 DEF Inside
    <3> QED BY <3>2, <3>3
  <2>9. Holds(m)
    BY <2>1, <2>2, <2>5, <2>8
  <2> HIDE DEF Holds
  <2> QED BY <2>3, <2>9
<1>6. n \in T
  <2>1. n \in 0 .. n
    BY <1>1
  <2> HIDE DEF T
  <2>2. 0 .. n \subseteq T
    BY <1>1, <1>4, <1>5, Induction
  <2> QED BY <2>1, <2>2
<1>7. Holds(n)
  BY <1>6
<1> QED BY <1>1, <1>2, <1>3, <1>7 DEF d
(* A field that must be quoted, or may be.                                 *)
LEMMA FieldIsWritten ==
  ASSUME NEW Char, {Quote, Comma, CR, LF} \subseteq Char, NEW field \in Seq(Char),
         NEW always \in BOOLEAN
  PROVE  /\ WriteField(field, always) \in Seq(Char)
         /\ \/ /\ WriteField(field, always) = field
               /\ \A i \in 1 .. Len(field) : field[i] \notin {Quote, Comma, CR, LF}
            \/ WriteField(field, always) = <<Quote>> \o FlattenSeq(Doubled(field)) \o <<Quote>>
<1>1. DOMAIN field = 1 .. Len(field)
  OBVIOUS
<1>2. FlattenSeq(Doubled(field)) \in Seq(Char)
  <2>1. Doubled(field) \in Seq(Seq(Char))
    <3>1. Inside(<<>>, <<>>, <<>>, 0, 0) = Inside(<<>>, <<>>, <<>>, 0, 0) /\ Quote \in Char
          /\ 0 \in Nat
      OBVIOUS
    <3> QED BY <3>1, DoubledIsRead
  <2> QED BY <2>1, FlattenMore
<1>3. ASSUME NEW t \in Seq(Char) PROVE <<Quote>> \o t \o <<Quote>> \in Seq(Char)
  <2>1. <<Quote>> \in Seq(Char)
    OBVIOUS
  <2>2. \A a, b \in Seq(Char) : a \o b \in Seq(Char)
    OBVIOUS
  <2> QED BY <2>1, <2>2
<1>4. CASE always \/ \E i \in DOMAIN field : field[i] \in {Quote, Comma, CR, LF}
  <2>1. WriteField(field, always) = <<Quote>> \o FlattenSeq(Doubled(field)) \o <<Quote>>
    BY <1>4 DEF WriteField, Doubled
  <2> QED BY <1>2, <1>3, <2>1
<1>5. CASE ~(always \/ \E i \in DOMAIN field : field[i] \in {Quote, Comma, CR, LF})
  <2>1. WriteField(field, always) = field
    BY <1>5 DEF WriteField
  <2>2. \A i \in 1 .. Len(field) : field[i] \notin {Quote, Comma, CR, LF}
    BY <1>1, <1>5
  <2> QED BY <2>1, <2>2
<1> QED BY <1>4, <1>5

(* It is read as it was meant, unless a quote follows.                     *)
LEMMA FieldIsRead ==
  ASSUME NEW Char, {Quote, Comma, CR, LF} \subseteq Char, NEW field \in Seq(Char),
         NEW always \in BOOLEAN,
         NEW s, NEW r, NEW fs, NEW l \in Nat, NEW begin, Reading(s, r, fs, <<>>, l, begin),
         NEW next, next # Quote
  PROVE  Reading(Read(s, WriteField(field, always), next), r, fs, field, l + LineFeeds(field),
                 begin)
<1>1. CASE /\ WriteField(field, always) = field
           /\ \A i \in 1 .. Len(field) : field[i] \notin {Quote, Comma, CR, LF}
  <2>1. Reading(Read(s, field, next), r, fs, field, l, begin)
    BY <1>1, PlainIsRead
  <2>2. LineFeeds(field) = 0
    <3>1. {i \in DOMAIN field : field[i] = LF} = {}
      <4>1. DOMAIN field = 1 .. Len(field)
        OBVIOUS
      <4> QED BY <1>1, <4>1
    <3> QED BY <3>1, FS_EmptySet DEF LineFeeds
  <2>3. l + 0 = l
    OBVIOUS
  <2> QED BY <1>1, <2>1, <2>2, <2>3
<1>2. CASE WriteField(field, always) = <<Quote>> \o FlattenSeq(Doubled(field)) \o <<Quote>>
  <2> DEFINE first == <<Quote>>
             middle == FlattenSeq(Doubled(field))
             line == l + LineFeeds(field)
             opened == Inside(r, fs, <<>>, l, begin)
             read == Inside(r, fs, field, l, begin)
             closed == At(r, fs, field, FALSE, line, begin, TRUE, FALSE)
  <2>1. PICK sl, st : st \in BOOLEAN /\ s = At(r, fs, <<>>, FALSE, l, sl, st, FALSE)
                      /\ begin = Begun(st, sl, l)
    BY DEF Reading
  <2>2. \A after : Read(s, first, after) = opened
    <3>1. ReadsOutside(r, fs, <<>>, l, sl, st)
      BY <2>1, ReadOutside
    <3>2. \A after : ReadCharacter(s, Quote, after) = At(r, fs, <<>>, TRUE, l, begin, TRUE, FALSE)
      BY <2>1, <3>1 DEF ReadsOutside
    <3>3. l + LineFeeds(<<>>) = l
      <4>1. {i \in DOMAIN <<>> : <<>>[i] = LF} = {}
        OBVIOUS
      <4>2. LineFeeds(<<>>) = 0
        BY <4>1, FS_EmptySet DEF LineFeeds
      <4> QED BY <4>2
    <3> QED BY <3>2, <3>3, ReadSingle DEF Inside
  <2>3. \A after : Read(opened, middle, after) = read
    <3> HIDE DEF middle
    <3>1. Quote \in Char /\ opened = Inside(r, fs, <<>>, l, begin)
      OBVIOUS
    <3> HIDE DEF opened
    <3> QED BY <3>1, DoubledIsRead DEF middle
  <2>4. Read(read, first, next) = closed
    <3>1. ReadsInside(r, fs, field, line, begin)
      BY ReadInside
    <3> HIDE DEF line
    <3>2. ReadCharacter(At(r, fs, field, TRUE, line, begin, TRUE, FALSE), Quote, next) = closed
      BY <3>1 DEF ReadsInside
    <3>3. read = At(r, fs, field, TRUE, line, begin, TRUE, FALSE)
      BY DEF Inside, line
    <3> HIDE DEF read
    <3> QED BY <3>2, <3>3, ReadSingle
  <2>5. first \in Seq(Char) /\ middle \in Seq(Char) /\ first \o middle \in Seq(Char)
    <3>1. first \in Seq(Char)
      OBVIOUS
    <3>2. Doubled(field) \in Seq(Seq(Char))
      <4>1. Quote \in Char /\ opened = Inside(r, fs, <<>>, l, begin)
        OBVIOUS
      <4> QED BY <4>1, DoubledIsRead
    <3>3. middle \in Seq(Char)
      BY <3>2, FlattenMore
    <3> HIDE DEF first, middle
    <3> QED BY <3>1, <3>3
  <2> HIDE DEF first, middle, opened, read, closed
  <2>6. Read(s, (first \o middle) \o first, next) = closed
    <3> DEFINE both == first \o middle
    <3>1. \A after : Read(s, both, after)
              = Read(Read(s, first, Ahead(middle, after)), middle, after)
      BY <2>5, ReadOn
    <3>2. both \in Seq(Char)
      BY <2>5
    <3> HIDE DEF both
    <3>3. Read(s, both \o first, next) = Read(Read(s, both, Ahead(first, next)), first, next)
      BY <2>5, <3>2, ReadOn
    <3>4. Read(s, both \o first, next) = closed
      BY <2>2, <2>3, <2>4, <3>1, <3>3
    <3> QED BY <3>4 DEF both
  <2>7. Reading(closed, r, fs, field, line, begin)
    <3> HIDE DEF line
    <3> QED BY ReadingGoesOn DEF closed
  <2> QED BY <1>2, <2>6, <2>7 DEF first, middle
<1> QED BY <1>1, <1>2, FieldIsWritten

(* A comma ends the field ...                                              *)
LEMMA CommaIsRead ==
  ASSUME NEW s, NEW r, NEW fs, NEW f, NEW l, NEW begin, Reading(s, r, fs, f, l, begin), NEW next
  PROVE  Reading(Read(s, <<Comma>>, next), r, Append(fs, f), <<>>, l, begin)
<1> DEFINE longer == Append(fs, f)
           none == <<>>
           there == At(r, longer, none, FALSE, l, begin, TRUE, FALSE)
<1>1. PICK sl, st : st \in BOOLEAN /\ s = At(r, fs, f, FALSE, l, sl, st, FALSE)
                    /\ begin = Begun(st, sl, l)
  BY DEF Reading
<1>2. ReadsOutside(r, fs, f, l, sl, st)
  BY <1>1, ReadOutside
<1>3. ReadCharacter(s, Comma, next) = there
  BY <1>1, <1>2 DEF ReadsOutside
<1> HIDE DEF longer, none
<1>4. Reading(there, r, longer, none, l, begin)
  BY ReadingGoesOn
<1>5. Read(s, <<Comma>>, next) = ReadCharacter(s, Comma, next)
  BY ReadSingle
<1> QED BY <1>3, <1>4, <1>5 DEF longer, none

(* ... and the end of a line the record, however it is written.            *)
Ends == {<<LF>>, <<CR>>, <<CR, LF>>}

(* An end of line closes the record, at the line where it began; the line  *)
(* feed of a CR LF is skipped.                                             *)
LEMMA EndIsRead ==
  ASSUME NEW s, NEW r, NEW fs, NEW f, NEW l, NEW begin, Reading(s, r, fs, f, l, begin),
         NEW end \in Ends, NEW next, end = <<CR>> => next # LF
  PROVE  Reading(Read(s, end, next), Recorded(r, Append(fs, f), begin), <<>>, <<>>, l + 1, l + 1)
<1> DEFINE longer == Append(fs, f)
           Stop(skip) == Ended(r, longer, l, begin, skip)
<1>1. PICK sl, st : st \in BOOLEAN /\ s = At(r, fs, f, FALSE, l, sl, st, FALSE)
                    /\ begin = Begun(st, sl, l)
  BY DEF Reading
<1>2. ReadsOutside(r, fs, f, l, sl, st)
  BY <1>1, ReadOutside
<1>3. /\ ReadCharacter(s, LF, next) = Stop(FALSE)
      /\ ReadCharacter(s, CR, LF) = Stop(TRUE)
      /\ next # LF => ReadCharacter(s, CR, next) = Stop(FALSE)
  BY <1>1, <1>2 DEF ReadsOutside
<1>4. ReadCharacter(Stop(TRUE), LF, next) = Stop(FALSE)
  <2> DEFINE all == Recorded(r, longer, begin)
             line == l + 1
             none == <<>>
  <2> HIDE DEF all, line, none
  <2>1. ReadCharacter(At(all, none, none, FALSE, line, begin, FALSE, TRUE), LF, next)
          = At(all, none, none, FALSE, line, begin, FALSE, FALSE)
    BY ReadSkipped
  <2> QED BY <2>1 DEF Ended, all, line, none
<1> HIDE DEF Stop
<1>5. /\ Read(s, <<LF>>, next) = ReadCharacter(s, LF, next)
      /\ Read(s, <<CR>>, next) = ReadCharacter(s, CR, next)
  BY ReadSingle
<1>6. Read(s, <<CR, LF>>, next) = ReadCharacter(ReadCharacter(s, CR, LF), LF, next)
  <2> DEFINE one == <<CR>>
             Both == {CR, LF}
  <2>1. one \in Seq(Both) /\ LF \in Both /\ <<CR, LF>> = Append(one, LF)
    OBVIOUS
  <2>2. Read(s, one, LF) = ReadCharacter(s, CR, LF)
    BY ReadSingle
  <2> HIDE DEF one, Both
  <2>3. Read(s, Append(one, LF), next) = ReadCharacter(Read(s, one, LF), LF, next)
    BY <2>1, ReadOne
  <2> QED BY <2>1, <2>2, <2>3
<1>7. Read(s, end, next) = Stop(FALSE)
  <2>1. CASE end = <<LF>>
    BY <1>3, <1>5, <2>1
  <2>2. CASE end = <<CR>>
    BY <1>3, <1>5, <2>2
  <2>3. CASE end = <<CR, LF>>
    BY <1>3, <1>4, <1>6, <2>3
  <2> QED BY <2>1, <2>2, <2>3 DEF Ends
<1>8. ASSUME NEW all, NEW line
      PROVE  Reading(At(all, <<>>, <<>>, FALSE, line, begin, FALSE, FALSE), all, <<>>, <<>>, line,
                     line)
  <2> DEFINE here == At(all, <<>>, <<>>, FALSE, line, begin, FALSE, FALSE)
             off == FALSE
  <2>1. off \in BOOLEAN /\ here = At(all, <<>>, <<>>, FALSE, line, begin, off, FALSE)
        /\ line = Begun(off, begin, line)
    BY DEF Begun
  <2> HIDE DEF here, off
  <2> QED BY <2>1 DEF Reading, here
<1>9. Reading(Stop(FALSE), Recorded(r, longer, begin), <<>>, <<>>, l + 1, l + 1)
  BY <1>8 DEF Stop, Ended
<1> QED BY <1>7, <1>9

(* The fields of a record, with commas between them.                       *)
Parts(fields, always) ==
  [i \in DOMAIN fields |-> (IF i = 1 THEN <<>> ELSE <<Comma>>) \o WriteField(fields[i], always)]

(* A written record is its first field and then each other one behind a    *)
(* comma.                                                                  *)
LEMMA PartsAre ==
  ASSUME NEW Char, {Quote, Comma, CR, LF} \subseteq Char, NEW fields \in Seq(Seq(Char)),
         NEW always \in BOOLEAN
  PROVE  /\ WriteRecord(fields, always) = FlattenSeq(Parts(fields, always))
         /\ WriteRecord(fields, always) \in Seq(Char)
         /\ Parts(fields, always) \in Seq(Seq(Char)) /\ Len(Parts(fields, always)) = Len(fields)
         /\ fields # <<>> => Parts(fields, always)[1] = WriteField(fields[1], always)
         /\ \A i \in 2 .. Len(fields) : Parts(fields, always)[i]
                = <<Comma>> \o WriteField(fields[i], always)
<1> DEFINE n == Len(fields)
           parts == Parts(fields, always)
           Part(i) == (IF i = 1 THEN <<>> ELSE <<Comma>>) \o WriteField(fields[i], always)
<1>1. n \in Nat /\ DOMAIN fields = 1 .. n /\ \A i \in 1 .. n : fields[i] \in Seq(Char)
  OBVIOUS
<1>2. \A i \in 1 .. n : WriteField(fields[i], always) \in Seq(Char)
  BY <1>1, FieldIsWritten
<1>3. parts = [i \in 1 .. n |-> Part(i)]
  BY <1>1 DEF Parts
<1>4. \A i \in 1 .. n : Part(i) \in Seq(Char)
  <2>1. Comma \in Char
    OBVIOUS
  <2>2. <<>> \in Seq(Char) /\ <<Comma>> \in Seq(Char)
    BY <2>1
  <2>3. \A a, b \in Seq(Char) : a \o b \in Seq(Char)
    OBVIOUS
  <2> QED BY <1>2, <2>2, <2>3
<1> HIDE DEF Part, n, parts
<1>5. parts \in Seq(Seq(Char)) /\ Len(parts) = n /\ \A i \in 1 .. n : parts[i] = Part(i)
  BY <1>1, <1>3, <1>4
<1>6. WriteRecord(fields, always) = FlattenSeq(parts)
  BY DEF WriteRecord, Parts, parts
<1>7. FlattenSeq(parts) \in Seq(Char)
  BY <1>5, FlattenMore
<1>8. fields # <<>> => parts[1] = WriteField(fields[1], always)
  <2>1. SUFFICES ASSUME fields # <<>> PROVE parts[1] = WriteField(fields[1], always)
    OBVIOUS
  <2>2. 1 \in 1 .. n
    BY <1>1, <2>1 DEF n
  <2>3. \A t \in Seq(Char) : <<>> \o t = t
    OBVIOUS
  <2>4. parts[1] = <<>> \o WriteField(fields[1], always)
    BY <1>5, <2>2 DEF Part
  <2> QED BY <1>2, <2>2, <2>3, <2>4
<1>9. \A i \in 2 .. n : parts[i] = <<Comma>> \o WriteField(fields[i], always)
  <2>1. \A i \in 2 .. n : i \in 1 .. n /\ i # 1
    BY <1>1
  <2> QED BY <1>5, <2>1 DEF Part
<1> QED BY <1>5, <1>6, <1>7, <1>8, <1>9 DEF n, parts

(* A written record is read back field by field, all but the last of them  *)
(* closed.                                                                 *)
LEMMA RecordIsRead ==
  ASSUME NEW Char, {Quote, Comma, CR, LF} \subseteq Char,
         NEW fields \in Seq(Seq(Char)), fields # <<>>, NEW always \in BOOLEAN,
         NEW s, NEW r, NEW l \in Nat, NEW begin, Reading(s, r, <<>>, <<>>, l, begin),
         NEW next, next # Quote
  PROVE  Reading(Read(s, WriteRecord(fields, always), next), r,
                 SubSeq(fields, 1, Len(fields) - 1),
                 fields[Len(fields)], l + LineFeeds(FlattenSeq(fields)), begin)
<1> DEFINE n == Len(fields)
           parts == Parts(fields, always)
           W(i) == WriteField(fields[i], always)
           Before(m) == SubSeq(fields, 1, m)
           Line(m) == l + LineFeeds(FlattenSeq(Before(m)))
           Written(m) == FlattenSeq(SubSeq(parts, 1, m))
           Holds(m) == \A after : after # Quote =>
                         Reading(Read(s, Written(m), after), r, Before(m - 1), fields[m], Line(m),
                                 begin)
           T == {m \in 0 .. n : m = 0 \/ Holds(m)}
<1>1. /\ n \in Nat \ {0} /\ Before(0) = <<>> /\ Before(n) = fields
      /\ \A m \in 1 .. n : /\ fields[m] \in Seq(Char) /\ m - 1 \in 0 .. n
                            /\ Before(m) = Append(Before(m - 1), fields[m])
      /\ \A m \in 0 .. n : Before(m) \in Seq(Seq(Char))
  <2>1. n # 0
    OBVIOUS
  <2> QED BY <2>1, FirstMembers
<1>2. /\ WriteRecord(fields, always) = FlattenSeq(parts) /\ parts \in Seq(Seq(Char))
         /\ Len(parts) = n
      /\ parts[1] = W(1) /\ \A i \in 2 .. n : parts[i] = <<Comma>> \o W(i)
  BY PartsAre
<1>3. /\ \A i \in 1 .. n : W(i) \in Seq(Char) /\ parts[i] \in Seq(Char)
      /\ SubSeq(parts, 1, 0) = <<>> /\ SubSeq(parts, 1, n) = parts
      /\ \A m \in 1 .. n : /\ SubSeq(parts, 1, m - 1) \in Seq(Seq(Char))
                            /\ SubSeq(parts, 1, m) = Append(SubSeq(parts, 1, m - 1), parts[m])
  <2>1. \A i \in 1 .. n : W(i) \in Seq(Char)
    BY <1>1, FieldIsWritten
  <2> HIDE DEF n, parts, W
  <2> QED BY <1>2, <2>1, FirstMembers
<1> HIDE DEF n, parts
<1>4. /\ FlattenSeq(<<>>) = <<>>
      /\ \A m \in 1 .. n : Written(m - 1) \in Seq(Char) /\ Written(m) = Written(m - 1) \o parts[m]
  <2> HIDE DEF Before, W
  <2> QED BY <1>3, FlattenMore
<1>5. \A m \in 1 .. n : Line(m - 1) \in Nat /\ Line(m) = Line(m - 1) + LineFeeds(fields[m])
  <2> SUFFICES ASSUME NEW m \in 1 .. n
               PROVE  Line(m - 1) \in Nat /\ Line(m) = Line(m - 1) + LineFeeds(fields[m])
    OBVIOUS
  <2> DEFINE shorter == Before(m - 1)
             field == fields[m]
             text == FlattenSeq(shorter)
  <2>1. shorter \in Seq(Seq(Char)) /\ field \in Seq(Char) /\ Before(m) = Append(shorter, field)
    BY <1>1
  <2> HIDE DEF shorter, field, Before
  <2>2. FlattenSeq(Append(shorter, field)) = text \o field /\ text \in Seq(Char)
    BY <2>1, FlattenMore
  <2> HIDE DEF text
  <2>3. LineFeeds(text \o field) = LineFeeds(text) + LineFeeds(field)
    BY <2>1, <2>2, LineFeedsBoth
  <2>4. LineFeeds(text) \in Nat /\ LineFeeds(field) \in Nat
    <3>1. \A t \in Seq(Char) : LineFeeds(t) \in Nat
      <4>1. LF \in Char
        OBVIOUS
      <4> QED BY <4>1, LineFeedsMore
    <3> QED BY <2>1, <2>2, <3>1
  <2>5. Line(m - 1) = l + LineFeeds(text) /\ Line(m) = l + (LineFeeds(text) + LineFeeds(field))
    BY <2>1, <2>2, <2>3 DEF shorter, text
  <2>6. \A x, y \in Nat : l + x \in Nat /\ l + (x + y) = (l + x) + y
    OBVIOUS
  <2> QED BY <2>4, <2>5, <2>6 DEF field
<1>6. Line(0) = l
  <2>1. LineFeeds(<<>>) = 0
    <3>1. {i \in DOMAIN <<>> : <<>>[i] = LF} = {}
      OBVIOUS
    <3> QED BY <3>1, FS_EmptySet DEF LineFeeds
  <2>2. FlattenSeq(Before(0)) = <<>>
    BY <1>1, <1>4
  <2> QED BY <2>1, <2>2
<1> HIDE DEF W, Before, Line, Written
<1>7. ASSUME NEW m \in 1 .. n, m - 1 \in T PROVE m \in T
  <2>1. SUFFICES ASSUME NEW after, after # Quote
                 PROVE  Reading(Read(s, Written(m), after), r, Before(m - 1), fields[m], Line(m),
                                begin)
    <3>1. m \in 0 .. n
      BY <1>1
    <3> QED BY <3>1
  <2> DEFINE field == fields[m]
             before == Before(m - 1)
             line == Line(m - 1)
             w == W(m)
  <2>2. field \in Seq(Char) /\ line \in Nat /\ Line(m) = line + LineFeeds(field)
        /\ w \in Seq(Char)
        /\ w = WriteField(field, always)
    BY <1>1, <1>3, <1>5 DEF W
  <2>3. ASSUME NEW state, Reading(state, r, before, <<>>, line, begin)
        PROVE  Reading(Read(state, w, after), r, before, field, Line(m), begin)
    <3> HIDE DEF field, before, line, w
    <3>1. Reading(Read(state, WriteField(field, always), after), r, before, field,
                  line + LineFeeds(field), begin)
      BY <2>1, <2>2, <2>3, FieldIsRead
    <3> QED BY <2>2, <3>1
  <2>4. CASE m = 1
    <3>1. Written(0) = <<>> /\ Written(1) = <<>> \o w
      <4>1. Written(0) = <<>>
        BY <1>3, <1>4 DEF Written
      <4>2. Written(m) = Written(m - 1) \o parts[m]
        BY <1>4
      <4>3. parts[m] = w
        BY <1>2, <2>4
      <4> HIDE DEF w
      <4>4. m - 1 = 0
        BY <2>4
      <4> QED BY <2>4, <4>1, <4>2, <4>3, <4>4
    <3>2. <<>> \o w = w
      BY <2>2
    <3>3. before = <<>> /\ line = l
      BY <1>1, <1>6, <2>4
    <3>4. Reading(s, r, before, <<>>, line, begin)
      BY <3>3
    <3> QED BY <2>3, <2>4, <3>1, <3>2, <3>4
  <2>5. CASE m # 1
    <3> DEFINE comma == <<Comma>>
               text == Written(m - 1)
               part == comma \o w
               middle == Read(s, text, Comma)
               last == fields[m - 1]
               first == Before(m - 2)
    <3>1. /\ m - 1 \in 1 .. n /\ m \in 2 .. n /\ (m - 1) - 1 = m - 2 /\ m - 1 # 0
          /\ Written(m) = text \o part /\ text \in Seq(Char) /\ comma \in Seq(Char)
      <4>1. m - 1 \in 1 .. n /\ m \in 2 .. n /\ (m - 1) - 1 = m - 2 /\ m - 1 # 0
        BY <1>1, <2>5
      <4>2. Comma \in Char
        OBVIOUS
      <4>3. Written(m) = Written(m - 1) \o parts[m] /\ Written(m - 1) \in Seq(Char)
        BY <1>4
      <4>4. parts[m] = comma \o w
        BY <1>2, <4>1
      <4>5. comma \in Seq(Char)
        BY <4>2
      <4> HIDE DEF comma, w
      <4> QED BY <4>1, <4>3, <4>4, <4>5
    <3>2. before = Append(first, last)
      BY <1>1, <3>1
    <3>3. Reading(middle, r, first, last, line, begin)
      <4>1. Holds(m - 1) /\ Comma # Quote
        BY <1>7, <3>1, CharactersDiffer
      <4> QED BY <3>1, <4>1
    <3> HIDE DEF field, before, line, w, text, middle, last, first
    <3>4. part \in Seq(Char) /\ Ahead(part, after) = Comma
      <4>1. part \in Seq(Char) /\ Len(part) = 1 + Len(w) /\ part[1] = Comma /\ Len(w) \in Nat
        BY <2>2, <3>1
      <4>2. part # <<>>
        <5> HIDE DEF part
        <5> QED BY <4>1
      <4> QED BY <4>1, <4>2 DEF Ahead
    <3>5. Read(s, text \o part, after) = Read(middle, part, after)
      <4> HIDE DEF part
      <4>1. Read(s, text \o part, after) = Read(Read(s, text, Ahead(part, after)), part, after)
        BY <3>1, <3>4, ReadOn
      <4> QED BY <3>4, <4>1 DEF middle
    <3> DEFINE state == Read(middle, <<Comma>>, Ahead(w, after))
    <3>6. Reading(state, r, before, <<>>, line, begin)
      BY <3>2, <3>3, CommaIsRead
    <3>7. Read(middle, part, after) = Read(state, w, after)
      <4> HIDE DEF comma
      <4>1. Read(middle, comma \o w, after) = Read(Read(middle, comma, Ahead(w, after)), w, after)
        BY <2>2, <3>1, ReadOn
      <4> QED BY <4>1 DEF comma
    <3> HIDE DEF state, part
    <3>8. Reading(Read(state, w, after), r, before, field, Line(m), begin)
      BY <2>3, <3>6
    <3> QED BY <3>1, <3>5, <3>7, <3>8 DEF before, field
  <2> QED BY <2>4, <2>5
<1>8. Holds(n)
  <2>1. n \in 0 .. n /\ 0 \in T
    BY <1>1
  <2> HIDE DEF T
  <2>2. 0 .. n \subseteq T
    BY <1>1, <1>7, <2>1, Induction
  <2>3. n \in T
    BY <2>1, <2>2
  <2> QED BY <1>1, <2>3 DEF T
<1>9. Written(n) = WriteRecord(fields, always) /\ Line(n) = l + LineFeeds(FlattenSeq(fields))
  BY <1>1, <1>2, <1>3 DEF Written, Line
<1> QED BY <1>8, <1>9 DEF n, Before

(* At the end of the text, what has been begun is a record too.            *)
LEMMA RestIsRead ==
  ASSUME NEW s, NEW r, NEW fs, NEW f, NEW l, NEW begin, Reading(s, r, fs, f, l, begin)
  PROVE  (IF s.started \/ s.field # <<>> \/ s.fields # <<>> THEN PushRecord(s) ELSE s).records
           = Recorded(r, Append(fs, f), begin)
<1>1. PICK sl, st : /\ st \in BOOLEAN /\ s = At(r, fs, f, FALSE, l, sl, st, FALSE)
                    /\ begin = Begun(st, sl, l)
                    /\ st \/ (fs = <<>> /\ f = <<>>)
  BY DEF Reading
<1>2. /\ s.started = st /\ s.field = f /\ s.fields = fs /\ s.records = r /\ s.startLine = sl
      /\ DOMAIN s
             = {"records", "field", "fields", "inQuotes", "line", "startLine", "started", "skip"}
  BY <1>1 DEF At
<1>3. Append(<<>>, <<>>) = Blank
  BY DEF Blank
<1>4. CASE st
  <2>1. begin = sl
    BY <1>1, <1>4 DEF Begun
  <2>2. PushRecord(s).records = Recorded(r, Append(fs, f), begin)
    BY <1>2, <2>1 DEF PushRecord, Recorded, Blank
  <2> QED BY <1>2, <1>4, <2>2
<1>5. CASE ~st
  <2>1. fs = <<>> /\ f = <<>> /\ ~s.started
    BY <1>1, <1>2, <1>5
  <2>2. Recorded(r, Append(fs, f), begin) = r
    BY <1>3, <2>1 DEF Recorded
  <2> QED BY <1>2, <2>1, <2>2
<1> QED BY <1>1, <1>4, <1>5

(* No record is written with a line feed in front.                         *)
NoFeedAhead(text) == text = <<>> \/ text[1] # LF

(* The first character of two parts is the first of the first one.         *)
LEMMA FirstCharacter ==
  ASSUME NEW Char, NEW a \in Seq(Char), NEW b \in Seq(Char), a # <<>>
  PROVE  a \o b \in Seq(Char) /\ a \o b # <<>> /\ (a \o b)[1] = a[1]
<1> DEFINE both == a \o b
<1>1. /\ both \in Seq(Char) /\ Len(both) = Len(a) + Len(b) /\ Len(a) \in Nat \ {0}
         /\ Len(b) \in Nat
      /\ \A i \in 1 .. Len(a) : both[i] = a[i]
  OBVIOUS
<1> HIDE DEF both
<1>2. 1 \in 1 .. Len(a) /\ both # <<>>
  BY <1>1
<1> QED BY <1>1, <1>2 DEF both

(* A written record never begins with a line feed, so a carriage return    *)
(* before it ends a line of its own.                                       *)
LEMMA RecordHasNoFeedAhead ==
  ASSUME NEW Char, {Quote, Comma, CR, LF} \subseteq Char, NEW fields \in Seq(Seq(Char)),
         NEW always \in BOOLEAN
  PROVE  NoFeedAhead(WriteRecord(fields, always))
<1> DEFINE n == Len(fields)
           parts == Parts(fields, always)
           Written(m) == FlattenSeq(SubSeq(parts, 1, m))
           T == {m \in 0 .. n : NoFeedAhead(Written(m))}
<1>1. ASSUME NEW field \in Seq(Char) PROVE NoFeedAhead(WriteField(field, always))
  <2>1. CASE WriteField(field, always) = field
             /\ \A i \in 1 .. Len(field) : field[i] \notin {Quote, Comma, CR, LF}
    <3>1. field # <<>> => 1 \in 1 .. Len(field)
      OBVIOUS
    <3> QED BY <2>1, <3>1 DEF NoFeedAhead
  <2>2. CASE WriteField(field, always) = <<Quote>> \o FlattenSeq(Doubled(field)) \o <<Quote>>
    <3> DEFINE first == <<Quote>>
               rest == FlattenSeq(Doubled(field))
    <3>1. Quote \in Char
      OBVIOUS
    <3>2. Doubled(field) \in Seq(Seq(Char))
      <4> DEFINE opened == Inside(<<>>, <<>>, <<>>, 0, 0)
      <4>1. opened = Inside(<<>>, <<>>, <<>>, 0, 0) /\ 0 \in Nat
        OBVIOUS
      <4> HIDE DEF opened
      <4> QED BY <3>1, <4>1, DoubledIsRead
    <3>3. rest \in Seq(Char) /\ first \in Seq(Char) /\ Len(first) = 1 /\ first[1] = Quote
      BY <3>1, <3>2, FlattenMore
    <3>4. first # <<>>
      OBVIOUS
    <3> HIDE DEF first, rest
    <3> DEFINE most == first \o rest
    <3>5. most \in Seq(Char) /\ most # <<>> /\ most[1] = Quote
      BY <3>3, <3>4, FirstCharacter
    <3> HIDE DEF most
    <3>6. (most \o first)[1] = Quote
      BY <3>3, <3>5, FirstCharacter
    <3> QED BY <2>2, <3>6, CharactersDiffer DEF NoFeedAhead, first, rest, most
  <2> QED BY <2>1, <2>2, FieldIsWritten
<1>2. /\ WriteRecord(fields, always) = FlattenSeq(parts) /\ parts \in Seq(Seq(Char))
         /\ Len(parts) = n
      /\ fields # <<>> => parts[1] = WriteField(fields[1], always)
      /\ \A i \in 2 .. n : parts[i] = <<Comma>> \o WriteField(fields[i], always)
  BY PartsAre
<1>3. n \in Nat /\ \A i \in 1 .. n : fields[i] \in Seq(Char)
  OBVIOUS
<1>4. ASSUME NEW m \in 1 .. n PROVE parts[m] \in Seq(Char) /\ NoFeedAhead(parts[m])
  <2>1. parts[m] \in Seq(Char)
    BY <1>2
  <2>2. CASE m = 1
    <3>1. fields # <<>> /\ fields[1] \in Seq(Char)
      BY <1>3, <2>2
    <3> QED BY <1>1, <1>2, <2>1, <2>2, <3>1
  <2>3. CASE m # 1
    <3> DEFINE w == WriteField(fields[m], always)
               comma == <<Comma>>
    <3>1. m \in 2 .. n /\ fields[m] \in Seq(Char)
      BY <1>3, <2>3
    <3>2. w \in Seq(Char)
      BY <3>1, FieldIsWritten
    <3>3. Comma \in Char
      OBVIOUS
    <3>4. comma \in Seq(Char) /\ Len(comma) = 1 /\ comma[1] = Comma
      BY <3>3
    <3>5. parts[m] = comma \o w
      BY <1>2, <3>1
    <3> HIDE DEF w, comma
    <3>6. (comma \o w)[1] = Comma
      <4>1. comma # <<>>
        BY DEF comma
      <4> QED BY <3>2, <3>4, <4>1, FirstCharacter
    <3> QED BY <2>1, <3>5, <3>6, CharactersDiffer DEF NoFeedAhead
  <2> QED BY <2>2, <2>3
<1> HIDE DEF parts, n
<1>5. /\ SubSeq(parts, 1, 0) = <<>> /\ SubSeq(parts, 1, n) = parts
      /\ \A m \in 1 .. n : /\ SubSeq(parts, 1, m - 1) \in Seq(Seq(Char)) /\ m - 1 \in 0 .. n
                            /\ SubSeq(parts, 1, m) = Append(SubSeq(parts, 1, m - 1), parts[m])
  BY <1>2, FirstMembers
<1>6. /\ Written(0) = <<>>
      /\ \A m \in 1 .. n : Written(m - 1) \in Seq(Char) /\ Written(m) = Written(m - 1) \o parts[m]
  <2>1. \A m \in 1 .. n : parts[m] \in Seq(Char)
    BY <1>4
  <2> QED BY <1>5, <2>1, FlattenMore
<1> HIDE DEF Written
<1>7. 0 \in T
  BY <1>3, <1>6 DEF NoFeedAhead
<1>8. ASSUME NEW m \in 1 .. n, m - 1 \in T PROVE m \in T
  <2> DEFINE before == Written(m - 1)
             part == parts[m]
  <2>0. m \in 0 .. n
    BY <1>3
  <2>1. /\ before \in Seq(Char) /\ Written(m) = before \o part
        /\ part \in Seq(Char) /\ NoFeedAhead(part)
        /\ NoFeedAhead(before)
    <3>1. before \in Seq(Char) /\ Written(m) = before \o part
      BY <1>6
    <3>2. part \in Seq(Char) /\ NoFeedAhead(part)
      BY <1>4
    <3>3. NoFeedAhead(before)
      BY <1>8
    <3> QED BY <3>1, <3>2, <3>3
  <2> HIDE DEF before, part
  <2>2. CASE before = <<>>
    <3>1. before \o part = part
      BY <2>1, <2>2
    <3> QED BY <2>0, <2>1, <3>1
  <2>3. CASE before # <<>>
    <3>1. (before \o part)[1] = before[1]
      BY <2>1, <2>3, FirstCharacter
    <3> QED BY <2>0, <2>1, <2>3, <3>1 DEF NoFeedAhead
  <2> QED BY <2>2, <2>3
<1>9. n \in T
  <2>1. n \in 0 .. n
    BY <1>3
  <2> HIDE DEF T
  <2>2. 0 .. n \subseteq T
    BY <1>3, <1>7, <1>8, Induction
  <2> QED BY <2>1, <2>2
<1> QED BY <1>2, <1>5, <1>9 DEF Written

(* A record and the end of its line.                                       *)
LEMMA LineIsRead ==
  ASSUME NEW Char, {Quote, Comma, CR, LF} \subseteq Char,
         NEW fields \in Seq(Seq(Char)), fields # <<>>, NEW always \in BOOLEAN, NEW end \in Ends,
         NEW s, NEW r, NEW l \in Nat, Reading(s, r, <<>>, <<>>, l, l),
         NEW next, end = <<CR>> => next # LF
  PROVE  Reading(Read(s, WriteRecord(fields, always) \o end, next), Recorded(r, fields, l),
                 <<>>, <<>>, l + LineFeeds(FlattenSeq(fields)) + 1,
                 l + LineFeeds(FlattenSeq(fields)) + 1)
<1> DEFINE w == WriteRecord(fields, always)
           n == Len(fields)
           first == SubSeq(fields, 1, n - 1)
           field == fields[n]
           line == l + LineFeeds(FlattenSeq(fields))
           middle == Read(s, w, Ahead(end, next))
<1>1. w \in Seq(Char)
  BY PartsAre
<1>2. end \in Seq(Char) /\ Ahead(end, next) # Quote
  <2>1. CR \in Char /\ LF \in Char
    OBVIOUS
  <2>2. CASE end = <<LF>>
    BY <2>1, <2>2, CharactersDiffer DEF Ahead
  <2>3. CASE end = <<CR>>
    BY <2>1, <2>3, CharactersDiffer DEF Ahead
  <2>4. CASE end = <<CR, LF>>
    BY <2>1, <2>4, CharactersDiffer DEF Ahead
  <2> QED BY <2>2, <2>3, <2>4 DEF Ends
<1>3. fields = Append(first, field)
  <2>1. n \in 1 .. n
    OBVIOUS
  <2> QED BY <2>1, FirstMembers
<1>4. Reading(middle, r, first, field, line, l)
  BY <1>2, RecordIsRead
<1> HIDE DEF w, first, field, line, middle
<1>5. Read(s, w \o end, next) = Read(middle, end, next)
  BY <1>1, <1>2, ReadOn DEF middle
<1>6. Reading(Read(middle, end, next), Recorded(r, Append(first, field), l), <<>>, <<>>, line + 1,
              line + 1)
  BY <1>4, EndIsRead
<1> QED BY <1>3, <1>5, <1>6 DEF w, line

(* Induction over sequences, by what is appended.                          *)
LEMMA InductionByAppend ==
  ASSUME NEW S, NEW T, <<>> \in T,
         \A seq \in Seq(S) : \A e \in S : seq \in T => Append(seq, e) \in T
  PROVE  Seq(S) \subseteq T
<1> SUFFICES ASSUME NEW seq \in Seq(S) PROVE seq \in T
  OBVIOUS
<1> DEFINE n == Len(seq)
           First(m) == SubSeq(seq, 1, m)
           Holds == {m \in 0 .. n : First(m) \in T}
<1>1. /\ n \in Nat /\ First(0) = <<>> /\ First(n) = seq
      /\ \A m \in 1 .. n : First(m - 1) \in Seq(S) /\ seq[m] \in S
             /\ First(m) = Append(First(m - 1), seq[m])
  BY FirstMembers
<1> HIDE DEF n, First
<1>2. 0 \in Holds
  BY <1>1
<1>3. \A m \in 1 .. n : m - 1 \in Holds => m \in Holds
  <2> SUFFICES ASSUME NEW m \in 1 .. n, m - 1 \in Holds PROVE m \in Holds
    OBVIOUS
  <2>1. m \in 0 .. n
    BY <1>1
  <2>2. First(m) \in T
    BY <1>1
  <2> QED BY <2>1, <2>2
<1>4. n \in 0 .. n
  BY <1>1
<1> HIDE DEF Holds
<1>5. n \in Holds
  BY <1>1, <1>2, <1>3, <1>4, Induction
<1> QED BY <1>1, <1>5 DEF Holds

(* A file whose lines all have an end, and what is meant by it.            *)
Lines(lists, always, end) == [i \in DOMAIN lists |-> WriteRecord(lists[i], always) \o end]
Meant(lists) ==
  [i \in DOMAIN lists |->
     IF lists[i] = Blank THEN <<>> ELSE <<[fields |-> lists[i], line |-> LineOf(lists, i)]>>]
NextOf(lists) == LineOf(lists, Len(lists) + 1)
Records(Char) == [fields : Seq(Seq(Char)), line : Int]

(* The line a record begins on is one more than the line feeds and ends    *)
(* of line before it.                                                      *)
LEMMA LinesCount ==
  ASSUME NEW Char, LF \in Char, NEW lists \in Seq(Seq(Seq(Char)))
  PROVE  /\ \A i \in 1 .. Len(lists) : LineOf(lists, i) \in Int
         /\ NextOf(lists) \in Nat
         /\ NextOf(<<>>) = 1
         /\ \A list \in Seq(Seq(Char)) :
              NextOf(Append(lists, list)) = NextOf(lists) + LineFeeds(FlattenSeq(list)) + 1
<1> DEFINE Feeds(some) == LineFeeds(FlattenSeq(FlattenSeq(some)))
<1>1. ASSUME NEW some \in Seq(Seq(Seq(Char))) 
      PROVE  FlattenSeq(some) \in Seq(Seq(Char)) /\ FlattenSeq(FlattenSeq(some)) \in Seq(Char)
             /\ Feeds(some) \in Nat
  <2>1. FlattenSeq(some) \in Seq(Seq(Char))
    BY FlattenMore
  <2> DEFINE all == FlattenSeq(some)
  <2>2. all \in Seq(Seq(Char))
    BY <2>1
  <2> HIDE DEF all
  <2>3. FlattenSeq(all) \in Seq(Char)
    BY <2>2, FlattenMore
  <2>4. LineFeeds(FlattenSeq(all)) \in Nat
    BY <2>3, LineFeedsMore
  <2> QED BY <2>1, <2>3, <2>4 DEF all
<1>2. ASSUME NEW some \in Seq(Seq(Seq(Char)))
      PROVE  NextOf(some) = Len(some) + 1 + Feeds(some) /\ Len(some) \in Nat
  <2>1. Len(some) \in Nat /\ (Len(some) + 1) - 1 = Len(some)
    OBVIOUS
  <2>2. SubSeq(some, 1, Len(some)) = some
    BY FirstMembers
  <2> HIDE DEF Feeds
  <2>3. SubSeq(some, 1, (Len(some) + 1) - 1) = some
    BY <2>1, <2>2
  <2> QED BY <2>1, <2>3 DEF NextOf, LineOf, Feeds
<1>3. ASSUME NEW i \in 1 .. Len(lists) PROVE LineOf(lists, i) \in Int
  <2>1. SubSeq(lists, 1, i - 1) \in Seq(Seq(Seq(Char)))
    <3>1. i - 1 \in 0 .. Len(lists)
      OBVIOUS
    <3> QED BY <3>1, FirstMembers
  <2> DEFINE some == SubSeq(lists, 1, i - 1)
  <2> HIDE DEF some, Feeds
  <2>2. Feeds(some) \in Nat
    BY <1>1, <2>1 DEF some
  <2> QED BY <2>2 DEF LineOf, Feeds, some
<1>4. NextOf(<<>>) = 1
  <2> DEFINE none == <<>>
  <2>1. none \in Seq(Seq(Seq(Char))) /\ Len(none) = 0
    OBVIOUS
  <2>2. FlattenSeq(FlattenSeq(<<>>)) = <<>>
    <3>1. FlattenSeq(<<>>) = <<>>
      BY FlattenMore
    <3> QED BY <3>1
  <2>3. LineFeeds(<<>>) = 0
    <3>1. <<>> \in Seq(Char)
      OBVIOUS
    <3> QED BY <3>1, LineFeedsMore
  <2>4. Feeds(none) = 0
    BY <2>2, <2>3
  <2> HIDE DEF none, Feeds
  <2>5. NextOf(none) = 1
    <3>1. NextOf(none) = Len(none) + 1 + Feeds(none)
      BY <1>2, <2>1
    <3> QED BY <2>1, <2>4, <3>1
  <2> QED BY <2>5 DEF none
<1>5. ASSUME NEW list \in Seq(Seq(Char))
      PROVE  NextOf(Append(lists, list)) = NextOf(lists) + LineFeeds(FlattenSeq(list)) + 1
  <2> DEFINE longer == Append(lists, list)
             a == FlattenSeq(lists)
  <2>1. longer \in Seq(Seq(Seq(Char))) /\ Len(longer) = Len(lists) + 1 /\ Len(lists) \in Nat
    OBVIOUS
  <2>2. FlattenSeq(longer) = a \o list /\ a \in Seq(Seq(Char)) /\ FlattenSeq(a) \in Seq(Char)
        /\ Feeds(lists) \in Nat
    BY <1>1, FlattenMore
  <2> DEFINE text == FlattenSeq(a)
             more == FlattenSeq(list)
  <2>3. Feeds(lists) = LineFeeds(text) /\ FlattenSeq(FlattenSeq(lists)) = text
    OBVIOUS
  <2> HIDE DEF a
  <2>4. FlattenSeq(a \o list) = text \o more
    BY <2>2, FlattenBoth
  <2>5. text \in Seq(Char) /\ more \in Seq(Char)
    BY <2>2, FlattenMore
  <2> HIDE DEF text, more
  <2>6. LineFeeds(text \o more) = LineFeeds(text) + LineFeeds(more) /\ LineFeeds(more) \in Nat
    BY <2>5, LineFeedsBoth, LineFeedsMore
  <2>7. Feeds(longer) = Feeds(lists) + LineFeeds(more)
    BY <2>2, <2>3, <2>4, <2>6
  <2> HIDE DEF longer, Feeds
  <2>8. NextOf(longer) = Len(longer) + 1 + Feeds(longer)
        /\ NextOf(lists) = Len(lists) + 1 + Feeds(lists)
    BY <1>2, <2>1
  <2>9. \A x, y, z \in Nat : (x + 1) + 1 + (y + z) = (x + 1 + y) + z + 1
    OBVIOUS
  <2> QED BY <2>1, <2>2, <2>6, <2>7, <2>8, <2>9 DEF longer, more
<1>6. NextOf(lists) \in Nat
  <2> HIDE DEF Feeds
  <2> QED BY <1>1, <1>2
<1> QED BY <1>3, <1>4, <1>5, <1>6

(* One more list of fields means one more record, unless it is a blank     *)
(* line.                                                                   *)
LEMMA MeantMore ==
  ASSUME NEW Char, LF \in Char, NEW lists \in Seq(Seq(Seq(Char))), NEW list \in Seq(Seq(Char))
  PROVE  /\ FlattenSeq(Meant(lists)) \in Seq(Records(Char))
         /\ FlattenSeq(Meant(Append(lists, list)))
                = Recorded(FlattenSeq(Meant(lists)), list, NextOf(lists))
<1> DEFINE longer == Append(lists, list)
           n == Len(lists)
           One(fields, line) ==
             IF fields = Blank THEN <<>> ELSE <<[fields |-> fields, line |-> line]>>
<1>1. /\ n \in Nat /\ longer \in Seq(Seq(Seq(Char))) /\ DOMAIN longer = 1 .. n + 1
         /\ DOMAIN lists = 1 .. n
      /\ longer[n + 1] = list
         /\ (\A i \in 1 .. n : longer[i] = lists[i] /\ lists[i] \in Seq(Seq(Char)))
  OBVIOUS
<1>2. ASSUME NEW i \in 1 .. n + 1 PROVE LineOf(longer, i) = LineOf(lists, i)
  <2>1. SubSeq(longer, 1, i - 1) = SubSeq(lists, 1, i - 1)
    OBVIOUS
  <2> HIDE DEF longer
  <2> QED BY <2>1 DEF LineOf
<1>3. \A fields \in Seq(Seq(Char)), line \in Int : One(fields, line) \in Seq(Records(Char))
  <2> SUFFICES ASSUME NEW fields \in Seq(Seq(Char)), NEW line \in Int
               PROVE  One(fields, line) \in Seq(Records(Char))
    OBVIOUS
  <2>1. [fields |-> fields, line |-> line] \in Records(Char)
    BY DEF Records
  <2> DEFINE rec == [fields |-> fields, line |-> line]
  <2> HIDE DEF rec
  <2>2. rec \in Records(Char)
    BY <2>1 DEF rec
  <2>3. <<>> \in Seq(Records(Char)) /\ <<rec>> \in Seq(Records(Char))
    BY <2>2
  <2> QED BY <2>3 DEF rec
<1>4. \A i \in 1 .. n : LineOf(lists, i) \in Int
  BY LinesCount
<1>5. NextOf(lists) = LineOf(lists, n + 1) /\ NextOf(lists) \in Int
  BY LinesCount DEF NextOf
<1> HIDE DEF longer, One, n
<1>6. Meant(lists) = [i \in 1 .. n |-> One(lists[i], LineOf(lists, i))]
  BY <1>1 DEF Meant, One
<1>7. Meant(longer) = [i \in 1 .. n + 1 |-> One(longer[i], LineOf(longer, i))]
  BY <1>1 DEF Meant, One
<1> DEFINE meant == Meant(lists)
           more == One(list, NextOf(lists))
<1>8. meant \in Seq(Seq(Records(Char))) /\ Len(meant) = n
      /\ \A i \in 1 .. n : meant[i] = One(lists[i], LineOf(lists, i))
  <2>1. \A i \in 1 .. n : One(lists[i], LineOf(lists, i)) \in Seq(Records(Char))
    BY <1>1, <1>3, <1>4
  <2> QED BY <1>1, <1>6, <2>1
<1>9. more \in Seq(Records(Char))
  BY <1>3, <1>5
<1> HIDE DEF meant, more
<1>10. Meant(longer) = Append(meant, more)
  <2> DEFINE with == Append(meant, more)
  <2>1. with = [i \in 1 .. n + 1 |-> IF i = n + 1 THEN more ELSE meant[i]]
    <3>1. /\ with \in Seq(Seq(Records(Char))) /\ Len(with) = n + 1
          /\ with[n + 1] = more /\ \A i \in 1 .. n : with[i] = meant[i]
      BY <1>8, <1>9
    <3> HIDE DEF with
    <3>2. with = [i \in 1 .. n + 1 |-> with[i]]
      BY <3>1
    <3>3. \A i \in 1 .. n + 1 : with[i] = IF i = n + 1 THEN more ELSE meant[i]
      <4>1. \A i \in 1 .. n + 1 : i = n + 1 \/ i \in 1 .. n
        BY <1>1
      <4> QED BY <3>1, <4>1
    <3> QED BY <3>2, <3>3
  <2>2. \A i \in 1 .. n + 1 : (IF i = n + 1 THEN more ELSE meant[i])
            = One(longer[i], LineOf(longer, i))
    <3> SUFFICES ASSUME NEW i \in 1 .. n + 1
                 PROVE (IF i = n + 1 THEN more ELSE meant[i]) = One(longer[i], LineOf(longer, i))
      OBVIOUS
    <3>1. CASE i = n + 1
      BY <1>1, <1>2, <1>5, <3>1 DEF more
    <3>2. CASE i # n + 1
      <4>1. i \in 1 .. n
        BY <1>1, <3>2
      <4> QED BY <1>1, <1>2, <1>8, <3>2, <4>1
    <3> QED BY <3>1, <3>2
  <2> HIDE DEF with
  <2> QED BY <1>7, <2>1, <2>2 DEF with
<1>11. FlattenSeq(meant) \in Seq(Records(Char))
       /\ FlattenSeq(Append(meant, more)) = FlattenSeq(meant) \o more
  BY <1>8, <1>9, FlattenMore
<1> DEFINE all == FlattenSeq(meant)
           line == NextOf(lists)
<1>12. all \in Seq(Records(Char)) => all \o more = Recorded(all, list, line)
  <2> HIDE DEF all, line
  <2> SUFFICES ASSUME all \in Seq(Records(Char)) PROVE all \o more = Recorded(all, list, line)
    OBVIOUS
  <2>1. CASE list = Blank
    <3>1. more = <<>>
      BY <2>1 DEF more, One
    <3>2. all \o <<>> = all
      OBVIOUS
    <3> QED BY <2>1, <3>1, <3>2 DEF Recorded
  <2>2. CASE list # Blank
    <3> DEFINE rec == [fields |-> list, line |-> line]
    <3>1. more = <<rec>>
      BY <2>2 DEF more, One, line
    <3>2. rec \in Records(Char)
      BY <1>5 DEF Records, line
    <3>3. Recorded(all, list, line) = Append(all, rec)
      BY <2>2 DEF Recorded
    <3> HIDE DEF rec
    <3>4. all \o <<rec>> = Append(all, rec)
      BY <3>2
    <3> QED BY <3>1, <3>3, <3>4
  <2> QED BY <2>1, <2>2
<1> QED BY <1>10, <1>11, <1>12 DEF longer, meant

(* The lists of fields there can be of a line: one at least.               *)
FieldLists(Char) == Seq(Seq(Char)) \ {<<>>}

(* One more list of fields is one more line of text.                       *)
LEMMA LinesMore ==
  ASSUME NEW Char, {Quote, Comma, CR, LF} \subseteq Char, NEW always \in BOOLEAN,
         NEW end \in Seq(Char),
         NEW lists \in Seq(Seq(Seq(Char))), NEW list \in Seq(Seq(Char))
  PROVE  /\ FlattenSeq(Lines(lists, always, end)) \in Seq(Char)
         /\ FlattenSeq(Lines(Append(lists, list), always, end))
              = FlattenSeq(Lines(lists, always, end)) \o (WriteRecord(list, always) \o end)
<1> DEFINE longer == Append(lists, list)
           n == Len(lists)
           One(fields) == WriteRecord(fields, always) \o end
<1>1. /\ n \in Nat /\ DOMAIN longer = 1 .. n + 1 /\ DOMAIN lists = 1 .. n
      /\ longer[n + 1] = list
         /\ (\A i \in 1 .. n : longer[i] = lists[i] /\ lists[i] \in Seq(Seq(Char)))
  OBVIOUS
<1>2. \A fields \in Seq(Seq(Char)) : One(fields) \in Seq(Char)
  <2> SUFFICES ASSUME NEW fields \in Seq(Seq(Char)) PROVE One(fields) \in Seq(Char)
    OBVIOUS
  <2>1. WriteRecord(fields, always) \in Seq(Char)
    BY PartsAre
  <2> QED BY <2>1
<1> HIDE DEF longer, One, n
<1>3. /\ Lines(lists, always, end) = [i \in 1 .. n |-> One(lists[i])]
      /\ Lines(longer, always, end) = [i \in 1 .. n + 1 |-> One(longer[i])]
  BY <1>1 DEF Lines, One
<1> DEFINE lines == Lines(lists, always, end)
           more == One(list)
<1>4. lines \in Seq(Seq(Char)) /\ Len(lines) = n /\ \A i \in 1 .. n : lines[i] = One(lists[i])
  <2>1. \A i \in 1 .. n : One(lists[i]) \in Seq(Char)
    BY <1>1, <1>2
  <2> QED BY <1>1, <1>3, <2>1
<1>5. more \in Seq(Char)
  BY <1>2
<1> HIDE DEF lines, more
<1>6. Lines(longer, always, end) = Append(lines, more)
  <2> DEFINE with == Append(lines, more)
  <2>1. /\ with \in Seq(Seq(Char)) /\ Len(with) = n + 1
        /\ with[n + 1] = more /\ \A i \in 1 .. n : with[i] = lines[i]
    BY <1>4, <1>5
  <2> HIDE DEF with
  <2>2. with = [i \in 1 .. n + 1 |-> with[i]]
    BY <2>1
  <2>3. ASSUME NEW i \in 1 .. n + 1 PROVE with[i] = One(longer[i])
    <3>1. CASE i = n + 1
      BY <1>1, <2>1, <3>1 DEF more
    <3>2. CASE i # n + 1
      <4>1. i \in 1 .. n
        BY <1>1, <3>2
      <4> QED BY <1>1, <1>4, <2>1, <4>1
    <3> QED BY <3>1, <3>2
  <2> QED BY <1>3, <2>2, <2>3 DEF with
<1>7. FlattenSeq(lines) \in Seq(Char)
      /\ FlattenSeq(Append(lines, more)) = FlattenSeq(lines) \o more
  BY <1>4, <1>5, FlattenMore
<1> QED BY <1>6, <1>7 DEF longer, lines, more, One

(* The lines so far have been read.                                        *)
AllRead(Char, lists, always, end) ==
  \A after : (end = <<CR>> => after # LF) =>
    Reading(Read(Start, FlattenSeq(Lines(lists, always, end)), after), FlattenSeq(Meant(lists)),
            <<>>, <<>>, NextOf(lists), NextOf(lists))

(* Every line read in turn gives what was meant so far and leaves the      *)
(* reader at the beginning of the next line.                               *)
LEMMA LinesAreRead ==
  ASSUME NEW Char, {Quote, Comma, CR, LF} \subseteq Char, NEW always \in BOOLEAN,
         NEW end \in Ends,
         NEW lists \in Seq(FieldLists(Char))
  PROVE  AllRead(Char, lists, always, end)
<1> DEFINE S == FieldLists(Char)
           T == {some \in Seq(S) : AllRead(Char, some, always, end)}
<1>0. CR \in Char /\ LF \in Char /\ end \in Seq(Char)
  <2>1. CR \in Char /\ LF \in Char
    OBVIOUS
  <2>2. <<LF>> \in Seq(Char) /\ <<CR>> \in Seq(Char) /\ <<CR, LF>> \in Seq(Char)
    BY <2>1
  <2> QED BY <2>1, <2>2 DEF Ends
<1>1. <<>> \in T
  <2> DEFINE none == <<>>
             one == 1
             off == FALSE
  <2>1. none \in Seq(S) /\ Lines(none, always, end) = none /\ Meant(none) = none
    BY DEF Lines, Meant
  <2>2. FlattenSeq(none) = none /\ NextOf(none) = one
    <3>1. FlattenSeq(<<>>) = <<>>
      BY FlattenMore
    <3>2. <<>> \in Seq(Seq(Seq(Char)))
      OBVIOUS
    <3>3. NextOf(<<>>) = 1
      BY <1>0, <3>2, LinesCount
    <3> QED BY <3>1, <3>3
  <2>3. Start = At(none, none, none, off, one, one, off, off)
    BY DEF Start, At
  <2>4. \A after : Read(Start, none, after) = Start
    BY ReadNone
  <2>5. one = Begun(off, one, one) /\ off \in BOOLEAN /\ ~off
    BY DEF Begun
  <2>6. Reading(Start, none, none, none, one, one)
    <3>1. Start = At(none, none, none, FALSE, one, one, off, FALSE)
      BY <2>3
    <3> HIDE DEF one, off
    <3>2. \E startLine, started : /\ started \in BOOLEAN
                                  /\ Start
                                         = At(none, none, none, FALSE, one, startLine, started,
                                              FALSE)
                                  /\ one = Begun(started, startLine, one)
                                  /\ started \/ (none = <<>> /\ none = <<>>)
      BY <2>5, <3>1
    <3> QED BY <3>2 DEF Reading
  <2> HIDE DEF none, one, off, S
  <2>7. AllRead(Char, none, always, end)
    BY <2>1, <2>2, <2>4, <2>6 DEF AllRead, none
  <2> QED BY <2>1, <2>7 DEF none
<1>2. ASSUME NEW some \in Seq(S), NEW list \in S, some \in T PROVE Append(some, list) \in T
  <2> DEFINE text == FlattenSeq(Lines(some, always, end))
             w == WriteRecord(list, always)
             line == w \o end
             r == FlattenSeq(Meant(some))
             l == NextOf(some)
             longer == Append(some, list)
  <2>1. longer \in Seq(S) /\ list \in Seq(Seq(Char)) /\ list # <<>>
        /\ some \in Seq(Seq(Seq(Char)))
    BY DEF FieldLists
  <2>2. AllRead(Char, some, always, end)
    BY <1>2
  <2> HIDE DEF T, S
  <2>3. l \in Nat /\ NextOf(longer) = l + LineFeeds(FlattenSeq(list)) + 1
    BY <1>0, <2>1, LinesCount
  <2>4. FlattenSeq(Meant(longer)) = Recorded(r, list, l)
    BY <1>0, <2>1, MeantMore
  <2>5. text \in Seq(Char) /\ FlattenSeq(Lines(longer, always, end)) = text \o line
    <3>1. text \in Seq(Char)
      BY <1>0, <2>1, LinesMore
    <3>2. FlattenSeq(Lines(Append(some, list), always, end))
            = FlattenSeq(Lines(some, always, end)) \o (WriteRecord(list, always) \o end)
      <4> HIDE DEF text, w, line, r, l, longer
      <4>1. some \in Seq(Seq(Seq(Char))) /\ list \in Seq(Seq(Char))
        BY <2>1
      <4> QED BY <1>0, <4>1, LinesMore
    <3> QED BY <3>1, <3>2
  <2> HIDE DEF longer
  <2>6. w \in Seq(Char) /\ line \in Seq(Char)
    <3>1. w \in Seq(Char)
      BY <2>1, PartsAre
    <3> QED BY <1>0, <3>1
  <2>7. ASSUME NEW after, end = <<CR>> => after # LF
        PROVE  Reading(Read(Start, text \o line, after), Recorded(r, list, l), <<>>, <<>>,
                       l + LineFeeds(FlattenSeq(list)) + 1, l + LineFeeds(FlattenSeq(list)) + 1)
    <3> DEFINE here == Read(Start, text, Ahead(line, after))
    <3>1. end = <<CR>> => Ahead(line, after) # LF
      <4> SUFFICES ASSUME end = <<CR>> PROVE Ahead(line, after) # LF
        OBVIOUS
      <4>1. NoFeedAhead(w)
        BY <2>1, RecordHasNoFeedAhead
      <4>2. end # <<>> /\ end[1] = CR
        OBVIOUS
      <4> HIDE DEF w
      <4>3. CASE w = <<>>
        <5>1. line = end
          BY <1>0, <4>3
        <5> QED BY <4>2, <5>1, CharactersDiffer DEF Ahead
      <4>4. CASE w # <<>>
        <5>1. line # <<>> /\ line[1] = w[1]
          BY <1>0, <2>6, <4>4, FirstCharacter
        <5> HIDE DEF line
        <5> QED BY <4>1, <4>4, <5>1 DEF Ahead, NoFeedAhead
      <4> QED BY <4>3, <4>4
    <3>2. Reading(here, r, <<>>, <<>>, l, l)
      BY <2>2, <3>1 DEF AllRead
    <3>3. Read(Start, text \o line, after) = Read(here, line, after)
      <4> HIDE DEF text, line
      <4> QED BY <2>5, <2>6, ReadOn
    <3> HIDE DEF here, text, r, l
    <3>4. Reading(Read(here, w \o end, after), Recorded(r, list, l), <<>>, <<>>,
                  l + LineFeeds(FlattenSeq(list)) + 1, l + LineFeeds(FlattenSeq(list)) + 1)
      BY <2>1, <2>3, <2>7, <3>2, LineIsRead
    <3> QED BY <3>3, <3>4
  <2> HIDE DEF text, line, r, l, w
  <2>8. AllRead(Char, longer, always, end)
    BY <2>3, <2>4, <2>5, <2>7 DEF AllRead
  <2> QED BY <2>1, <2>8 DEF T, longer
<1> HIDE DEF S, T
<1>3. Seq(S) \subseteq T
  <2>1. \A some \in Seq(S) : \A list \in S : some \in T => Append(some, list) \in T
    BY <1>2
  <2> QED BY <1>1, <2>1, InductionByAppend
<1>4. lists \in Seq(S)
  BY DEF S
<1> QED BY <1>3, <1>4 DEF T

(* The text of a file, but for the mark, and what its end makes of a state. *)
Body(lists, always, end, last) ==
  FlattenSeq([i \in DOMAIN lists |->
    WriteRecord(lists[i], always) \o (IF i < Len(lists) \/ last THEN end ELSE <<>>)])
Done(s) == (IF s.started \/ s.field # <<>> \/ s.fields # <<>> THEN PushRecord(s) ELSE s).records

(* The body of the file is read to its end, whether its last line is       *)
(* ended or not.                                                           *)
LEMMA BodyIsRead ==
  ASSUME NEW Char, {Quote, Comma, CR, LF} \subseteq Char, NEW always \in BOOLEAN,
         NEW end \in Ends,
         NEW last \in BOOLEAN, NEW lists \in Seq(FieldLists(Char))
  PROVE  /\ Body(lists, always, end, last) \in Seq(Char)
         /\ Done(Read(Start, Body(lists, always, end, last), "end")) = FlattenSeq(Meant(lists))
<1> DEFINE n == Len(lists)
           body == Body(lists, always, end, last)
           over == "end"
<1>0. CR \in Char /\ LF \in Char /\ end \in Seq(Char)
  <2>1. CR \in Char /\ LF \in Char
    OBVIOUS
  <2>2. <<LF>> \in Seq(Char) /\ <<CR>> \in Seq(Char) /\ <<CR, LF>> \in Seq(Char)
    BY <2>1
  <2> QED BY <2>1, <2>2 DEF Ends
<1>1. n \in Nat /\ DOMAIN lists = 1 .. n /\ lists \in Seq(Seq(Seq(Char)))
  BY DEF FieldLists
<1>2. over # LF /\ over # Quote
  BY CharactersDiffer
<1> HIDE DEF over
<1>3. CASE last \/ n = 0
  <2> DEFINE text == FlattenSeq(Lines(lists, always, end))
             r == FlattenSeq(Meant(lists))
             l == NextOf(lists)
             none == <<>>
             s == Read(Start, text, over)
  <2>1. body = text
    <3>1. \A i \in DOMAIN lists : i < n \/ last
      BY <1>1, <1>3
    <3> HIDE DEF n
    <3>2. [i \in DOMAIN lists |->
             WriteRecord(lists[i], always) \o (IF i < n \/ last THEN end ELSE <<>>)]
            = Lines(lists, always, end)
      BY <3>1 DEF Lines
    <3> QED BY <3>2 DEF Body, n
  <2>2. text \in Seq(Char)
    <3>1. <<>> \in Seq(Seq(Char))
      OBVIOUS
    <3> QED BY <1>0, <1>1, <3>1, LinesMore
  <2>3. Reading(s, r, <<>>, <<>>, l, l)
    <3>1. AllRead(Char, lists, always, end)
      BY LinesAreRead
    <3> QED BY <1>2, <3>1 DEF AllRead
  <2> HIDE DEF s, r, l, text
  <2>4. Done(s) = Recorded(r, Append(<<>>, <<>>), l)
    <3>1. Reading(s, r, none, none, l, l)
      BY <2>3
    <3> HIDE DEF none
    <3>2. Done(s) = Recorded(r, Append(none, none), l)
      BY <3>1, RestIsRead DEF Done
    <3> QED BY <3>2 DEF none
  <2>5. Append(<<>>, <<>>) = Blank
    BY DEF Blank
  <2>6. Done(s) = r
    BY <2>4, <2>5 DEF Recorded
  <2> HIDE DEF body
  <2> QED BY <2>1, <2>2, <2>6 DEF s, r, body, over
<1>4. CASE ~last /\ n # 0
  <2> DEFINE first == SubSeq(lists, 1, n - 1)
             list == lists[n]
             text == FlattenSeq(Lines(first, always, end))
             w == WriteRecord(list, always)
             r == FlattenSeq(Meant(first))
             l == NextOf(first)
             k == Len(list)
             begun == SubSeq(list, 1, k - 1)
             field == list[k]
             here == Read(Start, text, Ahead(w, over))
             s == Read(here, w, over)
  <2>1. /\ first \in Seq(FieldLists(Char)) /\ list \in FieldLists(Char)
           /\ lists = Append(first, list)
        /\ Len(first) = n - 1 /\ DOMAIN first = 1 .. n - 1
           /\ \A i \in 1 .. n - 1 : first[i] = lists[i]
    <3>1. n \in 1 .. n /\ n - 1 \in 0 .. n
      BY <1>1, <1>4
    <3>2. first \in Seq(FieldLists(Char)) /\ Len(first) = n - 1
          /\ \A i \in 1 .. n - 1 : first[i] = lists[i]
      BY <3>1, FirstMembers
    <3>3. list \in FieldLists(Char) /\ lists = Append(first, list)
      BY <3>1, FirstMembers
    <3> HIDE DEF first, list
    <3>4. DOMAIN first = 1 .. Len(first)
      BY <3>2
    <3> QED BY <3>2, <3>3, <3>4
  <2>2. first \in Seq(Seq(Seq(Char))) /\ list \in Seq(Seq(Char)) /\ list # <<>>
    BY <2>1 DEF FieldLists
  <2>3. w \in Seq(Char) /\ text \in Seq(Char)
    <3>1. w \in Seq(Char)
      BY <2>2, PartsAre
    <3>2. text \in Seq(Char)
      <4> HIDE DEF first, list
      <4> QED BY <1>0, <2>2, LinesMore
    <3> QED BY <3>1, <3>2
  <2>4. body = text \o w
    <3> DEFINE lines == Lines(first, always, end)
               parts == [i \in 1 .. n |->
                           WriteRecord(lists[i], always) \o
                             (IF i < n \/ last THEN end ELSE <<>>)]
    <3>1. body = FlattenSeq(parts)
      BY <1>1 DEF Body
    <3>2. \A i \in 1 .. n - 1 : lines[i] = WriteRecord(lists[i], always) \o end
      <4> HIDE DEF first, n
      <4> QED BY <2>1 DEF Lines
    <3>3. lines \in Seq(Seq(Char)) /\ Len(lines) = n - 1
      <4>1. \A i \in 1 .. n - 1 : WriteRecord(first[i], always) \o end \in Seq(Char)
        <5> SUFFICES ASSUME NEW i \in 1 .. n - 1
                     PROVE  WriteRecord(first[i], always) \o end \in Seq(Char)
          OBVIOUS
        <5> DEFINE fields == first[i]
        <5>1. fields \in Seq(Seq(Char))
          <6> HIDE DEF first, n
          <6> QED BY <2>1, <2>2
        <5> HIDE DEF fields
        <5>2. WriteRecord(fields, always) \in Seq(Char)
          BY <5>1, PartsAre
        <5>3. \A a, b \in Seq(Char) : a \o b \in Seq(Char)
          OBVIOUS
        <5> QED BY <1>0, <5>2, <5>3 DEF fields
      <4> DEFINE One(i) == WriteRecord(first[i], always) \o end
      <4>2. lines = [i \in 1 .. n - 1 |-> One(i)]
        <5> HIDE DEF first, n
        <5> QED BY <2>1 DEF Lines
      <4>3. \A i \in 1 .. n - 1 : One(i) \in Seq(Char)
        BY <4>1
      <4>4. n - 1 \in Nat
        BY <1>1, <1>4
      <4> HIDE DEF One, n, first, lines
      <4> QED BY <4>2, <4>3, <4>4
    <3>4. \A t \in Seq(Char) : t \o <<>> = t
      OBVIOUS
    <3> HIDE DEF lines, w
    <3>5. parts = Append(lines, w)
      <4> DEFINE with == Append(lines, w)
      <4>1. /\ with \in Seq(Seq(Char)) /\ Len(with) = n
            /\ with[n] = w /\ \A i \in 1 .. n - 1 : with[i] = lines[i]
        <5>1. n \in Nat \ {0} /\ (n - 1) + 1 = n
          BY <1>1, <1>4
        <5> HIDE DEF n
        <5> QED BY <2>3, <3>3, <5>1
      <4> HIDE DEF with
      <4>2. with = [i \in 1 .. n |-> with[i]]
        BY <4>1
      <4>3. ASSUME NEW i \in 1 .. n
            PROVE  with[i]
                       = WriteRecord(lists[i], always) \o (IF i < n \/ last THEN end ELSE <<>>)
        <5>1. CASE i = n
          <6>1. with[i] = w /\ WriteRecord(lists[i], always) = w /\ ~(i < n \/ last)
            BY <1>1, <1>4, <4>1, <5>1 DEF w
          <6> QED BY <2>3, <3>4, <6>1
        <5>2. CASE i # n
          <6> HIDE DEF n
          <6>1. i \in 1 .. n - 1 /\ i < n
            BY <1>1, <5>2
          <6> QED BY <3>2, <4>1, <6>1
        <5> QED BY <5>1, <5>2
      <4> HIDE DEF n
      <4> QED BY <4>2, <4>3 DEF with
    <3>6. FlattenSeq(Append(lines, w)) = FlattenSeq(lines) \o w
      BY <2>3, <3>3, FlattenMore
    <3> HIDE DEF parts, body
    <3> QED BY <3>1, <3>5, <3>6 DEF lines
  <2>5. end = <<CR>> => Ahead(w, over) # LF
    <3>1. NoFeedAhead(w)
      BY <2>2, RecordHasNoFeedAhead
    <3> HIDE DEF w
    <3> QED BY <1>2, <3>1 DEF Ahead, NoFeedAhead
  <2>6. Reading(here, r, <<>>, <<>>, l, l)
    <3>1. AllRead(Char, first, always, end)
      <4> HIDE DEF first
      <4> QED BY <2>1, LinesAreRead
    <3> HIDE DEF w, first
    <3> QED BY <2>5, <3>1 DEF AllRead
  <2>7. l \in Nat /\ FlattenSeq(Meant(lists)) = Recorded(r, list, l)
    <3> HIDE DEF first, list, n
    <3>1. l \in Nat
      BY <1>0, <2>2, LinesCount
    <3>2. FlattenSeq(Meant(Append(first, list)))
              = Recorded(FlattenSeq(Meant(first)), list, NextOf(first))
      BY <1>0, <2>2, MeantMore
    <3> QED BY <2>1, <3>1, <3>2
  <2>8. list = Append(begun, field)
    <3> HIDE DEF list
    <3>1. k \in 1 .. k
      BY <2>2
    <3> QED BY <2>2, <3>1, FirstMembers
  <2>9. Reading(s, r, begun, field, l + LineFeeds(FlattenSeq(list)), l)
    <3> HIDE DEF list, here, r, l
    <3> QED BY <1>2, <2>2, <2>6, <2>7, RecordIsRead
  <2>10. Read(Start, text \o w, over) = s
    <3> HIDE DEF text, w
    <3> QED BY <2>3, ReadOn
  <2> DEFINE line == l + LineFeeds(FlattenSeq(list))
  <2>11. Done(s) = Recorded(r, Append(begun, field), l)
    <3>1. Reading(s, r, begun, field, line, l)
      BY <2>9
    <3> HIDE DEF s, r, begun, field, line, l
    <3> QED BY <3>1, RestIsRead DEF Done
  <2> HIDE DEF s, r, begun, field, line, l, text, w, body, list, first
  <2>12. body \in Seq(Char)
    BY <2>3, <2>4
  <2> QED BY <2>4, <2>7, <2>8, <2>10, <2>11, <2>12 DEF body, over
<1> QED BY <1>3, <1>4

(* What is written as CSV is read back, whatever the characters and the    *)
(* fields: quoted only where needed or always, with any of the three ends  *)
(* of line, the last one written or not, with a byte order mark or         *)
(* without; each record with the line it begins on, and blank lines left   *)
(* out (parsePriceCsv.ts:86-152).                                          *)
THEOREM EveryTextIsReadBack ==
  ASSUME NEW Char, {Quote, Comma, CR, LF} \subseteq Char, BOM \notin Char,
         NEW lists \in Seq(FieldLists(Char))
  PROVE  TextIsReadBack(lists)
<1> DEFINE Text(always, end, last, mark) ==
             (IF mark THEN <<BOM>> ELSE <<>>) \o Body(lists, always, end, last)
<1>1. ASSUME NEW always \in BOOLEAN, NEW end \in Ends, NEW last \in BOOLEAN, NEW mark \in BOOLEAN
      PROVE  ParseRecords(Text(always, end, last, mark)) = FlattenSeq(Meant(lists))
  <2> DEFINE body == Body(lists, always, end, last)
             text == (IF mark THEN <<BOM>> ELSE <<>>) \o body
             kept == IF text # <<>> /\ Head(text) = BOM THEN Tail(text) ELSE text
  <2>1. body \in Seq(Char) /\ Done(Read(Start, body, "end")) = FlattenSeq(Meant(lists))
    BY BodyIsRead
  <2> HIDE DEF body
  <2>2. kept = body
    <3>1. CASE mark
      <4> DEFINE Every == Char \cup {BOM}
                 first == <<BOM>>
      <4>1. text = first \o body /\ first \in Seq(Every) /\ first # <<>> /\ first[1] = BOM
            /\ body \in Seq(Every)
        BY <2>1, <3>1
      <4>2. Tail(first \o body) = body
        BY <2>1
      <4> HIDE DEF first, Every
      <4>3. first \o body \in Seq(Every) /\ first \o body # <<>> /\ (first \o body)[1] = BOM
        BY <4>1, FirstCharacter
      <4> HIDE DEF text
      <4>4. Head(text) = BOM
        BY <4>1, <4>3
      <4> QED BY <4>1, <4>2, <4>3, <4>4
    <3>2. CASE ~mark
      <4>1. text = body
        BY <2>1, <3>2
      <4> HIDE DEF text
      <4>2. text # <<>> => Head(text) \in Char
        BY <2>1, <4>1
      <4> QED BY <4>1, <4>2
    <3> QED BY <3>1, <3>2
  <2> HIDE DEF text, kept
  <2>3. ParseRecords(text) = Done(Read(Start, kept, "end"))
    BY DEF ParseRecords, Done, Read, kept
  <2> QED BY <2>1, <2>2, <2>3 DEF text, body
<1>2. \A always \in BOOLEAN, end \in Ends, last, mark \in BOOLEAN :
        ParseRecords(Text(always, end, last, mark)) = FlattenSeq(Meant(lists))
  BY <1>1
<1> QED BY <1>2 DEF TextIsReadBack, Body, Ends, Meant

-----------------------------------------------------------------------------
(* The rows of a CSV file.                                                 *)

(* The cells are members of a set Text, one of which is the empty text.    *)
Record(Text) == [fields : Seq(Text), line : Nat]

(* The header comes first, and each record on a line of its own.           *)
InOrder(records) == \A i, j \in 1 .. Len(records) : i < j => records[i].line < records[j].line

(* Records that are in order, all of them before a line, and none blank.   *)
OrderedBelow(Char, records, line) ==
  /\ records \in Seq(Record(Seq(Char))) /\ InOrder(records)
  /\ \A i \in 1 .. Len(records) : /\ records[i].line \in 1 .. line - 1
                                  /\ records[i].fields \notin {<<>>, Blank}

(* A place where the next record to end begins on a line after all others. *)
Fits(Char, r, fs, f, q, l, sl, st, sk) ==
  /\ OrderedBelow(Char, r, Begun(st, sl, l))
  /\ fs \in Seq(Seq(Char)) /\ f \in Seq(Char)
  /\ q \in BOOLEAN /\ st \in BOOLEAN /\ sk \in BOOLEAN
  /\ l \in Nat \ {0} /\ Begun(st, sl, l) \in 1 .. l
  /\ q => st
  /\ st \/ (fs = <<>> /\ f = <<>>)

InLine(Char, s) ==
  \E r, fs, f, q, l, sl, st, sk :
    Fits(Char, r, fs, f, q, l, sl, st, sk) /\ s = At(r, fs, f, q, l, sl, st, sk)

(* The end of a record keeps the records in order.                         *)
LEMMA RecordKeepsOrder ==
  ASSUME NEW Char, NEW records, NEW line \in Nat \ {0}, OrderedBelow(Char, records, line),
         NEW fields \in Seq(Seq(Char)) \ {<<>>}
  PROVE  OrderedBelow(Char, Recorded(records, fields, line), line + 1)
<1> DEFINE record == [fields |-> fields, line |-> line]
           longer == Append(records, record)
           n == Len(records)
<1>1. record \in Record(Seq(Char)) /\ record.line = line /\ record.fields = fields
  BY DEF Record
<1> HIDE DEF record
<1>2. records \in Seq(Record(Seq(Char)))
  BY DEF OrderedBelow
<1>3. /\ longer \in Seq(Record(Seq(Char))) /\ Len(longer) = n + 1
      /\ n \in Nat /\ longer[n + 1] = record
      /\ \A i \in 1 .. n : longer[i] = records[i]
  BY <1>1, <1>2
<1>4. Recorded(records, fields, line) = IF fields = Blank THEN records ELSE longer
  BY DEF Recorded, record
<1> HIDE DEF longer
<1>5. \A i \in 1 .. n : records[i].line \in 1 .. line - 1 /\ records[i].fields \notin {<<>>, Blank}
  BY DEF OrderedBelow
<1>6. \A i, j \in 1 .. n : i < j => records[i].line < records[j].line
  BY DEF OrderedBelow, InOrder
<1> HIDE DEF n
<1>7. \A i \in 1 .. Len(longer) : i \in 1 .. n \/ i = n + 1
  BY <1>3
<1>8. CASE fields = Blank
  <2>1. \A i \in 1 .. n : records[i].line \in 1 .. (line + 1) - 1
    BY <1>5
  <2> QED BY <1>2, <1>4, <1>5, <1>6, <1>8, <2>1 DEF OrderedBelow, InOrder, n
<1>9. CASE fields # Blank
  <2>1. ASSUME NEW i \in 1 .. Len(longer), NEW j \in 1 .. Len(longer), i < j
        PROVE  longer[i].line < longer[j].line
    <3>1. i \in 1 .. n
      BY <1>3, <1>7, <2>1
    <3>2. CASE j \in 1 .. n
      BY <1>3, <1>6, <2>1, <3>1, <3>2
    <3>3. CASE j = n + 1
      <4>1. longer[i].line \in 1 .. line - 1 /\ longer[j].line = line
        BY <1>1, <1>3, <1>5, <3>1, <3>3
      <4> QED BY <4>1
    <3> QED BY <1>7, <3>2, <3>3
  <2>2. ASSUME NEW i \in 1 .. Len(longer)
        PROVE  longer[i].line \in 1 .. (line + 1) - 1 /\ longer[i].fields \notin {<<>>, Blank}
    <3>1. CASE i \in 1 .. n
      <4>1. longer[i] = records[i]
        BY <1>3, <3>1
      <4>2. records[i].line \in 1 .. line - 1 /\ records[i].fields \notin {<<>>, Blank}
        BY <1>5, <3>1
      <4>3. records[i].line \in 1 .. (line + 1) - 1
        BY <4>2
      <4> QED BY <4>1, <4>2, <4>3
    <3>2. CASE i = n + 1
      <4>1. longer[i] = record
        BY <1>3, <3>2
      <4>2. line \in 1 .. (line + 1) - 1
        OBVIOUS
      <4> QED BY <1>1, <1>9, <4>1, <4>2
    <3> QED BY <1>7, <3>1, <3>2
  <2>3. Recorded(records, fields, line) = longer
    BY <1>4, <1>9
  <2> QED BY <1>3, <2>1, <2>2, <2>3 DEF OrderedBelow, InOrder
<1> QED BY <1>8, <1>9

(* A character more.                                                       *)
LEMMA CharacterKeepsOrder ==
  ASSUME NEW Char, Quote \in Char, NEW s, InLine(Char, s), NEW ch \in Char, NEW next
  PROVE  InLine(Char, ReadCharacter(s, ch, next))
<1> DEFINE new == ReadCharacter(s, ch, next)
           on == TRUE
           off == FALSE
<1>0. on \in BOOLEAN /\ on /\ off \in BOOLEAN /\ ~off
  OBVIOUS
<1>1. PICK r, fs, f, q, l, sl, st, sk :
         Fits(Char, r, fs, f, q, l, sl, st, sk) /\ s = At(r, fs, f, q, l, sl, st, sk)
  BY DEF InLine
<1> DEFINE begin == Begun(st, sl, l)
<1>2. /\ OrderedBelow(Char, r, begin)
      /\ fs \in Seq(Seq(Char)) /\ f \in Seq(Char)
      /\ q \in BOOLEAN /\ st \in BOOLEAN /\ sk \in BOOLEAN
      /\ l \in Nat \ {0} /\ begin \in 1 .. l
      /\ q => st
      /\ st \/ (fs = <<>> /\ f = <<>>)
  BY <1>1 DEF Fits
<1>3. st => begin = sl
  BY DEF Begun
<1> SUFFICES InLine(Char, new)
  OBVIOUS
<1> HIDE DEF new, on, off
<1>4. ASSUME NEW a, NEW b, NEW c, NEW d, NEW e, NEW g, NEW h, NEW k,
             Fits(Char, a, b, c, d, e, g, h, k), new = At(a, b, c, d, e, g, h, k)
      PROVE  InLine(Char, new)
  BY <1>4 DEF InLine
(* The record goes on.                                                     *)
<1>5. ASSUME NEW gs \in Seq(Seq(Char)), NEW g \in Seq(Char), NEW p \in BOOLEAN,
             NEW m \in Nat, l <= m, NEW k \in BOOLEAN,
             new = At(r, gs, g, p, m, begin, on, k)
      PROVE  InLine(Char, new)
  <2>1. Begun(on, begin, m) = begin /\ on \in BOOLEAN /\ on
    BY <1>0 DEF Begun
  <2>2. new = At(r, gs, g, p, m, begin, on, k)
    BY <1>5
  <2> HIDE DEF begin
  <2>3. begin \in 1 .. m /\ m \in Nat \ {0}
    BY <1>2, <1>5
  <2>4. Fits(Char, r, gs, g, p, m, begin, on, k)
    BY <1>2, <1>5, <2>1, <2>3 DEF Fits
  <2> QED BY <1>4, <2>2, <2>4
(* The record ends.                                                        *)
<1>6. ASSUME NEW k \in BOOLEAN, new = Ended(r, Append(fs, f), l, begin, k)
      PROVE  InLine(Char, new)
  <2> DEFINE fields == Append(fs, f)
             m == l + 1
             none == <<>>
             no == FALSE
             longer == Recorded(r, fields, begin)
  <2>1. fields \in Seq(Seq(Char)) \ {<<>>} /\ begin \in Nat \ {0}
    <3>1. fields \in Seq(Seq(Char)) /\ Len(fields) = Len(fs) + 1 /\ Len(fs) \in Nat
      BY <1>2
    <3> HIDE DEF begin, fields
    <3> QED BY <1>2, <3>1
  <2>2. new = At(longer, none, none, no, m, begin, no, k)
    BY <1>6 DEF Ended
  <2>3. none \in Seq(Char) /\ none \in Seq(Seq(Char)) /\ none = <<>> /\ no \in BOOLEAN /\ ~no
    OBVIOUS
  <2>4. m \in Nat \ {0} /\ begin + 1 \in 1 .. m
    <3> HIDE DEF begin
    <3> QED BY <1>2
  <2>5. Begun(no, begin, m) = m
    BY DEF Begun
  <2> HIDE DEF fields, begin
  <2>6. OrderedBelow(Char, longer, begin + 1)
    BY <1>2, <2>1, RecordKeepsOrder
  <2> HIDE DEF m, none, no, longer
  <2>7. OrderedBelow(Char, longer, m)
    <3>1. \A i \in 1 .. Len(longer) : longer[i].line \in 1 .. (begin + 1) - 1
      BY <2>6 DEF OrderedBelow
    <3>2. \A i \in 1 .. Len(longer) : longer[i].line \in 1 .. m - 1
      BY <2>1, <2>4, <3>1
    <3> QED BY <2>6, <3>2 DEF OrderedBelow
  <2>8. m \in 1 .. m
    BY <2>4
  <2>9. Fits(Char, longer, none, none, no, m, begin, no, k)
    BY <2>3, <2>4, <2>5, <2>7, <2>8 DEF Fits
  <2> QED BY <1>4, <2>2, <2>9
<1>7. CASE sk
  <2> DEFINE no == FALSE
  <2>1. s = At(r, fs, f, q, l, sl, st, TRUE)
    BY <1>1, <1>2, <1>7
  <2>2. new = At(r, fs, f, q, l, sl, st, no)
    BY <2>1, ReadSkipped DEF new
  <2>3. no \in BOOLEAN
    OBVIOUS
  <2> HIDE DEF no
  <2>4. Fits(Char, r, fs, f, q, l, sl, st, no)
    BY <1>1, <2>3 DEF Fits
  <2> QED BY <1>4, <2>2, <2>4
<1>10. l \in Nat /\ l <= l
  <2> HIDE DEF begin
  <2> QED BY <1>2
<1>8. CASE ~sk /\ q
  <2>1. s = At(r, fs, f, TRUE, l, sl, TRUE, FALSE) /\ sl = begin
    BY <1>1, <1>2, <1>3, <1>8
  <2>2. ReadsInside(r, fs, f, l, begin) /\ s = At(r, fs, f, TRUE, l, begin, TRUE, FALSE)
    BY <2>1, ReadInside
  <2> HIDE DEF begin
  <2>3. Append(f, ch) \in Seq(Char) /\ Append(f, Quote) \in Seq(Char)
    BY <1>2
  <2>4. CASE ch = Quote /\ next = Quote
    <3>1. new = At(r, fs, Append(f, Quote), on, l, begin, on, on)
      BY <2>2, <2>4 DEF ReadsInside, new, on, off
    <3> QED BY <1>0, <1>2, <1>5, <1>10, <2>3, <3>1
  <2>5. CASE ch = Quote /\ next # Quote
    <3>1. new = At(r, fs, f, off, l, begin, on, off)
      BY <2>2, <2>5 DEF ReadsInside, new, on, off
    <3> QED BY <1>0, <1>2, <1>5, <1>10, <3>1
  <2>6. CASE ch # Quote
    <3>1. new = At(r, fs, Append(f, ch), on, NextLine(l, ch), begin, on, off)
      BY <2>2, <2>6 DEF ReadsInside, new, on, off
    <3>2. NextLine(l, ch) \in Nat /\ l <= NextLine(l, ch)
      BY <1>2 DEF NextLine
    <3> QED BY <1>0, <1>2, <1>5, <1>10, <2>3, <3>1, <3>2
  <2> QED BY <2>4, <2>5, <2>6
<1>9. CASE ~sk /\ ~q
  <2>1. s = At(r, fs, f, FALSE, l, sl, st, FALSE)
    BY <1>1, <1>2, <1>9
  <2>2. ReadsOutside(r, fs, f, l, sl, st)
    BY <1>2, ReadOutside
  <2>3. Append(f, ch) \in Seq(Char) /\ Append(fs, f) \in Seq(Seq(Char)) /\ <<>> \in Seq(Char)
    BY <1>2
  <2>4. CASE ch = Quote
    <3>1. new = At(r, fs, f, on, l, begin, on, off)
      BY <2>1, <2>2, <2>4 DEF ReadsOutside, new, on, off
    <3> HIDE DEF begin
    <3> QED BY <1>0, <1>2, <1>5, <1>10, <3>1
  <2>5. CASE ch = Comma
    <3>1. new = At(r, Append(fs, f), <<>>, off, l, begin, on, off)
      BY <2>1, <2>2, <2>5 DEF ReadsOutside, new, on, off
    <3> HIDE DEF begin
    <3> QED BY <1>0, <1>2, <1>5, <1>10, <2>3, <3>1
  <2>6. CASE ch = LF
    <3>1. new = Ended(r, Append(fs, f), l, begin, FALSE)
      BY <2>1, <2>2, <2>6 DEF ReadsOutside, new
    <3> QED BY <1>6, <3>1
  <2>7. CASE ch = CR
    <3>1. \/ new = Ended(r, Append(fs, f), l, begin, TRUE)
          \/ new = Ended(r, Append(fs, f), l, begin, FALSE)
      BY <2>1, <2>2, <2>7 DEF ReadsOutside, new
    <3> QED BY <1>6, <3>1
  <2>8. CASE ch \notin {Quote, Comma, CR, LF}
    <3>1. new = At(r, fs, Append(f, ch), off, l, begin, on, off)
      BY <2>1, <2>2, <2>8 DEF ReadsOutside, new, on, off
    <3> HIDE DEF begin
    <3> QED BY <1>0, <1>2, <1>5, <1>10, <2>3, <3>1
  <2> QED BY <2>4, <2>5, <2>6, <2>7, <2>8
<1> QED BY <1>2, <1>7, <1>8, <1>9

(* What the reader makes of a text is records for RowsAreJudged.           *)
TextIsInOrder(Char, text) ==
  LET records == ParseRecords(text)
  IN  /\ records \in Seq(Record(Seq(Char))) /\ InOrder(records)
      /\ \A i \in 1 .. Len(records) : records[i].line # 0 /\ records[i].fields \notin {<<>>, Blank}

(* Any text at all, well formed or not, gives records that are not blank,  *)
(* each on a line of its own and in order, so that the lines which errors  *)
(* name tell the rows apart (parsePriceCsv.ts:86-152).                     *)
THEOREM EveryTextIsInOrder ==
  ASSUME NEW Char, Quote \in Char, NEW text \in Seq(Char)
  PROVE  TextIsInOrder(Char, text)
<1> DEFINE kept == IF text # <<>> /\ Head(text) = BOM THEN Tail(text) ELSE text
           end == "end"
           after == After(Start, kept, end)
           n == Len(kept)
           s == after[n]
           T == {i \in 0 .. n : InLine(Char, after[i])}
<1>1. kept \in Seq(Char) /\ n \in Nat
  <2>1. kept \in Seq(Char)
    OBVIOUS
  <2> HIDE DEF kept
  <2> QED BY <2>1
<1>2. ParseRecords(text) = Done(s)
  BY DEF ParseRecords, Done
<1> HIDE DEF kept, end
<1>3. /\ after[0] = Start
      /\ \A i \in 1 .. n : after[i] = ReadCharacter(after[i - 1], kept[i], Following(kept, end, i))
  BY <1>1, AfterInTurn
<1> HIDE DEF after
<1>4. 0 \in T
  <2> DEFINE none == <<>>
             off == FALSE
             one == 1
  <2>1. Start = At(none, none, none, off, one, one, off, off)
    BY DEF Start, At
  <2>2. /\ none \in Seq(Record(Seq(Char))) /\ none \in Seq(Seq(Char)) /\ none \in Seq(Char)
        /\ Len(none) = 0 /\ none = <<>> /\ off \in BOOLEAN /\ ~off /\ one = 1
    OBVIOUS
  <2> HIDE DEF none, off, one
  <2>3. OrderedBelow(Char, none, one) /\ Begun(off, one, one) = one
    BY <2>2 DEF OrderedBelow, InOrder, Begun
  <2>4. Fits(Char, none, none, none, off, one, one, off, off)
    BY <2>2, <2>3 DEF Fits
  <2>5. InLine(Char, Start)
    BY <2>1, <2>4 DEF InLine
  <2>6. 0 \in 0 .. n
    BY <1>1
  <2> QED BY <1>3, <2>5, <2>6
<1>5. \A i \in 1 .. n : i - 1 \in T => i \in T
  <2> SUFFICES ASSUME NEW i \in 1 .. n, i - 1 \in T PROVE i \in T
    OBVIOUS
  <2>1. kept[i] \in Char /\ i \in 0 .. n
    BY <1>1
  <2> DEFINE before == after[i - 1]
             follows == Following(kept, end, i)
             here == kept[i]
  <2>2. InLine(Char, before) /\ here \in Char
    BY <2>1
  <2>3. after[i] = ReadCharacter(before, here, follows)
    BY <1>3
  <2> HIDE DEF before, follows, here
  <2>4. InLine(Char, ReadCharacter(before, here, follows))
    BY <2>2, CharacterKeepsOrder
  <2> QED BY <2>1, <2>3, <2>4
<1>6. InLine(Char, s)
  <2>1. 0 .. n \subseteq T
    <3> HIDE DEF T, n
    <3> QED BY <1>1, <1>4, <1>5, Induction
  <2>2. n \in 0 .. n
    BY <1>1
  <2> QED BY <2>1, <2>2
<1> HIDE DEF s, T
<1>7. PICK r, fs, f, q, l, sl, st, sk :
         Fits(Char, r, fs, f, q, l, sl, st, sk) /\ s = At(r, fs, f, q, l, sl, st, sk)
  BY <1>6 DEF InLine
<1>8. \E line : OrderedBelow(Char, Done(s), line)
  <2>1. CASE st
    <3> DEFINE fields == Append(fs, f)
               longer == Recorded(r, fields, sl)
    <3>1. OrderedBelow(Char, r, sl) /\ sl \in Nat \ {0} /\ fs \in Seq(Seq(Char)) /\ f \in Seq(Char)
      BY <1>7, <2>1 DEF Fits, Begun
    <3>2. fields \in Seq(Seq(Char)) \ {<<>>}
      <4>1. fields \in Seq(Seq(Char)) /\ Len(fields) = Len(fs) + 1 /\ Len(fs) \in Nat
        BY <3>1
      <4> HIDE DEF fields
      <4> QED BY <4>1
    <3>3. s.started /\ s.records = r /\ s.fields = fs /\ s.field = f /\ s.startLine = sl
      BY <1>7, <2>1 DEF At
    <3>4. PushRecord(s).records = longer
      <4>1. s \in [records : {r}, field : {f}, fields : {fs}, inQuotes : {q}, line : {l},
                   startLine : {sl}, started : {st}, skip : {sk}]
        BY <1>7 DEF At
      <4> QED BY <3>3, <4>1 DEF PushRecord, Recorded, Blank
    <3>5. Done(s) = longer
      BY <3>3, <3>4 DEF Done
    <3> HIDE DEF fields, longer
    <3>6. OrderedBelow(Char, Recorded(r, fields, sl), sl + 1)
      BY <3>1, <3>2, RecordKeepsOrder
    <3> QED BY <3>5, <3>6 DEF longer
  <2>2. CASE ~st
    <3>1. fs = <<>> /\ f = <<>> /\ OrderedBelow(Char, r, Begun(st, sl, l))
      BY <1>7, <2>2 DEF Fits
    <3>2. ~s.started /\ s.records = r /\ s.fields = fs /\ s.field = f
      BY <1>7, <2>2 DEF At
    <3>3. Done(s) = r
      BY <3>1, <3>2 DEF Done
    <3> QED BY <3>1, <3>3
  <2> QED BY <2>1, <2>2
<1>9. PICK line : OrderedBelow(Char, ParseRecords(text), line)
  BY <1>2, <1>8
<1> QED BY <1>9 DEF OrderedBelow, TextIsInOrder

RowCells(Text) == [Names -> Text]
Key(Text) == Text \X Text
Reason ==
    {"ticker", "date", "number", "positive", "order", "volume", "adjusted", "currency",
     "duplicate"}
BarOfKey(Text) == [key : Key(Text), line : Nat]
RowError == [line : Nat, reason : Reason]
Verdict(Text) == [bars : Seq(BarOfKey(Text)), errors : Seq(RowError), seen : SUBSET Key(Text)]

IsSound(cells) == ~(TRUE \in Range(Fails(cells)))

(* No failure is first exactly when the row is sound: the list of tests    *)
(* is the list of the parts of IsSound.                                    *)
LEMMA FirstFailureIsSound ==
  ASSUME NEW cells
  PROVE  /\ FirstFailure(Fails(cells)) \in 0 .. 8
         /\ FirstFailure(Fails(cells)) = 0 <=> IsSound(cells)
<1> DEFINE fails == Fails(cells)
           failing == {i \in 1 .. Len(Reasons) : fails[Reasons[i]]}
           first == FirstFailure(fails)
<1>1. /\ Len(Reasons) = 8
      /\ Reasons[1] = "ticker" /\ Reasons[2] = "date" /\ Reasons[3] = "number"
      /\ Reasons[4] = "positive" /\ Reasons[5] = "order" /\ Reasons[6] = "volume"
      /\ Reasons[7] = "adjusted" /\ Reasons[8] = "currency"
  BY DEF Reasons
<1>2. /\ DOMAIN fails
             = {"ticker", "date", "number", "positive", "order", "volume", "adjusted", "currency"}
      /\ \A reason \in DOMAIN fails : fails[reason] \in BOOLEAN
  <2>1. DOMAIN fails
            = {"ticker", "date", "number", "positive", "order", "volume", "adjusted", "currency"}
    BY DEF Fails
  <2>2. /\ fails["ticker"] \in BOOLEAN /\ fails["date"] \in BOOLEAN /\ fails["number"] \in BOOLEAN
        /\ fails["positive"] \in BOOLEAN /\ fails["order"] \in BOOLEAN
    BY DEF Fails
  <2>3. /\ fails["volume"] \in BOOLEAN
    BY DEF Fails, IsNumber, Contains
  <2>4. fails["adjusted"] \in BOOLEAN
    BY DEF Fails
  <2>5. fails["currency"] \in BOOLEAN
    BY DEF Fails
  <2> HIDE DEF fails
  <2> QED BY <2>1, <2>2, <2>3, <2>4, <2>5
<1>3. first = IF failing # {} THEN Min(failing) ELSE 0
  BY DEF FirstFailure, SelectInSeq
<1> HIDE DEF fails, first
<1>4. failing = {} <=> \A reason \in DOMAIN fails : ~fails[reason]
  <2>1. \A i \in 1 .. 8 : Reasons[i] \in DOMAIN fails
    BY <1>1, <1>2
  <2>2. \A reason \in DOMAIN fails : \E i \in 1 .. 8 : reason = Reasons[i]
    BY <1>1, <1>2
  <2> QED BY <1>1, <2>1, <2>2
<1>5. IsSound(cells) <=> \A reason \in DOMAIN fails : ~fails[reason]
  BY <1>2 DEF IsSound, Range, fails
<1>6. failing # {} => Min(failing) \in 1 .. 8
  BY <1>1, LeastIsLeast
<1> QED BY <1>3, <1>4, <1>5, <1>6 DEF first, fails

(* The cells of a row are text, an absent cell the empty one.              *)
LEMMA CellsAreText ==
  ASSUME NEW Text, Empty \in Text, NEW headers, NEW fields \in Seq(Text)
  PROVE  Cells(headers, fields) \in RowCells(Text)
<1>1. ASSUME NEW name PROVE Cell(headers, fields, name) \in Text
  <2> DEFINE i == HeaderIndex(headers, name)
  <2>1. Cell(headers, fields, name) = IF i = NoColumn \/ i > Len(fields) THEN Empty ELSE fields[i]
    BY DEF Cell
  <2>2. i \in Nat
    <3> DEFINE there == {h \in 1 .. Len(headers) : headers[h] = name}
    <3>1. i = IF there # {} THEN Min(there) ELSE 0
      BY DEF HeaderIndex, SelectInSeq
    <3>2. there \in SUBSET Nat
      OBVIOUS
    <3> HIDE DEF there, i
    <3> QED BY <3>1, <3>2, LeastIsLeast
  <2> HIDE DEF i
  <2>3. CASE i = NoColumn \/ i > Len(fields)
    BY <2>1, <2>3
  <2>4. CASE ~(i = NoColumn \/ i > Len(fields))
    <3>1. i \in 1 .. Len(fields) /\ Cell(headers, fields, name) = fields[i]
      BY <2>1, <2>2, <2>4 DEF NoColumn
    <3> QED BY <3>1
  <2> QED BY <2>3, <2>4
<1> QED BY <1>1 DEF Cells, RowCells

(* What a row adds to the verdict, as a bar or as an error.                *)
Accepts(v, w, key, line) ==
  /\ w.bars = Append(v.bars, [key |-> key, line |-> line])
  /\ w.errors = v.errors /\ w.seen = v.seen \cup {key}

Rejects(v, w, line) ==
  /\ w.bars = v.bars /\ w.seen = v.seen
  /\ \E reason \in Reason : w.errors = Append(v.errors, [line |-> line, reason |-> reason])

(* A row becomes one bar with a key not seen before, or one error on its   *)
(* line, and never both.                                                   *)
LEMMA RowIsJudged ==
  ASSUME NEW Text, Empty \in Text, NEW acc \in Verdict(Text), NEW headers,
         NEW record \in Record(Text)
  PROVE  LET cells == Cells(headers, record.fields)
             after == Judge(acc, headers, record)
             accepted == IsSound(cells) /\ KeyOf(cells) \notin acc.seen
         IN  /\ after \in Verdict(Text) /\ KeyOf(cells) \in Key(Text)
             /\ accepted => Accepts(acc, after, KeyOf(cells), record.line)
             /\ ~accepted => Rejects(acc, after, record.line)
<1> DEFINE cells == Cells(headers, record.fields)
           after == Judge(acc, headers, record)
           key == KeyOf(cells)
           failure == FirstFailure(Fails(cells))
           bar == [key |-> key, line |-> record.line]
<1>1. cells \in RowCells(Text) /\ record.line \in Nat
  BY CellsAreText DEF Record
<1>2. after = JudgeCells(acc, record.line, cells)
  BY DEF Judge
<1> HIDE DEF cells
<1>3. key \in Key(Text)
  BY <1>1 DEF KeyOf, Key, RowCells, Names, RequiredHeaders
<1>4. failure \in 0 .. 8 /\ (failure = 0 <=> IsSound(cells))
  BY FirstFailureIsSound
<1>5. failure \in 1 .. 8 => Reasons[failure] \in Reason
  BY DEF Reasons, Reason
<1>6. after = IF failure # 0 THEN Reject(acc, record.line, Reasons[failure])
              ELSE IF key \in acc.seen THEN Reject(acc, record.line, "duplicate")
              ELSE [acc EXCEPT !.bars = Append(acc.bars, bar), !.seen = acc.seen \cup {key}]
  BY <1>2 DEF JudgeCells
<1> HIDE DEF key, failure, after
<1>7. ASSUME NEW reason \in Reason, after = Reject(acc, record.line, reason)
      PROVE  after \in Verdict(Text) /\ Rejects(acc, after, record.line)
  <2> DEFINE error == [line |-> record.line, reason |-> reason]
  <2>1. error \in RowError
    BY <1>1 DEF RowError
  <2>2. after = [acc EXCEPT !.errors = Append(acc.errors, error)]
    BY <1>7 DEF Reject
  <2> HIDE DEF error
  <2>3. Append(acc.errors, error) \in Seq(RowError)
    BY <2>1 DEF Verdict
  <2> QED BY <2>2, <2>3 DEF Verdict, error, Rejects
<1>8. CASE failure # 0
  <2>1. Reasons[failure] \in Reason /\ after = Reject(acc, record.line, Reasons[failure])
    BY <1>4, <1>5, <1>6, <1>8
  <2>2. ~IsSound(cells)
    BY <1>4, <1>8
  <2> QED BY <1>3, <1>7, <2>1, <2>2 DEF key, after, cells
<1>9. CASE failure = 0 /\ key \in acc.seen
  <2>1. after = Reject(acc, record.line, "duplicate")
    BY <1>6, <1>9
  <2>2. "duplicate" \in Reason
    BY DEF Reason
  <2> QED BY <1>3, <1>7, <1>9, <2>1, <2>2 DEF key, after, cells
<1>10. CASE failure = 0 /\ key \notin acc.seen
  <2>1. after = [acc EXCEPT !.bars = Append(acc.bars, bar), !.seen = acc.seen \cup {key}]
    BY <1>6, <1>10
  <2>2. bar \in BarOfKey(Text)
    BY <1>1, <1>3 DEF BarOfKey
  <2> HIDE DEF bar
  <2>3. Append(acc.bars, bar) \in Seq(BarOfKey(Text)) /\ acc.seen \cup {key} \in SUBSET Key(Text)
    BY <1>3, <2>2 DEF Verdict
  <2>4. /\ after \in Verdict(Text) /\ after.bars = Append(acc.bars, bar)
        /\ after.errors = acc.errors /\ after.seen = acc.seen \cup {key}
    BY <2>1, <2>3 DEF Verdict
  <2> QED BY <1>3, <1>4, <1>10, <2>4 DEF key, after, cells, bar, Accepts
<1> QED BY <1>4, <1>8, <1>9, <1>10

Nothing == [bars |-> <<>>, errors |-> <<>>, seen |-> {}]

(* The verdict on each number of rows, from the one before.                *)
LEMMA RowsAreJudgedInTurn ==
  ASSUME NEW Text, Empty \in Text, NEW headers, NEW rows \in Seq(Record(Text))
  PROVE  LET judged == Judged(headers, rows)
         IN  /\ judged[0] = Nothing
             /\ \A i \in 1 .. Len(rows) : judged[i] = Judge(judged[i - 1], headers, rows[i])
             /\ \A i \in 0 .. Len(rows) : judged[i] \in Verdict(Text)
<1> DEFINE n == Len(rows)
           step == [p \in Verdict(Text) \X (1 .. n) |-> Judge(p[1], headers, rows[p[2]])]
           Turn(f) ==
               [i \in 0 .. n |-> IF i = 0 THEN Nothing ELSE Judge(f[i - 1], headers, rows[i])]
           judged == Judged(headers, rows)
<1>1. judged = CHOOSE f : f = Turn(f)
  BY DEF Judged, Nothing
<1>2. n \in Nat /\ \A i \in 1 .. n : rows[i] \in Record(Text)
  OBVIOUS
<1>3. Nothing \in Verdict(Text)
  BY DEF Nothing, Verdict
<1> HIDE DEF n
<1>4. step \in [Verdict(Text) \X (1 .. n) -> Verdict(Text)]
  BY <1>2, RowIsJudged
<1>5. PICK f : IsRun(f, Verdict(Text), n, Nothing, step)
  <2> HIDE DEF step
  <2> QED BY <1>2, <1>3, <1>4, RunExists
<1>6. f = Turn(f)
  <2>1. \A i \in 1 .. n : f[i - 1] \in Verdict(Text) /\ f[i] = Judge(f[i - 1], headers, rows[i])
    <3> SUFFICES ASSUME NEW i \in 1 .. n
                 PROVE  f[i - 1] \in Verdict(Text) /\ f[i] = Judge(f[i - 1], headers, rows[i])
      OBVIOUS
    <3>1. i - 1 \in 0 .. n
      BY <1>2
    <3>2. f[i - 1] \in Verdict(Text) /\ f[i] = step[<<f[i - 1], i>>]
      BY <1>5, <3>1 DEF IsRun
    <3> QED BY <3>2
  <2>2. f \in [0 .. n -> Verdict(Text)] /\ f[0] = Nothing
    BY <1>5 DEF IsRun
  <2> QED BY <1>2, <2>1, <2>2
<1>7. judged = Turn(judged)
  BY <1>1, <1>6
<1> HIDE DEF judged
<1>8. judged[0] = Nothing /\ \A i \in 1 .. n : judged[i] = Judge(judged[i - 1], headers, rows[i])
  <2> DEFINE g == Turn(judged)
  <2>1. g[0] = Nothing /\ \A i \in 1 .. n : g[i] = Judge(judged[i - 1], headers, rows[i])
    BY <1>2
  <2> QED BY <1>7, <2>1
<1>9. 0 .. n \subseteq {i \in 0 .. n : judged[i] \in Verdict(Text)}
  <2> DEFINE T == {i \in 0 .. n : judged[i] \in Verdict(Text)}
  <2>1. 0 \in T
    BY <1>2, <1>3, <1>8
  <2>2. \A i \in 1 .. n : i - 1 \in T => i \in T
    <3> SUFFICES ASSUME NEW i \in 1 .. n, judged[i - 1] \in Verdict(Text)
                 PROVE  judged[i] \in Verdict(Text)
      BY <1>2
    <3>1. Judge(judged[i - 1], headers, rows[i]) \in Verdict(Text)
      BY <1>2, RowIsJudged
    <3> QED BY <1>8, <3>1
  <2> HIDE DEF T
  <2> QED BY <1>2, <2>1, <2>2, Induction DEF T
<1> QED BY <1>8, <1>9 DEF judged, n

SoundRow(headers, rows, i) == IsSound(Cells(headers, rows[i].fields))
KeyIn(headers, rows, i) == KeyOf(Cells(headers, rows[i].fields))

(* A row that becomes a bar.                                               *)
FirstRow(headers, rows, i) ==
  /\ SoundRow(headers, rows, i)
  /\ \A j \in 1 .. i - 1 :
         SoundRow(headers, rows, j) => KeyIn(headers, rows, j) # KeyIn(headers, rows, i)

LinesIn(rows, I) == {rows[i].line : i \in I}

(* What the verdict v says of the first k rows.                            *)
Accounted(v, headers, rows, k) ==
  /\ Len(v.bars) + Len(v.errors) = k
  /\ LinesOf(v.bars) = LinesIn(rows, {i \in 1 .. k : FirstRow(headers, rows, i)})
  /\ LinesOf(v.errors) = LinesIn(rows, {i \in 1 .. k : ~FirstRow(headers, rows, i)})
  /\ v.seen = {KeyIn(headers, rows, i) : i \in {j \in 1 .. k : SoundRow(headers, rows, j)}}
  /\ \A b \in 1 .. Len(v.bars) : v.bars[b].key \in v.seen
  /\ \A b, c \in 1 .. Len(v.bars) : b < c => /\ v.bars[b].line < v.bars[c].line
                                            /\ v.bars[b].key # v.bars[c].key

(* A list with one item more.                                              *)
LEMMA Appended ==
  ASSUME NEW S, NEW list \in Seq(S), NEW item \in S
  PROVE  LET longer == Append(list, item)
         IN  /\ longer \in Seq(S) /\ Len(longer) = Len(list) + 1 /\ Len(list) \in Nat
             /\ longer[Len(list) + 1] = item
             /\ \A i \in 1 .. Len(list) : longer[i] = list[i]
OBVIOUS

(* The lines of a list that one item is added to.                          *)
LEMMA LinesOfAppend ==
  ASSUME NEW S, NEW list \in Seq(S), NEW item \in S
  PROVE  LinesOf(Append(list, item)) = LinesOf(list) \cup {item.line}
<1> DEFINE longer == Append(list, item)
<1>1. /\ DOMAIN longer = 1 .. Len(list) + 1 /\ longer[Len(list) + 1] = item
      /\ \A i \in 1 .. Len(list) : longer[i] = list[i]
      /\ DOMAIN list = 1 .. Len(list) /\ Len(list) \in Nat
  OBVIOUS
<1> HIDE DEF longer
<1>2. \A i \in 1 .. Len(list) + 1 : i \in 1 .. Len(list) \/ i = Len(list) + 1
  BY <1>1
<1>3. LinesOf(longer) \subseteq LinesOf(list) \cup {item.line}
  BY <1>1, <1>2 DEF LinesOf
<1>4. LinesOf(list) \cup {item.line} \subseteq LinesOf(longer)
  <2>1. \A i \in 1 .. Len(list) : i \in DOMAIN longer
    BY <1>1
  <2>2. Len(list) + 1 \in DOMAIN longer
    BY <1>1
  <2> QED BY <1>1, <2>1, <2>2 DEF LinesOf
<1> QED BY <1>3, <1>4 DEF longer

(* What is accounted for up to a row is, with that row judged, accounted   *)
(* for up to the next.                                                     *)
LEMMA OneMoreRow ==
  ASSUME NEW Text, Empty \in Text, NEW headers, NEW rows \in Seq(Record(Text)),
         NEW k \in 1 .. Len(rows), InOrder(rows), NEW v \in Verdict(Text),
         Accounted(v, headers, rows, k - 1)
  PROVE  Accounted(Judge(v, headers, rows[k]), headers, rows, k)
<1> DEFINE w == Judge(v, headers, rows[k])
           line == rows[k].line
           key == KeyIn(headers, rows, k)
           accepted == SoundRow(headers, rows, k) /\ key \notin v.seen
           bar == [key |-> key, line |-> line]
           First(i) == FirstRow(headers, rows, i)
           IsGood(i) == SoundRow(headers, rows, i)
           KeyAt(i) == KeyIn(headers, rows, i)
<1>1. /\ rows[k] \in Record(Text) /\ line \in Nat /\ \A i \in 1 .. Len(rows) : rows[i].line \in Nat
      /\ Len(rows) \in Nat /\ k \in Nat
  <2>1. \A i \in 1 .. Len(rows) : rows[i] \in Record(Text)
    OBVIOUS
  <2> QED BY <2>1 DEF Record
<1>2. /\ w \in Verdict(Text) /\ key \in Key(Text)
      /\ accepted => Accepts(v, w, key, line)
      /\ ~accepted => Rejects(v, w, line)
  <2>1. rows[k] \in Record(Text)
    BY <1>1
  <2> QED BY <2>1, RowIsJudged DEF KeyIn, SoundRow
<1>3. /\ v.bars \in Seq(BarOfKey(Text)) /\ v.errors \in Seq(RowError)
      /\ v.seen \in SUBSET Key(Text)
  BY DEF Verdict
<1>4. First(k) <=> accepted
  <2>1. v.seen = {KeyAt(i) : i \in {j \in 1 .. k - 1 : IsGood(j)}}
    BY DEF Accounted
  <2> QED BY <2>1 DEF FirstRow
<1> HIDE DEF w
<1>5. \A i \in 1 .. k : i = k \/ i \in 1 .. k - 1
  OBVIOUS
<1>6. k \in 1 .. k /\ \A i \in 1 .. k - 1 : i \in 1 .. k
  OBVIOUS
<1>7. /\ {i \in 1 .. k : First(i)}
             = {i \in 1 .. k - 1 : First(i)} \cup (IF First(k) THEN {k} ELSE {})
      /\ {i \in 1 .. k : ~First(i)}
             = {i \in 1 .. k - 1 : ~First(i)} \cup (IF First(k) THEN {} ELSE {k})
      /\ {i \in 1 .. k : IsGood(i)}
             = {i \in 1 .. k - 1 : IsGood(i)} \cup (IF IsGood(k) THEN {k} ELSE {})
  BY <1>5, <1>6
<1>8. \A b \in 1 .. Len(v.bars) : v.bars[b].line < line
  <2> SUFFICES ASSUME NEW b \in 1 .. Len(v.bars) PROVE v.bars[b].line < line
    OBVIOUS
  <2>1. v.bars[b].line \in LinesOf(v.bars)
    BY <1>3 DEF LinesOf
  <2>2. PICK i \in 1 .. k - 1 : v.bars[b].line = rows[i].line
    BY <2>1 DEF Accounted, LinesIn
  <2>3. i \in 1 .. Len(rows) /\ i < k
    BY <1>1
  <2> QED BY <2>2, <2>3 DEF InOrder
<1>9. CASE accepted
  <2>1. bar \in BarOfKey(Text)
    BY <1>1, <1>2 DEF BarOfKey
  <2> HIDE DEF bar, accepted
  <2>10. /\ w.bars = Append(v.bars, bar)
         /\ w.errors = v.errors /\ w.seen = v.seen \cup {key}
    BY <1>2, <1>9 DEF Accepts, bar
  <2>11. bar.key = key /\ bar.line = line
    BY DEF bar
  <2>6. /\ Len(w.bars) = Len(v.bars) + 1 /\ Len(v.bars) \in Nat
        /\ w.bars[Len(v.bars) + 1] = bar
        /\ \A b \in 1 .. Len(v.bars) : w.bars[b] = v.bars[b]
    BY <1>3, <2>1, <2>10, Appended
  <2>2. Len(w.bars) + Len(w.errors) = k
    <3>1. Len(w.errors) \in Nat /\ Len(v.bars) + Len(w.errors) = k - 1
      <4>1. Len(v.errors) \in Nat
        BY <1>3
      <4> QED BY <2>10, <4>1 DEF Accounted
    <3>2. \A a, b \in Nat : a + b = k - 1 => (a + 1) + b = k
      BY <1>1
    <3> QED BY <2>6, <3>1, <3>2
  <2>3. LinesOf(w.bars) = LinesIn(rows, {i \in 1 .. k : First(i)})
    <3>1. LinesOf(w.bars) = LinesOf(v.bars) \cup {line}
      BY <1>3, <2>1, <2>10, <2>11, LinesOfAppend
    <3> QED BY <1>4, <1>7, <1>9, <3>1 DEF Accounted, LinesIn, accepted
  <2>4. LinesOf(w.errors) = LinesIn(rows, {i \in 1 .. k : ~First(i)})
    BY <2>10, <1>4, <1>7, <1>9 DEF Accounted, LinesIn
  <2>5. w.seen = {KeyAt(i) : i \in {j \in 1 .. k : IsGood(j)}}
    BY <2>10, <1>7, <1>9 DEF Accounted, accepted
  <2>7. \A b \in 1 .. Len(w.bars) : b \in 1 .. Len(v.bars) \/ b = Len(v.bars) + 1
    BY <2>6
  <2>8. \A b \in 1 .. Len(w.bars) : w.bars[b].key \in w.seen
    <3>1. \A b \in 1 .. Len(v.bars) : v.bars[b].key \in v.seen
      BY DEF Accounted
    <3> QED BY <2>6, <2>7, <2>10, <2>11, <3>1
  <2>9. \A b, c \in 1 .. Len(w.bars) : b < c => /\ w.bars[b].line < w.bars[c].line
                                               /\ w.bars[b].key # w.bars[c].key
    <3> SUFFICES ASSUME NEW b \in 1 .. Len(w.bars), NEW c \in 1 .. Len(w.bars), b < c
                 PROVE  w.bars[b].line < w.bars[c].line /\ w.bars[b].key # w.bars[c].key
      OBVIOUS
    <3>1. b \in 1 .. Len(v.bars) /\ w.bars[b] = v.bars[b]
      BY <2>6, <2>7
    <3>2. CASE c \in 1 .. Len(v.bars)
      BY <2>6, <3>1, <3>2 DEF Accounted
    <3>3. CASE c = Len(v.bars) + 1
      <4>1. v.bars[b].key # key
        BY <1>9, <3>1 DEF Accounted, accepted
      <4> QED BY <1>8, <2>6, <2>11, <3>1, <3>3, <4>1
    <3> QED BY <2>7, <3>2, <3>3
  <2> QED BY <2>2, <2>3, <2>4, <2>5, <2>8, <2>9 DEF Accounted, w
<1>10. CASE ~accepted
  <2>1. PICK reason \in Reason : w.errors = Append(v.errors, [line |-> line, reason |-> reason])
    BY <1>2, <1>10 DEF Rejects
  <2> DEFINE error == [line |-> line, reason |-> reason]
  <2>2. error \in RowError /\ error.line = line
    BY <1>1 DEF RowError
  <2> HIDE DEF error
  <2>3. w.bars = v.bars /\ w.seen = v.seen /\ w.errors = Append(v.errors, error)
    BY <1>2, <1>10, <2>1 DEF error, Rejects
  <2> HIDE DEF line
  <2>4. Len(w.bars) + Len(w.errors) = k
    <3>1. Len(w.errors) = Len(v.errors) + 1 /\ Len(v.errors) \in Nat
      BY <1>3, <2>2, <2>3, Appended
    <3>2. Len(v.bars) \in Nat /\ Len(v.bars) + Len(v.errors) = k - 1
      <4>1. Len(v.bars) \in Nat
        BY <1>3
      <4> QED BY <4>1 DEF Accounted
    <3>3. \A a, b \in Nat : a + b = k - 1 => a + (b + 1) = k
      BY <1>1
    <3> QED BY <2>3, <3>1, <3>2, <3>3
  <2>5. LinesOf(w.errors) = LinesIn(rows, {i \in 1 .. k : ~First(i)})
    <3>1. LinesOf(w.errors) = LinesOf(v.errors) \cup {line}
      <4>1. v.errors \in Seq(RowError)
        BY <1>3
      <4>2. LinesOf(Append(v.errors, error)) = LinesOf(v.errors) \cup {error.line}
        BY <2>2, <4>1, LinesOfAppend
      <4> QED BY <2>2, <2>3, <4>2
    <3> QED BY <1>4, <1>7, <1>10, <3>1 DEF Accounted, LinesIn, line
  <2>6. LinesOf(w.bars) = LinesIn(rows, {i \in 1 .. k : First(i)})
    BY <1>4, <1>7, <1>10, <2>3 DEF Accounted, LinesIn
  <2>7. w.seen = {KeyAt(i) : i \in {j \in 1 .. k : IsGood(j)}}
    <3>1. v.seen = {KeyAt(i) : i \in {j \in 1 .. k - 1 : IsGood(j)}}
      BY DEF Accounted
    <3>2. IsGood(k) => KeyAt(k) \in v.seen
      BY <1>10
    <3> QED BY <1>7, <2>3, <3>1, <3>2
  <2> QED BY <2>3, <2>4, <2>5, <2>6, <2>7 DEF Accounted, w
<1> QED BY <1>9, <1>10

(* A column has an index exactly when the header names it.                 *)
LEMMA ColumnIsThere ==
  ASSUME NEW Text, Empty \in Text, NEW headers \in Seq(Text), NEW name
  PROVE  HeaderIndex(headers, name) # NoColumn <=> name \in Range(headers)
<1> DEFINE there == {h \in 1 .. Len(headers) : headers[h] = name}
<1>1. HeaderIndex(headers, name) = IF there # {} THEN Min(there) ELSE 0
  BY DEF HeaderIndex, SelectInSeq
<1>2. name \in Range(headers) <=> there # {}
  BY DEF Range
<1>3. there # {} => Min(there) \in there
  <2>1. there \in SUBSET Nat
    OBVIOUS
  <2> HIDE DEF there
  <2> QED BY <2>1, LeastIsLeast
<1> QED BY <1>1, <1>2, <1>3 DEF NoColumn

(* As many different keys as there are bars.                               *)
LEMMA KeysAreCounted ==
  ASSUME NEW Text, NEW bars \in Seq(BarOfKey(Text)),
         \A b, c \in 1 .. Len(bars) : b < c => bars[b].key # bars[c].key
  PROVE  Cardinality({bars[i].key : i \in DOMAIN bars}) = Len(bars)
<1> DEFINE n == Len(bars)
           keys == {bars[i].key : i \in DOMAIN bars}
           f == [i \in 1 .. n |-> bars[i].key]
<1>1. n \in Nat /\ DOMAIN bars = 1 .. n
  OBVIOUS
<1>2. f \in Injection(1 .. n, keys)
  BY <1>1 DEF Injection, IsInjective
<1>3. f \in Surjection(1 .. n, keys)
  BY <1>1 DEF Surjection
<1>4. f \in Bijection(1 .. n, keys)
  BY <1>2, <1>3 DEF Bijection
<1>5. ExistsBijection(1 .. n, keys)
  BY <1>4 DEF ExistsBijection
<1> HIDE DEF keys, n, f
<1>6. Cardinality(keys) = n
  BY <1>1, <1>5, FS_NatBijection, FS_CountingElements
<1> QED BY <1>6 DEF keys, n

(* Every row is accounted for, as a bar or as one error on its line, for   *)
(* every file whose records have lines of their own and every limit; the   *)
(* bars are the first sound rows of their ticker and date                  *)
(* (parsePriceCsv.ts:165-304).                                             *)
THEOREM EveryRowIsAccounted ==
  ASSUME NEW Text, Empty \in Text, NEW records \in Seq(Record(Text)), records # <<>>,
         InOrder(records), NEW maxRows
  PROVE  RowsAreJudged(records, maxRows)
<1> DEFINE headers == records[1].fields
           rows == Tail(records)
           n == Len(rows)
           judged == Judged(headers, rows)
           v == judged[n]
           r == ParsePriceCsv(records, maxRows)
<1>1. /\ headers \in Seq(Text) /\ rows \in Seq(Record(Text)) /\ n \in Nat
      /\ InOrder(rows) /\ (rows = <<>> <=> n = 0)
  <2>1. records[1] \in Record(Text) /\ rows \in Seq(Record(Text)) /\ n \in Nat
        /\ Len(records) = n + 1
    OBVIOUS
  <2>2. \A i \in 1 .. n : rows[i] = records[i + 1] /\ i + 1 \in 1 .. Len(records)
    BY <2>1
  <2>3. InOrder(rows)
    BY <2>1, <2>2 DEF InOrder
  <2>4. headers \in Seq(Text)
    BY <2>1 DEF Record
  <2> HIDE DEF rows, headers
  <2>5. rows = <<>> <=> n = 0
    BY <2>1
  <2> QED BY <2>1, <2>3, <2>4, <2>5
<1> HIDE DEF headers, rows
<1>2. Accounted(v, headers, rows, n) /\ v \in Verdict(Text)
  <2> DEFINE T == {k \in 0 .. n : Accounted(judged[k], headers, rows, k)}
  <2>1. /\ judged[0] = Nothing
        /\ \A i \in 1 .. n : judged[i] = Judge(judged[i - 1], headers, rows[i])
        /\ \A i \in 0 .. n : judged[i] \in Verdict(Text)
    BY <1>1, RowsAreJudgedInTurn
  <2> HIDE DEF judged
  <2>2. 0 \in T
    <3>1. Accounted(Nothing, headers, rows, 0)
      BY DEF Accounted, Nothing, LinesOf, LinesIn
    <3> QED BY <1>1, <2>1, <3>1
  <2>3. \A k \in 1 .. n : k - 1 \in T => k \in T
    BY <1>1, <2>1, OneMoreRow
  <2>4. 0 .. n \subseteq T
    <3> HIDE DEF T
    <3> QED BY <1>1, <2>2, <2>3, Induction
  <2> QED BY <1>1, <2>1, <2>4
<1>3. r = CASE records = <<>> -> Refused("empty")
            [] records # <<>> /\ \E h \in RequiredHeaders : HeaderIndex(headers, h) = NoColumn ->
                 Refused("headers")
            [] records # <<>> /\ (\A h \in RequiredHeaders : HeaderIndex(headers, h) # NoColumn) ->
                 IF rows = <<>> THEN Refused("no rows")
                 ELSE IF n > maxRows THEN Refused("too many")
                 ELSE [rowsRead |-> n, bars |-> v.bars, errors |-> v.errors, fatal |-> "none"]
  BY DEF ParsePriceCsv, headers, rows
<1> HIDE DEF n, judged, v, r
<1>4. CASE \E h \in RequiredHeaders : HeaderIndex(headers, h) = NoColumn
  <2>1. r = Refused("headers")
    BY <1>3, <1>4
  <2>2. ~(RequiredHeaders \subseteq Range(headers))
    BY <1>1, <1>4, ColumnIsThere
  <2>3. Accounts(r, headers, rows, maxRows)
    BY <2>1, <2>2 DEF Accounts, Refused
  <2> QED BY <2>3 DEF RowsAreJudged, r, headers, rows
<1>5. CASE /\ \A h \in RequiredHeaders : HeaderIndex(headers, h) # NoColumn
           /\ rows = <<>> \/ n > maxRows
  <2>1. r = Refused("no rows") \/ r = Refused("too many")
    BY <1>3, <1>5
  <2>2. Accounts(r, headers, rows, maxRows)
    <3>1. r.fatal # "none" /\ r.rowsRead = 0 /\ r.bars = <<>> /\ r.errors = <<>>
      <4>1. \A fatal \in {"no rows", "too many"} : fatal # "none"
        OBVIOUS
      <4>2. \A fatal : /\ Refused(fatal).fatal = fatal /\ Refused(fatal).rowsRead = 0
                       /\ Refused(fatal).bars = <<>> /\ Refused(fatal).errors = <<>>
        BY DEF Refused
      <4>3. PICK fatal \in {"no rows", "too many"} : r = Refused(fatal)
        BY <2>1
      <4> QED BY <4>1, <4>2, <4>3
    <3>2. rows = <<>> \/ Len(rows) > maxRows
      BY <1>5 DEF n
    <3> QED BY <3>1, <3>2 DEF Accounts
  <2> QED BY <2>2 DEF RowsAreJudged, r, headers, rows
<1>6. CASE /\ \A h \in RequiredHeaders : HeaderIndex(headers, h) # NoColumn
           /\ rows # <<>> /\ ~(n > maxRows)
  <2>1. r = [rowsRead |-> n, bars |-> v.bars, errors |-> v.errors, fatal |-> "none"]
    BY <1>3, <1>6
  <2> DEFINE cells == [i \in DOMAIN rows |-> Cells(headers, rows[i].fields)]
             sound == {i \in DOMAIN rows : ~(TRUE \in Range(Fails(cells[i])))}
             first == {i \in sound : \A j \in sound : j < i => KeyOf(cells[j]) # KeyOf(cells[i])}
  <2>2. DOMAIN rows = 1 .. n
    BY <1>1 DEF n
  <2>3. first = {i \in 1 .. n : FirstRow(headers, rows, i)}
    <3>1. \A i \in 1 .. n : /\ i \in sound <=> SoundRow(headers, rows, i)
                            /\ KeyOf(cells[i]) = KeyIn(headers, rows, i)
      BY <2>2 DEF SoundRow, KeyIn, IsSound
    <3>2. \A i \in 1 .. n : \A j \in 1 .. n : j < i <=> j \in 1 .. i - 1
      BY <1>1
    <3>3. sound \subseteq 1 .. n
      BY <2>2
    <3>4. \A i \in 1 .. n : \A j \in 1 .. i - 1 : j \in 1 .. n
      BY <1>1
    <3> HIDE DEF sound, cells
    <3> QED BY <3>1, <3>2, <3>3, <3>4 DEF FirstRow
  <2> HIDE DEF cells, sound, first
  <2>4. /\ r.rowsRead = n /\ r.bars = v.bars /\ r.errors = v.errors /\ r.fatal = "none"
    BY <2>1
  <2>5. LinesOf(v.bars) \cup LinesOf(v.errors) = LinesOf(rows)
    <3> DEFINE First(i) == FirstRow(headers, rows, i)
    <3>1. /\ LinesOf(v.bars) = {rows[i].line : i \in {j \in 1 .. n : First(j)}}
          /\ LinesOf(v.errors) = {rows[i].line : i \in {j \in 1 .. n : ~First(j)}}
      BY <1>2 DEF Accounted, LinesIn
    <3>2. LinesOf(rows) = {rows[i].line : i \in 1 .. n}
      BY <2>2 DEF LinesOf
    <3> HIDE DEF First
    <3> QED BY <3>1, <3>2
  <2>6. LinesOf(v.bars) = {rows[i].line : i \in first}
    BY <1>2, <2>3 DEF Accounted, LinesIn
  <2>7. \A i \in 1 .. Len(v.bars) - 1 : v.bars[i].line < v.bars[i + 1].line
    <3>1. Len(v.bars) \in Nat
      BY <1>2 DEF Verdict
    <3>2. \A i \in 1 .. Len(v.bars) - 1 : i \in 1 .. Len(v.bars) /\ i + 1 \in 1 .. Len(v.bars)
              /\ i < i + 1
      BY <3>1
    <3> QED BY <1>2, <3>2 DEF Accounted
  <2>8. Cardinality({v.bars[i].key : i \in DOMAIN v.bars}) = Len(v.bars)
    BY <1>2, KeysAreCounted DEF Accounted, Verdict
  <2>9. n = Len(v.bars) + Len(v.errors) /\ Len(rows) = n
    BY <1>2 DEF Accounted, n
  <2>10. Accounts(r, headers, rows, maxRows)
    BY <2>4, <2>5, <2>6, <2>7, <2>8, <2>9 DEF Accounts, first, sound, cells
  <2> QED BY <2>10 DEF RowsAreJudged, r, headers, rows
<1> QED BY <1>4, <1>5, <1>6

-----------------------------------------------------------------------------
(* What an answer of the provider becomes: the first test that fails gives *)
(* the verdict; an answer without fault gives its rows, sorted.            *)

(* An answer as fetch() and JSON.parse() may give it.  Only a text has     *)
(* topics.                                                                 *)
AdvisoryType == {a \in [is : {"absent", "text", "other"}, topics : SUBSET Topics] :
                   a.is # "text" => a.topics = {}}

(* The provers do not know that these are among the strings.               *)
MediaType == STRING \cup {"application/json", "text/html", ""}

BarType == [open : Int, high : Int, low : Int, close : Int, volume : Int]

Row == [date : Int, bar : BarType]

Channel == {"errorMessage", "note", "information"}

ProviderAnswer ==
  [net : {"answered", "aborted", "refused"}, status : Nat, type : MediaType,
   body : {"parsed", "garbled"},
   advisory : [Channel -> AdvisoryType],
   meta : {"good", "incomplete", "other symbol"},
   series : {"object", "absent", "odd"}, rows : Seq(Row)]

(* A JSON object names a date once.                                        *)
OneRowForADate(rows) == \A i, j \in 1 .. Len(rows) : rows[i].date = rows[j].date => i = j

(* The channels in the order they are looked at.                            *)
LEMMA ChannelsAre == /\ DOMAIN Channels = 1 .. 3 /\ Range(Channels) = Channel
                     /\ Channels[1] = "errorMessage" /\ Channels[2] = "note"
                     /\ Channels[3] = "information"
BY DEF Channels, Range, Channel

(* What a message is taken for.                                            *)
LEMMA MessageIsClassified ==
  ASSUME NEW channel \in Channel, NEW topics \in SUBSET Topics
  PROVE  LET code == ClassifyProviderMessage(channel, topics)
         IN  /\ code \in {"PROVIDER_RATE_LIMITED", "API_KEY_INVALID", "SYMBOL_NOT_FOUND",
                           "PROVIDER_UNAVAILABLE"}
             /\ "rate" \in topics => code = "PROVIDER_RATE_LIMITED"
             /\ code = "API_KEY_INVALID" => "key" \in topics /\ "rate" \notin topics
             /\ code = "SYMBOL_NOT_FOUND" => "symbol" \in topics \/ channel = "errorMessage"
<1> DEFINE Priority == <<"rate", "key", "symbol", "outage">>
           there == {i \in 1 .. Len(Priority) : Priority[i] \in topics}
           found == SelectInSeq(Priority, LAMBDA t : t \in topics)
<1>0. /\ Len(Priority) = 4 /\ Priority[1] = "rate" /\ Priority[2] = "key"
      /\ Priority[3] = "symbol" /\ Priority[4] = "outage"
  OBVIOUS
<1>1. found = IF there # {} THEN Min(there) ELSE 0
  BY DEF SelectInSeq
<1>2. /\ \A i \in there : i \in 1 .. 4 /\ Priority[i] \in topics
      /\ 1 \in there <=> "rate" \in topics
      /\ 2 \in there <=> "key" \in topics
      /\ 3 \in there <=> "symbol" \in topics
  BY <1>0
<1> HIDE DEF there, found
<1>3. found # 0 => found \in there /\ \A j \in there : found <= j
  BY <1>1, <1>2, LeastIsLeast
<1>4. found = 0 => there = {}
  <2>1. 0 \notin there
    BY <1>2
  <2> QED BY <1>1, <1>2, <2>1, LeastIsLeast
<1> DEFINE codes == [rate |-> "PROVIDER_RATE_LIMITED", key |-> "API_KEY_INVALID",
                     symbol |-> "SYMBOL_NOT_FOUND", outage |-> "PROVIDER_UNAVAILABLE",
                     errorMessage |-> "SYMBOL_NOT_FOUND", note |-> "PROVIDER_RATE_LIMITED",
                     information |-> "PROVIDER_UNAVAILABLE"]
           code == codes[IF found = 0 THEN channel ELSE Priority[found]]
<1>5. ClassifyProviderMessage(channel, topics) = code
  BY DEF ClassifyProviderMessage, found
<1>6. /\ codes["rate"] = "PROVIDER_RATE_LIMITED" /\ codes["key"] = "API_KEY_INVALID"
      /\ codes["symbol"] = "SYMBOL_NOT_FOUND" /\ codes["outage"] = "PROVIDER_UNAVAILABLE"
      /\ codes["errorMessage"] = "SYMBOL_NOT_FOUND" /\ codes["note"] = "PROVIDER_RATE_LIMITED"
      /\ codes["information"] = "PROVIDER_UNAVAILABLE"
  OBVIOUS
<1> HIDE DEF codes
<1>7. CASE found = 0
  <2>1. there = {} /\ code = codes[channel]
    BY <1>4, <1>7
  <2> QED BY <1>2, <1>5, <1>6, <2>1 DEF Channel
<1>8. CASE found # 0
  <2>1. found \in 1 .. 4 /\ code = codes[Priority[found]]
    BY <1>2, <1>3, <1>8
  <2>2. CASE found = 1
    BY <1>0, <1>2, <1>3, <1>5, <1>6, <1>8, <2>1, <2>2
  <2>3. CASE found = 2
    <3>1. 1 \notin there /\ 2 \in there
      BY <1>3, <1>8, <2>3
    <3> QED BY <1>0, <1>2, <1>5, <1>6, <2>1, <2>3, <3>1
  <2>4. CASE found = 3
    <3>1. 1 \notin there /\ 2 \notin there /\ 3 \in there
      BY <1>3, <1>8, <2>4
    <3> QED BY <1>0, <1>2, <1>5, <1>6, <2>1, <2>4, <3>1
  <2>5. CASE found = 4
    <3>1. 1 \notin there /\ 2 \notin there /\ 3 \notin there
      BY <1>3, <1>8, <2>5
    <3> QED BY <1>0, <1>2, <1>5, <1>6, <2>1, <2>5, <3>1
  <2> QED BY <2>1, <2>2, <2>3, <2>4, <2>5
<1> QED BY <1>7, <1>8

(* A status may blame the key, and never the symbol.                       *)
LEMMA HttpIsClassified ==
  ASSUME NEW status \in Nat
  PROVE  LET code == ClassifyHttpStatus(status)
         IN  /\ code \notin {"OK", "SYMBOL_NOT_FOUND"}
             /\ code = "API_KEY_INVALID" => status \in {401, 403}
BY DEF ClassifyHttpStatus

(* The channel that counts: the first one that has anything, or the last.  *)
LeadOf(a) == CHOOSE c \in Range(Channels) :
               \E i \in DOMAIN Channels : /\ Channels[i] = c
                                          /\ \A j \in 1 .. i - 1 : a[Channels[j]].is = "absent"
                                          /\ i = 3 \/ a[c].is # "absent"

(* Advisories count when none has a wrong type, and then the lead speaks.  *)
LEMMA AdvisoryIsLead ==
  ASSUME NEW a \in [Channel -> AdvisoryType]
  PROVE  /\ LeadOf(a) \in Channel
         /\ Advised(a) # {} =>
              AdvisoryCode(a) = ClassifyProviderMessage(LeadOf(a), a[LeadOf(a)].topics)
         /\ Advised(a) # {} => a[LeadOf(a)].is = "text"
         /\ Advised(a) # {} <=> /\ \E c \in Channel : a[c].is = "text"
                               /\ \A c \in Channel : a[c].is # "other"
         /\ (\A c \in Channel : a[c].is # "other") /\ "rate" \in a[LeadOf(a)].topics
              => Advised(a) # {}
<1> USE ChannelsAre
<1>1. \A i \in 1 .. 3 : Channels[i] \in Channel /\ a[Channels[i]] \in AdvisoryType
  BY DEF Channel
<1>2. PICK i \in 1 .. 3 : /\ \A j \in 1 .. i - 1 : a[Channels[j]].is = "absent"
                          /\ i = 3 \/ a[Channels[i]].is # "absent"
  <2>1. CASE a[Channels[1]].is # "absent"
    BY <2>1
  <2>2. CASE a[Channels[1]].is = "absent" /\ a[Channels[2]].is # "absent"
    <3>1. \A j \in 1 .. 2 - 1 : j = 1
      OBVIOUS
    <3> QED BY <2>2, <3>1
  <2>3. CASE a[Channels[1]].is = "absent" /\ a[Channels[2]].is = "absent"
    <3>1. \A j \in 1 .. 3 - 1 : j = 1 \/ j = 2
      OBVIOUS
    <3> QED BY <2>3, <3>1
  <2> QED BY <2>1, <2>2, <2>3
<1>3. \A h \in 1 .. 3 : /\ \A j \in 1 .. h - 1 : a[Channels[j]].is = "absent"
                        /\ h = 3 \/ a[Channels[h]].is # "absent"
                        => h = i
  <2> SUFFICES ASSUME NEW h \in 1 .. 3, \A j \in 1 .. h - 1 : a[Channels[j]].is = "absent",
                      h = 3 \/ a[Channels[h]].is # "absent", h # i
               PROVE  FALSE
    OBVIOUS
  <2>1. CASE h < i
    <3>1. h \in 1 .. i - 1 /\ h # 3
      BY <2>1
    <3> QED BY <1>2, <3>1
  <2>2. CASE i < h
    <3>1. i \in 1 .. h - 1 /\ i # 3
      BY <2>2
    <3> QED BY <1>2, <3>1
  <2> QED BY <2>1, <2>2
<1>4. LeadOf(a) = Channels[i]
  BY <1>1, <1>2, <1>3 DEF LeadOf
<1>5. \A c \in Channel : \E j \in 1 .. 3 : c = Channels[j]
  BY DEF Channel
<1>6. Advised(a) # {} <=> /\ \E c \in Channel : a[c].is = "text"
                          /\ \A c \in Channel : a[c].is # "other"
  BY <1>1, <1>5 DEF Advised
<1>7. ASSUME Advised(a) # {}
      PROVE  i \in Advised(a) /\ \A k \in Advised(a) : i <= k
  <2>1. \A j \in 1 .. 3 : a[Channels[j]].is \in {"absent", "text"}
    BY <1>1, <1>6, <1>7 DEF AdvisoryType
  <2>2. Advised(a) = {j \in 1 .. 3 : a[Channels[j]].is = "text"}
    BY <2>1 DEF Advised
  <2>3. \A k \in Advised(a) : i <= k
    <3> SUFFICES ASSUME NEW k \in Advised(a), k < i PROVE FALSE
      BY <2>2
    <3>1. k \in 1 .. i - 1
      BY <2>2
    <3> QED BY <1>2, <2>2, <3>1
  <2>4. a[Channels[i]].is # "absent"
    <3>1. PICK k \in 1 .. 3 : a[Channels[k]].is = "text"
      BY <1>7, <2>2
    <3>2. i <= k
      BY <2>2, <2>3, <3>1
    <3> QED BY <1>2, <3>1, <3>2
  <2> QED BY <2>1, <2>2, <2>3, <2>4
<1>8. Advised(a) # {} => /\ a[Channels[i]].is = "text"
                         /\ AdvisoryCode(a)
                                = ClassifyProviderMessage(Channels[i], a[Channels[i]].topics)
  <2> SUFFICES ASSUME Advised(a) # {}
               PROVE  /\ a[Channels[i]].is = "text"
                      /\ (CHOOSE j \in Advised(a) : \A k \in Advised(a) : j <= k) = i
    BY DEF AdvisoryCode
  <2>1. Advised(a) \subseteq 1 .. 3
    BY DEF Advised
  <2>2. \A j \in Advised(a) : (\A k \in Advised(a) : j <= k) => j = i
    BY <1>7, <2>1
  <2>3. a[Channels[i]].is = "text"
    BY <1>7 DEF Advised
  <2> QED BY <1>7, <2>2, <2>3
<1>9. (\A c \in Channel : a[c].is # "other") /\ "rate" \in a[Channels[i]].topics => Advised(a) # {}
  <2> SUFFICES ASSUME \A c \in Channel : a[c].is # "other", "rate" \in a[Channels[i]].topics
               PROVE  \E c \in Channel : a[c].is = "text"
    BY <1>6
  <2>1. a[Channels[i]].is = "text"
    BY <1>1 DEF AdvisoryType
  <2> QED BY <1>1, <2>1
<1> QED BY <1>1, <1>4, <1>6, <1>8, <1>9

(* An answer without fault can be read and quotes no advisory, and its     *)
(* rows have a date and a consistent bar.                                  *)
Readable(answer) == /\ answer.net = "answered" /\ answer.status = 200 /\ answer.body = "parsed"
                    /\ answer.type \in {"", "application/json", "+json"}

Quoted(answer) == Advised(answer.advisory) # {}

Sound(row) == /\ row.date # Unreal
              /\ 0 < row.bar.low /\ row.bar.volume >= 0
              /\ {row.bar.open, row.bar.close} \subseteq row.bar.low .. row.bar.high

(* A row is sound when the two tests of a row let it through.              *)
LEMMA SoundIsTested ==
  ASSUME NEW row \in Row
  PROVE  Sound(row) <=> row.date # Unreal /\ ParsesBar(row.bar) /\ Consistent(row.bar)
BY DEF Sound, ParsesBar, Consistent, Row, BarType, Unreal, Junk

(* The tests, one by one.                                                  *)
LEMMA TestsAre ==
  ASSUME NEW answer \in ProviderAnswer
  PROVE  LET t == Tests(answer)
         IN  /\ Len(t) = 12
             /\ t[1].fails = (answer.net = "aborted") /\ t[1].code = "PROVIDER_TIMEOUT"
             /\ t[2].fails = (answer.net = "refused") /\ t[2].code = "PROVIDER_UNAVAILABLE"
             /\ t[3].fails = (answer.status # 200) /\ t[3].code = ClassifyHttpStatus(answer.status)
             /\ t[4].fails = (answer.type # "" /\ ~IsJsonMediaType(answer.type))
             /\ t[5].fails = (answer.body = "garbled")
             /\ t[6].fails = Quoted(answer)
             /\ Quoted(answer) => t[6].code = AdvisoryCode(answer.advisory)
             /\ t[7].fails = (answer.series = "odd")
             /\ t[8].fails = (answer.series = "object" /\ Len(answer.rows) > MaxPoints)
             /\ t[9].fails = (\/ answer.meta = "incomplete" \/ answer.series = "absent"
                              \/ \E i \in DOMAIN answer.rows : ~ParsesBar(answer.rows[i].bar))
             /\ t[10].fails = (answer.meta = "other symbol")
             /\ t[11].fails = (\E i \in DOMAIN answer.rows : \/ answer.rows[i].date = Unreal
                                                            \/ ~Consistent(answer.rows[i].bar))
             /\ t[12].fails = (answer.rows = <<>>) /\ t[12].code = "INSUFFICIENT_DATA"
             /\ \A i \in {4, 5, 7, 8, 9, 10, 11} : t[i].code = "PROVIDER_RESPONSE_INVALID"
<1> DEFINE t == Tests(answer)
<1>1. /\ Len(t) = 12
      /\ t[1].fails = (answer.net = "aborted") /\ t[1].code = "PROVIDER_TIMEOUT"
      /\ t[2].fails = (answer.net = "refused") /\ t[2].code = "PROVIDER_UNAVAILABLE"
      /\ t[3].fails = (answer.status # 200) /\ t[3].code = ClassifyHttpStatus(answer.status)
  BY DEF Tests
<1>2. /\ t[4].fails = (answer.type # "" /\ ~IsJsonMediaType(answer.type))
      /\ t[5].fails = (answer.body = "garbled")
      /\ t[6].fails = Quoted(answer)
  BY DEF Tests, Quoted
<1>3. Quoted(answer) => t[6].code = AdvisoryCode(answer.advisory)
  BY DEF Tests, Quoted
<1>4. /\ t[7].fails = (answer.series = "odd")
      /\ t[8].fails = (answer.series = "object" /\ Len(answer.rows) > MaxPoints)
      /\ t[10].fails = (answer.meta = "other symbol")
      /\ t[12].fails = (answer.rows = <<>>) /\ t[12].code = "INSUFFICIENT_DATA"
  BY DEF Tests
<1>5. t[9].fails = (\/ answer.meta = "incomplete" \/ answer.series = "absent"
                    \/ \E i \in DOMAIN answer.rows : ~ParsesBar(answer.rows[i].bar))
  BY DEF Tests
<1>6. t[11].fails = (\E i \in DOMAIN answer.rows : \/ answer.rows[i].date = Unreal
                                                  \/ ~Consistent(answer.rows[i].bar))
  BY DEF Tests
<1>7. /\ t[4].code = "PROVIDER_RESPONSE_INVALID" /\ t[5].code = "PROVIDER_RESPONSE_INVALID"
      /\ t[7].code = "PROVIDER_RESPONSE_INVALID" /\ t[8].code = "PROVIDER_RESPONSE_INVALID"
      /\ t[9].code = "PROVIDER_RESPONSE_INVALID" /\ t[10].code = "PROVIDER_RESPONSE_INVALID"
      /\ t[11].code = "PROVIDER_RESPONSE_INVALID"
  BY DEF Tests
<1> HIDE DEF t
<1> QED BY <1>1, <1>2, <1>3, <1>4, <1>5, <1>6, <1>7 DEF t

(* The first test that fails decides.                                      *)
FailsFirst(answer, i) ==
  Tests(answer)[i].fails /\ \A j \in 1 .. i - 1 : ~Tests(answer)[j].fails

Passes(answer) == \A i \in 1 .. 12 : ~Tests(answer)[i].fails

(* The tests of an answer are an ordered list of exits: the first that     *)
(* fails gives the code, and only an answer that passes all of them gives  *)
(* bars.                                                                   *)
LEMMA FirstFailureDecides ==
  ASSUME NEW answer \in ProviderAnswer
  PROVE  \/ /\ Passes(answer)
            /\ FetchDailySeries(answer) = [code |-> "OK", bars |-> Normalize(answer.rows)]
         \/ \E i \in 1 .. 12 : /\ FailsFirst(answer, i)
                                /\ FetchDailySeries(answer).code = Tests(answer)[i].code
<1> DEFINE t == Tests(answer)
           failing == {i \in 1 .. Len(t) : t[i].fails}
           failed == SelectInSeq(t, LAMBDA test : test.fails)
           r == FetchDailySeries(answer)
<1>1. failed = IF failing # {} THEN Min(failing) ELSE 0
  BY DEF SelectInSeq
<1>2. r = IF failed # 0 THEN [code |-> t[failed].code, bars |-> <<>>]
          ELSE [code |-> "OK", bars |-> Normalize(answer.rows)]
  BY DEF FetchDailySeries
<1>3. Len(t) = 12
  BY TestsAre
<1> HIDE DEF t, failed, r
<1>4. CASE failing = {}
  <2>1. Passes(answer)
    BY <1>3, <1>4 DEF Passes, t
  <2> QED BY <1>1, <1>2, <1>4, <2>1 DEF t, r
<1>5. CASE failing # {}
  <2>1. failed \in failing /\ \A i \in failing : failed <= i
    BY <1>1, <1>3, <1>5, LeastIsLeast
  <2>2. failed \in 1 .. 12 /\ t[failed].fails /\ \A j \in 1 .. failed - 1 : ~t[j].fails
    BY <1>3, <2>1
  <2>4. FailsFirst(answer, failed)
    BY <2>2 DEF FailsFirst, t
  <2>3. r.code = t[failed].code
    BY <1>2, <2>2
  <2> QED BY <2>2, <2>3, <2>4 DEF t, r
<1> QED BY <1>4, <1>5

(* The rank of a date among the dates; every rank below their number is    *)
(* taken, by the one date that has it.                                     *)
RankIn(D, d) == Cardinality({e \in D : e < d})

(* The ranks in a finite set of dates are the numbers up to its size, in   *)
(* the order of the dates.                                                 *)
LEMMA RanksCount ==
  ASSUME NEW D \in SUBSET Int, IsFiniteSet(D)
  PROVE  /\ Cardinality(D) \in Nat
         /\ \A d, e \in D : RankIn(D, d) \in Nat /\ (d < e => RankIn(D, d) < RankIn(D, e))
         /\ \A n \in 1 .. Cardinality(D) : \E d \in D : RankIn(D, d) = n - 1
         /\ \A d \in D : RankIn(D, d) + 1 \in 1 .. Cardinality(D)
<1> DEFINE Below(d) == {e \in D : e < d}
           f == [d \in D |-> RankIn(D, d) + 1]
           N == 1 .. Cardinality(D)
<1>0. \A d \in D : d \in Int
  OBVIOUS
<1>1. Cardinality(D) \in Nat
  BY FS_CardinalityType
<1>2. ASSUME NEW d \in D
      PROVE  /\ IsFiniteSet(Below(d)) /\ RankIn(D, d) \in Nat /\ RankIn(D, d) < Cardinality(D)
  <2>1. IsFiniteSet(Below(d)) /\ Cardinality(Below(d)) <= Cardinality(D)
    BY FS_Subset
  <2>2. Cardinality(Below(d)) # Cardinality(D)
    <3>1. d \in D /\ d \notin Below(d)
      OBVIOUS
    <3>2. Below(d) # D
      BY <3>1
    <3> QED BY <3>2, FS_Subset
  <2>3. Cardinality(Below(d)) \in Nat
    BY <2>1, FS_CardinalityType
  <2> QED BY <1>1, <2>1, <2>2, <2>3 DEF RankIn
<1>3. ASSUME NEW d \in D, NEW e \in D, d < e
      PROVE  RankIn(D, d) < RankIn(D, e)
  <2>0. d \in Int /\ e \in Int
    BY <1>0
  <2>1. Below(d) \subseteq Below(e) /\ d \in Below(e) /\ d \notin Below(d)
    <3>1. ASSUME NEW x \in Below(d) PROVE x \in Below(e)
      <4>1. x \in Int /\ x < d
        BY <1>0, <3>1
      <4> QED BY <1>3, <2>0, <3>1, <4>1
    <3>2. d \in Below(e) /\ d \notin Below(d)
      BY <1>3, <2>0
    <3> HIDE DEF Below
    <3> QED BY <3>1, <3>2
  <2>2. Below(d) # Below(e)
    BY <2>1
  <2> HIDE DEF Below
  <2>3. Cardinality(Below(d)) <= Cardinality(Below(e))
        /\ Cardinality(Below(d)) # Cardinality(Below(e))
    BY <1>2, <2>1, <2>2, FS_Subset
  <2>4. RankIn(D, d) = Cardinality(Below(d)) /\ RankIn(D, e) = Cardinality(Below(e))
    BY DEF RankIn, Below
  <2> QED BY <1>2, <2>3, <2>4
<1>4. \A d \in D : RankIn(D, d) + 1 \in N
  <2> SUFFICES ASSUME NEW d \in D PROVE RankIn(D, d) + 1 \in N
    OBVIOUS
  <2>1. RankIn(D, d) \in Nat /\ RankIn(D, d) < Cardinality(D)
    BY <1>2
  <2> QED BY <1>1, <2>1
<1>5. IsFiniteSet(N) /\ Cardinality(N) = Cardinality(D)
  <2>1. IsFiniteSet(N) /\ Cardinality(N) = IF 1 > Cardinality(D) THEN 0 ELSE Cardinality(D) - 1 + 1
    BY <1>1, FS_Interval
  <2> QED BY <1>1, <2>1
<1>6. f \in Injection(D, N)
  <2>1. f \in [D -> N]
    BY <1>4
  <2>2. \A d, e \in D : d # e => f[d] # f[e]
    <3> SUFFICES ASSUME NEW d \in D, NEW e \in D, d # e PROVE RankIn(D, d) + 1 # RankIn(D, e) + 1
      OBVIOUS
    <3>1. d < e \/ e < d
      BY <1>0
    <3>2. RankIn(D, d) \in Nat /\ RankIn(D, e) \in Nat
      BY <1>2
    <3>3. RankIn(D, d) < RankIn(D, e) \/ RankIn(D, e) < RankIn(D, d)
      BY <1>3, <3>1
    <3> QED BY <3>2, <3>3
  <2> HIDE DEF f
  <2> QED BY <2>1, <2>2 DEF Injection, IsInjective
<1>7. f \in Surjection(D, N)
  BY <1>5, <1>6, FS_Injection
<1>8. \A n \in N : \E d \in D : RankIn(D, d) = n - 1
  <2> SUFFICES ASSUME NEW n \in N PROVE \E d \in D : RankIn(D, d) = n - 1
    OBVIOUS
  <2>1. PICK d \in D : f[d] = n
    BY <1>7 DEF Surjection
  <2>2. RankIn(D, d) + 1 = n /\ RankIn(D, d) \in Nat
    BY <1>2, <2>1
  <2> QED BY <1>1, <2>2
<1> QED BY <1>1, <1>2, <1>3, <1>4, <1>8

(* The bars of an accepted answer are its rows, sorted by date.            *)
LEMMA SeriesIsSorted ==
  ASSUME NEW rows \in Seq(Row), OneRowForADate(rows)
  PROVE  LET bars == Normalize(rows)
         IN  /\ {bars[i] : i \in DOMAIN bars} = {rows[i] : i \in DOMAIN rows}
             /\ \A i \in 1 .. Len(bars) - 1 : bars[i].date < bars[i + 1].date
<1> DEFINE D == {rows[i].date : i \in DOMAIN rows}
           n == Cardinality(D)
           Nth(m) == CHOOSE d \in D : Cardinality({e \in D : e < d}) = m - 1
           RowOf(d) == CHOOSE i \in DOMAIN rows : /\ rows[i].date = d
                                                   /\ \A j \in i + 1 .. Len(rows) : rows[j].date # d
           bars == Normalize(rows)
<1>0. DOMAIN rows = 1 .. Len(rows) /\ Len(rows) \in Nat /\ \A i \in 1 .. Len(rows) : rows[i] \in Row
  OBVIOUS
<1>1. DOMAIN rows = 1 .. Len(rows) /\ Len(rows) \in Nat /\ D \in SUBSET Int
  BY <1>0 DEF Row
<1>2. IsFiniteSet(D)
  <2> DEFINE f == [i \in 1 .. Len(rows) |-> rows[i].date]
  <2>1. IsFiniteSet(1 .. Len(rows))
    BY <1>1, FS_Interval
  <2>2. f \in Surjection(1 .. Len(rows), D)
    BY <1>1 DEF Surjection
  <2> QED BY <2>1, <2>2, FS_Surjection
<1>3. bars = [m \in 1 .. n |-> rows[RowOf(Nth(m))]]
  BY DEF Normalize
<1>4. ASSUME NEW i \in 1 .. Len(rows)
      PROVE  RowOf(rows[i].date) = i
  <2>1. /\ rows[i].date = rows[i].date
        /\ \A j \in i + 1 .. Len(rows) : rows[j].date # rows[i].date
    BY <1>1 DEF OneRowForADate
  <2>2. \A h \in DOMAIN rows : rows[h].date = rows[i].date => h = i
    BY <1>1 DEF OneRowForADate
  <2> QED BY <1>1, <2>1, <2>2
<1>5. ASSUME NEW m \in 1 .. n
      PROVE  Nth(m) \in D /\ RankIn(D, Nth(m)) = m - 1
  <2>1. \E d \in D : Cardinality({e \in D : e < d}) = m - 1
    <3> HIDE DEF D
    <3> QED BY <1>1, <1>2, RanksCount DEF RankIn
  <2> HIDE DEF D
  <2> QED BY <2>1 DEF RankIn
<1>6. n \in Nat
  BY <1>2, FS_CardinalityType
<1> HIDE DEF RowOf, Nth, n
<1>7. \A d \in D : \E i \in 1 .. Len(rows) : d = rows[i].date /\ RowOf(d) = i
  BY <1>1, <1>4
<1>8. \A m \in 1 .. n : \E i \in 1 .. Len(rows) : bars[m] = rows[i] /\ bars[m].date = Nth(m)
  <2> SUFFICES ASSUME NEW m \in 1 .. n
               PROVE  \E i \in 1 .. Len(rows) : bars[m] = rows[i] /\ bars[m].date = Nth(m)
    OBVIOUS
  <2> HIDE DEF D
  <2>1. PICK i \in 1 .. Len(rows) : Nth(m) = rows[i].date /\ RowOf(Nth(m)) = i
    BY <1>5, <1>7
  <2>2. bars[m] = rows[i]
    BY <1>3, <2>1
  <2> QED BY <2>1, <2>2
<1>9. \A i \in 1 .. Len(rows) : \E m \in 1 .. n : bars[m] = rows[i]
  <2> SUFFICES ASSUME NEW i \in 1 .. Len(rows) PROVE \E m \in 1 .. n : bars[m] = rows[i]
    OBVIOUS
  <2>1. rows[i].date \in D
    BY <1>1
  <2> DEFINE m == RankIn(D, rows[i].date) + 1
  <2> HIDE DEF D
  <2>2. m \in 1 .. n /\ RankIn(D, rows[i].date) = m - 1
    <3>1. RankIn(D, rows[i].date) \in Nat /\ RankIn(D, rows[i].date) + 1 \in 1 .. n
      BY <1>1, <1>2, <2>1, RanksCount DEF n
    <3> QED BY <3>1
  <2> HIDE DEF m
  <2>3. Nth(m) = rows[i].date
    <3>1. /\ Nth(m) \in D /\ rows[i].date \in D /\ D \in SUBSET Int
          /\ RankIn(D, Nth(m)) = RankIn(D, rows[i].date)
      BY <1>1, <1>5, <2>1, <2>2
    <3> DEFINE d == Nth(m)  e == rows[i].date
    <3> HIDE DEF d, e
    <3>2. d \in D /\ e \in D /\ RankIn(D, d) = RankIn(D, e)
      BY <3>1 DEF d, e
    <3>3. d \in Int /\ e \in Int /\ RankIn(D, d) \in Nat
      BY <1>1, <1>2, <3>2, RanksCount
    <3>4. ~(d < e) /\ ~(e < d)
      <4>1. /\ d < e => RankIn(D, d) < RankIn(D, e)
            /\ e < d => RankIn(D, e) < RankIn(D, d)
        BY <1>1, <1>2, <3>2, RanksCount
      <4> QED BY <3>2, <3>3, <4>1
    <3> QED BY <3>3, <3>4 DEF d, e
  <2> QED BY <1>3, <1>4, <2>2, <2>3
<1>10. \A m \in 1 .. n - 1 : Nth(m) < Nth(m + 1)
  <2> SUFFICES ASSUME NEW m \in 1 .. n - 1 PROVE Nth(m) < Nth(m + 1)
    OBVIOUS
  <2>1. m \in 1 .. n /\ m + 1 \in 1 .. n
    BY <1>6
  <2> HIDE DEF D
  <2>2. /\ Nth(m) \in D /\ RankIn(D, Nth(m)) = m - 1
        /\ Nth(m + 1) \in D /\ RankIn(D, Nth(m + 1)) = (m + 1) - 1
    BY <1>5, <2>1
  <2>3. Nth(m + 1) < Nth(m) => RankIn(D, Nth(m + 1)) < RankIn(D, Nth(m))
    BY <1>1, <1>2, <2>2, RanksCount
  <2>4. Nth(m) # Nth(m + 1) /\ ~(Nth(m + 1) < Nth(m))
    BY <2>1, <2>2, <2>3
  <2>5. Nth(m) \in Int /\ Nth(m + 1) \in Int
    BY <1>1, <2>2
  <2> QED BY <2>4, <2>5
<1>11. DOMAIN bars = 1 .. n /\ Len(bars) = n
  BY <1>3, <1>6
<1> HIDE DEF bars, D
<1>12. {bars[i] : i \in DOMAIN bars} = {rows[i] : i \in DOMAIN rows}
  <2>1. \A m \in 1 .. n : \E i \in 1 .. Len(rows) : bars[m] = rows[i]
    BY <1>8
  <2>2. {bars[i] : i \in DOMAIN bars} \subseteq {rows[i] : i \in DOMAIN rows}
    BY <1>0, <1>11, <2>1
  <2>3. {rows[i] : i \in DOMAIN rows} \subseteq {bars[i] : i \in DOMAIN bars}
    BY <1>0, <1>9, <1>11
  <2> QED BY <2>2, <2>3
<1>13. \A i \in 1 .. Len(bars) - 1 : bars[i].date < bars[i + 1].date
  <2> SUFFICES ASSUME NEW i \in 1 .. n - 1 PROVE bars[i].date < bars[i + 1].date
    BY <1>11
  <2>1. i \in 1 .. n /\ i + 1 \in 1 .. n
    BY <1>6
  <2> QED BY <1>8, <1>10, <2>1
<1> QED BY <1>12, <1>13 DEF bars

(* Codes that no test gives.                                               *)
LEMMA CodesAre ==
  ASSUME NEW answer \in ProviderAnswer, NEW i \in 1 .. 12, Tests(answer)[i].fails
  PROVE  LET code == Tests(answer)[i].code
             lead == answer.advisory[LeadOf(answer.advisory)]
         IN  /\ code # "OK"
             /\ code = "API_KEY_INVALID" => \/ i = 3 /\ answer.status \in {401, 403}
                                            \/ /\ i = 6
                                               /\ "key" \in lead.topics
                                               /\ "rate" \notin lead.topics
             /\ code = "SYMBOL_NOT_FOUND" =>
                  i = 6 /\ ("symbol" \in lead.topics \/ answer.advisory["errorMessage"].is = "text")
             /\ i = 6 /\ "rate" \in lead.topics => code = "PROVIDER_RATE_LIMITED"
<1> DEFINE t == Tests(answer)
           code == t[i].code
           a == answer.advisory
           lead == LeadOf(a)
<1>1. a \in [Channel -> AdvisoryType] /\ answer.status \in Nat
  BY DEF ProviderAnswer
<1>2. CASE i = 3
  <2>1. code = ClassifyHttpStatus(answer.status)
    BY <1>2, TestsAre
  <2> QED BY <1>1, <1>2, <2>1, HttpIsClassified
<1>3. CASE i = 6
  <2>1. Advised(a) # {} /\ code = AdvisoryCode(a)
    BY <1>3, TestsAre DEF Quoted
  <2>2. /\ lead \in Channel /\ a[lead] \in AdvisoryType /\ a[lead].is = "text"
        /\ code = ClassifyProviderMessage(lead, a[lead].topics)
    BY <1>1, <2>1, AdvisoryIsLead
  <2>3. a[lead].topics \in SUBSET Topics
    BY <2>2 DEF AdvisoryType
  <2> HIDE DEF lead, code
  <2>4. /\ code # "OK"
        /\ "rate" \in a[lead].topics => code = "PROVIDER_RATE_LIMITED"
        /\ code = "API_KEY_INVALID" => "key" \in a[lead].topics /\ "rate" \notin a[lead].topics
        /\ code = "SYMBOL_NOT_FOUND" => "symbol" \in a[lead].topics \/ lead = "errorMessage"
    BY <2>2, <2>3, MessageIsClassified
  <2> QED BY <1>3, <2>2, <2>4 DEF lead, code
<1>4. CASE i \notin {3, 6}
  <2> DEFINE Plain == {"PROVIDER_TIMEOUT", "PROVIDER_UNAVAILABLE", "INSUFFICIENT_DATA",
                       "PROVIDER_RESPONSE_INVALID"}
  <2>1. code \in Plain
    <3>1. i = 1 \/ i = 2 \/ i = 12 \/ i \in {4, 5, 7, 8, 9, 10, 11}
      BY <1>4
    <3>2. t[1].code \in Plain /\ t[2].code \in Plain /\ t[12].code \in Plain
      BY TestsAre
    <3>3. \A j \in {4, 5, 7, 8, 9, 10, 11} : t[j].code \in Plain
      BY TestsAre
    <3> HIDE DEF t, Plain
    <3> QED BY <3>1, <3>2, <3>3
  <2> QED BY <1>4, <2>1
<1> QED BY <1>2, <1>3, <1>4

(* No test fails exactly when there is nothing amiss.                      *)
LEMMA AcceptedWhen ==
  ASSUME NEW answer \in ProviderAnswer
  PROVE  Passes(answer) <=>
           /\ Readable(answer) /\ ~Quoted(answer)
           /\ answer.meta = "good" /\ answer.series = "object"
           /\ Len(answer.rows) \in 1 .. MaxPoints
           /\ \A i \in DOMAIN answer.rows : Sound(answer.rows[i])
<1> DEFINE t == Tests(answer)
           rows == answer.rows
<1>1. /\ rows \in Seq(Row) /\ Len(rows) \in Nat /\ (rows = <<>> <=> Len(rows) = 0)
      /\ \A i \in DOMAIN rows : rows[i] \in Row
  <2>1. rows \in Seq(Row)
    BY DEF ProviderAnswer
  <2> HIDE DEF rows
  <2> QED BY <2>1
<1>2. ~t[1].fails /\ ~t[2].fails /\ ~t[3].fails /\ ~t[4].fails /\ ~t[5].fails
        <=> Readable(answer)
  BY TestsAre DEF Readable, ProviderAnswer, IsJsonMediaType
<1>3. ~t[6].fails <=> ~Quoted(answer)
  BY TestsAre
<1>4. ~t[7].fails /\ ~t[8].fails /\ ~t[9].fails /\ ~t[10].fails /\ ~t[11].fails /\ ~t[12].fails <=>
        /\ answer.meta = "good" /\ answer.series = "object" /\ Len(rows) \in 1 .. MaxPoints
        /\ \A i \in DOMAIN rows : Sound(rows[i])
  <2>1. (\A i \in DOMAIN rows : Sound(rows[i])) <=>
          /\ \A i \in DOMAIN rows : ParsesBar(rows[i].bar)
          /\ \A i \in DOMAIN rows : rows[i].date # Unreal /\ Consistent(rows[i].bar)
    BY <1>1, SoundIsTested
  <2>2. ~t[7].fails /\ ~t[8].fails /\ ~t[10].fails /\ ~t[12].fails <=>
          /\ answer.series # "odd" /\ ~(answer.series = "object" /\ Len(rows) > MaxPoints)
          /\ answer.meta # "other symbol" /\ rows # <<>>
    BY TestsAre
  <2>3. ~t[9].fails <=> /\ answer.meta # "incomplete" /\ answer.series # "absent"
                        /\ \A i \in DOMAIN rows : ParsesBar(rows[i].bar)
    BY TestsAre
  <2>4. ~t[11].fails <=> \A i \in DOMAIN rows : rows[i].date # Unreal /\ Consistent(rows[i].bar)
    <3>1. t[11].fails = (\E i \in DOMAIN rows : rows[i].date = Unreal \/ ~Consistent(rows[i].bar))
      BY TestsAre
    <3> HIDE DEF t, rows
    <3> QED BY <3>1
  <2>5. /\ answer.meta \in {"good", "incomplete", "other symbol"}
        /\ answer.series \in {"object", "absent", "odd"}
    BY DEF ProviderAnswer
  <2> HIDE DEF t, rows
  <2>6. answer.series = "object" /\ ~(answer.series = "object" /\ Len(rows) > MaxPoints)
        /\ rows # <<>>
          <=> answer.series = "object" /\ Len(rows) \in 1 .. MaxPoints
    BY <1>1, ResponseConstants
  <2> QED BY <2>1, <2>2, <2>3, <2>4, <2>5, <2>6
<1>5. (\A i \in 1 .. 12 : ~t[i].fails) <=>
        /\ ~t[1].fails /\ ~t[2].fails /\ ~t[3].fails /\ ~t[4].fails /\ ~t[5].fails /\ ~t[6].fails
        /\ ~t[7].fails /\ ~t[8].fails /\ ~t[9].fails /\ ~t[10].fails /\ ~t[11].fails /\ ~t[12].fails
  <2>1. \A i \in 1 .. 12 : \/ i = 1 \/ i = 2 \/ i = 3 \/ i = 4 \/ i = 5 \/ i = 6
                          \/ i = 7 \/ i = 8 \/ i = 9 \/ i = 10 \/ i = 11 \/ i = 12
    OBVIOUS
  <2> HIDE DEF t
  <2> QED BY <2>1
<1> QED BY <1>2, <1>3, <1>4, <1>5 DEF Passes

(* A row spoils the whole answer, an advisory beside good data does too;   *)
(* what is accepted is sorted and complete; and no error code claims more  *)
(* than the provider has said (alphaVantageClient.ts:89-331,               *)
(* providerErrorClassifier.ts:40-71).                                      *)
THEOREM EveryAnswerIsJudged ==
  ASSUME NEW answer \in ProviderAnswer, OneRowForADate(answer.rows)
  PROVE  AnswerHolds(answer)
<1> DEFINE r == FetchDailySeries(answer)
           t == Tests(answer)
           a == answer.advisory
           lead == LeadOf(a)
           texts == {c \in Range(Channels) : a[c].is = "text"}
           others == {c \in Range(Channels) : a[c].is = "other"}
           bars == {answer.rows[i] : i \in DOMAIN answer.rows}
<1>1. a \in [Channel -> AdvisoryType] /\ answer.rows \in Seq(Row)
  BY DEF ProviderAnswer
<1>2. Quoted(answer) <=> texts # {} /\ others = {}
  BY <1>1, AdvisoryIsLead, ChannelsAre DEF Quoted
<1>3. (\A row \in bars : Sound(row)) <=> \A i \in DOMAIN answer.rows : Sound(answer.rows[i])
  OBVIOUS
<1>4. \/ Passes(answer) /\ r = [code |-> "OK", bars |-> Normalize(answer.rows)]
      \/ \E i \in 1 .. 12 : FailsFirst(answer, i) /\ r.code = t[i].code
  BY FirstFailureDecides
<1>5. r.code = "OK" <=> Passes(answer)
  BY <1>4, CodesAre DEF FailsFirst, Passes
<1>6. r.code = "OK" => r.bars = Normalize(answer.rows)
  BY <1>4, CodesAre DEF FailsFirst
<1>7. r.code = "OK" <=>
           /\ Readable(answer) /\ (texts = {} \/ others # {})
           /\ answer.meta = "good" /\ answer.series = "object"
           /\ Len(answer.rows) \in 1 .. MaxPoints
           /\ \A row \in bars : Sound(row)
  <2> HIDE DEF r, t, texts, others, bars
  <2> QED BY <1>2, <1>3, <1>5, AcceptedWhen DEF t
<1>8. r.code = "OK" =>
           /\ {r.bars[i] : i \in DOMAIN r.bars} = bars
           /\ \A i \in 1 .. Len(r.bars) - 1 : r.bars[i].date < r.bars[i + 1].date
  <2> HIDE DEF r
  <2> QED BY <1>1, <1>6, SeriesIsSorted
<1>9. ASSUME NEW i \in 1 .. 12, FailsFirst(answer, i)
      PROVE  (i = 3 => answer.net = "answered") /\ (i = 6 => Readable(answer))
  <2>1. /\ i = 3 => ~t[1].fails /\ ~t[2].fails
        /\ i = 6 => ~t[1].fails /\ ~t[2].fails /\ ~t[3].fails /\ ~t[4].fails /\ ~t[5].fails
    BY <1>9 DEF FailsFirst
  <2> QED BY <2>1, TestsAre DEF Readable, ProviderAnswer, IsJsonMediaType
<1>10. r.code = "API_KEY_INVALID" =>
           \/ answer.net = "answered" /\ answer.status \in {401, 403}
           \/ Readable(answer) /\ "key" \in a[lead].topics /\ "rate" \notin a[lead].topics
  <2> SUFFICES ASSUME NEW i \in 1 .. 12, FailsFirst(answer, i), t[i].code = "API_KEY_INVALID"
               PROVE  \/ answer.net = "answered" /\ answer.status \in {401, 403}
                      \/ /\ Readable(answer)
                         /\ "key" \in a[lead].topics /\ "rate" \notin a[lead].topics
    BY <1>4
  <2>1. \/ i = 3 /\ answer.status \in {401, 403}
        \/ i = 6 /\ "key" \in a[lead].topics /\ "rate" \notin a[lead].topics
    BY CodesAre DEF FailsFirst
  <2> QED BY <1>9, <2>1
<1>11. r.code = "SYMBOL_NOT_FOUND" =>
           Readable(answer) /\ ("symbol" \in a[lead].topics \/ a["errorMessage"].is = "text")
  <2> SUFFICES ASSUME NEW i \in 1 .. 12, FailsFirst(answer, i), t[i].code = "SYMBOL_NOT_FOUND"
               PROVE  /\ Readable(answer)
                      /\ "symbol" \in a[lead].topics \/ a["errorMessage"].is = "text"
    BY <1>4
  <2>1. i = 6 /\ ("symbol" \in a[lead].topics \/ a["errorMessage"].is = "text")
    BY CodesAre DEF FailsFirst
  <2> QED BY <1>9, <2>1
<1>12. Readable(answer) /\ others = {}
       /\ "rate" \in a[lead].topics => r.code = "PROVIDER_RATE_LIMITED"
  <2> SUFFICES ASSUME Readable(answer), others = {}, "rate" \in a[lead].topics
               PROVE  r.code = "PROVIDER_RATE_LIMITED"
    OBVIOUS
  <2>1. Advised(a) # {}
    BY <1>1, AdvisoryIsLead, ChannelsAre
  <2>2. /\ ~t[1].fails /\ ~t[2].fails /\ ~t[3].fails /\ ~t[4].fails /\ ~t[5].fails
        /\ t[6].fails
    BY <2>1, TestsAre DEF Readable, IsJsonMediaType, Quoted
  <2>3. PICK i \in 1 .. 12 : FailsFirst(answer, i) /\ r.code = t[i].code
    BY <1>4, <2>2 DEF Passes
  <2>4. i = 6
    <3>1. t[i].fails /\ \A j \in 1 .. i - 1 : ~t[j].fails
      BY <2>3 DEF FailsFirst
    <3> HIDE DEF t
    <3>2. ~(6 < i)
      BY <2>2, <3>1
    <3>3. \/ i = 1 \/ i = 2 \/ i = 3 \/ i = 4 \/ i = 5 \/ i = 6
      BY <3>2
    <3> QED BY <2>2, <3>1, <3>3
  <2> QED BY <2>2, <2>3, <2>4, CodesAre
<1> QED BY <1>7, <1>8, <1>10, <1>11, <1>12 DEF AnswerHolds, LeadOf, Readable, Sound

-----------------------------------------------------------------------------
(* The trading calendar. Leaves about numbers as large as a year name SMT: *)
(* Zenon would count them out.                                             *)

NewYear(year) == UTC(year, 1, 1)
LeapDay(year) == IF year % 4 = 0 /\ (year % 100 # 0 \/ year % 400 = 0) THEN 1 ELSE 0

(* The days of a year before a month, for the month 0 the ones since.      *)
Before(leap, month) ==
  IF month = 0 THEN 0 - 31 ELSE
  IF month = 1 THEN 0 ELSE
  IF month = 2 THEN 31 ELSE
  leap + IF month = 3 THEN 59 ELSE
         IF month = 4 THEN 90 ELSE
         IF month = 5 THEN 120 ELSE
         IF month = 6 THEN 151 ELSE
         IF month = 7 THEN 181 ELSE
         IF month = 8 THEN 212 ELSE
         IF month = 9 THEN 243 ELSE
         IF month = 10 THEN 273 ELSE
         IF month = 11 THEN 304 ELSE
         IF month = 12 THEN 334 ELSE 365

(* The days from the beginning of March of year 0 to 1970, and one more.    *)
Epoch == 719163

(* The days before March of a year, from the beginning of the count.       *)
March(y) == 365 * y + y \div 4 - y \div 100 + y \div 400

(* The days that the proofs are about.                                     *)
Years == 1970 .. 2199
DaysOf(year) == NewYear(year) .. NewYear(year + 1) - 1
KnownDays == NewYear(1970) .. NewYear(2200) - 1

(* A year has a leap day or none.                                          *)
LEMMA LeapDayType == \A year \in Int : LeapDay(year) \in {0, 1}
BY DEF LeapDay

(* It is a number.                                                         *)
LEMMA MarchType == \A y \in Int : March(y) \in Int
BY SMT DEF March

(* From one March to the next.                                             *)
LEMMA MarchStep ==
  ASSUME NEW y \in Int
  PROVE  March(y) = March(y - 1) + 365 + LeapDay(y)
<1>1. y \div 4 = (y - 1) \div 4 + (IF y % 4 = 0 THEN 1 ELSE 0)
  BY SMT
<1>2. y \div 100 = (y - 1) \div 100 + (IF y % 100 = 0 THEN 1 ELSE 0)
  BY SMT
<1>3. y \div 400 = (y - 1) \div 400 + (IF y % 400 = 0 THEN 1 ELSE 0)
  BY SMT
<1>4. (y % 400 = 0 => y % 100 = 0) /\ (y % 100 = 0 => y % 4 = 0)
  BY SMT
<1> QED BY <1>1, <1>2, <1>3, <1>4, SMT DEF March, LeapDay

(* The terms of UTC that depend on the month alone.                        *)
LEMMA MonthTerms ==
  ASSUME NEW month \in 0 .. 13
  PROVE  /\ (month - 3) \div 12 = IF month < 3 THEN 0 - 1 ELSE 0
         /\ (153 * ((month + 9) % 12) + 2) \div 5
              = IF month < 3 THEN 306 + Before(0, month) ELSE Before(0, month) - 59
<1>1. (month - 3) \div 12 = IF month < 3 THEN 0 - 1 ELSE 0
  BY SMT
<1> DEFINE m == (month + 9) % 12
<1>2. m = IF month < 3 THEN month + 9 ELSE month - 3
  BY SMT
<1>3. (153 * m + 2) \div 5
        = IF month < 3 THEN 306 + Before(0, month) ELSE Before(0, month) - 59
  <2> HIDE DEF m
  <2>1. month < 3 => month \in {0, 1, 2}
    BY SMT
  <2> QED BY <1>2, <2>1, SMT DEF Before
<1> QED BY <1>1, <1>3

(* Date.UTC by the beginning of the year.                                  *)
LEMMA UtcFromNewYear ==
  ASSUME NEW year \in Int, NEW month \in 0 .. 13, NEW day \in Int
  PROVE  UTC(year, month, day) = March(year - 1) + Before(LeapDay(year), month) + day - Epoch
<1> DEFINE y == year + (month - 3) \div 12
           t == (153 * ((month + 9) % 12) + 2) \div 5
           b == Before(0, month)
<1>1. UTC(year, month, day) = March(y) + t + day - 719469
  BY SMT DEF UTC, March
<1>2. /\ y = IF month < 3 THEN year - 1 ELSE year
      /\ t = IF month < 3 THEN 306 + b ELSE b - 59
  BY MonthTerms
<1>3. Before(LeapDay(year), month) = IF month < 3 THEN b ELSE b + LeapDay(year)
  <2>1. LeapDay(year) \in {0, 1}
    BY LeapDayType
  <2> QED BY <2>1, SMT DEF Before
<1>4. b \in Int
  BY SMT DEF Before
<1> HIDE DEF y, t, b
<1>5. March(year) = March(year - 1) + 365 + LeapDay(year) /\ March(year - 1) \in Int
  BY MarchStep, MarchType
<1>6. LeapDay(year) \in Int
  BY LeapDayType
<1> QED BY <1>1, <1>2, <1>3, <1>4, <1>5, <1>6, SMT DEF Epoch

(* From one year to the next.                                              *)
LEMMA YearsFollow ==
  ASSUME NEW year \in Int
  PROVE  /\ NewYear(year) \in Int
         /\ NewYear(year) = March(year - 1) - (Epoch - 1)
         /\ NewYear(year + 1) = NewYear(year) + 365 + LeapDay(year)
<1>1. \A y \in Int : NewYear(y) = March(y - 1) - (Epoch - 1) /\ NewYear(y) \in Int
  <2> SUFFICES ASSUME NEW y \in Int
               PROVE  NewYear(y) = March(y - 1) - (Epoch - 1) /\ NewYear(y) \in Int
    OBVIOUS
  <2>1. \E month \in 0 .. 13 : month = 1 /\ NewYear(y) = UTC(y, month, month)
    BY DEF NewYear
  <2>2. PICK month \in 0 .. 13 : month = 1 /\ NewYear(y) = UTC(y, month, month)
    BY <2>1
  <2>3. UTC(y, month, month) = March(y - 1) + Before(LeapDay(y), month) + month - Epoch
    BY <2>2, UtcFromNewYear
  <2>4. Before(LeapDay(y), month) = 0
    BY <2>2 DEF Before
  <2>5. March(y - 1) \in Int
    BY MarchType
  <2> QED BY <2>2, <2>3, <2>4, <2>5, SMT DEF Epoch
<1>2. March(year) = March(year - 1) + 365 + LeapDay(year) /\ March(year - 1) \in Int
  BY MarchStep, MarchType
<1>3. LeapDay(year) \in Int
  BY LeapDayType
<1>4. NewYear(year + 1) = March(year) - (Epoch - 1)
  <2>1. year + 1 \in Int /\ (year + 1) - 1 = year
    OBVIOUS
  <2> QED BY <1>1, <2>1
<1> QED BY <1>1, <1>2, <1>3, <1>4, SMT DEF Epoch

(* Date.UTC counts from the beginning of the year.                         *)
LEMMA UtcCounts ==
  ASSUME NEW year \in Int, NEW month \in 0 .. 13, NEW day \in Int
  PROVE  /\ UTC(year, month, day) = NewYear(year) + Before(LeapDay(year), month) + day - 1
         /\ Before(LeapDay(year), month) \in Int /\ UTC(year, month, day) \in Int
<1>1. UTC(year, month, day) = March(year - 1) + Before(LeapDay(year), month) + day - Epoch
  BY UtcFromNewYear
<1>2. NewYear(year) = March(year - 1) - (Epoch - 1) /\ NewYear(year) \in Int
  BY YearsFollow, SMT
<1>3. Before(LeapDay(year), month) \in Int
  <2>1. LeapDay(year) \in {0, 1}
    BY LeapDayType
  <2> HIDE DEF LeapDay
  <2> QED BY <2>1, SMT DEF Before
<1>4. March(year - 1) \in Int
  BY MarchType
<1> QED BY <1>1, <1>2, <1>3, <1>4, SMT DEF Epoch

(* The years since 1970 have 365 days each, and the leap days.             *)
LeapDays(year) == NewYear(year) - 365 * (year - 1970)

(* There are at most a hundred by 2200.                                    *)
LEMMA LeapDaysAreFew ==
  ASSUME NEW year \in 1970 .. 2200
  PROVE  /\ LeapDays(year) \in 0 .. 100 /\ NewYear(year) \in Int
         /\ NewYear(year) = 365 * (year - 1970) + LeapDays(year)
<1>1. NewYear(year) = March(year - 1) - (Epoch - 1)
  BY YearsFollow, SMT
<1> DEFINE n == year - 1
<1>2. n \in 1969 .. 2199
  BY SMT
<1>3. n \div 4 - n \div 100 + n \div 400 \in 477 .. 577
  <2> HIDE DEF n
  <2> QED BY <1>2, SMT
<1>4. March(n) = 365 * n + n \div 4 - n \div 100 + n \div 400
  BY DEF March
<1>5. NewYear(year) \in Int
  BY YearsFollow, SMT
<1> QED BY <1>1, <1>2, <1>3, <1>4, <1>5, SMT DEF Epoch, LeapDays

(* getUTCFullYear() of a day of a year is the year.                        *)
LEMMA YearIs ==
  ASSUME NEW year \in Years, NEW date \in DaysOf(year)
  PROVE  YearOf(date) = year
<1>0. year \in 1970 .. 2199 /\ date \in NewYear(year) .. NewYear(year + 1) - 1
  BY DEF Years, DaysOf
<1> DEFINE guess == 1970 + date \div 365
<1>1. /\ LeapDays(year) \in 0 .. 100 /\ NewYear(year) \in Int
      /\ NewYear(year) = 365 * (year - 1970) + LeapDays(year)
  BY <1>0, LeapDaysAreFew, SMT
<1>2. /\ NewYear(year + 1) = NewYear(year) + 365 + LeapDay(year)
      /\ NewYear(year + 1 + 1) = NewYear(year + 1) + 365 + LeapDay(year + 1)
      /\ NewYear(year) = NewYear(year - 1) + 365 + LeapDay(year - 1)
  <2>1. year \in Int /\ year + 1 \in Int /\ year - 1 \in Int /\ (year - 1) + 1 = year
    BY <1>0, SMT
  <2> QED BY <2>1, YearsFollow
<1>3. LeapDay(year) \in {0, 1} /\ LeapDay(year + 1) \in {0, 1} /\ LeapDay(year - 1) \in {0, 1}
  BY <1>0, LeapDayType, SMT
<1>4. /\ NewYear(year - 1) \in Int /\ NewYear(year + 1) \in Int /\ NewYear(year + 1 + 1) \in Int
  BY <1>0, YearsFollow, SMT
<1>5. guess \in {year, year + 1} /\ date \in Int
  BY <1>0, <1>1, <1>2, <1>3, <1>4, SMT
<1> HIDE DEF guess
<1>6. \A y \in guess - 1 .. guess :
         NewYear(y) <= date /\ date < NewYear(y + 1) <=> y = year
  <2> SUFFICES ASSUME NEW y \in guess - 1 .. guess
               PROVE  NewYear(y) <= date /\ date < NewYear(y + 1) <=> y = year
    OBVIOUS
  <2>1. y \in {year - 1, year, year + 1}
    BY <1>0, <1>5, SMT
  <2>2. CASE y = year - 1
    <3>1. NewYear(y + 1) = NewYear(year)
      BY <1>0, <2>2, SMT
    <3> QED BY <1>0, <1>1, <1>2, <1>4, <1>5, <2>2, <3>1, SMT
  <2>3. CASE y = year
    BY <1>0, <1>1, <1>2, <1>4, <1>5, <2>3, SMT
  <2>4. CASE y = year + 1
    BY <1>0, <1>1, <1>2, <1>4, <1>5, <2>4, SMT
  <2> QED BY <2>1, <2>2, <2>3, <2>4
<1>7. YearOf(date) = CHOOSE y \in guess - 1 .. guess : NewYear(y) <= date /\ date < NewYear(y + 1)
  BY DEF YearOf, NewYear, guess
<1>8. year \in guess - 1 .. guess
  BY <1>0, <1>5, SMT
<1> QED BY <1>6, <1>7, <1>8

(* The ends of the days that the proofs are about.                         *)
LEMMA FirstAndLastYear ==
  /\ NewYear(1970) \in 0 .. 100 /\ NewYear(2200) \in Int
  /\ NewYear(2200) - 365 * 230 \in 0 .. 100
<1>1. LeapDays(1970) \in 0 .. 100 /\ NewYear(1970) = 365 * (1970 - 1970) + LeapDays(1970)
  BY LeapDaysAreFew, SMT
<1>2. /\ LeapDays(2200) \in 0 .. 100 /\ NewYear(2200) = 365 * (2200 - 1970) + LeapDays(2200)
      /\ NewYear(2200) \in Int
  BY LeapDaysAreFew, SMT
<1> QED BY <1>1, <1>2, SMT

(* Every one of these days lies in a year.                                 *)
LEMMA YearExists ==
  ASSUME NEW date \in KnownDays
  PROVE  \E year \in Years : date \in DaysOf(year)
<1>0. date \in NewYear(1970) .. NewYear(2200) - 1
  BY DEF KnownDays
<1> DEFINE q == date \div 365
           y == 1970 + q
<1>1. /\ NewYear(1970) \in 0 .. 100 /\ NewYear(2200) \in Int
      /\ NewYear(2200) - 365 * 230 \in 0 .. 100
  BY FirstAndLastYear
<1>2. date \in Nat /\ date < 365 * 230 + 100
  BY <1>0, <1>1, SMT
<1>3. q \in 0 .. 230 /\ 365 * q <= date /\ date < 365 * q + 365
  BY <1>2, SMT
<1> HIDE DEF q
<1>4. y \in 1970 .. 2200 /\ y - 1970 = q
  BY <1>3, SMT
<1>5. NewYear(y) - 365 * q \in 0 .. 100 /\ NewYear(y) \in Int
  <2>1. /\ LeapDays(y) \in 0 .. 100 /\ NewYear(y) \in Int
        /\ NewYear(y) = 365 * (y - 1970) + LeapDays(y)
    BY <1>4, LeapDaysAreFew
  <2> QED BY <1>3, <1>4, <2>1, SMT
<1>6. CASE date >= NewYear(y)
  <2>1. y # 2200
    <3>1. date < NewYear(2200)
      BY <1>0, <1>1, <1>2, SMT
    <3> QED BY <1>1, <1>2, <1>6, <3>1, SMT
  <2>2. y \in 1970 .. 2199 /\ y + 1 \in 1970 .. 2200
    BY <1>4, <2>1, SMT
  <2>3. NewYear(y + 1) - 365 * (q + 1) \in 0 .. 100 /\ NewYear(y + 1) \in Int
    <3> DEFINE z == y + 1
    <3>1. z \in 1970 .. 2200 /\ z - 1970 = q + 1
      BY <1>3, <2>2, SMT
    <3> HIDE DEF z
    <3>2. /\ LeapDays(z) \in 0 .. 100 /\ NewYear(z) \in Int
          /\ NewYear(z) = 365 * (z - 1970) + LeapDays(z)
      BY <3>1, LeapDaysAreFew
    <3> QED BY <1>3, <3>1, <3>2, SMT DEF z
  <2>4. date < NewYear(y + 1)
    BY <1>2, <1>3, <1>4, <2>3, SMT
  <2>5. date \in NewYear(y) .. NewYear(y + 1) - 1
    BY <1>2, <1>5, <1>6, <2>3, <2>4, SMT
  <2> QED BY <2>2, <2>5 DEF Years, DaysOf
<1>7. CASE ~(date >= NewYear(y))
  <2> DEFINE x == y - 1
  <2>1. q # 0
    <3>1. q = 0 => y = 1970
      BY <1>3, SMT
    <3> QED BY <1>0, <1>1, <1>2, <1>7, <3>1, SMT
  <2>2. x \in 1970 .. 2199 /\ x + 1 = y
    BY <1>3, <1>4, <2>1, SMT
  <2>3. NewYear(x) - 365 * (x - 1970) \in 0 .. 100 /\ NewYear(x) \in Int
    <3>1. x \in 1970 .. 2200
      BY <2>2, SMT
    <3> HIDE DEF x
    <3>2. /\ LeapDays(x) \in 0 .. 100 /\ NewYear(x) \in Int
          /\ NewYear(x) = 365 * (x - 1970) + LeapDays(x)
      BY <3>1, LeapDaysAreFew
    <3> QED BY <3>1, <3>2, SMT
  <2>4. NewYear(x) <= date /\ date < NewYear(x + 1)
    <3>1. x - 1970 = q - 1
      BY <1>3, SMT
    <3> HIDE DEF x
    <3> QED BY <1>2, <1>3, <1>5, <1>7, <2>2, <2>3, <3>1, SMT
  <2> HIDE DEF x
  <2>5. date \in NewYear(x) .. NewYear(x + 1) - 1
    BY <1>2, <1>5, <2>2, <2>3, <2>4, SMT
  <2> QED BY <2>2, <2>5 DEF Years, DaysOf
<1> QED BY <1>6, <1>7

(* A date, and what it is written with.                                    *)
IsFace(date, year, month, day) ==
  /\ year \in Years /\ month \in 1 .. 12 /\ day \in 1 .. DaysIn(year, month)
  /\ date = UTC(year, month, day)

(* A month begins where the one before ends.                               *)
LEMMA MonthsFollow ==
  ASSUME NEW year \in Int, NEW month \in 1 .. 12
  PROVE  /\ DaysIn(year, month) \in 28 .. 31
         /\ Before(LeapDay(year), month + 1) = Before(LeapDay(year), month) + DaysIn(year, month)
<1>1. LeapDay(year) \in {0, 1}
  BY LeapDayType
<1>2. month = 2 => DaysIn(year, month) = 28 + LeapDay(year)
  <2> SUFFICES ASSUME month = 2 PROVE DaysIn(year, month) = 28 + LeapDay(year)
    OBVIOUS
  <2>1. DaysIn(year, month) = IF year % 4 = 0 /\ (year % 100 # 0 \/ year % 400 = 0) THEN 29 ELSE 28
    BY DEF DaysIn
  <2> QED BY <2>1, SMT DEF LeapDay
<1>3. month \in {4, 6, 9, 11} => DaysIn(year, month) = 30
  <2>1. month \in {4, 6, 9, 11} => month # 2
    BY SMT
  <2> QED BY <2>1 DEF DaysIn
<1>4. month \notin {2, 4, 6, 9, 11} => DaysIn(year, month) = 31
  BY DEF DaysIn
<1> DEFINE days == DaysIn(year, month)
           leap == LeapDay(year)
<1>5. days = IF month = 2 THEN 28 + leap ELSE IF month \in {4, 6, 9, 11} THEN 30 ELSE 31
  BY <1>2, <1>3, <1>4
<1> HIDE DEF days, leap
<1>6. days \in 28 .. 31 /\ Before(leap, month + 1) = Before(leap, month) + days
  BY <1>1, <1>5, SMT DEF Before, leap
<1> QED BY <1>6 DEF days, leap

(* A month ends before a later one begins.                                 *)
LEMMA MonthsApart ==
  ASSUME NEW leap \in {0, 1}, NEW m \in 1 .. 13, NEW n \in 1 .. 13, m < n
  PROVE  Before(leap, m + 1) <= Before(leap, n)
BY SMT DEF Before

(* The days of a month that lie in an interval of the days of another.     *)
IsBetween(date, year, month, day, n, p, q) ==
  date \in UTC(year, n, p) .. UTC(year, n, q) <=> month = n /\ day \in p .. q

(* Between two days of a month lie days of that month.                     *)
LEMMA DaysBetween ==
  ASSUME NEW year \in Int, NEW month \in 1 .. 12, NEW day \in 1 .. DaysIn(year, month),
         NEW n \in 1 .. 12, NEW p \in 1 .. DaysIn(year, n), NEW q \in 1 .. DaysIn(year, n)
  PROVE  IsBetween(UTC(year, month, day), year, month, day, n, p, q)
<1> SUFFICES UTC(year, month, day) \in UTC(year, n, p) .. UTC(year, n, q)
               <=> month = n /\ day \in p .. q
  BY DEF IsBetween
<1> DEFINE leap == LeapDay(year)
           b(k) == Before(leap, k)
<1>1. leap \in {0, 1}
  BY LeapDayType
<1>2. /\ DaysIn(year, month) \in 28 .. 31 /\ b(month + 1) = b(month) + DaysIn(year, month)
      /\ DaysIn(year, n) \in 28 .. 31 /\ b(n + 1) = b(n) + DaysIn(year, n)
  BY MonthsFollow
<1>3. NewYear(year) \in Int
  BY YearsFollow
<1>4. day \in Int /\ p \in Int /\ q \in Int
  BY <1>2, SMT
<1>5. /\ UTC(year, month, day) = NewYear(year) + b(month) + day - 1
      /\ UTC(year, n, p) = NewYear(year) + b(n) + p - 1
      /\ UTC(year, n, q) = NewYear(year) + b(n) + q - 1
      /\ b(month) \in Int /\ b(n) \in Int
  <2>1. month \in 0 .. 13 /\ n \in 0 .. 13
    BY SMT
  <2> QED BY <1>4, <2>1, UtcCounts
<1> HIDE DEF leap
<1>6. CASE month < n
  <2>1. Before(leap, month + 1) <= Before(leap, n)
    <3>1. month \in 1 .. 13 /\ n \in 1 .. 13
      BY SMT
    <3> QED BY <1>1, <1>6, <3>1, MonthsApart
  <2> QED BY <1>2, <1>3, <1>4, <1>5, <1>6, <2>1, SMT
<1>7. CASE n < month
  <2>1. Before(leap, n + 1) <= Before(leap, month)
    <3>1. month \in 1 .. 13 /\ n \in 1 .. 13
      BY SMT
    <3> QED BY <1>1, <1>7, <3>1, MonthsApart
  <2> QED BY <1>2, <1>3, <1>4, <1>5, <1>7, <2>1, SMT
<1>8. CASE month = n
  BY <1>3, <1>4, <1>5, <1>8, SMT
<1> QED BY <1>6, <1>7, <1>8, SMT

(* A day of a year lies in the year.                                       *)
LEMMA FaceIsInYear ==
  ASSUME NEW date, NEW year, NEW month, NEW day, IsFace(date, year, month, day)
  PROVE  date \in DaysOf(year)
<1> DEFINE leap == LeapDay(year)
           days == DaysIn(year, month)
<1>1. year \in Int /\ month \in 0 .. 13 /\ month \in 1 .. 12 /\ day \in 1 .. days
  BY SMT DEF IsFace, Years
<1>2. days \in 28 .. 31 /\ Before(leap, month + 1) = Before(leap, month) + days
  BY <1>1, MonthsFollow
<1> HIDE DEF days
<1>3. day \in Int
  BY <1>1, <1>2, SMT
<1>4. date = NewYear(year) + Before(leap, month) + day - 1 /\ Before(leap, month) \in Int
  <2>1. /\ UTC(year, month, day) = NewYear(year) + Before(leap, month) + day - 1
        /\ Before(leap, month) \in Int
    BY <1>1, <1>3, UtcCounts
  <2> QED BY <2>1 DEF IsFace
<1>5. NewYear(year + 1) = NewYear(year) + 365 + leap /\ NewYear(year) \in Int
  BY <1>1, YearsFollow
<1>6. leap \in {0, 1}
  BY <1>1, LeapDayType
<1> HIDE DEF leap
<1>7. Before(leap, month) >= 0 /\ Before(leap, month + 1) <= 365 + leap
  BY <1>1, <1>6, SMT DEF Before
<1> QED BY <1>1, <1>2, <1>3, <1>4, <1>5, <1>6, <1>7, SMT DEF DaysOf

(* The getters of a Date give what it is written with.                     *)
LEMMA FaceIsRead ==
  ASSUME NEW date, NEW year, NEW month, NEW day, IsFace(date, year, month, day)
  PROVE  YearOf(date) = year /\ MonthOf(date) = month /\ DayOf(date) = day
<1> DEFINE leap == LeapDay(year)
           b(k) == Before(leap, k)
           days == DaysIn(year, month)
           InMonth(m) == UTC(year, m, 1) <= date /\ (m = 12 \/ date < UTC(year, m + 1, 1))
<1>1. year \in Int /\ month \in 0 .. 13 /\ month \in 1 .. 12 /\ day \in 1 .. days
  BY SMT DEF IsFace, Years
<1>2. YearOf(date) = year
  <2>1. year \in Years /\ date \in DaysOf(year)
    BY FaceIsInYear DEF IsFace
  <2> QED BY <2>1, YearIs
<1>3. days \in 28 .. 31 /\ b(month + 1) = b(month) + days
  BY <1>1, MonthsFollow
<1> HIDE DEF days
<1>4. day \in Int
  BY <1>1, <1>3, SMT
<1>5. date = NewYear(year) + b(month) + day - 1 /\ b(month) \in Int /\ NewYear(year) \in Int
  <2>1. /\ UTC(year, month, day) = NewYear(year) + b(month) + day - 1
        /\ b(month) \in Int
    BY <1>1, <1>4, UtcCounts
  <2>2. NewYear(year) \in Int
    BY <1>1, YearsFollow
  <2> QED BY <2>1, <2>2 DEF IsFace
<1>6. leap \in {0, 1}
  BY <1>1, LeapDayType
<1>7. \A m \in 0 .. 13 : UTC(year, m, 1) = NewYear(year) + b(m) /\ b(m) \in Int
  <2> SUFFICES ASSUME NEW m \in 0 .. 13
               PROVE  UTC(year, m, 1) = NewYear(year) + b(m) /\ b(m) \in Int
    OBVIOUS
  <2>1. UTC(year, m, 1) = NewYear(year) + b(m) + 1 - 1 /\ b(m) \in Int
    <3>1. 1 \in Int
      OBVIOUS
    <3> QED BY <1>1, <3>1, UtcCounts
  <2> QED BY <1>5, <2>1, SMT
<1> HIDE DEF leap
<1>8. \A m \in 1 .. 12 : InMonth(m) <=> m = month
  <2> SUFFICES ASSUME NEW m \in 1 .. 12 PROVE InMonth(m) <=> m = month
    OBVIOUS
  <2>1. UTC(year, m, 1) = NewYear(year) + b(m) /\ b(m) \in Int
    BY <1>7, SMT
  <2>2. UTC(year, m + 1, 1) = NewYear(year) + b(m + 1) /\ b(m + 1) \in Int
    <3>1. m + 1 \in 0 .. 13
      BY SMT
    <3> QED BY <1>7, <3>1
  <2>3. m < month => b(m + 1) <= b(month)
    <3> SUFFICES ASSUME m < month PROVE b(m + 1) <= b(month)
      OBVIOUS
    <3>1. m \in 1 .. 13 /\ month \in 1 .. 13
      BY <1>1, SMT
    <3> QED BY <1>6, <3>1, MonthsApart
  <2>4. month < m => b(month + 1) <= b(m)
    <3> SUFFICES ASSUME month < m PROVE b(month + 1) <= b(m)
      OBVIOUS
    <3>1. m \in 1 .. 13 /\ month \in 1 .. 13
      BY <1>1, SMT
    <3> QED BY <1>6, <3>1, MonthsApart
  <2>5. date \in Int
    BY <1>4, <1>5, SMT
  <2>6. CASE m = month
    BY <1>1, <1>3, <1>4, <1>5, <2>1, <2>2, <2>6, SMT
  <2>7. CASE m < month
    <3>1. m # 12
      BY <1>1, <2>7, SMT
    <3> QED BY <1>1, <1>3, <1>4, <1>5, <2>1, <2>2, <2>3, <2>5, <2>7, <3>1, SMT
  <2>8. CASE month < m
    BY <1>1, <1>3, <1>4, <1>5, <2>1, <2>2, <2>4, <2>5, <2>8, SMT
  <2> QED BY <1>1, <2>6, <2>7, <2>8, SMT
<1>9. MonthOf(date) = month
  <2>1. MonthOf(date) = CHOOSE m \in 1 .. 12 : InMonth(m)
    BY <1>2 DEF MonthOf
  <2> HIDE DEF InMonth
  <2> QED BY <1>1, <1>8, <2>1
<1>10. DayOf(date) = day
  <2>1. DayOf(date) = date - UTC(year, month, 1) + 1
    BY <1>2, <1>9 DEF DayOf
  <2>2. UTC(year, month, 1) = NewYear(year) + b(month)
    BY <1>1, <1>7
  <2> QED BY <1>4, <1>5, <2>1, <2>2, SMT
<1> QED BY <1>2, <1>9, <1>10

(* Every date of these years is written so.                                *)
LEMMA FaceExists ==
  ASSUME NEW date \in KnownDays
  PROVE  \E year, month, day : IsFace(date, year, month, day)
<1>1. PICK year \in Years : date \in DaysOf(year)
  BY YearExists
<1> DEFINE leap == LeapDay(year)
           k == date - NewYear(year)
<1>2. year \in Int
  BY SMT DEF Years
<1>3. /\ NewYear(year + 1) = NewYear(year) + 365 + leap /\ NewYear(year) \in Int
      /\ leap \in {0, 1}
  BY <1>2, YearsFollow, LeapDayType
<1>4. k \in 0 .. 364 + leap /\ date = NewYear(year) + k
  <2> HIDE DEF leap
  <2> QED BY <1>1, <1>3, SMT DEF DaysOf
<1> HIDE DEF k, leap
<1>5. PICK month \in 1 .. 12 : Before(leap, month) <= k /\ k < Before(leap, month + 1)
  <2>1. Before(leap, 1) = 0 /\ Before(leap, 13) = 365 + leap
    BY <1>3, SMT DEF Before
  <2>2. \E month \in 1 .. 12 : Before(leap, month) <= k /\ k < Before(leap, month + 1)
    <3> SUFFICES ASSUME \A month \in 1 .. 12 :
                          ~(Before(leap, month) <= k /\ k < Before(leap, month + 1))
                 PROVE  FALSE
      OBVIOUS
    <3>1. \A month \in 1 .. 13 : Before(leap, month) \in Int
      BY <1>3, SMT DEF Before
    <3>2. \A month \in 1 .. 12 : Before(leap, month) <= k => Before(leap, month + 1) <= k
      <4> SUFFICES ASSUME NEW month \in 1 .. 12, Before(leap, month) <= k
                   PROVE  Before(leap, month + 1) <= k
        OBVIOUS
      <4>1. Before(leap, month + 1) \in Int /\ k \in Int
        <5>1. month + 1 \in 1 .. 13
          BY SMT
        <5> QED BY <1>3, <1>4, <3>1, <5>1, SMT
      <4>2. ~(k < Before(leap, month + 1))
        OBVIOUS
      <4> QED BY <4>1, <4>2, SMT
    <3>3. Before(leap, 2) <= k
      BY <1>3, <1>4, <2>1, <3>2, SMT
    <3>4. Before(leap, 3) <= k
      BY <3>3, <3>2, SMT
    <3>5. Before(leap, 4) <= k
      BY <3>4, <3>2, SMT
    <3>6. Before(leap, 5) <= k
      BY <3>5, <3>2, SMT
    <3>7. Before(leap, 6) <= k
      BY <3>6, <3>2, SMT
    <3>8. Before(leap, 7) <= k
      BY <3>7, <3>2, SMT
    <3>9. Before(leap, 8) <= k
      BY <3>8, <3>2, SMT
    <3>10. Before(leap, 9) <= k
      BY <3>9, <3>2, SMT
    <3>11. Before(leap, 10) <= k
      BY <3>10, <3>2, SMT
    <3>12. Before(leap, 11) <= k
      BY <3>11, <3>2, SMT
    <3>13. Before(leap, 12) <= k
      BY <3>12, <3>2, SMT
    <3>14. Before(leap, 13) <= k
      BY <3>13, <3>2, SMT
    <3> QED BY <1>3, <1>4, <2>1, <3>14, SMT
  <2> QED BY <2>2
<1> DEFINE day == k - Before(leap, month) + 1
<1>6. /\ DaysIn(year, month) \in 28 .. 31
      /\ Before(leap, month + 1) = Before(leap, month) + DaysIn(year, month)
  BY <1>2, MonthsFollow DEF leap
<1>7. Before(leap, month) \in Int
  BY <1>3, SMT DEF Before
<1>8. day \in 1 .. DaysIn(year, month) /\ day \in Int
  BY <1>3, <1>4, <1>5, <1>6, <1>7, SMT
<1>9. UTC(year, month, day) = NewYear(year) + Before(leap, month) + day - 1
  <2>1. month \in 0 .. 13
    BY SMT
  <2>2. day \in Int
    BY <1>8
  <2> HIDE DEF day
  <2>3. UTC(year, month, day) = NewYear(year) + Before(LeapDay(year), month) + day - 1
    BY <1>2, <2>1, <2>2, UtcCounts
  <2> QED BY <2>3 DEF leap
<1>10. date = UTC(year, month, day)
  BY <1>3, <1>4, <1>7, <1>9, SMT
<1> HIDE DEF day
<1>11. IsFace(date, year, month, day)
  BY <1>1, <1>5, <1>8, <1>10 DEF IsFace
<1> QED BY <1>11

-----------------------------------------------------------------------------
(* The days of the week.                                                   *)

(* From one day of the week to the next.                                   *)
LEMMA WeekdayMoves ==
  ASSUME NEW date \in Int
  PROVE  /\ Weekday(date) \in 0 .. 6
         /\ Weekday(date + 1) = IF Weekday(date) = 6 THEN 0 ELSE Weekday(date) + 1
         /\ Weekday(date - 1) = IF Weekday(date) = 0 THEN 6 ELSE Weekday(date) - 1
BY SMT DEF Weekday

(* The two searches for a day of the week, forwards and backwards.         *)
LEMMA WeekHasEachDay ==
  ASSUME NEW first \in Int, NEW weekday \in 0 .. 6, NEW date \in Int
  PROVE  /\ first + ((7 + weekday - Weekday(first)) % 7) = date
              <=> Weekday(date) = weekday /\ date \in first .. first + 6
         /\ first - ((7 + Weekday(first) - weekday) % 7) = date
              <=> Weekday(date) = weekday /\ date \in first - 6 .. first
BY SMT DEF Weekday

(* What a date is written with is of its type.                             *)
LEMMA FaceType ==
  ASSUME NEW date, NEW year, NEW month, NEW day, IsFace(date, year, month, day)
  PROVE  /\ year \in Int /\ month \in 1 .. 12 /\ DaysIn(year, month) \in 28 .. 31
         /\ day \in 1 .. DaysIn(year, month) /\ day \in Int /\ date \in Int
         /\ date = UTC(year, month, day)
<1>1. /\ year \in Int /\ month \in 1 .. 12 /\ month \in 0 .. 13
      /\ day \in 1 .. DaysIn(year, month) /\ date = UTC(year, month, day)
  BY SMT DEF IsFace, Years
<1>2. DaysIn(year, month) \in 28 .. 31
  BY <1>1, MonthsFollow
<1>3. day \in Int
  BY <1>1, <1>2, SMT
<1>4. date \in Int
  BY <1>1, <1>3, UtcCounts
<1> QED BY <1>1, <1>2, <1>3, <1>4

(* The same of a date.                                                     *)
LEMMA FaceIsBetween ==
  ASSUME NEW date, NEW year, NEW month, NEW day, IsFace(date, year, month, day),
         NEW n \in 1 .. 12, NEW p \in 1 .. DaysIn(year, n), NEW q \in 1 .. DaysIn(year, n)
  PROVE  IsBetween(date, year, month, day, n, p, q)
<1>1. year \in Int /\ month \in 1 .. 12 /\ day \in 1 .. DaysIn(year, month)
  BY FaceType
<1>2. IsBetween(UTC(year, month, day), year, month, day, n, p, q)
  BY <1>1, DaysBetween
<1>3. date = UTC(year, month, day)
  BY FaceType
<1> QED BY <1>2, <1>3

(* The days of a month follow each other.                                  *)
AreApart(year, month, p, q) ==
  /\ UTC(year, month, p) \in Int
  /\ UTC(year, month, q) = UTC(year, month, p) + (q - p)

(* So many days later in the month, so many days later.                    *)
LEMMA DaysFollow ==
  ASSUME NEW year \in Int, NEW month \in 1 .. 12, NEW p \in Int, NEW q \in Int
  PROVE  AreApart(year, month, p, q)
<1>1. month \in 0 .. 13
  BY SMT
<1>2. NewYear(year) \in Int
  BY YearsFollow
<1>3. /\ UTC(year, month, p) = NewYear(year) + Before(LeapDay(year), month) + p - 1
      /\ UTC(year, month, q) = NewYear(year) + Before(LeapDay(year), month) + q - 1
      /\ Before(LeapDay(year), month) \in Int
  BY <1>1, UtcCounts
<1> QED BY <1>2, <1>3, SMT DEF AreApart

(* A fixed holiday by the rule.                                            *)
ClosesOn(date, month, day, n, x) ==
  \/ month = n /\ day = x
  \/ month = n /\ day = x - 1 /\ Weekday(date) = 5
  \/ month = n /\ day = x + 1 /\ Weekday(date) = 1

(* The holidays with a date of their own, and the days they are moved to.  *)
LEMMA FixedHoliday ==
  ASSUME NEW date, NEW year, NEW month, NEW day, IsFace(date, year, month, day),
         Weekday(date) \in 1 .. 5,
         NEW n \in 1 .. 12, NEW x \in 1 .. 27, x = 1 => n = 1
  PROVE  ObservedFixed(year, n, x) = date <=> ClosesOn(date, month, day, n, x)
<1> DEFINE a == UTC(year, n, x)
           w == Weekday(a)
           v == Weekday(date)
<1>1. /\ year \in Int /\ month \in 1 .. 12 /\ DaysIn(year, month) \in 28 .. 31
      /\ day \in 1 .. DaysIn(year, month) /\ day \in Int /\ date \in Int
      /\ date = UTC(year, month, day)
  BY FaceType
<1>2. DaysIn(year, n) \in 28 .. 31
  BY <1>1, MonthsFollow
<1>3. /\ x \in 1 .. DaysIn(year, n) /\ x + 1 \in 1 .. DaysIn(year, n)
      /\ x \in Int /\ x + 1 \in Int /\ x - 1 \in Int
  BY <1>2, SMT
<1>4. a \in Int /\ UTC(year, n, x + 1) = a + 1 /\ UTC(year, n, x - 1) = a - 1
  <2>1. /\ a \in Int /\ UTC(year, n, x + 1) = a + ((x + 1) - x)
        /\ UTC(year, n, x - 1) = a + ((x - 1) - x)
    <3>1. AreApart(year, n, x, x + 1) /\ AreApart(year, n, x, x - 1)
      BY <1>1, <1>3, DaysFollow
    <3> QED BY <3>1 DEF AreApart
  <2>2. (x + 1) - x = 1 /\ a + ((x - 1) - x) = a - 1
    <3> HIDE DEF a
    <3> QED BY <1>3, <2>1, SMT
  <2> QED BY <2>1, <2>2
<1>5. \A p \in 1 .. DaysIn(year, n) : date = UTC(year, n, p) <=> month = n /\ day = p
  <2> SUFFICES ASSUME NEW p \in 1 .. DaysIn(year, n)
               PROVE  date = UTC(year, n, p) <=> month = n /\ day = p
    OBVIOUS
  <2>1. date \in UTC(year, n, p) .. UTC(year, n, p) <=> month = n /\ day \in p .. p
    <3>1. IsBetween(date, year, month, day, n, p, p)
      BY FaceIsBetween
    <3> QED BY <3>1 DEF IsBetween
  <2>2. p \in Int
    BY <1>2, SMT
  <2>3. UTC(year, n, p) \in Int
    BY <1>1, <2>2, DaysFollow DEF AreApart
  <2> QED BY <1>1, <2>1, <2>2, <2>3, SMT
<1>6. (date = a <=> month = n /\ day = x) /\ (date = a + 1 <=> month = n /\ day = x + 1)
  BY <1>3, <1>4, <1>5
<1>7. date = a - 1 <=> month = n /\ day = x - 1
  <2>1. CASE x = 1
    <3>1. date \in DaysOf(year)
      BY FaceIsInYear
    <3>2. a = NewYear(year)
      BY <2>1 DEF NewYear
    <3>3. date >= a
      <4>1. NewYear(year) \in Int /\ NewYear(year + 1) \in Int
        <5>1. year + 1 \in Int
          BY <1>1
        <5> QED BY <1>1, <5>1, YearsFollow
      <4> QED BY <3>1, <3>2, <4>1, SMT DEF DaysOf
    <3> HIDE DEF a
    <3> QED BY <1>1, <1>4, <2>1, <3>3, SMT
  <2>2. CASE x # 1
    <3>1. x - 1 \in 1 .. DaysIn(year, n)
      BY <1>2, <2>2, SMT
    <3> QED BY <1>4, <1>5, <3>1
  <2> QED BY <2>1, <2>2
<1>8. /\ w = 6 => ObservedFixed(year, n, x) = a - 1
      /\ w = 0 => ObservedFixed(year, n, x) = a + 1
      /\ w \notin {0, 6} => ObservedFixed(year, n, x) = a
  BY DEF ObservedFixed
<1>9. /\ w \in 0 .. 6
      /\ Weekday(a + 1) = IF w = 6 THEN 0 ELSE w + 1
      /\ Weekday(a - 1) = IF w = 0 THEN 6 ELSE w - 1
  BY <1>4, WeekdayMoves
<1>10. /\ date = a => v = w
       /\ date = a + 1 => v = Weekday(a + 1)
       /\ date = a - 1 => v = Weekday(a - 1)
  OBVIOUS
<1> HIDE DEF v, w, a
<1>11. v \in 1 .. 5
  BY DEF v
<1>12. ObservedFixed(year, n, x) = date
           <=> \/ date = a
               \/ date = a - 1 /\ v = 5
               \/ date = a + 1 /\ v = 1
  <2>1. CASE w = 6
    <3>1. Weekday(a - 1) = 5 /\ Weekday(a + 1) = 0
      BY <1>9, <2>1, SMT
    <3>2. ObservedFixed(year, n, x) = a - 1
      BY <1>8, <2>1
    <3> QED BY <1>1, <1>4, <1>10, <1>11, <2>1, <3>1, <3>2, SMT
  <2>2. CASE w = 0
    <3>1. Weekday(a - 1) = 6 /\ Weekday(a + 1) = 1
      BY <1>9, <2>2, SMT
    <3>2. ObservedFixed(year, n, x) = a + 1
      BY <1>8, <2>2
    <3> QED BY <1>1, <1>4, <1>10, <1>11, <2>2, <3>1, <3>2, SMT
  <2>3. CASE w \notin {0, 6}
    <3>1. ObservedFixed(year, n, x) = a
      BY <1>8, <2>3
    <3>2. date = a - 1 => v # 5
      BY <1>9, <1>10, <2>3, SMT
    <3>3. date = a + 1 => v # 1
      BY <1>9, <1>10, <2>3, SMT
    <3> QED BY <3>1, <3>2, <3>3
  <2> QED BY <2>1, <2>2, <2>3
<1> QED BY <1>6, <1>7, <1>12 DEF v, ClosesOn

(* The holidays on a weekday of a month.                                   *)
IsNth(date, month, day, n, weekday, k) ==
  Weekday(date) = weekday /\ month = n /\ day \in 7 * k - 6 .. 7 * k

(* So with the holidays on the n-th such day.                              *)
LEMMA NthHoliday ==
  ASSUME NEW date, NEW year, NEW month, NEW day, IsFace(date, year, month, day),
         NEW n \in 1 .. 12, NEW weekday \in 0 .. 6, NEW k \in 1 .. 4
  PROVE  NthWeekdayOfMonth(year, n, weekday, k) = date <=> IsNth(date, month, day, n, weekday, k)
<1> DEFINE first == UTC(year, n, 1)
           p == 7 * k - 6
           q == 7 * k
           from == UTC(year, n, p)
<1>1. /\ year \in Int /\ month \in 1 .. 12 /\ DaysIn(year, month) \in 28 .. 31
      /\ day \in 1 .. DaysIn(year, month) /\ day \in Int /\ date \in Int
      /\ date = UTC(year, month, day)
  BY FaceType
<1>2. DaysIn(year, n) \in 28 .. 31
  BY <1>1, MonthsFollow
<1>3. /\ p \in 1 .. DaysIn(year, n) /\ q \in 1 .. DaysIn(year, n)
      /\ p \in Int /\ q \in Int /\ q - p = 6
  BY <1>2, SMT
<1>4. first \in Int /\ from = first + (p - 1) /\ UTC(year, n, q) = from + (q - p) /\ from \in Int
  <2> DEFINE one == 1
  <2>1. one \in Int /\ one = 1
    OBVIOUS
  <2> HIDE DEF p, q, one
  <2>2. AreApart(year, n, one, p) /\ AreApart(year, n, p, q)
    BY <1>1, <1>3, <2>1, DaysFollow
  <2> QED BY <2>1, <2>2 DEF AreApart
<1>5. date \in from .. UTC(year, n, q) <=> month = n /\ day \in p .. q
  <2> HIDE DEF p, q
  <2>1. IsBetween(date, year, month, day, n, p, q)
    BY <1>3, FaceIsBetween
  <2> QED BY <2>1 DEF IsBetween
<1>6. NthWeekdayOfMonth(year, n, weekday, k)
        = first + ((7 + weekday - Weekday(first)) % 7) + (k - 1) * 7
  BY DEF NthWeekdayOfMonth
<1> DEFINE shift == (7 + weekday - Weekday(first)) % 7
           back == date - (k - 1) * 7
<1>7. p - 1 = (k - 1) * 7 /\ back \in Int
  BY <1>1, SMT
<1>8. first + shift = back <=> Weekday(back) = weekday /\ back \in first .. first + 6
  <2> HIDE DEF first, back
  <2> QED BY <1>4, <1>7, WeekHasEachDay
<1>9. Weekday(back) = Weekday(date)
  BY <1>1, SMT DEF Weekday
<1>10. shift \in Int
  <2>1. Weekday(first) \in 0 .. 6
    BY <1>4, WeekdayMoves
  <2> HIDE DEF first
  <2> QED BY <2>1, SMT
<1> HIDE DEF first, shift, p, q, from
<1>11. (first + shift) + (k - 1) * 7 = date <=> first + shift = back
  BY <1>1, <1>4, <1>10, SMT
<1>12. back \in first .. first + 6 <=> date \in from .. UTC(year, n, q)
  BY <1>1, <1>3, <1>4, <1>7, SMT
<1>13. NthWeekdayOfMonth(year, n, weekday, k) = (first + shift) + (k - 1) * 7
  BY <1>6 DEF shift, first
<1> HIDE DEF back
<1>14. NthWeekdayOfMonth(year, n, weekday, k) = date
         <=> Weekday(date) = weekday /\ month = n /\ day \in p .. q
  BY <1>5, <1>8, <1>9, <1>11, <1>12, <1>13
<1> QED BY <1>14 DEF p, q, IsNth

(* Memorial Day.                                                           *)
LEMMA LastHoliday ==
  ASSUME NEW date, NEW year, NEW month, NEW day, IsFace(date, year, month, day)
  PROVE  LastWeekdayOfMonth(year, 5, Monday) = date
           <=> Weekday(date) = 1 /\ month = 5 /\ day \in 25 .. 31
<1> DEFINE last == UTC(year, 6, 0)
<1>1. /\ year \in Int /\ month \in 1 .. 12 /\ DaysIn(year, month) \in 28 .. 31
      /\ day \in 1 .. DaysIn(year, month) /\ day \in Int /\ date \in Int
      /\ date = UTC(year, month, day)
  BY FaceType
<1>2. DaysIn(year, 5) = 31
  BY DEF DaysIn
<1>3. last = UTC(year, 5, 31)
  <2>1. /\ UTC(year, 6, 0) = NewYear(year) + Before(LeapDay(year), 6) + 0 - 1
        /\ UTC(year, 5, 31) = NewYear(year) + Before(LeapDay(year), 5) + 31 - 1
    <3>1. 5 \in 0 .. 13 /\ 6 \in 0 .. 13 /\ 0 \in Int /\ 31 \in Int
      BY SMT
    <3> QED BY <1>1, <3>1, UtcCounts
  <2>2. Before(LeapDay(year), 6) = Before(LeapDay(year), 5) + 31 /\ Before(LeapDay(year), 5) \in Int
    <3>1. LeapDay(year) \in {0, 1}
      BY <1>1, LeapDayType
    <3> HIDE DEF LeapDay
    <3> QED BY <3>1, SMT DEF Before
  <2>3. NewYear(year) \in Int
    BY <1>1, YearsFollow
  <2> QED BY <2>1, <2>2, <2>3, SMT
<1>4. 5 \in 1 .. 12 /\ 25 \in Int /\ 31 \in Int /\ 25 \in 1 .. 31 /\ 31 \in 1 .. 31
  BY SMT
<1>5. date \in UTC(year, 5, 25) .. UTC(year, 5, 31) <=> month = 5 /\ day \in 25 .. 31
  <2>1. IsBetween(date, year, month, day, 5, 25, 31)
    BY <1>2, <1>4, FaceIsBetween
  <2> QED BY <2>1 DEF IsBetween
<1>6. UTC(year, 5, 25) \in Int /\ UTC(year, 5, 31) = UTC(year, 5, 25) + (31 - 25)
  <2>1. AreApart(year, 5, 25, 31)
    BY <1>1, <1>4, DaysFollow
  <2> QED BY <2>1 DEF AreApart
<1>7. last \in Int /\ UTC(year, 5, 25) = last - 6
  BY <1>3, <1>6, SMT
<1>8. LastWeekdayOfMonth(year, 5, Monday) = last - ((7 + Weekday(last) - 1) % 7)
  BY DEF LastWeekdayOfMonth, Monday
<1> HIDE DEF last
<1>9. last - ((7 + Weekday(last) - 1) % 7) = date <=> Weekday(date) = 1 /\ date \in last - 6 .. last
  <2>1. 1 \in 0 .. 6
    BY SMT
  <2> QED BY <1>1, <1>7, <2>1, WeekHasEachDay
<1> QED BY <1>3, <1>5, <1>7, <1>8, <1>9

-----------------------------------------------------------------------------
(* Good Friday.                                                            *)

(* The days from March 1 to the full moon of a golden number, which the    *)
(* code calls a.                                                           *)
MoonFrom(a) ==
  LET md == PaschalFullMoon[a + 1] IN IF md[1] = 3 THEN md[2] - 1 ELSE md[2] + 30

Epact(a) == (19 * a + 24) % 30

(* The table of full moons is the epact of the code, but for two moons.    *)
LEMMA FullMoons ==
  ASSUME NEW a \in 0 .. 18
  PROVE  /\ PaschalFullMoon[a + 1][1] \in {3, 4} /\ PaschalFullMoon[a + 1][2] \in 1 .. 31
         /\ Epact(a) \in 0 .. 29
         /\ MoonFrom(a) = 20 + Epact(a) - (IF a \in {5, 16} THEN 1 ELSE 0)
         /\ (Epact(a) = 29 <=> a = 5) /\ (Epact(a) = 28 <=> a = 16)
<1>1. CASE a = 0
  BY <1>1, SMT DEF PaschalFullMoon, MoonFrom, Epact
<1>2. CASE a = 1
  BY <1>2, SMT DEF PaschalFullMoon, MoonFrom, Epact
<1>3. CASE a = 2
  BY <1>3, SMT DEF PaschalFullMoon, MoonFrom, Epact
<1>4. CASE a = 3
  BY <1>4, SMT DEF PaschalFullMoon, MoonFrom, Epact
<1>5. CASE a = 4
  BY <1>5, SMT DEF PaschalFullMoon, MoonFrom, Epact
<1>6. CASE a = 5
  BY <1>6, SMT DEF PaschalFullMoon, MoonFrom, Epact
<1>7. CASE a = 6
  BY <1>7, SMT DEF PaschalFullMoon, MoonFrom, Epact
<1>8. CASE a = 7
  BY <1>8, SMT DEF PaschalFullMoon, MoonFrom, Epact
<1>9. CASE a = 8
  BY <1>9, SMT DEF PaschalFullMoon, MoonFrom, Epact
<1>10. CASE a = 9
  BY <1>10, SMT DEF PaschalFullMoon, MoonFrom, Epact
<1>11. CASE a = 10
  BY <1>11, SMT DEF PaschalFullMoon, MoonFrom, Epact
<1>12. CASE a = 11
  BY <1>12, SMT DEF PaschalFullMoon, MoonFrom, Epact
<1>13. CASE a = 12
  BY <1>13, SMT DEF PaschalFullMoon, MoonFrom, Epact
<1>14. CASE a = 13
  BY <1>14, SMT DEF PaschalFullMoon, MoonFrom, Epact
<1>15. CASE a = 14
  BY <1>15, SMT DEF PaschalFullMoon, MoonFrom, Epact
<1>16. CASE a = 15
  BY <1>16, SMT DEF PaschalFullMoon, MoonFrom, Epact
<1>17. CASE a = 16
  BY <1>17, SMT DEF PaschalFullMoon, MoonFrom, Epact
<1>18. CASE a = 17
  BY <1>18, SMT DEF PaschalFullMoon, MoonFrom, Epact
<1>19. CASE a = 18
  BY <1>19, SMT DEF PaschalFullMoon, MoonFrom, Epact
<1> QED BY <1>1, <1>2, <1>3, <1>4, <1>5, <1>6, <1>7, <1>8, <1>9,
          <1>10, <1>11, <1>12, <1>13, <1>14, <1>15, <1>16,
          <1>17, <1>18, <1>19, SMT

(* The dates of March and April.                                           *)
AreSpringDays(year, first, day) ==
  /\ first \in Int /\ first = March(year) + 1 - (Epoch + 306)
  /\ UTC(year, 3, day) = first + day - 1
  /\ UTC(year, 4, day) = first + day + 30

(* So with the days of March and April.                                    *)
LEMMA SpringDays ==
  ASSUME NEW year \in Int, NEW day \in Int
  PROVE  AreSpringDays(year, UTC(year, 3, 1), day)
<1> DEFINE one == 1
           leap == LeapDay(year)
<1>1. one \in Int /\ one = 1 /\ 3 \in 0 .. 13 /\ 4 \in 0 .. 13
  BY SMT
<1>2. leap \in {0, 1}
  BY LeapDayType
<1>3. March(year) = March(year - 1) + 365 + leap /\ March(year - 1) \in Int
  BY MarchStep, MarchType
<1> HIDE DEF one, leap
<1>4. /\ UTC(year, 3, one) = March(year - 1) + Before(LeapDay(year), 3) + one - Epoch
      /\ UTC(year, 3, day) = March(year - 1) + Before(LeapDay(year), 3) + day - Epoch
      /\ UTC(year, 4, day) = March(year - 1) + Before(LeapDay(year), 4) + day - Epoch
  BY <1>1, UtcFromNewYear
<1>5. Before(LeapDay(year), 3) = 59 + leap /\ Before(LeapDay(year), 4) = 90 + leap
  BY <1>2, SMT DEF Before, leap
<1>6. Epoch \in Int
  BY SMT DEF Epoch
<1> QED BY <1>1, <1>2, <1>3, <1>4, <1>5, <1>6, SMT DEF AreSpringDays

(* Easter is the Sunday in the week after the full moon.                   *)
LEMMA EasterIsRight ==
  ASSUME NEW year \in Years
  PROVE  /\ EasterSunday(year) \in Int /\ Weekday(EasterSunday(year)) = 0
         /\ LET md == PaschalFullMoon[(year % 19) + 1]
                moon == UTC(year, md[1], md[2])
            IN  moon \in Int /\ EasterSunday(year) \in moon + 1 .. moon + 7
<1> DEFINE a == year % 19
           b == year \div 100
           c == year % 100
           d == b \div 4
           e == b % 4
           f == (b + 8) \div 25
           g == (b - f + 1) \div 3
           h == (19 * a + b - d - g + 15) % 30
           i == c \div 4
           k == c % 4
           l == (32 + 2 * e + 2 * i - h - k) % 7
           m == (a + 11 * h + 22 * l) \div 451
           n == h + l - 7 * m + 114
           first == UTC(year, 3, 1)
           easter == EasterSunday(year)
           md == PaschalFullMoon[a + 1]
           moon == UTC(year, md[1], md[2])
<1>1. easter = UTC(year, n \div 31, (n % 31) + 1)
  BY DEF EasterSunday
<1>2. year \in Int /\ year \in 1970 .. 2199
  BY SMT DEF Years
<1>3. a \in 0 .. 18 /\ c \in 0 .. 99 /\ b \in {19, 20, 21} /\ year = 100 * b + c
  BY <1>2, SMT
<1>4. /\ year \div 4 = 25 * b + i /\ year \div 100 = b /\ year \div 400 = d
      /\ b = 4 * d + e /\ c = 4 * i + k /\ i \in Int /\ k \in 0 .. 3 /\ d \in Int /\ e \in 0 .. 3
  <2>1. year \div 4 = 25 * b + i /\ c = 4 * i + k /\ i \in Int /\ k \in 0 .. 3
    BY <1>2, SMT
  <2>2. year \div 400 = d /\ b = 4 * d + e /\ d \in Int /\ e \in 0 .. 3
    BY <1>2, SMT
  <2> QED BY <2>1, <2>2
<1>5. first \in Int /\ first = March(year) + 1 - (Epoch + 306)
  <2> DEFINE one == 1
  <2>1. one \in Int
    OBVIOUS
  <2> HIDE DEF one, first
  <2>2. AreSpringDays(year, first, one)
    BY <1>2, <2>1, SpringDays DEF first
  <2> QED BY <2>2 DEF AreSpringDays
<1>6. March(year) = 365 * year + year \div 4 - year \div 100 + year \div 400
  BY DEF March
<1> HIDE DEF a, c, e, i, k, first
<1>7. d + g = b - 9
  BY <1>3, SMT
<1>8. h = Epact(a)
  <2>1. 19 * a + b - d - g + 15 = 19 * a + 24
    <3>1. g \in Int /\ b \in Int
      BY <1>3, SMT
    <3> HIDE DEF b, d, g
    <3> QED BY <1>3, <1>4, <1>7, <3>1, SMT
  <2> QED BY <2>1 DEF Epact
<1> HIDE DEF b, d, g, h
<1>9. /\ md[1] \in {3, 4} /\ md[2] \in 1 .. 31 /\ h \in 0 .. 29
      /\ MoonFrom(a) = 20 + h - (IF a \in {5, 16} THEN 1 ELSE 0)
      /\ (h = 29 <=> a = 5) /\ (h = 28 <=> a = 16)
  BY <1>3, <1>8, FullMoons
(* The full moon.                                                          *)
<1>10. moon = first + MoonFrom(a)
  <2>1. MoonFrom(a) = IF md[1] = 3 THEN md[2] - 1 ELSE md[2] + 30
    BY DEF MoonFrom
  <2> HIDE DEF md
  <2>2. md[2] \in Int
    BY <1>9, SMT
  <2>3. /\ UTC(year, 3, md[2]) = first + md[2] - 1
        /\ UTC(year, 4, md[2]) = first + md[2] + 30
    <3> DEFINE day == md[2]
    <3> HIDE DEF day
    <3>1. day \in Int
      BY <2>2 DEF day
    <3>2. AreSpringDays(year, first, day)
      <4>1. AreSpringDays(year, first, day)
        BY <1>2, <3>1, SpringDays DEF first
      <4> QED BY <4>1 DEF AreSpringDays
    <3> QED BY <3>2 DEF AreSpringDays, day
  <2>4. CASE md[1] = 3
    BY <1>5, <2>1, <2>2, <2>3, <2>4, SMT
  <2>5. CASE md[1] = 4
    BY <1>5, <2>1, <2>2, <2>3, <2>5, SMT
  <2> QED BY <1>9, <2>4, <2>5
<1>11. l \in 0 .. 6 /\ \E z \in Int : l = 32 + 2 * e + 2 * i - h - k - 7 * z
  <2> DEFINE s == 32 + 2 * e + 2 * i - h - k
  <2>1. s \in Int
    BY <1>4, <1>9, SMT
  <2> HIDE DEF s
  <2>2. s % 7 \in 0 .. 6 /\ s \div 7 \in Int /\ s % 7 = s - 7 * (s \div 7)
    BY <2>1, SMT
  <2>3. s = 32 + 2 * e + 2 * i - h - k /\ l = s % 7
    BY DEF s
  <2> HIDE DEF l
  <2>4. PICK z \in Int : l = s - 7 * z
    BY <2>2, <2>3
  <2>5. l = 32 + 2 * e + 2 * i - h - k - 7 * z
    BY <1>4, <1>9, <2>1, <2>3, <2>4, SMT
  <2>6. l \in 0 .. 6
    BY <2>2, <2>3
  <2> QED BY <2>5, <2>6
<1>12. PICK z \in Int : l = 32 + 2 * e + 2 * i - h - k - 7 * z
  BY <1>11
<1> HIDE DEF l, md, moon
(* The last two full moons bring Easter a week too late.                   *)
<1>13. m = IF a \in {5, 16} /\ l = 6 THEN 1 ELSE 0
  BY <1>3, <1>9, <1>11, SMT
<1> HIDE DEF m
<1>14. n \in 114 .. 148
  BY <1>3, <1>9, <1>11, <1>13, SMT
<1>15. easter = first + n - 93
  <2> HIDE DEF n
  <2> DEFINE day == (n % 31) + 1
  <2>1. CASE n < 124
    <3>1. n \div 31 = 3 /\ day = n - 92 /\ day \in Int
      BY <1>14, <2>1, SMT
    <3> HIDE DEF day
    <3>2. UTC(year, 3, day) = first + day - 1
      <4>1. AreSpringDays(year, first, day)
        BY <1>2, <3>1, SpringDays DEF first
      <4> QED BY <4>1 DEF AreSpringDays
    <3>3. easter = UTC(year, 3, day)
      BY <1>1, <3>1 DEF day
    <3> HIDE DEF easter
    <3> QED BY <1>5, <1>14, <3>1, <3>2, <3>3, SMT
  <2>2. CASE ~(n < 124)
    <3>1. n \div 31 = 4 /\ day = n - 123 /\ day \in Int
      BY <1>14, <2>2, SMT
    <3> HIDE DEF day
    <3>2. UTC(year, 4, day) = first + day + 30
      <4>1. AreSpringDays(year, first, day)
        BY <1>2, <3>1, SpringDays DEF first
      <4> QED BY <4>1 DEF AreSpringDays
    <3>3. easter = UTC(year, 4, day)
      BY <1>1, <3>1 DEF day
    <3> HIDE DEF easter
    <3> QED BY <1>5, <1>14, <3>1, <3>2, <3>3, SMT
  <2> QED BY <2>1, <2>2
<1> HIDE DEF easter
<1>16. easter \in Int /\ easter = first + 21 + h + l - 7 * m
  BY <1>5, <1>9, <1>11, <1>13, <1>15, SMT
<1>17. moon \in Int /\ easter \in moon + 1 .. moon + 7
  BY <1>3, <1>5, <1>9, <1>10, <1>11, <1>13, <1>16, SMT
(* A Sunday.                                                               *)
<1>18. Weekday(easter) = 0
  <2> DEFINE x == 20871 * d + 5218 * e + 209 * i + 52 * k - z - m - 102773
  <2>1. m \in Int /\ b \in Int
    BY <1>3, <1>13, SMT
  <2>2. easter + 4 = 7 * x /\ x \in Int
    <3>1. March(year) = 36524 * b + 1461 * i + 365 * k + d
      BY <1>3, <1>4, <1>6, SMT
    <3> QED BY <1>4, <1>5, <1>9, <1>12, <1>16, <2>1, <3>1, SMT DEF Epoch
  <2> HIDE DEF x
  <2>3. (7 * x) % 7 = 0
    BY <2>2, SMT
  <2> QED BY <2>2, <2>3 DEF Weekday
<1> QED BY <1>16, <1>17, <1>18 DEF easter, moon, md, a

(* The calendar is the rule of the exchange.                               *)
LEMMA CalendarIsRule ==
  ASSUME NEW date, NEW year, NEW month, NEW day, IsFace(date, year, month, day)
  PROVE  IsTradingDay(date) <=> OpenByRule(date)
<1> DEFINE w == Weekday(date)
           Fix(n, x) == ObservedFixed(year, n, x)
           Nth(n, weekday, k) == NthWeekdayOfMonth(year, n, weekday, k)
           memorial == LastWeekdayOfMonth(year, 5, Monday)
           friday == EasterSunday(year) - 2
<1>1. YearOf(date) = year /\ MonthOf(date) = month /\ DayOf(date) = day
  BY FaceIsRead
<1>2. year \in Years /\ date \in Int /\ w \in 0 .. 6 /\ day \in Int /\ month \in Int
  <2>1. year \in Years
    BY DEF IsFace
  <2>2. date \in Int /\ day \in Int /\ month \in 1 .. 12
    BY FaceType
  <2> QED BY <2>1, <2>2, WeekdayMoves
<1>3. IsWeekend(date) <=> ~(w \in 1 .. 5)
  BY <1>2, SMT DEF IsWeekend
<1>4. CASE ~(w \in 1 .. 5)
  BY <1>3, <1>4 DEF IsTradingDay, OpenByRule
<1>5. CASE w \in 1 .. 5
  <2>1. IsTradingDay(date) <=> date \notin UsMarketHolidays(year)
    BY <1>1, <1>3, <1>5 DEF IsTradingDay
  <2>2. OpenByRule(date) <=> ~ClosedByRule(date, year, month, day)
    BY <1>1, <1>5 DEF OpenByRule
  <2>3. date \in UsMarketHolidays(year)
          <=> \/ Fix(1, 1) = date \/ Fix(6, 19) = date \/ Fix(7, 4) = date \/ Fix(12, 25) = date
              \/ Nth(1, Monday, 3) = date \/ Nth(2, Monday, 3) = date \/ memorial = date
              \/ Nth(9, Monday, 1) = date \/ Nth(11, Thursday, 4) = date \/ friday = date
    <3> DEFINE fixed == {ObservedFixed(year, md[1], md[2]) :
                          md \in {<<1, 1>>, <<6, 19>>, <<7, 4>>, <<12, 25>>}}
               moving == {Nth(1, Monday, 3), Nth(2, Monday, 3), memorial, Nth(9, Monday, 1),
                          Nth(11, Thursday, 4), friday}
    <3>1. UsMarketHolidays(year) = fixed \cup moving
      BY DEF UsMarketHolidays
    <3>2. date \in fixed <=> \/ Fix(1, 1) = date \/ Fix(6, 19) = date \/ Fix(7, 4) = date
                             \/ Fix(12, 25) = date
      OBVIOUS
    <3>3. date \in moving
            <=> \/ Nth(1, Monday, 3) = date \/ Nth(2, Monday, 3) = date \/ memorial = date
                \/ Nth(9, Monday, 1) = date \/ Nth(11, Thursday, 4) = date \/ friday = date
      OBVIOUS
    <3> HIDE DEF fixed, moving
    <3> QED BY <3>1, <3>2, <3>3
  <2>4. /\ Fix(1, 1) = date <=> ClosesOn(date, month, day, 1, 1)
        /\ Fix(6, 19) = date <=> ClosesOn(date, month, day, 6, 19)
        /\ Fix(7, 4) = date <=> ClosesOn(date, month, day, 7, 4)
        /\ Fix(12, 25) = date <=> ClosesOn(date, month, day, 12, 25)
    <3>1. 1 \in 1 .. 12 /\ 6 \in 1 .. 12 /\ 7 \in 1 .. 12 /\ 12 \in 1 .. 12
      BY SMT
    <3>2. 1 \in 1 .. 27 /\ 19 \in 1 .. 27 /\ 4 \in 1 .. 27 /\ 25 \in 1 .. 27
      BY SMT
    <3>3. 19 # 1 /\ 4 # 1 /\ 25 # 1
      BY SMT
    <3> QED BY <1>5, <3>1, <3>2, <3>3, FixedHoliday
  <2>5. /\ Nth(1, Monday, 3) = date <=> IsNth(date, month, day, 1, Monday, 3)
        /\ Nth(2, Monday, 3) = date <=> IsNth(date, month, day, 2, Monday, 3)
        /\ Nth(9, Monday, 1) = date <=> IsNth(date, month, day, 9, Monday, 1)
        /\ Nth(11, Thursday, 4) = date <=> IsNth(date, month, day, 11, Thursday, 4)
    <3>1. /\ 1 \in 1 .. 12 /\ 2 \in 1 .. 12 /\ 9 \in 1 .. 12 /\ 11 \in 1 .. 12
          /\ Monday \in 0 .. 6 /\ Thursday \in 0 .. 6
           /\ 3 \in 1 .. 4 /\ 1 \in 1 .. 4 /\ 4 \in 1 .. 4
      BY SMT DEF Monday, Thursday
    <3> QED BY <3>1, NthHoliday
  <2>6. memorial = date <=> w = 1 /\ month = 5 /\ day \in 25 .. 31
    BY LastHoliday
  <2>7. friday = date <=> IsGoodFriday(date, year)
    <3> DEFINE md == PaschalFullMoon[(year % 19) + 1]
               moon == UTC(year, md[1], md[2])
               easter == EasterSunday(year)
    <3>1. easter \in Int /\ Weekday(easter) = 0 /\ moon \in Int /\ easter \in moon + 1 .. moon + 7
      BY <1>2, EasterIsRight
    <3>2. IsGoodFriday(date, year) <=> Weekday(date) = 5 /\ date + 2 \in moon + 1 .. moon + 7
      BY DEF IsGoodFriday
    <3> HIDE DEF moon, easter
    <3>3. easter - 2 = date <=> Weekday(date) = 5 /\ date + 2 \in moon + 1 .. moon + 7
      <4>1. CASE easter - 2 = date
        <5>1. Weekday(date) = 5
          BY <1>2, <3>1, <4>1, SMT DEF Weekday
        <5> QED BY <1>2, <3>1, <4>1, <5>1, SMT
      <4>2. CASE Weekday(date) = 5 /\ date + 2 \in moon + 1 .. moon + 7
        BY <1>2, <3>1, <4>2, SMT DEF Weekday
      <4> QED BY <4>1, <4>2
    <3> QED BY <3>2, <3>3 DEF easter
  <2>8. ClosedByRule(date, year, month, day)
          <=> \/ ClosesOn(date, month, day, 1, 1) \/ ClosesOn(date, month, day, 6, 19)
              \/ ClosesOn(date, month, day, 7, 4) \/ ClosesOn(date, month, day, 12, 25)
              \/ w = 1 /\ month \in {1, 2} /\ day \in 15 .. 21
              \/ w = 1 /\ month = 5 /\ day \in 25 .. 31
              \/ w = 1 /\ month = 9 /\ day \in 1 .. 7
              \/ w = 4 /\ month = 11 /\ day \in 22 .. 28
              \/ IsGoodFriday(date, year)
    BY SMT DEF ClosedByRule, ClosesOn
  <2>9. /\ IsNth(date, month, day, 1, Monday, 3) <=> w = 1 /\ month = 1 /\ day \in 15 .. 21
        /\ IsNth(date, month, day, 2, Monday, 3) <=> w = 1 /\ month = 2 /\ day \in 15 .. 21
        /\ IsNth(date, month, day, 9, Monday, 1) <=> w = 1 /\ month = 9 /\ day \in 1 .. 7
        /\ IsNth(date, month, day, 11, Thursday, 4) <=> w = 4 /\ month = 11 /\ day \in 22 .. 28
    BY SMT DEF IsNth, Monday, Thursday
  <2> HIDE DEF w, Fix, Nth, memorial, friday
  <2>10. date \in UsMarketHolidays(year) <=> ClosedByRule(date, year, month, day)
    BY <2>3, <2>4, <2>5, <2>6, <2>7, <2>8, <2>9
  <2> QED BY <2>1, <2>2, <2>10
<1> QED BY <1>4, <1>5

-----------------------------------------------------------------------------
(* The last open day.                                                      *)

(* The same on every day.                                                  *)
LEMMA CalendarIsRuleOfDays ==
  ASSUME NEW date \in KnownDays
  PROVE  date \in Int /\ (IsTradingDay(date) <=> OpenByRule(date))
<1>1. PICK year, month, day : IsFace(date, year, month, day)
  BY FaceExists
<1> QED BY <1>1, CalendarIsRule, FaceType

(* A Tuesday or a Wednesday is closed for a fixed holiday only.            *)
LEMMA ClosedMidweek ==
  ASSUME NEW date, NEW year, NEW month, NEW day, IsFace(date, year, month, day),
         Weekday(date) \in {2, 3}, ~OpenByRule(date)
  PROVE  date - NewYear(year)
           \in {0, 169 + LeapDay(year), 184 + LeapDay(year), 358 + LeapDay(year)}
<1> DEFINE leap == LeapDay(year)
<1>1. /\ year \in Int /\ month \in 1 .. 12 /\ day \in Int /\ date \in Int
      /\ date = UTC(year, month, day)
  BY FaceType
<1>2. Weekday(date) \in 1 .. 5
  BY SMT
<1>3. ClosedByRule(date, year, month, day)
  <2>1. YearOf(date) = year /\ MonthOf(date) = month /\ DayOf(date) = day
    BY FaceIsRead
  <2> QED BY <1>2, <2>1 DEF OpenByRule
<1>4. \/ month = 1 /\ day = 1
      \/ month = 6 /\ day = 19
      \/ month = 7 /\ day = 4
      \/ month = 12 /\ day = 25
  <2>1. Weekday(date) # 1 /\ Weekday(date) # 4 /\ Weekday(date) # 5
    BY SMT
  <2> QED BY <1>3, <2>1 DEF ClosedByRule, IsGoodFriday
<1>5. date = NewYear(year) + Before(leap, month) + day - 1 /\ NewYear(year) \in Int
  <2>1. month \in 0 .. 13
    BY <1>1, SMT
  <2>2. UTC(year, month, day) = NewYear(year) + Before(LeapDay(year), month) + day - 1
    BY <1>1, <2>1, UtcCounts
  <2>3. NewYear(year) \in Int
    BY <1>1, YearsFollow
  <2> QED BY <1>1, <2>2, <2>3
<1>6. leap \in {0, 1}
  BY <1>1, LeapDayType
<1>7. date - NewYear(year) \in {0, 169 + leap, 184 + leap, 358 + leap}
  <2> HIDE DEF leap
  <2> QED BY <1>1, <1>4, <1>5, <1>6, SMT DEF Before
<1> QED BY <1>7

(* Two weeks have an open day: no two of the fixed holidays lie six days   *)
(* apart, so a Tuesday or the Wednesday of the week before is open.        *)
LEMMA OpenDayExists ==
  ASSUME NEW date \in Int, date - 13 >= NewYear(1970), date < NewYear(2200)
  PROVE  \E open \in date - 13 .. date : OpenByRule(open)
<1> SUFFICES ASSUME \A open \in date - 13 .. date : ~OpenByRule(open) PROVE FALSE
  OBVIOUS
<1>1. NewYear(1970) \in Int /\ NewYear(2200) \in Int
  BY YearsFollow, SMT
<1>2. PICK t \in date - 6 .. date : Weekday(t) = 2
  <2> DEFINE first == date - 6
             t == first + ((7 + 2 - Weekday(first)) % 7)
  <2>1. first \in Int /\ t \in Int
    BY SMT DEF Weekday
  <2>2. 2 \in 0 .. 6
    BY SMT
  <2> HIDE DEF first
  <2>3. Weekday(t) = 2 /\ t \in first .. first + 6
    BY <2>1, <2>2, WeekHasEachDay
  <2>4. first + 6 = date
    BY SMT DEF first
  <2> HIDE DEF t
  <2> QED BY <2>3, <2>4 DEF first
<1> DEFINE u == t - 6
<1>3. Weekday(u) = 3 /\ u \in date - 13 .. date /\ t \in date - 13 .. date /\ t \in Int /\ u \in Int
  BY <1>2, SMT DEF Weekday
<1>4. t \in KnownDays /\ u \in KnownDays
  BY <1>1, <1>3, SMT DEF KnownDays
<1>5. u = t - 6
  OBVIOUS
<1> HIDE DEF u
<1>6. PICK y, m, d : IsFace(t, y, m, d)
  BY <1>4, FaceExists
<1>7. PICK x, n, e : IsFace(u, x, n, e)
  BY <1>4, FaceExists
<1>8. /\ t - NewYear(y) \in {0, 169 + LeapDay(y), 184 + LeapDay(y), 358 + LeapDay(y)}
      /\ u - NewYear(x) \in {0, 169 + LeapDay(x), 184 + LeapDay(x), 358 + LeapDay(x)}
  <2>1. ~OpenByRule(t) /\ ~OpenByRule(u)
    BY <1>3
  <2>2. Weekday(t) \in {2, 3} /\ Weekday(u) \in {2, 3}
    BY <1>2, <1>3
  <2> QED BY <1>6, <1>7, <2>1, <2>2, ClosedMidweek
<1>9. y \in Int /\ x \in Int /\ y \in Years
  BY <1>6, <1>7, FaceType DEF IsFace
<1>10. /\ LeapDay(y) \in {0, 1} /\ LeapDay(x) \in {0, 1} /\ LeapDay(y - 1) \in {0, 1}
       /\ NewYear(y) \in Int /\ NewYear(x) \in Int /\ NewYear(y - 1) \in Int
       /\ NewYear(y) = NewYear(y - 1) + 365 + LeapDay(y - 1)
  <2>1. y - 1 \in Int /\ (y - 1) + 1 = y
    BY <1>9
  <2> QED BY <1>9, <2>1, LeapDayType, YearsFollow
<1>11. t \in DaysOf(y) /\ u \in DaysOf(x) /\ YearOf(u) = x
  BY <1>6, <1>7, FaceIsInYear, FaceIsRead
<1>12. CASE t = NewYear(y)
  <2> DEFINE z == y - 1
  <2>1. z \in Years
    <3>1. y # 1970
      <4>1. t >= NewYear(1970) + 6
        BY <1>1, <1>3, <1>5, SMT
      <4> QED BY <1>1, <1>3, <1>12, <4>1, SMT
    <3> QED BY <1>9, <3>1, SMT DEF Years
  <2>2. u \in DaysOf(z)
    <3>1. NewYear(z + 1) = NewYear(y)
      <4>1. z + 1 = y
        BY <1>9
      <4> QED BY <4>1
    <3> QED BY <1>3, <1>5, <1>10, <1>12, <3>1, SMT DEF DaysOf
  <2>3. x = z
    BY <1>11, <2>1, <2>2, YearIs
  <2> QED BY <1>3, <1>5, <1>8, <1>10, <1>12, <2>3, SMT
<1>13. CASE t # NewYear(y)
  <2>1. u \in DaysOf(y)
    <3>1. NewYear(y + 1) \in Int
      <4>1. y + 1 \in Int
        BY <1>9
      <4> QED BY <4>1, YearsFollow
    <3> QED BY <1>3, <1>5, <1>8, <1>10, <1>11, <1>13, <3>1, SMT DEF DaysOf
  <2>2. x = y
    BY <1>9, <1>11, <2>1, YearIs
  <2> QED BY <1>3, <1>5, <1>8, <1>10, <2>2, SMT
<1> QED BY <1>12, <1>13

(* The last trading day up to a date.                                      *)
IsLast(e, date) ==
  /\ e \in Int /\ e <= date /\ IsTradingDay(e)
  /\ \A d \in e + 1 .. date : ~IsTradingDay(d)

(* Where there is a trading day there is a last one.                       *)
LEMMA LastExists ==
  ASSUME NEW date \in Int, NEW open \in Int, open <= date, IsTradingDay(open)
  PROVE  \E e \in open .. date : IsLast(e, date)
<1> DEFINE T == {k \in Nat : IsTradingDay(date - k)}
           k == Min(T)
<1>1. date - open \in T
  <2>1. date - open \in Nat /\ date - (date - open) = open
    BY SMT
  <2> QED BY <2>1
<1>2. k \in T /\ \A j \in T : k <= j
  <2>1. T \in SUBSET Nat /\ T # {}
    BY <1>1
  <2> HIDE DEF T
  <2> QED BY <2>1, LeastIsLeast
<1>3. k \in Nat /\ IsTradingDay(date - k)
  BY <1>2
<1>4. k <= date - open
  BY <1>1, <1>2
<1>5. \A j \in Nat : IsTradingDay(date - j) => k <= j
  BY <1>2
<1> HIDE DEF k
<1> DEFINE e == date - k
<1>6. e \in open .. date /\ e \in Int /\ e <= date /\ IsTradingDay(e)
  BY <1>3, <1>4, SMT
<1>7. \A d \in e + 1 .. date : ~IsTradingDay(d)
  <2> SUFFICES ASSUME NEW d \in e + 1 .. date, IsTradingDay(d) PROVE FALSE
    OBVIOUS
  <2> DEFINE j == date - d
  <2>1. j \in Nat /\ date - j = d /\ j < k
    BY <1>3, SMT
  <2>2. k <= j
    BY <1>5, <2>1
  <2> HIDE DEF j
  <2> QED BY <1>3, <2>1, <2>2, SMT
<1> QED BY <1>6, <1>7 DEF IsLast

(* The walk back ends there. Its function exists: it is the choice of the  *)
(* last trading day, where there is one.                                   *)
LEMMA WalkEnds ==
  ASSUME NEW date \in Int, NEW e, IsLast(e, date)
  PROVE  LatestTradingDay(date) = e
<1> DEFINE Walk(f) == [d \in Int |-> IF IsTradingDay(d) THEN d ELSE f[d - 1]]
           back == CHOOSE f : f = Walk(f)
           Lasts(d) == {x \in Int : IsLast(x, d)}
           g == [d \in Int |-> CHOOSE x : x \in Lasts(d)]
<1>1. \A d \in Int : IsTradingDay(d) => Lasts(d) = {d}
  <2> SUFFICES ASSUME NEW d \in Int, IsTradingDay(d) PROVE Lasts(d) = {d}
    OBVIOUS
  <2>1. IsLast(d, d)
    BY SMT DEF IsLast
  <2>2. \A x \in Int : IsLast(x, d) => x = d
    <3> SUFFICES ASSUME NEW x \in Int, IsLast(x, d), x # d PROVE FALSE
      OBVIOUS
    <3>1. d \in x + 1 .. d
      BY SMT DEF IsLast
    <3> QED BY <3>1 DEF IsLast
  <2> QED BY <2>1, <2>2
<1>2. \A d \in Int : ~IsTradingDay(d) => Lasts(d) = Lasts(d - 1)
  <2> SUFFICES ASSUME NEW d \in Int, ~IsTradingDay(d) PROVE Lasts(d) = Lasts(d - 1)
    OBVIOUS
  <2>1. \A x \in Int : IsLast(x, d) <=> IsLast(x, d - 1)
    <3> SUFFICES ASSUME NEW x \in Int PROVE IsLast(x, d) <=> IsLast(x, d - 1)
      OBVIOUS
    <3>1. IsTradingDay(x) => x # d
      OBVIOUS
    <3>2. IsTradingDay(x) => (x <= d <=> x <= d - 1)
      BY <3>1, SMT
    <3>3. \A y \in x + 1 .. d : y # d => y \in x + 1 .. d - 1
      BY SMT
    <3>4. \A y \in x + 1 .. d - 1 : y \in x + 1 .. d
      BY SMT
    <3> QED BY <3>2, <3>3, <3>4 DEF IsLast
  <2> QED BY <2>1
<1> HIDE DEF Lasts
<1>3. g = Walk(g)
  <2>1. \A d \in Int : g[d] = IF IsTradingDay(d) THEN d ELSE g[d - 1]
    <3> SUFFICES ASSUME NEW d \in Int PROVE g[d] = IF IsTradingDay(d) THEN d ELSE g[d - 1]
      OBVIOUS
    <3>1. d - 1 \in Int
      OBVIOUS
    <3>2. g[d] = (CHOOSE x : x \in Lasts(d)) /\ g[d - 1] = (CHOOSE x : x \in Lasts(d - 1))
      BY <3>1
    <3>3. CASE IsTradingDay(d)
      <4>1. Lasts(d) = {d}
        BY <1>1, <3>3
      <4>2. g[d] \in {d}
        BY <3>2, <4>1
      <4> QED BY <3>3, <4>2
    <3>4. CASE ~IsTradingDay(d)
      <4>1. Lasts(d) = Lasts(d - 1)
        BY <1>2, <3>4
      <4> HIDE DEF g
      <4> QED BY <3>2, <3>4, <4>1
    <3> QED BY <3>3, <3>4
  <2> QED BY <2>1
<1>4. back = Walk(back)
  <2> HIDE DEF g, Walk
  <2> QED BY <1>3
<1>5. LatestTradingDay(date) = back[date]
  BY DEF LatestTradingDay
<1> HIDE DEF back, g
<1>6. \A d \in Int : back[d] = IF IsTradingDay(d) THEN d ELSE back[d - 1]
  BY <1>4
<1> DEFINE n == date - e
           T == {i \in 0 .. n : back[e + i] = e}
<1>7. n \in Nat /\ e \in Int /\ e + n = date /\ IsTradingDay(e)
  BY SMT DEF IsLast
<1>8. 0 \in T
  <2>1. e + 0 = e /\ 0 \in 0 .. n
    BY <1>7, SMT
  <2>2. back[e] = e
    BY <1>6, <1>7
  <2> HIDE DEF n
  <2> QED BY <2>1, <2>2
<1>9. \A i \in 1 .. n : i - 1 \in T => i \in T
  <2> SUFFICES ASSUME NEW i \in 1 .. n, i - 1 \in T PROVE i \in T
    OBVIOUS
  <2>1. /\ e + i \in e + 1 .. date /\ e + i \in Int /\ (e + i) - 1 = e + (i - 1)
        /\ i \in 0 .. n
    BY <1>7, SMT
  <2>2. ~IsTradingDay(e + i)
    BY <2>1 DEF IsLast
  <2>3. back[e + i] = back[(e + i) - 1]
    BY <1>6, <2>1, <2>2
  <2>4. back[e + (i - 1)] = e
    OBVIOUS
  <2> HIDE DEF n
  <2> QED BY <2>1, <2>3, <2>4
<1>10. n \in T
  <2>1. 0 .. n \subseteq T
    <3> HIDE DEF T, n
    <3> QED BY <1>7, <1>8, <1>9, Induction
  <2>2. n \in 0 .. n
    BY <1>7, SMT
  <2> QED BY <2>1, <2>2
<1> QED BY <1>5, <1>7, <1>10

(* What the walk back from a date finds.                                   *)
WalkFinds(date, e) ==
  /\ e \in date - 13 .. date /\ OpenByRule(e)
  /\ \A d \in e + 1 .. date : ~OpenByRule(d)

(* It finds the last open day, within two weeks.                           *)
LEMMA WalkFindsLastOpen ==
  ASSUME NEW date \in Int, date - 13 >= NewYear(1970), date < NewYear(2200)
  PROVE  WalkFinds(date, LatestTradingDay(date))
<1>1. NewYear(1970) \in Int /\ NewYear(2200) \in Int
  BY YearsFollow, SMT
<1>2. \A d \in date - 13 .. date : d \in Int /\ (IsTradingDay(d) <=> OpenByRule(d))
  <2> SUFFICES ASSUME NEW d \in date - 13 .. date
               PROVE  d \in Int /\ (IsTradingDay(d) <=> OpenByRule(d))
    OBVIOUS
  <2>1. d \in KnownDays
    BY <1>1, SMT DEF KnownDays
  <2> QED BY <2>1, CalendarIsRuleOfDays
<1>3. PICK open \in date - 13 .. date : OpenByRule(open)
  BY OpenDayExists
<1>4. open \in Int /\ open <= date /\ IsTradingDay(open)
  BY <1>2, <1>3, SMT
<1>5. PICK e \in open .. date : IsLast(e, date)
  BY <1>4, LastExists
<1>6. LatestTradingDay(date) = e
  BY <1>5, WalkEnds
<1>7. e \in date - 13 .. date
  BY <1>3, <1>4, <1>5, SMT
<1>8. OpenByRule(e)
  BY <1>2, <1>5, <1>7 DEF IsLast
<1>9. \A d \in e + 1 .. date : ~OpenByRule(d)
  <2> SUFFICES ASSUME NEW d \in e + 1 .. date PROVE ~OpenByRule(d)
    OBVIOUS
  <2>1. d \in date - 13 .. date
    BY <1>7, SMT
  <2>2. ~IsTradingDay(d)
    BY <1>5 DEF IsLast
  <2> QED BY <1>2, <2>1, <2>2
<1> QED BY <1>6, <1>7, <1>8, <1>9 DEF WalkFinds

(* The dates of the mock series, by the number of them.                    *)
NextDates(before, i, anchor) ==
  IF i = 0 THEN <<>>
  ELSE IF i = 1 THEN <<LatestTradingDay(anchor)>>
  ELSE <<LatestTradingDay(Head(before) - 1)>> \o before

IsDates(f, n, anchor) ==
  \A i \in 0 .. n : f[i] = NextDates(f[i - 1], i, anchor)

(* Their function exists, as far as wanted.                                *)
LEMMA DatesExist ==
  ASSUME NEW n \in Nat, NEW anchor
  PROVE  \E f : IsDates(f, n, anchor)
<1> DEFINE T == {m \in 0 .. n : \E f : IsDates(f, m, anchor)}
<1>1. 0 \in T
  <2> DEFINE none == <<>>
             f == [i \in 0 .. 0 |-> none]
  <2>1. \A i \in 0 .. 0 : i = 0 /\ f[i] = none
    OBVIOUS
  <2> HIDE DEF f
  <2>2. \A i \in 0 .. 0 : f[i] = NextDates(f[i - 1], i, anchor)
    BY <2>1 DEF NextDates
  <2>3. IsDates(f, 0, anchor)
    BY <2>2 DEF IsDates
  <2> QED BY <2>3
<1>2. \A m \in 1 .. n : m - 1 \in T => m \in T
  <2> SUFFICES ASSUME NEW m \in 1 .. n, m - 1 \in T PROVE m \in T
    OBVIOUS
  <2>1. PICK f : IsDates(f, m - 1, anchor)
    OBVIOUS
  <2> DEFINE last == NextDates(f[m - 1], m, anchor)
             g == [i \in -1 .. m |-> IF i = m THEN last ELSE f[i]]
  <2>2. \A i \in 0 .. m : g[i] = NextDates(g[i - 1], i, anchor)
    <3> SUFFICES ASSUME NEW i \in 0 .. m PROVE g[i] = NextDates(g[i - 1], i, anchor)
      OBVIOUS
    <3>1. i - 1 \in -1 .. m /\ i - 1 # m /\ i \in -1 .. m
      BY SMT
    <3> HIDE DEF last
    <3>2. g[i - 1] = f[i - 1] /\ g[i] = IF i = m THEN last ELSE f[i]
      BY <3>1
    <3> HIDE DEF g
    <3>3. CASE i = m
      BY <3>2, <3>3 DEF last
    <3>4. CASE i # m
      <4>1. i \in 0 .. m - 1
        BY <3>4, SMT
      <4>2. f[i] = NextDates(f[i - 1], i, anchor)
        BY <2>1, <4>1 DEF IsDates
      <4> QED BY <3>2, <3>4, <4>2
    <3> QED BY <3>3, <3>4
  <2> HIDE DEF g
  <2>3. IsDates(g, m, anchor) /\ m \in 0 .. n
    BY <2>2, SMT DEF IsDates
  <2> QED BY <2>3
<1>3. n \in T
  <2>1. 0 .. n \subseteq T
    <3> HIDE DEF T
    <3> QED BY <1>1, <1>2, Induction
  <2> QED BY <2>1
<1> QED BY <1>3

(* There is only one.                                                      *)
LEMMA DatesAreOne ==
  ASSUME NEW n \in Nat, NEW anchor, NEW f, NEW g,
         IsDates(f, n, anchor), IsDates(g, n, anchor)
  PROVE  f[n] = g[n]
<1> DEFINE T == {i \in 0 .. n : f[i] = g[i]}
<1>1. 0 \in T
  <2>1. 0 \in 0 .. n
    OBVIOUS
  <2>2. f[0] = NextDates(f[0 - 1], 0, anchor) /\ g[0] = NextDates(g[0 - 1], 0, anchor)
    BY <2>1 DEF IsDates
  <2>3. f[0] = g[0]
    BY <2>2 DEF NextDates
  <2> QED BY <2>1, <2>3
<1>2. \A i \in 1 .. n : i - 1 \in T => i \in T
  <2> SUFFICES ASSUME NEW i \in 1 .. n, i - 1 \in T PROVE i \in T
    OBVIOUS
  <2>1. i \in 0 .. n /\ f[i - 1] = g[i - 1]
    OBVIOUS
  <2>2. f[i] = NextDates(f[i - 1], i, anchor) /\ g[i] = NextDates(g[i - 1], i, anchor)
    BY <2>1 DEF IsDates
  <2> QED BY <2>1, <2>2
<1>3. 0 .. n \subseteq T
  <2> HIDE DEF T
  <2> QED BY <1>1, <1>2, Induction
<1> QED BY <1>3

(* So the recursive function of the model follows the recursion.           *)
LEMMA DatesInTurn ==
  ASSUME NEW anchor, NEW n \in Nat, NEW before, before = n - 1
  PROVE  TradingDatesEndingAt(anchor, n)
           = NextDates(TradingDatesEndingAt(anchor, before), n, anchor)
<1> DEFINE Turn(f) ==
             [i \in Nat |-> IF i = 0 THEN <<>>
                            ELSE IF i = 1 THEN <<LatestTradingDay(anchor)>>
                            ELSE <<LatestTradingDay(Head(f[i - 1]) - 1)>> \o f[i - 1]]
           dates == CHOOSE f : f = Turn(f)
           Run(m) == CHOOSE f : IsDates(f, m, anchor)
           g == [i \in Nat |-> Run(i)[i]]
<1>1. \A m \in Nat : IsDates(Run(m), m, anchor)
  BY DatesExist
<1> HIDE DEF Run
<1>2. \A i \in Nat : g[i] = NextDates(g[i - 1], i, anchor)
  <2> SUFFICES ASSUME NEW i \in Nat PROVE g[i] = NextDates(g[i - 1], i, anchor)
    OBVIOUS
  <2> DEFINE r == Run(i)
  <2>1. g[i] = r[i] /\ i \in 0 .. i /\ IsDates(r, i, anchor)
    BY <1>1
  <2> HIDE DEF r
  <2>2. r[i] = NextDates(r[i - 1], i, anchor)
    BY <2>1 DEF IsDates
  <2>3. CASE i = 0
    BY <2>1, <2>2, <2>3 DEF NextDates
  <2>4. CASE i # 0
    <3> DEFINE k == i - 1
               q == Run(k)
    <3>1. k \in Nat /\ \A j \in 0 .. k : j \in 0 .. i
      BY <2>4, SMT
    <3> HIDE DEF k
    <3>2. g[k] = q[k] /\ IsDates(q, k, anchor)
      BY <1>1, <3>1
    <3>3. IsDates(r, k, anchor)
      BY <2>1, <3>1 DEF IsDates
    <3> HIDE DEF q, g
    <3>4. r[k] = q[k]
      BY <3>1, <3>2, <3>3, DatesAreOne
    <3> QED BY <2>1, <2>2, <3>2, <3>4 DEF k
  <2> QED BY <2>3, <2>4
<1>3. g = Turn(g)
  <2>1. \A i \in Nat : g[i] = IF i = 0 THEN <<>>
                              ELSE IF i = 1 THEN <<LatestTradingDay(anchor)>>
                              ELSE <<LatestTradingDay(Head(g[i - 1]) - 1)>> \o g[i - 1]
    <3> HIDE DEF g
    <3> QED BY <1>2 DEF NextDates
  <2> DEFINE step == [i \in Nat |-> IF i = 0 THEN <<>>
                              ELSE IF i = 1 THEN <<LatestTradingDay(anchor)>>
                              ELSE <<LatestTradingDay(Head(g[i - 1]) - 1)>> \o g[i - 1]]
  <2>2. \A i \in Nat : g[i] = step[i]
    <3> HIDE DEF g
    <3> QED BY <2>1
  <2>3. g = step
    <3> HIDE DEF step
    <3>1. step = [i \in Nat |-> step[i]]
      BY DEF step
    <3>2. g = [i \in Nat |-> g[i]]
      OBVIOUS
    <3> HIDE DEF g
    <3> QED BY <2>2, <3>1, <3>2
  <2> HIDE DEF g
  <2> QED BY <2>3
<1>4. dates = Turn(dates)
  <2> HIDE DEF g, Turn
  <2> QED BY <1>3
<1>5. \A i : TradingDatesEndingAt(anchor, i) = dates[i]
  BY DEF TradingDatesEndingAt
<1> HIDE DEF dates, g
<1>6. \A i \in Nat : dates[i] = NextDates(dates[i - 1], i, anchor)
  <2> DEFINE other == Turn(dates)
  <2>1. \A i \in Nat : other[i] = NextDates(dates[i - 1], i, anchor)
    BY DEF NextDates
  <2>2. dates = other
    BY <1>4
  <2> HIDE DEF other
  <2> QED BY <2>1, <2>2
<1>7. dates[n] = NextDates(dates[before], n, anchor)
  BY <1>6
<1> QED BY <1>5, <1>7

JudgedYears == 1971 .. 2198

(* Date.UTC and back: the days that exist, and no others.                  *)
IsDayOf(year, month, day) == month \in 1 .. 12 /\ day \in 1 .. DaysIn(year, month)

(* Date.UTC accepts exactly the days that exist.                           *)
LEMMA RoundTrip ==
  ASSUME NEW year \in JudgedYears, NEW month \in 0 .. 13, NEW day \in 0 .. 32
  PROVE  IsRealDate(year, month, day) <=> IsDayOf(year, month, day)
<1> DEFINE date == UTC(year, month, day)
<1>0. year \in 1971 .. 2198
  BY DEF JudgedYears
<1>1. year \in Years /\ year \in Int /\ day \in Int
  BY <1>0, SMT DEF Years
<1>2. IsRealDate(year, month, day)
        <=> YearOf(date) = year /\ MonthOf(date) = month /\ DayOf(date) = day
  BY DEF IsRealDate
<1>3. CASE month \in 1 .. 12 /\ day \in 1 .. DaysIn(year, month)
  <2>1. IsFace(date, year, month, day)
    BY <1>1, <1>3 DEF IsFace
  <2> HIDE DEF date
  <2>2. YearOf(date) = year /\ MonthOf(date) = month /\ DayOf(date) = day
    BY <2>1, FaceIsRead
  <2> QED BY <1>2, <1>3, <2>2 DEF IsDayOf
<1>4. CASE IsRealDate(year, month, day)
  <2>1. date \in KnownDays
    <3>1. date = NewYear(year) + Before(LeapDay(year), month) + day - 1
      <4>1. UTC(year, month, day) = NewYear(year) + Before(LeapDay(year), month) + day - 1
        BY <1>1, UtcCounts
      <4> QED BY <4>1
    <3>2. LeapDay(year) \in {0, 1}
      BY <1>1, LeapDayType
    <3>3. Before(LeapDay(year), month) \in -31 .. 366
      <4> DEFINE leap == LeapDay(year)
      <4>1. leap \in {0, 1}
        BY <3>2
      <4> HIDE DEF leap
      <4>2. Before(leap, month) \in -31 .. 366
        BY <4>1, SMT DEF Before
      <4> QED BY <4>2 DEF leap
    <3> HIDE DEF date
    <3>4. LeapDays(year) \in 0 .. 100 /\ NewYear(year) = 365 * (year - 1970) + LeapDays(year)
      BY <1>0, LeapDaysAreFew, SMT
    <3>5. /\ NewYear(1970) \in Int /\ NewYear(1970) <= NewYear(year) - 33 /\ NewYear(year) \in Int
          /\ NewYear(2200) \in Int /\ NewYear(year) + 366 + 32 < NewYear(2200)
      <4>1. /\ NewYear(1970) \in 0 .. 100 /\ NewYear(2200) \in Int
            /\ NewYear(2200) - 365 * 230 \in 0 .. 100
        BY FirstAndLastYear
      <4> QED BY <1>0, <3>4, <4>1, SMT
    <3> QED BY <3>1, <3>2, <3>3, <3>4, <3>5, SMT DEF KnownDays
  <2> HIDE DEF date
  <2>2. PICK y, m, d : IsFace(date, y, m, d)
    BY <2>1, FaceExists
  <2>3. y = year /\ m = month /\ d = day
    BY <1>2, <1>4, <2>2, FaceIsRead
  <2>4. m \in 1 .. 12 /\ d \in 1 .. DaysIn(y, m)
    BY <2>2 DEF IsFace
  <2>5. month \in 1 .. 12 /\ day \in 1 .. DaysIn(year, month)
    BY <2>3, <2>4
  <2> QED BY <1>4, <2>5 DEF IsDayOf
<1> QED BY <1>3, <1>4 DEF IsDayOf

(* The days that the theorem is about, and those around them.              *)
JudgedDays == NewYear(1971) .. NewYear(2199) - 1

(* The days around one are known.                                          *)
LEMMA DaysAround ==
  ASSUME NEW today \in JudgedDays
  PROVE  /\ today \in Int
         /\ \A d \in today - 45 .. today :
              d \in KnownDays /\ d - 13 >= NewYear(1970) /\ d < NewYear(2200)
<1>1. /\ NewYear(1970) \in 0 .. 100 /\ NewYear(2200) \in Int
      /\ NewYear(2200) - 365 * 230 \in 0 .. 100
  BY FirstAndLastYear
<1>2. LeapDays(1971) \in 0 .. 100 /\ NewYear(1971) = 365 * (1971 - 1970) + LeapDays(1971)
  BY LeapDaysAreFew, SMT
<1>3. LeapDays(2199) \in 0 .. 100 /\ NewYear(2199) = 365 * (2199 - 1970) + LeapDays(2199)
  BY LeapDaysAreFew, SMT
<1>4. today \in Int /\ today >= 365 /\ today <= 365 * 229 + 100
  BY <1>2, <1>3, SMT DEF JudgedDays
<1> QED BY <1>1, <1>4, SMT DEF KnownDays

(* A day is late only when an open day has passed since.                   *)
LEMMA StaleIsLate ==
  ASSUME NEW today \in JudgedDays
  PROVE  LET e == ExpectedLatestCompletedTradingDay(today)
         IN  /\ e < today /\ OpenByRule(e)
             /\ \A d \in e + 1 .. today - 1 : ~OpenByRule(d)
             /\ \A d \in today - 6 .. today :
                  IsStale(d, today) <=> \E open \in d + 1 .. today - 1 : OpenByRule(open)
<1> DEFINE e == ExpectedLatestCompletedTradingDay(today)
           y == today - 1
<1>1. today \in Int /\ y \in Int /\ y - 13 >= NewYear(1970) /\ y < NewYear(2200)
  <2>1. y \in today - 45 .. today /\ today \in Int
    BY DaysAround, SMT
  <2> HIDE DEF y
  <2> QED BY <2>1, DaysAround
<1>2. WalkFinds(y, e)
  <2> HIDE DEF y
  <2>1. WalkFinds(y, LatestTradingDay(y))
    BY <1>1, WalkFindsLastOpen
  <2> QED BY <2>1 DEF ExpectedLatestCompletedTradingDay, y
<1>3. /\ e \in y - 13 .. y /\ OpenByRule(e)
      /\ \A d \in e + 1 .. y : ~OpenByRule(d)
  <2> HIDE DEF y, e
  <2> QED BY <1>2 DEF WalkFinds
<1>4. \A d \in Int : IsStale(d, today) <=> d < e
  BY DEF IsStale
<1> HIDE DEF e
<1>5. e \in Int /\ e < today /\ e \in Int
  BY <1>1, <1>3, SMT
<1>6. ASSUME NEW d \in today - 6 .. today
      PROVE  IsStale(d, today) <=> \E open \in d + 1 .. today - 1 : OpenByRule(open)
  <2>1. d \in Int
    BY <1>1, SMT
  <2>2. CASE d < e
    <3>1. e \in d + 1 .. today - 1
      BY <1>1, <1>3, <1>5, <2>1, <2>2, SMT
    <3> QED BY <1>3, <1>4, <2>1, <2>2, <3>1
  <2>3. CASE ~(d < e)
    <3>1. \A open \in d + 1 .. today - 1 : open \in e + 1 .. y
      BY <1>1, <1>5, <2>1, <2>3, SMT
    <3> QED BY <1>3, <1>4, <2>1, <2>3, <3>1
  <2> QED BY <2>2, <2>3
<1> QED BY <1>3, <1>5, <1>6 DEF e

(* The last three dates of the mock series are the last three open days.   *)
LEMMA MockIsConsecutive ==
  ASSUME NEW today \in JudgedDays
  PROVE  LET mock == TradingDatesEndingAt(today, 3)
         IN  /\ Len(mock) = 3 /\ mock[1] < mock[2] /\ mock[2] < mock[3] /\ mock[3] <= today
             /\ {d \in mock[1] .. today : OpenByRule(d)} = {mock[i] : i \in 1 .. 3}
<1> DEFINE c == LatestTradingDay(today)
           b == LatestTradingDay(c - 1)
           a == LatestTradingDay(b - 1)
           mock == TradingDatesEndingAt(today, 3)
<1>1. ASSUME NEW d \in today - 45 .. today
      PROVE  /\ d \in Int /\ LatestTradingDay(d) \in d - 13 .. d /\ OpenByRule(LatestTradingDay(d))
             /\ \A x \in LatestTradingDay(d) + 1 .. d : ~OpenByRule(x)
  <2>1. d \in Int /\ d - 13 >= NewYear(1970) /\ d < NewYear(2200)
    BY DaysAround, SMT
  <2>2. WalkFinds(d, LatestTradingDay(d))
    BY <2>1, WalkFindsLastOpen
  <2> QED BY <2>1, <2>2 DEF WalkFinds
<1>2. today \in Int /\ today \in today - 45 .. today
  BY DaysAround, SMT
<1>3. /\ c \in today - 13 .. today /\ OpenByRule(c)
      /\ \A x \in c + 1 .. today : ~OpenByRule(x)
  BY <1>1, <1>2
<1>4. c - 1 \in today - 45 .. today /\ c \in Int
  <2> HIDE DEF c
  <2> QED BY <1>2, <1>3, SMT
<1>5. /\ b \in (c - 1) - 13 .. c - 1 /\ OpenByRule(b)
      /\ \A x \in b + 1 .. c - 1 : ~OpenByRule(x)
  <2> HIDE DEF c
  <2> QED BY <1>1, <1>4
<1> HIDE DEF c
<1>6. b - 1 \in today - 45 .. today /\ b \in Int
  <2> HIDE DEF b
  <2> QED BY <1>2, <1>3, <1>4, <1>5, SMT
<1>7. /\ a \in (b - 1) - 13 .. b - 1 /\ OpenByRule(a)
      /\ \A x \in a + 1 .. b - 1 : ~OpenByRule(x)
  <2> HIDE DEF b
  <2> QED BY <1>1, <1>6
<1> HIDE DEF b
<1>8. a \in Int
  <2> HIDE DEF a
  <2> QED BY <1>6, <1>7, SMT
<1>9. mock = <<a, b, c>>
  <2> DEFINE dates(n) == TradingDatesEndingAt(today, n)
  <2>1. /\ 1 \in Nat /\ 0 = 1 - 1 /\ 2 \in Nat /\ 1 = 2 - 1 /\ 3 \in Nat /\ 2 = 3 - 1
        /\ 1 # 0 /\ 2 # 0 /\ 2 # 1 /\ 3 # 0 /\ 3 # 1
    OBVIOUS
  <2>2. /\ dates(1) = NextDates(dates(0), 1, today)
        /\ dates(2) = NextDates(dates(1), 2, today)
        /\ dates(3) = NextDates(dates(2), 3, today)
    BY <2>1, DatesInTurn
  <2> HIDE DEF dates
  <2>3. /\ dates(1) = <<c>>
        /\ dates(2) = <<LatestTradingDay(Head(dates(1)) - 1)>> \o dates(1)
        /\ dates(3) = <<LatestTradingDay(Head(dates(2)) - 1)>> \o dates(2)
    BY <2>1, <2>2 DEF NextDates, c
  <2>4. dates(2) = <<b, c>>
    <3>1. Head(<<c>>) = c
      OBVIOUS
    <3>2. dates(2) = <<b>> \o <<c>>
      BY <2>3, <3>1 DEF b
    <3> QED BY <1>4, <1>6, <3>2
  <2>5. dates(3) = <<a>> \o <<b, c>>
    <3>1. Head(<<b, c>>) = b
      OBVIOUS
    <3> QED BY <2>3, <2>4, <3>1 DEF a
  <2>6. mock = dates(3)
    BY DEF dates
  <2> HIDE DEF a, mock
  <2> QED BY <1>4, <1>6, <1>8, <2>5, <2>6
<1> HIDE DEF a, mock
<1>10. /\ a < b /\ b < c /\ c <= today
  BY <1>2, <1>3, <1>4, <1>5, <1>6, <1>7, <1>8, SMT
<1>11. {d \in a .. today : OpenByRule(d)} = {a, b, c}
  <2>1. ASSUME NEW d \in a .. today, OpenByRule(d) PROVE d \in {a, b, c}
    <3>1. d \notin a + 1 .. b - 1 /\ d \notin b + 1 .. c - 1 /\ d \notin c + 1 .. today
      BY <1>3, <1>5, <1>7, <2>1
    <3> QED BY <1>2, <1>4, <1>6, <1>8, <3>1, SMT
  <2>2. a \in a .. today /\ b \in a .. today /\ c \in a .. today
    BY <1>2, <1>4, <1>6, <1>8, <1>10, SMT
  <2> QED BY <1>3, <1>5, <1>7, <2>1, <2>2
<1>12. Len(mock) = 3 /\ mock[1] = a /\ mock[2] = b /\ mock[3] = c
  BY <1>9
<1>13. {mock[i] : i \in 1 .. 3} = {a, b, c}
  <2>1. \A i \in 1 .. 3 : i = 1 \/ i = 2 \/ i = 3
    BY SMT
  <2>2. 1 \in 1 .. 3 /\ 2 \in 1 .. 3 /\ 3 \in 1 .. 3
    BY SMT
  <2> QED BY <1>12, <2>1, <2>2
<1> QED BY <1>10, <1>11, <1>12, <1>13 DEF mock

(* From 1971 to 2198 the calendar is the rule of the exchange, data is     *)
(* stale only when an open day has passed, the mock series has consecutive *)
(* open days, and Date.UTC accepts the days that exist                     *)
(* (marketCalendar.ts:22-120, dates.ts:17-24, dataFreshnessService.ts).    *)
THEOREM EveryDayIsJudged ==
  ASSUME NEW today \in JudgedDays
  PROVE  CalendarHolds(today)
<1>1. today \in KnownDays
  <2>1. today \in today - 45 .. today
    BY DaysAround, SMT
  <2> QED BY <2>1, DaysAround
<1>2. PICK year, month, day : IsFace(today, year, month, day)
  BY <1>1, FaceExists
<1>3. YearOf(today) = year
  BY <1>2, FaceIsRead
<1>4. year \in JudgedYears
  <2>1. today \in DaysOf(year)
    BY <1>2, FaceIsInYear
  <2>2. year \in 1970 .. 2199
    BY <1>2 DEF IsFace, Years
  <2>3. year # 1970
    <3>1. NewYear(1970 + 1) = NewYear(1971)
      BY SMT
    <3>2. NewYear(1971) \in Int
      BY YearsFollow, SMT
    <3> QED BY <2>1, <3>1, <3>2, DaysAround, SMT DEF DaysOf, JudgedDays
  <2>4. year # 2199
    <3>1. NewYear(2199) \in Int
      BY YearsFollow, SMT
    <3> QED BY <2>1, <3>1, DaysAround, SMT DEF DaysOf, JudgedDays
  <2> QED BY <2>2, <2>3, <2>4, SMT DEF JudgedYears
<1>5. IsTradingDay(today) <=> OpenByRule(today)
  BY <1>1, CalendarIsRuleOfDays
<1>6. \A m \in 0 .. 13, d \in 0 .. 32 :
         IsRealDate(YearOf(today), m, d) <=> m \in 1 .. 12 /\ d \in 1 .. DaysIn(YearOf(today), m)
  BY <1>3, <1>4, RoundTrip DEF IsDayOf
<1> QED BY <1>5, <1>6, StaleIsLate, MockIsConsecutive DEF CalendarHolds

-----------------------------------------------------------------------------
(* The inputs that the model checker is given are inputs as the theorems   *)
(* above have them, so what they say of every input holds of those.        *)

(* The characters of the texts, and what stands in the cells of the files. *)
Characters == {"x", Quote, Comma, CR, LF}

Words ==
    {Empty, "A", "B", "=", "d1", "d2", "x", "0", "1", "2", "3", "-1", "US",
     "note"} \cup Range(Columns)

TextsAreTyped == Is("text") => input.value \in Seq(FieldLists(Characters))

FilesAreTyped == Is("rows") => /\ input.value \in Seq(Record(Words)) /\ input.value # <<>>
                               /\ \A i \in 1 .. Len(input.value) : input.value[i].line = i

(* The fields of the written texts are made of the characters.             *)
LEMMA FieldsAreTexts ==
  /\ {Quote, Comma, CR, LF} \subseteq Characters /\ BOM \notin Characters
  /\ Fields \subseteq Seq(Characters)
  /\ \A f, g \in Seq(Characters) : <<f>> \in FieldLists(Characters)
         /\ <<f, g>> \in FieldLists(Characters)
<1>1. {Quote, Comma, CR, LF} \subseteq Characters /\ "x" \in Characters
  BY DEF Characters
<1>2. BOM \notin Characters
  BY DEF Characters, BOM, Quote, Comma, CR, LF
<1> HIDE DEF Characters
<1>3. Fields \subseteq Seq(Characters)
  <2>1. \A a, b, c \in Characters : /\ <<>> \in Seq(Characters) /\ <<a>> \in Seq(Characters)
                                    /\ <<a, b, c>> \in Seq(Characters)
    OBVIOUS
  <2>2. Quote \in Characters /\ Comma \in Characters /\ CR \in Characters /\ LF \in Characters
    BY <1>1
  <2> QED BY <1>1, <2>1, <2>2 DEF Fields
<1>4. ASSUME NEW f \in Seq(Characters), NEW g \in Seq(Characters)
      PROVE  <<f>> \in FieldLists(Characters) /\ <<f, g>> \in FieldLists(Characters)
  <2> DEFINE S == Seq(Characters)
  <2>1. f \in S /\ g \in S
    OBVIOUS
  <2> HIDE DEF S
  <2>2. <<f>> \in Seq(S) \ {<<>>} /\ <<f, g>> \in Seq(S) \ {<<>>}
    BY <2>1
  <2> QED BY <2>2 DEF S, FieldLists
<1> QED BY <1>1, <1>2, <1>3, <1>4

(* The columns of the written files are words.                             *)
LEMMA ColumnsAre ==
  /\ Columns \in Seq(Words) /\ Len(Columns) = 9
  /\ Empty \in Words /\ "ticker" \in Words /\ "note" \in Words
<1>1. Len(Columns) = 9 /\ DOMAIN Columns = 1 .. 9 /\ Columns = [i \in 1 .. 9 |-> Columns[i]]
  BY DEF Columns
<1>2. \A i \in 1 .. 9 : Columns[i] \in Words
  BY <1>1 DEF Words, Range
<1>3. Columns[1] = "ticker" /\ 1 \in 1 .. 9
  BY DEF Columns
<1>4. Empty \in Words /\ "note" \in Words
  BY DEF Words
<1>5. Columns \in Seq(Words)
  BY <1>1, <1>2
<1> QED BY <1>1, <1>2, <1>3, <1>4, <1>5

(* The headers and rows of the written files are words.                    *)
LEMMA FilesAreMade ==
  /\ Headers \subseteq Seq(Words)
  /\ Rows \subseteq Seq(Words)
<1> DEFINE S == Words
<1> HIDE DEF S
<1>1. \A s \in Seq(S), a \in S : Append(s, a) \in Seq(S) /\ <<a>> \o s \in Seq(S)
  OBVIOUS
<1>2. \A s \in Seq(S) : Len(s) = 9 => Tail(s) \in Seq(S) /\ SubSeq(s, 1, 7) \in Seq(S)
          /\ SubSeq(s, 1, 6) \in Seq(S)
  OBVIOUS
<1>3. ASSUME NEW s \in Seq(S), Len(s) = 9, NEW i \in 1 .. 9, NEW a \in S
      PROVE  [s EXCEPT ![i] = a] \in Seq(S)
  <2>1. DOMAIN s = 1 .. 9 /\ \A j \in 1 .. 9 : s[j] \in S
    <3>1. DOMAIN s = 1 .. Len(s) /\ \A j \in 1 .. Len(s) : s[j] \in S
      OBVIOUS
    <3> QED BY <1>3, <3>1
  <2> DEFINE Changed(j) == IF j = i THEN a ELSE s[j]
  <2>2. [s EXCEPT ![i] = a] = [j \in 1 .. 9 |-> Changed(j)]
    BY <2>1
  <2>3. \A j \in 1 .. 9 : Changed(j) \in S
    BY <2>1
  <2> HIDE DEF Changed
  <2>4. [j \in 1 .. 9 |-> Changed(j)] \in Seq(S)
    BY <2>3
  <2> QED BY <2>2, <2>4
<1>4. Headers \subseteq Seq(S)
  BY <1>1, <1>2, ColumnsAre DEF Headers, S
<1>5. GoodRow \in Seq(S) /\ Len(GoodRow) = 9
  <2>1. Len(GoodRow) = 9 /\ DOMAIN GoodRow = 1 .. 9 /\ GoodRow = [i \in 1 .. 9 |-> GoodRow[i]]
    BY DEF GoodRow
  <2>2. \A i \in 1 .. 9 : GoodRow[i] \in S
    BY DEF GoodRow, S, Words
  <2> QED BY <2>1, <2>2
<1>6. \A ch \in Changes : ch[1] \in 1 .. 9 /\ ch[2] \in S
  BY DEF Changes, S, Words
<1>7. Rows \subseteq Seq(S)
  <2>1. \A ch \in Changes : [GoodRow EXCEPT ![ch[1]] = ch[2]] \in Seq(S)
    BY <1>3, <1>5, <1>6
  <2>2. SubSeq(GoodRow, 1, 6) \in Seq(S)
    BY <1>2, <1>5
  <2> QED BY <2>1, <2>2 DEF Rows
<1> QED BY <1>4, <1>7 DEF S

(* What TLC is given is an input as the theorems have it.                  *)
ClosesAreTyped == Is("closes") => input.value \in Seq(1 .. MaxPrice)

AnswersAreTyped == Is("answer") => /\ input.value \in ProviderAnswer
                                   /\ OneRowForADate(input.value.rows)

InputInv == /\ input = Input(input.kind, input.value)
            /\ ClosesAreTyped /\ AnswersAreTyped /\ TextsAreTyped /\ FilesAreTyped

(* The answers the inputs begin with, and the bars they grow by, are       *)
(* typed.                                                                  *)
LEMMA GoodAnswersAreTyped ==
  /\ GoodBar \in BarType /\ Bars \subseteq BarType
  /\ GoodAnswer \in ProviderAnswer
  /\ GoodRows \in Seq(Row) /\ OneRowForADate(GoodRows)
  /\ \A answer \in Answers : answer \in ProviderAnswer /\ OneRowForADate(answer.rows)
<1>1. GoodBar \in BarType
  BY DEF GoodBar, BarType
<1>2. Bars \subseteq BarType
  <2>1. Junk \in Int
    BY DEF Junk
  <2>2. \A bar \in BarType : \A n \in Int :
          /\ [bar EXCEPT !.open = n] \in BarType /\ [bar EXCEPT !.high = n] \in BarType
          /\ [bar EXCEPT !.low = n] \in BarType /\ [bar EXCEPT !.volume = n] \in BarType
          /\ [bar EXCEPT !.close = n, !.high = n] \in BarType
    BY DEF BarType
  <2>3. 3 \in Int /\ 1 \in Int /\ 0 \in Int /\ -1 \in Int
    OBVIOUS
  <2> QED BY <1>1, <2>1, <2>2, <2>3 DEF Bars
<1>3. GoodRows \in Seq(Row) /\ Len(GoodRows) = 1
  BY <1>1 DEF GoodRows, Row
<1>4. OneRowForADate(GoodRows) /\ OneRowForADate(<<>>)
  BY <1>3 DEF OneRowForADate
<1>5. [c \in Channel |-> NoAdvisory] \in [Channel -> AdvisoryType]
  BY DEF NoAdvisory, Advisory, AdvisoryType, Topics
<1>6. GoodAnswer \in ProviderAnswer
  <2>1. <<>> \in Seq(Row)
    OBVIOUS
  <2> QED BY <1>5, <2>1, ChannelsAre DEF GoodAnswer, ProviderAnswer, MediaType
<1>7. \A answer \in SomethingAmiss : answer \in ProviderAnswer
  <2> DEFINE aborted == [GoodAnswer EXCEPT !.net = "aborted"]
             refused == [GoodAnswer EXCEPT !.net = "refused"]
             html == [GoodAnswer EXCEPT !.type = "text/html"]
             untyped == [GoodAnswer EXCEPT !.type = ""]
             garbled == [GoodAnswer EXCEPT !.body = "garbled"]
             incomplete == [GoodAnswer EXCEPT !.meta = "incomplete"]
             other == [GoodAnswer EXCEPT !.meta = "other symbol"]
             absent == [GoodAnswer EXCEPT !.series = "absent"]
             odd == [GoodAnswer EXCEPT !.series = "odd"]
             Coded(status) == [GoodAnswer EXCEPT !.status = status]
  <2>1. SomethingAmiss = {aborted, refused, html, untyped, garbled, incomplete, other, absent, odd}
                           \cup {Coded(status) : status \in {400, 401, 404, 408, 429, 500}}
    BY DEF SomethingAmiss
  <2>2. /\ aborted \in ProviderAnswer /\ refused \in ProviderAnswer /\ garbled \in ProviderAnswer
        /\ incomplete \in ProviderAnswer /\ other \in ProviderAnswer
        /\ absent \in ProviderAnswer /\ odd \in ProviderAnswer
    BY <1>6 DEF ProviderAnswer
  <2>3. html \in ProviderAnswer /\ untyped \in ProviderAnswer
    BY <1>6 DEF ProviderAnswer, MediaType
  <2>4. \A status \in Nat : Coded(status) \in ProviderAnswer
    BY <1>6 DEF ProviderAnswer
  <2> HIDE DEF aborted, refused, html, untyped, garbled, incomplete, other, absent, odd, Coded
  <2>5. {400, 401, 404, 408, 429, 500} \subseteq Nat
    OBVIOUS
  <2> QED BY <2>1, <2>2, <2>3, <2>4, <2>5
<1>8. \A answer \in ProviderAnswer : [answer EXCEPT !.rows = GoodRows] \in ProviderAnswer
                                     /\ [answer EXCEPT !.rows = GoodRows].rows = GoodRows
  BY <1>3 DEF ProviderAnswer
<1>9. GoodAnswer.rows = <<>>
  BY DEF GoodAnswer
<1>10. ASSUME NEW answer \in Answers PROVE answer \in ProviderAnswer /\ OneRowForADate(answer.rows)
  <2>1. CASE answer = GoodAnswer
    BY <1>4, <1>6, <1>9, <2>1
  <2>2. CASE answer = [GoodAnswer EXCEPT !.rows = GoodRows]
    BY <1>4, <1>6, <1>8, <2>2
  <2>3. CASE \E other \in SomethingAmiss : answer = [other EXCEPT !.rows = GoodRows]
    BY <1>4, <1>7, <1>8, <2>3
  <2> QED BY <2>1, <2>2, <2>3 DEF Answers
<1> QED BY <1>1, <1>2, <1>3, <1>4, <1>6, <1>10

(* A row more, of a date that no other has.                                *)
LEMMA OneMoreDate ==
  ASSUME NEW rows \in Seq(Row), OneRowForADate(rows), NEW row \in Row,
         \A i \in 1 .. Len(rows) : rows[i].date # row.date
  PROVE  Append(rows, row) \in Seq(Row) /\ OneRowForADate(Append(rows, row))
<1> DEFINE longer == Append(rows, row)
<1>1. /\ longer \in Seq(Row) /\ Len(longer) = Len(rows) + 1 /\ Len(rows) \in Nat
      /\ longer[Len(rows) + 1] = row /\ \A i \in 1 .. Len(rows) : longer[i] = rows[i]
  OBVIOUS
<1> HIDE DEF longer
<1>2. \A i \in 1 .. Len(longer) : i \in 1 .. Len(rows) \/ i = Len(rows) + 1
  BY <1>1
<1>3. OneRowForADate(longer)
  BY <1>1, <1>2 DEF OneRowForADate
<1> QED BY <1>1, <1>3 DEF longer

(* The first inputs are typed.                                             *)
LEMMA InputInvStarts == InputInit => InputInv
<1> SUFFICES ASSUME InputInit PROVE InputInv
  OBVIOUS
<1>1. ASSUME NEW kind, NEW value, input = Input(kind, value), kind = "day"
      PROVE  InputInv
  BY <1>1 DEF Input, InputInv, ClosesAreTyped, AnswersAreTyped, TextsAreTyped, FilesAreTyped, Is
<1>2. CASE input = Input("closes", <<>>)
  BY <1>2 DEF Input, InputInv, ClosesAreTyped, AnswersAreTyped, TextsAreTyped, FilesAreTyped, Is
<1>3. CASE \E answer \in Answers : input = Input("answer", answer)
  <2>1. PICK answer \in Answers : input = Input("answer", answer)
    BY <1>3
  <2>2. answer \in ProviderAnswer /\ OneRowForADate(answer.rows)
    BY GoodAnswersAreTyped
  <2> QED BY <2>1, <2>2
          DEF Input, InputInv, ClosesAreTyped, AnswersAreTyped, TextsAreTyped, FilesAreTyped, Is
<1>4. CASE \E year \in FirstYear .. LastYear : input = Input("day", UTC(year, 1, 1))
  BY <1>1, <1>4
<1>5. CASE input = Input("text", <<>>)
  BY <1>5 DEF Input, InputInv, ClosesAreTyped, AnswersAreTyped, TextsAreTyped, FilesAreTyped, Is
<1>6. CASE \E headers \in Headers : input = Input("rows", <<[fields |-> headers, line |-> 1]>>)
  <2>1. PICK headers \in Headers : input = Input("rows", <<[fields |-> headers, line |-> 1]>>)
    BY <1>6
  <2> DEFINE record == [fields |-> headers, line |-> 1]
             file == <<record>>
  <2>2. record \in Record(Words) /\ record.line = 1
    BY FilesAreMade DEF Record
  <2> HIDE DEF record
  <2>3. file \in Seq(Record(Words)) /\ file # <<>> /\ Len(file) = 1 /\ file[1] = record
    BY <2>2
  <2>4. \A i \in 1 .. Len(file) : file[i].line = i
    <3>1. \A i \in 1 .. 1 : i = 1
      OBVIOUS
    <3> QED BY <2>2, <2>3, <3>1
  <2>5. input = Input("rows", file)
    BY <2>1 DEF record
  <2> HIDE DEF file
  <2> QED BY <2>3, <2>4, <2>5
          DEF Input, InputInv, ClosesAreTyped, AnswersAreTyped, TextsAreTyped, FilesAreTyped, Is
<1> QED BY <1>2, <1>3, <1>4, <1>5, <1>6 DEF InputInit

(* An input that grows stays typed: a close, a day, a list of fields, a    *)
(* row of a file, a row of an answer or an advisory more.                  *)
LEMMA InputInvStep == InputInv /\ [InputNext]_input => InputInv'
<1> SUFFICES ASSUME InputInv, [InputNext]_input PROVE InputInv'
  OBVIOUS
<1>1. ASSUME NEW value, Grow(value)
      PROVE  input'.kind = input.kind /\ input'.value = value /\ input' = Input(input.kind, value)
  BY <1>1 DEF Grow, InputInv, Input
<1>2. ASSUME NEW value, Grow(value), Is("day")
      PROVE  InputInv'
  BY <1>1, <1>2
     DEF InputInv, Input, ClosesAreTyped, AnswersAreTyped, TextsAreTyped, FilesAreTyped, Is
<1>3. CASE NextDay
  <2>1. PICK value : Grow(value)
    BY <1>3 DEF NextDay
  <2>2. Is("day")
    BY <1>3 DEF NextDay
  <2> QED BY <1>2, <2>1, <2>2
<1>9. CASE NextRecord
  <2> DEFINE lists == input.value
             S == FieldLists(Characters)
  <2>1. Is("text") /\ lists \in Seq(S)
    BY <1>9 DEF NextRecord, InputInv, TextsAreTyped
  <2>2. PICK list \in S : Grow(Append(lists, list))
    BY <1>9, FieldsAreTexts DEF NextRecord
  <2> HIDE DEF S, lists
  <2>3. Append(lists, list) \in Seq(S)
    BY <2>1
  <2>4. input'.kind = "text" /\ input'.value \in Seq(S) /\ input' = Input(input'.kind, input'.value)
    BY <1>1, <2>1, <2>2, <2>3 DEF Is
  <2> QED BY <2>4
          DEF InputInv, ClosesAreTyped, AnswersAreTyped, TextsAreTyped, FilesAreTyped, Is, S
<1>10. CASE NextRow
  <2> DEFINE file == input.value
             S == Record(Words)
  <2>1. Is("rows") /\ file \in Seq(S) /\ (\A i \in 1 .. Len(file) : file[i].line = i)
    BY <1>10 DEF NextRow, InputInv, FilesAreTyped
  <2>2. PICK row \in Rows : Grow(Append(file, [fields |-> row, line |-> Len(file) + 1]))
    BY <1>10 DEF NextRow
  <2> DEFINE record == [fields |-> row, line |-> Len(file) + 1]
             longer == Append(file, record)
  <2>3. record \in S /\ record.line = Len(file) + 1
    <3>1. Len(file) + 1 \in Nat
      <4> HIDE DEF S, file
      <4> QED BY <2>1
    <3> HIDE DEF file
    <3> QED BY <3>1, FilesAreMade DEF Record
  <2>4. Grow(longer)
    BY <2>2
  <2> HIDE DEF S, file, record
  <2>5. /\ longer \in Seq(S) /\ Len(longer) = Len(file) + 1 /\ Len(file) \in Nat
        /\ longer[Len(file) + 1] = record /\ (\A i \in 1 .. Len(file) : longer[i] = file[i])
    BY <2>1, <2>3
  <2> HIDE DEF longer
  <2>6. longer # <<>>
    BY <2>5
  <2>7. \A i \in 1 .. Len(longer) : longer[i].line = i
    <3>1. \A i \in 1 .. Len(longer) : i \in 1 .. Len(file) \/ i = Len(file) + 1
      BY <2>5
    <3> QED BY <2>1, <2>3, <2>5, <3>1
  <2>8. input'.kind = "rows" /\ input'.value = longer /\ input' = Input(input'.kind, input'.value)
    BY <1>1, <2>1, <2>4 DEF Is
  <2> QED BY <2>5, <2>6, <2>7, <2>8
          DEF InputInv, ClosesAreTyped, AnswersAreTyped, TextsAreTyped, FilesAreTyped, Is, S
<1>4. CASE NextClose
  <2>1. PICK c \in 1 .. MaxPrice : Grow(Append(input.value, c))
    BY <1>4 DEF NextClose
  <2>2. Is("closes") /\ input.value \in Seq(1 .. MaxPrice)
    BY <1>4 DEF NextClose, InputInv, ClosesAreTyped
  <2>3. Append(input.value, c) \in Seq(1 .. MaxPrice)
    BY <2>2, AnalyticsConstants
  <2>4. input'.kind = "closes" /\ input'.value \in Seq(1 .. MaxPrice)
        /\ input' = Input(input'.kind, input'.value)
    BY <1>1, <2>1, <2>2, <2>3 DEF Is
  <2> QED BY <2>4 DEF InputInv, ClosesAreTyped, AnswersAreTyped, TextsAreTyped, FilesAreTyped, Is
<1>5. ASSUME Is("answer"), NEW value, Grow(value), value \in ProviderAnswer,
             OneRowForADate(value.rows)
      PROVE  InputInv'
  <2>1. input'.kind = "answer" /\ input'.value = value /\ input' = Input(input'.kind, input'.value)
    BY <1>1, <1>5 DEF Is
  <2> QED BY <1>5, <2>1
          DEF InputInv, ClosesAreTyped, AnswersAreTyped, TextsAreTyped, FilesAreTyped, Is
<1>6. CASE NextAnswerRow
  <2> DEFINE answer == input.value
             rows == answer.rows
  <2>1. Is("answer") /\ answer \in ProviderAnswer /\ OneRowForADate(rows)
    BY <1>6 DEF NextAnswerRow, InputInv, AnswersAreTyped
  <2>2. PICK date \in (Unreal .. MaxAnswerRows) \ {rows[i].date : i \in DOMAIN rows}, bar \in Bars :
          Grow([answer EXCEPT !.rows = Append(rows, [date |-> date, bar |-> bar])])
    BY <1>6 DEF NextAnswerRow
  <2>3. rows \in Seq(Row)
    BY <2>1 DEF ProviderAnswer
  <2> DEFINE row == [date |-> date, bar |-> bar]
  <2>4. row \in Row /\ row.date = date
    BY GoodAnswersAreTyped DEF Row, Unreal
  <2> HIDE DEF row, answer
  <2>5. \A i \in 1 .. Len(rows) : rows[i].date # row.date
    <3>1. DOMAIN rows = 1 .. Len(rows)
      BY <2>3
    <3> QED BY <2>2, <2>4, <3>1
  <2>6. Append(rows, row) \in Seq(Row) /\ OneRowForADate(Append(rows, row))
    BY <2>1, <2>3, <2>4, <2>5, OneMoreDate
  <2> DEFINE value == [answer EXCEPT !.rows = Append(rows, row)]
  <2>7. value \in ProviderAnswer /\ value.rows = Append(rows, row)
    BY <2>1, <2>6 DEF ProviderAnswer
  <2>8. Grow(value)
    BY <2>2 DEF row
  <2> HIDE DEF value
  <2> QED BY <1>5, <2>1, <2>6, <2>7, <2>8
<1>7. CASE NextAdvisory
  <2> DEFINE answer == input.value
  <2>1. Is("answer") /\ answer \in ProviderAnswer /\ OneRowForADate(answer.rows)
    BY <1>7 DEF NextAdvisory, InputInv, AnswersAreTyped
  <2>2. PICK c \in Channel, topics \in SUBSET Topics, is \in {"text", "other"} :
          /\ is = "other" => topics = {}
          /\ Grow([answer EXCEPT !.advisory[c] = Advisory(is, topics)])
    BY <1>7, ChannelsAre DEF NextAdvisory
  <2>3. Advisory(is, topics) \in AdvisoryType
    BY <2>2 DEF Advisory, AdvisoryType
  <2> HIDE DEF answer
  <2> DEFINE value == [answer EXCEPT !.advisory[c] = Advisory(is, topics)]
  <2>4. value \in ProviderAnswer /\ value.rows = answer.rows
    BY <2>1, <2>3 DEF ProviderAnswer
  <2>5. Grow(value)
    BY <2>2
  <2> HIDE DEF value
  <2> QED BY <1>5, <2>1, <2>4, <2>5
<1>8. CASE UNCHANGED input
  BY <1>8 DEF InputInv, ClosesAreTyped, AnswersAreTyped, TextsAreTyped, FilesAreTyped, Is
<1> QED BY <1>3, <1>4, <1>6, <1>7, <1>8, <1>9, <1>10 DEF InputNext

(* Every input is typed, however long it grows.                            *)
LEMMA InputInvHolds == InputSpec => []InputInv
BY InputInvStarts, InputInvStep, PTL DEF InputSpec

(* A day of the years, and the next one.                                   *)
DaysAreKnown ==
  Is("day") => \E year \in FirstYear .. LastYear : input.value \in DaysOf(year)

(* The years of a run are years of the theorem.                            *)
LEMMA YearsAreJudged == FirstYear .. LastYear \subseteq JudgedYears
BY CalendarConstants DEF JudgedYears

(* A year from its first to its last day.                                  *)
LEMMA YearIsWhole ==
  ASSUME NEW year \in JudgedYears
  PROVE  /\ year \in Years /\ NewYear(year) \in DaysOf(year)
         /\ NewYear(year) \in Int /\ NewYear(year + 1) \in Int
         /\ UTC(year, 12, 31) = NewYear(year + 1) - 1
<1>1. year \in Int /\ year + 1 \in Int /\ year \in Years
  BY SMT DEF JudgedYears, Years
<1>2. /\ NewYear(year) \in Int /\ NewYear(year + 1) \in Int
      /\ NewYear(year + 1) = NewYear(year) + 365 + LeapDay(year)
  BY <1>1, YearsFollow
<1>3. LeapDay(year) \in {0, 1}
  BY <1>1, LeapDayType
<1>4. /\ UTC(year, 12, 31) = NewYear(year) + Before(LeapDay(year), 12) + 31 - 1
      /\ Before(LeapDay(year), 12) = 334 + LeapDay(year)
  <2>1. 12 \in 0 .. 13 /\ 31 \in Int
    BY SMT
  <2>2. UTC(year, 12, 31) = NewYear(year) + Before(LeapDay(year), 12) + 31 - 1
    BY <1>1, <2>1, UtcCounts
  <2> HIDE DEF LeapDay
  <2>3. Before(LeapDay(year), 12) = 334 + LeapDay(year)
    <3> DEFINE leap == LeapDay(year)
    <3> HIDE DEF leap
    <3>1. Before(leap, 12) = 334 + leap
      <4>1. leap \in {0, 1}
        BY <1>3 DEF leap
      <4> QED BY <4>1, SMT DEF Before
    <3> QED BY <3>1 DEF leap
  <2> QED BY <2>2, <2>3
<1>5. NewYear(year) \in DaysOf(year)
  BY <1>2, <1>3, SMT DEF DaysOf
<1> QED BY <1>1, <1>2, <1>3, <1>4, <1>5, SMT

(* Its days are days of the theorem.                                       *)
LEMMA YearIsJudged ==
  ASSUME NEW year \in JudgedYears, NEW date \in DaysOf(year)
  PROVE  date \in JudgedDays
<1>0. year \in 1971 .. 2198
  BY DEF JudgedYears
<1> DEFINE next == year + 1
<1>1. /\ NewYear(year) \in Int /\ NewYear(next) \in Int
      /\ date \in NewYear(year) .. NewYear(next) - 1
  BY YearIsWhole DEF DaysOf
<1>2. /\ LeapDays(year) \in 0 .. 100 /\ NewYear(year) = 365 * (year - 1970) + LeapDays(year)
      /\ next \in 1970 .. 2200
  BY <1>0, LeapDaysAreFew, SMT
<1>3. LeapDays(1971) \in 0 .. 100 /\ NewYear(1971) = 365 * (1971 - 1970) + LeapDays(1971)
  BY LeapDaysAreFew, SMT
<1>4. LeapDays(2199) \in 0 .. 100 /\ NewYear(2199) = 365 * (2199 - 1970) + LeapDays(2199)
  BY LeapDaysAreFew, SMT
<1> HIDE DEF next
<1>5. LeapDays(next) \in 0 .. 100 /\ NewYear(next) = 365 * (next - 1970) + LeapDays(next)
  BY <1>2, LeapDaysAreFew, SMT
<1>6. NewYear(1971) <= NewYear(year)
  <2>1. CASE year = 1971
    BY <1>1, <2>1, SMT
  <2>2. CASE year # 1971
    BY <1>0, <1>2, <1>3, <2>2, SMT
  <2> QED BY <2>1, <2>2
<1>7. NewYear(next) <= NewYear(2199)
  <2>1. CASE next = 2199
    BY <1>1, <2>1, SMT
  <2>2. CASE next # 2199
    BY <1>0, <1>4, <1>5, <2>2, SMT DEF next
  <2> QED BY <2>1, <2>2
<1> QED BY <1>1, <1>3, <1>4, <1>6, <1>7, SMT DEF JudgedDays

(* The days begin with a year.                                             *)
LEMMA DaysStart == InputInit => DaysAreKnown
<1> SUFFICES ASSUME InputInit, Is("day")
             PROVE  \E year \in FirstYear .. LastYear : input.value \in DaysOf(year)
  BY DEF DaysAreKnown
<1>1. PICK year \in FirstYear .. LastYear : input = Input("day", UTC(year, 1, 1))
  BY DEF InputInit, Is, Input
<1>2. year \in JudgedYears /\ input.value = NewYear(year)
  BY <1>1, YearsAreJudged DEF Input, NewYear
<1>3. NewYear(year) \in DaysOf(year)
  BY <1>2, YearIsWhole
<1> QED BY <1>2, <1>3

(* They stop with it.                                                      *)
LEMMA DaysStep == InputInv /\ DaysAreKnown /\ [InputNext]_input => DaysAreKnown'
<1> SUFFICES ASSUME InputInv, DaysAreKnown, [InputNext]_input, Is("day")'
             PROVE  \E year \in FirstYear .. LastYear : input'.value \in DaysOf(year)
  BY DEF DaysAreKnown
<1>1. ASSUME NEW value, Grow(value)
      PROVE  Is("day") /\ input'.value = value
  BY <1>1 DEF Grow, InputInv, Input, Is
<1>2. CASE NextDay
  <2> DEFINE date == input.value
             next == date + 1
  <2>1. Is("day") /\ date < UTC(YearOf(date), 12, 31) /\ Grow(next)
    BY <1>2 DEF NextDay
  <2>2. PICK year \in FirstYear .. LastYear : date \in DaysOf(year)
    BY <2>1 DEF DaysAreKnown
  <2>3. year \in JudgedYears
    BY YearsAreJudged
  <2>4. /\ year \in Years /\ NewYear(year) \in Int /\ NewYear(year + 1) \in Int
        /\ UTC(year, 12, 31) = NewYear(year + 1) - 1
    BY <2>3, YearIsWhole
  <2>5. YearOf(date) = year
    BY <2>2, <2>4, YearIs
  <2>6. input'.value = next
    BY <1>1, <2>1
  <2>7. date < NewYear(year + 1) - 1
    BY <2>1, <2>4, <2>5
  <2> HIDE DEF date
  <2>8. next \in DaysOf(year)
    BY <2>2, <2>4, <2>7, SMT DEF DaysOf
  <2> QED BY <2>6, <2>8
<1>3. CASE NextClose \/ NextRecord \/ NextRow \/ NextAnswerRow \/ NextAdvisory
  <2>1. ~Is("day")
    BY <1>3 DEF NextClose, NextRecord, NextRow, NextAnswerRow, NextAdvisory, Is
  <2>2. \E value : Grow(value)
    <3>1. CASE NextClose
      BY <3>1 DEF NextClose
    <3>2. CASE NextRecord
      BY <3>2 DEF NextRecord
    <3>3. CASE NextRow
      BY <3>3 DEF NextRow
    <3>4. CASE NextAnswerRow
      BY <3>4 DEF NextAnswerRow
    <3>5. CASE NextAdvisory
      BY <3>5 DEF NextAdvisory
    <3> QED BY <1>3, <3>1, <3>2, <3>3, <3>4, <3>5
  <2> QED BY <1>1, <2>1, <2>2
<1>4. CASE UNCHANGED input
  BY <1>4 DEF DaysAreKnown, Is
<1> QED BY <1>2, <1>3, <1>4 DEF InputNext

(* On every day of any years from 1971 to 2198 the trading days are those  *)
(* of the exchange, the day expected to be stored is the last open one     *)
(* before today, and Date.UTC accepts the days that exist                  *)
(* (marketCalendar.ts:22-120, dates.ts:17-24, dataFreshnessService.ts).    *)
THEOREM CalendarIsRight == InputSpec => []CalendarIsTheRule
<1>1. DaysAreKnown => CalendarIsTheRule
  <2> SUFFICES ASSUME DaysAreKnown, Is("day") PROVE CalendarHolds(input.value)
    BY DEF CalendarIsTheRule
  <2>1. PICK year \in FirstYear .. LastYear : input.value \in DaysOf(year)
    BY DEF DaysAreKnown
  <2>2. year \in JudgedYears
    BY YearsAreJudged
  <2>3. input.value \in JudgedDays
    BY <2>1, <2>2, YearIsJudged
  <2> QED BY <2>3, EveryDayIsJudged
<1> QED BY <1>1, DaysStart, DaysStep, InputInvHolds, PTL DEF InputSpec

(* Whatever closes are analysed, the report tells one story: its           *)
(* indicators are those of its own last bars, its trend, momentum and      *)
(* risk agree with them, and the chart is fair (indicators.ts:74-199,      *)
(* analysis.ts, chart.ts:15-46).                                           *)
THEOREM ReportsAreConsistent == InputSpec => []ReportIsConsistent
<1>1. InputInv => ReportIsConsistent
  <2> SUFFICES ASSUME InputInv, Is("closes"), input.value # <<>> PROVE
         /\ \A want \in {SmaShort, SmaLong}, v \in Volatilities : ReportHolds(input.value, want, v)
         /\ \A cap \in 1 .. MaxCloses : ChartHolds(Len(input.value), cap)
    BY DEF ReportIsConsistent
  <2>1. input.value \in Seq(1 .. MaxPrice) /\ Len(input.value) \in Nat \ {0}
    <3>1. input.value \in Seq(1 .. MaxPrice)
      BY DEF InputInv, ClosesAreTyped
    <3>2. \A S : \A c \in Seq(S) : c # <<>> => Len(c) \in Nat \ {0}
      OBVIOUS
    <3> QED BY <3>1, <3>2
  <2>2. Volatilities \subseteq Fraction
    BY DEF Volatilities, Fraction, Positive
  <2>3. SmaShort \in Nat \ {0} /\ SmaLong \in Nat \ {0}
    BY AnalyticsConstants
  <2>4. \A want \in {SmaShort, SmaLong}, v \in Volatilities : ReportHolds(input.value, want, v)
    BY <2>1, <2>2, <2>3, EveryReportIsConsistent
  <2>5. \A cap \in 1 .. MaxCloses : cap \in Nat \ {0}
    OBVIOUS
  <2>6. \A cap \in 1 .. MaxCloses : ChartHolds(Len(input.value), cap)
    BY <2>1, <2>5, EveryChartIsFair
  <2> QED BY <2>4, <2>6
<1> QED BY <1>1, InputInvHolds, PTL

(* Every text is read back as it was written, and every row of every file  *)
(* is a bar or an error on its line (parsePriceCsv.ts:86-304).             *)
THEOREM FilesAreReadTruly == InputSpec => []CsvIsReadTruly
<1>1. ASSUME InputInv, Is("text") PROVE TextIsReadBack(input.value)
  BY <1>1, FieldsAreTexts, EveryTextIsReadBack DEF InputInv, TextsAreTyped
<1>2. ASSUME InputInv, Is("rows") PROVE RowsAreJudged(input.value, RowLimit)
  <2>1. input.value \in Seq(Record(Words)) /\ input.value # <<>> /\ Empty \in Words
    BY <1>2, ColumnsAre DEF InputInv, FilesAreTyped
  <2>2. InOrder(input.value)
    BY <1>2 DEF InputInv, FilesAreTyped, InOrder
  <2> QED BY <2>1, <2>2, EveryRowIsAccounted
<1>3. InputInv => CsvIsReadTruly
  BY <1>1, <1>2 DEF CsvIsReadTruly
<1> QED BY <1>3, InputInvHolds, PTL

(* Every answer of the provider is judged as the error classifier          *)
(* promises (alphaVantageClient.ts:89-331,                                 *)
(* providerErrorClassifier.ts:40-71).                                      *)
THEOREM AnswersAreJudged == InputSpec => []ResponseIsJudged
<1>1. InputInv => ResponseIsJudged
  BY EveryAnswerIsJudged DEF InputInv, AnswersAreTyped, ResponseIsJudged
<1> QED BY <1>1, InputInvHolds, PTL

-----------------------------------------------------------------------------
(* The cache in memory.  Its Map is a sequence of different keys, and the  *)
(* order of use is the order in that sequence; a deletion and an insertion *)
(* at the tail change the one as the other.                                *)

USE StoreConstants

NewerIn(o) == {<<o[p[1]], o[p[2]]>> : p \in {q \in (DOMAIN o) \X (DOMAIN o) : q[1] > q[2]}}

IsOrder(o) == o \in Seq(Keys) /\ \A i, j \in 1 .. Len(o) : o[i] = o[j] => i = j

KeysIn(o) == {o[i] : i \in 1 .. Len(o)}

Within(pairs, ks) == {p \in pairs : p[1] \in ks /\ p[2] \in ks}

(* A pair of the use order is a pair of places.                            *)
LEMMA NewerPairs ==
  ASSUME NEW o, IsOrder(o)
  PROVE  /\ NewerIn(o) \subseteq KeysIn(o) \X KeysIn(o)
         /\ \A x, y : <<x, y>> \in NewerIn(o) <=>
              \E i, j \in 1 .. Len(o) : i > j /\ x = o[i] /\ y = o[j]
<1>1. DOMAIN o = 1 .. Len(o)
  BY DEF IsOrder
<1>2. \A x, y : <<x, y>> \in NewerIn(o) <=>
        \E i, j \in 1 .. Len(o) : i > j /\ x = o[i] /\ y = o[j]
  <2> TAKE x, y
  <2>1. ASSUME NEW i \in 1 .. Len(o), NEW j \in 1 .. Len(o), i > j, x = o[i], y = o[j]
        PROVE  <<x, y>> \in NewerIn(o)
    <3>1. <<i, j>> \in {q \in (DOMAIN o) \X (DOMAIN o) : q[1] > q[2]}
      BY <1>1, <2>1
    <3> QED BY <2>1, <3>1 DEF NewerIn
  <2>2. ASSUME <<x, y>> \in NewerIn(o)
        PROVE  \E i, j \in 1 .. Len(o) : i > j /\ x = o[i] /\ y = o[j]
    <3>1. PICK q \in (DOMAIN o) \X (DOMAIN o) : q[1] > q[2] /\ <<x, y>> = <<o[q[1]], o[q[2]]>>
      BY <2>2 DEF NewerIn
    <3> QED BY <1>1, <3>1
  <2> QED BY <2>1, <2>2
<1>3. NewerIn(o) \subseteq KeysIn(o) \X KeysIn(o)
  BY <1>1 DEF NewerIn, KeysIn
<1> QED BY <1>2, <1>3

(* Taking the place i out of the Map. *)
LEMMA RemovedPlace ==
  ASSUME NEW o \in Seq(Keys), NEW i \in 1 .. Len(o)
  PROVE  LET n == RemoveAt(o, i)
         IN  /\ n \in Seq(Keys) /\ Len(n) = Len(o) - 1
             /\ \A j \in 1 .. Len(n) : n[j] = o[IF j < i THEN j ELSE j + 1]
<1> DEFINE a == SubSeq(o, 1, i - 1)  b == SubSeq(o, i + 1, Len(o))
<1>1. a \in Seq(Keys) /\ Len(a) = i - 1 /\ \A j \in 1 .. i - 1 : a[j] = o[j]
  OBVIOUS
<1>2. b \in Seq(Keys) /\ Len(b) = Len(o) - i /\ \A j \in 1 .. Len(o) - i : b[j] = o[i + j]
  OBVIOUS
<1> HIDE DEF a, b
<1>3. a \o b \in Seq(Keys) /\ Len(a \o b) = Len(o) - 1
  <2>1. a \o b \in Seq(Keys) /\ Len(a \o b) = Len(a) + Len(b)
    <3>1. a \in Seq(Keys) /\ b \in Seq(Keys)
      BY <1>1, <1>2
    <3> QED BY <3>1
  <2>2. Len(o) \in Nat
    OBVIOUS
  <2> QED BY <1>1, <1>2, <2>1, <2>2
<1>4. ASSUME NEW j \in 1 .. Len(o) - 1 PROVE (a \o b)[j] = o[IF j < i THEN j ELSE j + 1]
  <2>1. CASE j < i
    BY <1>1, <1>2, <2>1
  <2>2. CASE ~(j < i)
    <3>1. (a \o b)[j] = b[j - Len(a)]
      BY <1>1, <1>2, <2>2
    <3>2. j - Len(a) \in 1 .. Len(o) - i /\ i + (j - Len(a)) = j + 1
      BY <1>1, <2>2
    <3> QED BY <1>2, <2>2, <3>1, <3>2
  <2> QED BY <2>1, <2>2
<1> QED BY <1>3, <1>4 DEF RemoveAt, a, b

(* The Map without the key at the place i keeps the order of the others.   *)
LEMMA RemovedKey ==
  ASSUME NEW o, IsOrder(o), NEW i \in 1 .. Len(o)
  PROVE  LET n == RemoveAt(o, i)
         IN  /\ IsOrder(n) /\ Len(n) = Len(o) - 1
             /\ KeysIn(n) = KeysIn(o) \ {o[i]}
             /\ NewerIn(n) = Within(NewerIn(o), KeysIn(n))
<1> DEFINE n == RemoveAt(o, i)
           from(j) == IF j < i THEN j ELSE j + 1
           to(j) == IF j < i THEN j ELSE j - 1
<1>1. n \in Seq(Keys) /\ Len(n) = Len(o) - 1 /\ \A j \in 1 .. Len(n) : n[j] = o[from(j)]
  BY RemovedPlace DEF IsOrder
<1> HIDE DEF n
<1>2. \A j \in 1 .. Len(n) : from(j) \in 1 .. Len(o) /\ from(j) # i /\ to(from(j)) = j
  BY <1>1 DEF IsOrder
<1>3. \A j \in 1 .. Len(o) : j # i => to(j) \in 1 .. Len(n) /\ from(to(j)) = j
  BY <1>1 DEF IsOrder
<1>4. /\ \A j, h \in 1 .. Len(n) : from(j) > from(h) <=> j > h
      /\ \A j, h \in 1 .. Len(o) : j # i /\ h # i => (to(j) > to(h) <=> j > h)
  BY <1>1 DEF IsOrder
<1> HIDE DEF from, to
<1>5. IsOrder(n)
  <2> SUFFICES ASSUME NEW j \in 1 .. Len(n), NEW h \in 1 .. Len(n), n[j] = n[h] PROVE j = h
    BY <1>1 DEF IsOrder
  <2>1. from(j) = from(h)
    BY <1>1, <1>2 DEF IsOrder
  <2> QED BY <1>2, <2>1
<1>6. KeysIn(n) = KeysIn(o) \ {o[i]}
  <2>1. \A j \in 1 .. Len(n) : n[j] \in KeysIn(o) \ {o[i]}
    BY <1>1, <1>2 DEF KeysIn, IsOrder
  <2>2. \A j \in 1 .. Len(o) : o[j] # o[i] => o[j] \in KeysIn(n)
    <3> SUFFICES ASSUME NEW j \in 1 .. Len(o), o[j] # o[i] PROVE o[j] \in KeysIn(n)
      OBVIOUS
    <3>1. to(j) \in 1 .. Len(n) /\ from(to(j)) = j
      BY <1>3
    <3>2. n[to(j)] = o[j]
      BY <1>1, <3>1
    <3> QED BY <3>1, <3>2 DEF KeysIn
  <2> QED BY <2>1, <2>2 DEF KeysIn
<1>7. NewerIn(n) = Within(NewerIn(o), KeysIn(n))
  <2>1. ASSUME NEW x, NEW y, <<x, y>> \in NewerIn(n)
        PROVE  <<x, y>> \in NewerIn(o) /\ x \in KeysIn(n) /\ y \in KeysIn(n)
    <3>1. PICK j, h \in 1 .. Len(n) : j > h /\ x = n[j] /\ y = n[h]
      BY <1>5, <2>1, NewerPairs
    <3>2. /\ from(j) > from(h) /\ x = o[from(j)] /\ y = o[from(h)]
          /\ from(j) \in 1 .. Len(o) /\ from(h) \in 1 .. Len(o)
      BY <1>1, <1>2, <1>4, <3>1
    <3>3. <<x, y>> \in NewerIn(o)
      BY <3>2, NewerPairs
    <3> QED BY <3>1, <3>3 DEF KeysIn
  <2>2. ASSUME NEW x \in KeysIn(n), NEW y \in KeysIn(n), <<x, y>> \in NewerIn(o)
        PROVE  <<x, y>> \in NewerIn(n)
    <3>1. PICK j, h \in 1 .. Len(o) : j > h /\ x = o[j] /\ y = o[h]
      BY <2>2, NewerPairs
    <3>2. j # i /\ h # i
      BY <1>6, <2>2, <3>1
    <3>3. /\ to(j) > to(h) /\ to(j) \in 1 .. Len(n) /\ to(h) \in 1 .. Len(n)
          /\ from(to(j)) = j /\ from(to(h)) = h
      BY <1>3, <1>4, <3>1, <3>2
    <3>4. x = n[to(j)] /\ y = n[to(h)]
      BY <1>1, <3>1, <3>3
    <3> QED BY <1>5, <3>3, <3>4, NewerPairs
  <2>3. NewerIn(n) \subseteq KeysIn(n) \X KeysIn(n) /\ NewerIn(o) \subseteq KeysIn(o) \X KeysIn(o)
    BY <1>5, NewerPairs
  <2> QED BY <2>1, <2>2, <2>3 DEF Within
<1> QED BY <1>1, <1>5, <1>6, <1>7 DEF n

(* Map.delete(k), present or not. *)
LEMMA DeletedKey ==
  ASSUME NEW o, IsOrder(o), NEW k
  PROVE  LET n == RemoveFirst(o, k)
         IN  /\ IsOrder(n) /\ Len(n) = (IF k \in KeysIn(o) THEN Len(o) - 1 ELSE Len(o))
             /\ KeysIn(n) = KeysIn(o) \ {k}
             /\ NewerIn(n) = Within(NewerIn(o), KeysIn(n))
             /\ k \notin KeysIn(o) => n = o
<1>1. CASE k \notin KeysIn(o)
  <2>1. RemoveFirst(o, k) = o
    BY <1>1 DEF RemoveFirst, KeysIn
  <2>2. NewerIn(o) = Within(NewerIn(o), KeysIn(o))
    BY NewerPairs DEF Within
  <2> QED BY <1>1, <2>1, <2>2
<1>2. CASE k \in KeysIn(o)
  <2>1. PICK i \in 1 .. Len(o) : k = o[i]
    BY <1>2 DEF KeysIn
  <2>2. {j \in 1 .. Len(o) : o[j] = k} = {i}
    BY <2>1 DEF IsOrder
  <2>3. Min({i}) = i
    BY DEF Min
  <2>4. RemoveFirst(o, k) = RemoveAt(o, i)
    BY <2>1, <2>2, <2>3 DEF RemoveFirst, SelectInSeq
  <2> QED BY <1>2, <2>1, <2>4, RemovedKey
<1> QED BY <1>1, <1>2

(* Map.set(k) of a key that is not there. *)
LEMMA AppendedKey ==
  ASSUME NEW o, IsOrder(o), NEW k \in Keys, k \notin KeysIn(o)
  PROVE  LET n == Append(o, k)
         IN  /\ IsOrder(n) /\ Len(n) = Len(o) + 1
             /\ KeysIn(n) = KeysIn(o) \cup {k}
             /\ NewerIn(n) = NewerIn(o) \cup ({k} \X KeysIn(o))
<1> DEFINE n == Append(o, k)
<1>1. /\ n \in Seq(Keys) /\ Len(n) = Len(o) + 1 /\ Len(o) \in Nat
      /\ \A j \in 1 .. Len(o) : n[j] = o[j]
      /\ n[Len(o) + 1] = k
  BY DEF IsOrder
<1> HIDE DEF n
<1>2. \A j \in 1 .. Len(n) : j \in 1 .. Len(o) \/ j = Len(o) + 1
  BY <1>1
<1>3. IsOrder(n)
  BY <1>1, <1>2 DEF IsOrder, KeysIn
<1>4. KeysIn(n) = KeysIn(o) \cup {k}
  BY <1>1, <1>2 DEF KeysIn
<1>5. ASSUME NEW x, NEW y, <<x, y>> \in NewerIn(n)
      PROVE  <<x, y>> \in NewerIn(o) \cup ({k} \X KeysIn(o))
  <2>1. PICK j, h \in 1 .. Len(n) : j > h /\ x = n[j] /\ y = n[h]
    BY <1>3, <1>5, NewerPairs
  <2>2. h \in 1 .. Len(o) /\ y = o[h]
    BY <1>1, <2>1
  <2>3. CASE j \in 1 .. Len(o)
    BY <1>1, <2>1, <2>2, <2>3, NewerPairs
  <2>4. CASE j = Len(o) + 1
    BY <1>1, <2>1, <2>2, <2>4 DEF KeysIn
  <2> QED BY <1>2, <2>3, <2>4
<1>6. ASSUME NEW x, NEW y, <<x, y>> \in NewerIn(o) \cup ({k} \X KeysIn(o))
      PROVE  <<x, y>> \in NewerIn(n)
  <2>1. CASE <<x, y>> \in NewerIn(o)
    <3>1. PICK j, h \in 1 .. Len(o) : j > h /\ x = o[j] /\ y = o[h]
      BY <2>1, NewerPairs
    <3> QED BY <1>1, <1>3, <3>1, NewerPairs
  <2>2. CASE <<x, y>> \in {k} \X KeysIn(o)
    <3>1. PICK h \in 1 .. Len(o) : y = o[h] /\ x = k
      BY <2>2 DEF KeysIn
    <3> QED BY <1>1, <1>3, <3>1, NewerPairs
  <2> QED BY <1>6, <2>1, <2>2
<1>7. NewerIn(n) \subseteq KeysIn(n) \X KeysIn(n) /\ NewerIn(o) \subseteq KeysIn(o) \X KeysIn(o)
  BY <1>3, NewerPairs
<1>8. NewerIn(n) = NewerIn(o) \cup ({k} \X KeysIn(o))
  BY <1>5, <1>6, <1>7
<1> QED BY <1>1, <1>3, <1>4, <1>8 DEF n

(* A Map has as many keys as places in use.                                *)
LEMMA OrderKeys ==
  ASSUME NEW o, IsOrder(o)
  PROVE  /\ ToSet(o) = KeysIn(o) /\ IsInjective(o)
         /\ IsFiniteSet(KeysIn(o)) /\ Cardinality(KeysIn(o)) = Len(o) /\ Len(o) \in Nat
<1>1. DOMAIN o = 1 .. Len(o) /\ Len(o) \in Nat
  BY DEF IsOrder
<1>2. ToSet(o) = KeysIn(o)
  BY <1>1 DEF ToSet, KeysIn
<1>3. IsInjective(o)
  BY <1>1 DEF IsInjective, IsOrder
<1>4. o \in Surjection(1 .. Len(o), KeysIn(o)) /\ o \in Injection(1 .. Len(o), KeysIn(o))
  BY <1>1 DEF Surjection, Injection, IsInjective, KeysIn, IsOrder
<1>5. IsFiniteSet(1 .. Len(o)) /\ Cardinality(1 .. Len(o)) = Len(o)
  <2>1. 1 \in Int /\ Len(o) \in Int
    BY <1>1
  <2>2. /\ IsFiniteSet(1 .. Len(o))
        /\ Cardinality(1 .. Len(o)) = IF 1 > Len(o) THEN 0 ELSE Len(o) - 1 + 1
    BY <2>1, FS_Interval
  <2> QED BY <1>1, <2>2
<1> QED BY <1>1, <1>2, <1>3, <1>4, <1>5, FS_Surjection

(* What the Map is. *)
MapIsOrdered ==
  /\ IsOrder(order) /\ Len(order) <= MaxEntries
  /\ entry \in [KeysIn(order) -> CacheEntry]
  /\ clock \in 0 .. Horizon
  /\ reply \in CacheEntry \cup {Undefined}

(* The typing of the specification, and its use order and keys.            *)
LEMMA MapIsTyped == MapIsOrdered => TypeOK
BY OrderKeys DEF MapIsOrdered, IsOrder, TypeOK

(* Newer in the abstract cache is later in the Map.                        *)
LEMMA NewerIsUse == Newer = NewerIn(order)
BY DEF Newer, Places, NewerIn

(* The Map loses the key k ...                                             *)
LEMMA MapLoses ==
  ASSUME MapIsOrdered, NEW o, IsOrder(o), KeysIn(o) \subseteq KeysIn(order),
         NewerIn(o) = Within(NewerIn(order), KeysIn(o)), Store(o, entry)
  PROVE  /\ order' = o /\ entry' \in [KeysIn(o) -> CacheEntry]
         /\ Lru!Become([k \in KeysIn(o) |-> entry[k]])
<1>1. order' = o /\ entry' = [k \in KeysIn(o) |-> entry[k]]
  BY OrderKeys DEF Store
<1>2. Newer = NewerIn(order) /\ Newer' = NewerIn(o)
  BY <1>1 DEF Newer, Places, NewerIn
<1>3. Newer' = {p \in Newer : p[1] \in KeysIn(o) /\ p[2] \in KeysIn(o)}
  BY <1>2 DEF Within
<1>4. entry' \in [KeysIn(o) -> CacheEntry]
  BY <1>1 DEF MapIsOrdered
<1> QED BY <1>1, <1>3, <1>4 DEF Lru!Become

(* ... or gets k at its tail, having had it or not.                        *)
LEMMA MapGets ==
  ASSUME MapIsOrdered, NEW o, IsOrder(o), KeysIn(o) \subseteq KeysIn(order),
         NewerIn(o) = Within(NewerIn(order), KeysIn(o)),
         NEW k \in Keys, k \notin KeysIn(o), NEW e,
         \A j \in KeysIn(o) \cup {k} : e[j] \in CacheEntry,
         Store(Append(o, k), e)
  PROVE  /\ IsOrder(order)' /\ Len(order') = Len(o) + 1 /\ KeysIn(order)' = KeysIn(o) \cup {k}
         /\ entry' \in [KeysIn(order)' -> CacheEntry]
         /\ Lru!BecomeUsing([j \in KeysIn(o) \cup {k} |-> e[j]], k)
<1> DEFINE n == Append(o, k)
<1>1. /\ IsOrder(n) /\ Len(n) = Len(o) + 1 /\ KeysIn(n) = KeysIn(o) \cup {k}
      /\ NewerIn(n) = NewerIn(o) \cup ({k} \X KeysIn(o))
  BY AppendedKey
<1> HIDE DEF n
<1>2. order' = n /\ entry' = [j \in KeysIn(o) \cup {k} |-> e[j]]
  BY <1>1, OrderKeys DEF Store, n
<1>3. IsOrder(order)' /\ KeysIn(order)' = KeysIn(o) \cup {k} /\ Len(order') = Len(o) + 1
  <2>1. IsOrder(order)' /\ Len(order') = Len(o) + 1
    BY <1>1, <1>2 DEF IsOrder
  <2>2. KeysIn(order)' = KeysIn(n)
    BY <1>2 DEF KeysIn
  <2> QED BY <1>1, <2>1, <2>2
<1>4. Newer = NewerIn(order) /\ Newer' = NewerIn(n)
  BY <1>2 DEF Newer, Places, NewerIn
<1>5. KeysIn(o) = (KeysIn(o) \cup {k}) \ {k}
  OBVIOUS
<1>6. NewerIn(o) = {p \in Newer : {p[1], p[2]} \subseteq KeysIn(o)}
  BY <1>4 DEF Within
<1>7. Newer' = {p \in Newer : {p[1], p[2]} \subseteq KeysIn(o)}
                        \cup ({k} \X KeysIn(o))
  BY <1>1, <1>4, <1>6
<1>8. Lru!BecomeUsing([j \in KeysIn(o) \cup {k} |-> e[j]], k)
  BY <1>2, <1>5, <1>7 DEF Lru!BecomeUsing
<1> QED BY <1>2, <1>3, <1>8

(* What the abstract cache holds are the keys of the Map.                  *)
LEMMA MapHolds == MapIsOrdered => Lru!Held = KeysIn(order)
BY DEF MapIsOrdered, Lru!Held

(* Each operation on the Map is one on the abstract table.                 *)
LEMMA DeleteIsDiscard ==
  ASSUME MapIsOrdered, NEW k \in Keys, Delete(k)
  PROVE  MapIsOrdered' /\ Lru!Discard({k})
<1> DEFINE o == RemoveFirst(order, k)
<1>1. /\ IsOrder(o) /\ Len(o) <= Len(order) /\ KeysIn(o) = KeysIn(order) \ {k}
      /\ NewerIn(o) = Within(NewerIn(order), KeysIn(o))
  BY DeletedKey, OrderKeys DEF MapIsOrdered
<1> HIDE DEF o
<1>2. Store(o, entry) /\ UNCHANGED <<clock, reply>>
  BY DEF Delete, o
<1>3. /\ order' = o /\ entry' \in [KeysIn(o) -> CacheEntry]
      /\ Lru!Become([j \in KeysIn(o) |-> entry[j]])
  BY <1>1, <1>2, MapLoses
<1>4. MapIsOrdered'
  BY <1>1, <1>2, <1>3, OrderKeys DEF MapIsOrdered
<1>5. [j \in KeysIn(o) |-> entry[j]] = Lru!Without({k})
  BY <1>1, MapHolds DEF Lru!Without
<1> QED BY <1>2, <1>3, <1>4, <1>5 DEF Lru!Discard

(* clear() discards every key.                                             *)
LEMMA ClearIsDiscard ==
  ASSUME MapIsOrdered, Clear
  PROVE  MapIsOrdered' /\ Lru!Discard(Keys)
<1>1. IsOrder(<<>>) /\ KeysIn(<<>>) = {} /\ NewerIn(<<>>) = {}
  BY DEF IsOrder, KeysIn, NewerIn
<1>2. Store(<<>>, entry) /\ UNCHANGED <<clock, reply>>
  BY DEF Clear
<1>3. /\ order' = <<>> /\ entry' \in [{} -> CacheEntry]
      /\ Lru!Become([j \in {} |-> entry[j]])
  BY <1>1, <1>2, MapLoses DEF Within
<1>4. MapIsOrdered'
  BY <1>1, <1>2, <1>3 DEF MapIsOrdered
<1>5. KeysIn(order) \ Keys = {}
  BY DEF MapIsOrdered, IsOrder, KeysIn
<1>6. [j \in {} |-> entry[j]] = Lru!Without(Keys)
  BY <1>5, MapHolds DEF Lru!Without
<1> QED BY <1>2, <1>3, <1>4, <1>6 DEF Lru!Discard

(* get() is a lookup: a hit moves the key to the tail, a miss deletes an   *)
(* expired entry.                                                          *)
LEMMA ReadIsLookup ==
  ASSUME MapIsOrdered, NEW k \in Keys, ReadFresh(k)
  PROVE  MapIsOrdered' /\ (Lru!Hit(k) \/ Lru!NoHit(k))
<1> DEFINE o == RemoveFirst(order, k)
<1>1. /\ IsOrder(o) /\ KeysIn(o) = KeysIn(order) \ {k}
      /\ Len(o) = (IF k \in KeysIn(order) THEN Len(order) - 1 ELSE Len(order))
      /\ NewerIn(o) = Within(NewerIn(order), KeysIn(o))
  BY DeletedKey DEF MapIsOrdered
<1>2. /\ ToSet(order) = KeysIn(order) /\ Lru!Held = KeysIn(order)
      /\ Len(order) \in Nat /\ IsOrder(order)
  BY OrderKeys, MapHolds DEF MapIsOrdered
<1> HIDE DEF o
<1>3. CASE k \notin KeysIn(order)
  <2>1. UNCHANGED <<clock, order, entry>> /\ reply' = Undefined
    BY <1>2, <1>3 DEF ReadFresh
  <2>2. Newer' = Newer
    BY <2>1 DEF Newer, Places
  <2>3. Newer \subseteq KeysIn(order) \X KeysIn(order)
    BY <1>2, NewerPairs, NewerIsUse
  <2>4. Lru!Become(entry)
    BY <1>2, <2>1, <2>2, <2>3 DEF Lru!Become, Lru!Held
  <2>5. Lru!NoHit(k)
    BY <1>2, <1>3, <2>1, <2>4 DEF Lru!NoHit, Lru!Miss, Undefined
  <2> QED BY <2>1, <2>5 DEF MapIsOrdered, IsOrder, KeysIn
<1>4. CASE k \in KeysIn(order) /\ IsExpired(k)
  <2>1. Store(o, entry) /\ clock' = clock /\ reply' = Undefined
    BY <1>2, <1>4 DEF ReadFresh, o
  <2>2. /\ order' = o /\ entry' \in [KeysIn(o) -> CacheEntry]
        /\ Lru!Become([j \in KeysIn(o) |-> entry[j]])
    BY <1>1, <2>1, MapLoses
  <2>3. MapIsOrdered'
    BY <1>1, <1>2, <2>1, <2>2 DEF MapIsOrdered
  <2>4. [j \in KeysIn(o) |-> entry[j]] = Lru!Without({k})
    BY <1>1, <1>2 DEF Lru!Without
  <2>5. ~Lru!Live(k)
    <3>1. entry[k].expires \in 0 .. Horizon
      BY <1>4 DEF MapIsOrdered, CacheEntry
    <3> QED BY <1>4, <3>1 DEF IsExpired, Lru!Live, MapIsOrdered
  <2>6. Lru!NoHit(k)
    BY <2>1, <2>2, <2>4, <2>5 DEF Lru!NoHit, Lru!Miss, Undefined
  <2> QED BY <2>3, <2>6
<1>5. CASE k \in KeysIn(order) /\ ~IsExpired(k)
  <2>1. Store(Append(o, k), entry) /\ clock' = clock /\ reply' = entry[k]
    BY <1>2, <1>5 DEF ReadFresh, o
  <2>2. KeysIn(o) \cup {k} = KeysIn(order) /\ k \notin KeysIn(o)
    BY <1>1, <1>5
  <2>3. \A j \in KeysIn(o) \cup {k} : entry[j] \in CacheEntry
    BY <2>2 DEF MapIsOrdered
  <2>4. /\ IsOrder(order)' /\ Len(order') = Len(o) + 1 /\ KeysIn(order)' = KeysIn(o) \cup {k}
        /\ entry' \in [KeysIn(order)' -> CacheEntry]
        /\ Lru!BecomeUsing([j \in KeysIn(o) \cup {k} |-> entry[j]], k)
    BY <1>1, <2>1, <2>2, <2>3, MapGets
  <2>5. [j \in KeysIn(o) \cup {k} |-> entry[j]] = entry
    BY <2>2 DEF MapIsOrdered
  <2>6. MapIsOrdered'
    <3>1. reply' \in CacheEntry
      BY <1>5, <2>1 DEF MapIsOrdered
    <3> QED BY <1>1, <1>2, <1>5, <2>1, <2>4, <3>1 DEF MapIsOrdered
  <2>7. Lru!Live(k)
    <3>1. entry[k].expires \in 0 .. Horizon
      BY <1>5 DEF MapIsOrdered, CacheEntry
    <3> QED BY <1>5, <3>1 DEF IsExpired, Lru!Live, MapIsOrdered
  <2>8. Lru!Hit(k)
    BY <1>2, <1>5, <2>1, <2>4, <2>5, <2>7 DEF Lru!Hit
  <2> QED BY <2>6, <2>8
<1> QED BY <1>3, <1>4, <1>5

(* Every set of places has a first one. *)
LEMMA FirstPlace ==
  ASSUME NEW T \in SUBSET Nat, T # {}
  PROVE  Min(T) \in T
<1> DEFINE Below == {p \in Nat \X Nat : p[1] < p[2]}
<1>1. IsWellFoundedOn(Below, Nat)
  BY NatLessThanWellFounded DEF OpToRel
<1>2. PICK m \in T : \A y \in T : <<y, m>> \notin Below
  BY <1>1, WFMin
<1>3. \A y \in T : m <= y
  <2> SUFFICES ASSUME NEW y \in T, ~(m <= y) PROVE FALSE
    OBVIOUS
  <2>1. <<y, m>> \in Nat \X Nat /\ y < m
    OBVIOUS
  <2> QED BY <1>2, <2>1
<1> QED BY <1>3 DEF Min

(* evictOne(): what it deletes is a victim. *)
LEMMA EvictedIsVictim ==
  ASSUME MapIsOrdered, Len(order) >= 1
  PROVE  \E i \in 1 .. Len(order) : /\ EvictOne(order) = RemoveAt(order, i)
                                   /\ order[i] \in Lru!Victims
<1> DEFINE dead == {i \in DOMAIN order : IsExpired(order[i])}
<1>1. DOMAIN order = 1 .. Len(order) /\ Len(order) \in Nat /\ Lru!Held = KeysIn(order)
  BY MapHolds DEF MapIsOrdered, IsOrder
<1>2. \A i \in 1 .. Len(order) : i \in dead <=> ~Lru!Live(order[i])
  <2> SUFFICES ASSUME NEW i \in 1 .. Len(order)
               PROVE  IsExpired(order[i]) <=> ~Lru!Live(order[i])
    BY <1>1
  <2>1. order[i] \in KeysIn(order)
    BY DEF KeysIn
  <2>2. entry[order[i]].expires \in 0 .. Horizon
    BY <2>1 DEF MapIsOrdered, CacheEntry
  <2> QED BY <2>2 DEF IsExpired, Lru!Live, MapIsOrdered
<1>3. CASE dead # {}
  <2>1. dead \in SUBSET Nat
    BY <1>1
  <2> HIDE DEF dead
  <2>2. PICK i \in dead : i = Min(dead)
    BY <1>3, <2>1, FirstPlace
  <2>3. i \in 1 .. Len(order)
    BY <1>1 DEF dead
  <2>4. EvictOne(order) = RemoveAt(order, i)
    BY <1>3, <2>2 DEF EvictOne, dead
  <2>5. order[i] \in Lru!Held /\ ~Lru!Live(order[i])
    BY <1>1, <1>2, <2>3 DEF KeysIn
  <2>6. order[i] \in Lru!Victims
    BY <2>5 DEF Lru!Victims
  <2> QED BY <2>3, <2>4, <2>6
<1>4. CASE dead = {}
  <2>1. 1 \in 1 .. Len(order)
    BY <1>1
  <2>2. EvictOne(order) = RemoveAt(order, 1)
    BY <1>4 DEF EvictOne
  <2> HIDE DEF dead
  <2>3. \A k \in Lru!Held : Lru!Live(k)
    BY <1>1, <1>2, <1>4 DEF KeysIn
  <2>4. ASSUME NEW j \in Lru!Held \ {order[1]} PROVE <<j, order[1]>> \in Newer
    <3>1. PICK i \in 1 .. Len(order) : j = order[i] /\ i > 1
      BY <1>1 DEF KeysIn
    <3> QED BY <2>1, <3>1, NewerPairs, NewerIsUse DEF MapIsOrdered
  <2>5. order[1] \in Lru!Victims
    BY <1>1, <2>1, <2>3, <2>4 DEF Lru!Victims, KeysIn
  <2> QED BY <2>1, <2>2, <2>5
<1> QED BY <1>3, <1>4

(* The library counts alike, whichever module takes it in. *)
LEMMA SameCount == ASSUME NEW S PROVE Lru!Cardinality(S) = Cardinality(S)
BY DEF Lru!Cardinality, Cardinality

(* set() puts an entry at the tail and drops one other key at most.        *)
LEMMA SetIsPut ==
  ASSUME MapIsOrdered, NEW k \in Keys, NEW value \in Values, NEW expires \in 0 .. Horizon,
         Set(k, value, expires)
  PROVE  /\ MapIsOrdered'
         /\ \E e \in Lru!Entry, gone \in {{}} \cup {{j} : j \in Lru!Held} :
              Lru!Put(k, e, gone)
<1> DEFINE others == RemoveFirst(order, k)
           kept == IF Len(others) >= MaxEntries THEN EvictOne(others) ELSE others
           new == [value |-> value, expires |-> expires]
           all == [j \in ToSet(order) \cup {k} |-> IF j = k THEN new ELSE entry[j]]
<1>1. /\ IsOrder(others) /\ KeysIn(others) = KeysIn(order) \ {k}
      /\ Len(others) = (IF k \in KeysIn(order) THEN Len(order) - 1 ELSE Len(order))
      /\ NewerIn(others) = Within(NewerIn(order), KeysIn(others))
      /\ k \notin KeysIn(order) => others = order
  BY DeletedKey DEF MapIsOrdered
<1>2. /\ ToSet(order) = KeysIn(order) /\ Lru!Held = KeysIn(order)
      /\ Len(order) \in Nat /\ Cardinality(KeysIn(order)) = Len(order)
      /\ IsOrder(order) /\ Len(order) <= MaxEntries
  BY OrderKeys, MapHolds DEF MapIsOrdered
<1>3. Store(Append(kept, k), all) /\ UNCHANGED <<clock, reply>>
  BY DEF Set
<1>4. new \in CacheEntry /\ new \in Lru!Entry
  BY DEF CacheEntry, Lru!Entry
<1> HIDE DEF others, new
<1>5. ASSUME NEW gone \in {{}} \cup {{j} : j \in Lru!Held},
             IF k \in Lru!Held \/ Cardinality(Lru!Held) < MaxEntries THEN gone = {}
             ELSE \E victim \in Lru!Victims : gone = {victim},
             k \notin gone, NEW o, o = kept,
             IsOrder(o), KeysIn(o) = KeysIn(order) \ (gone \cup {k}), Len(o) < MaxEntries,
             NewerIn(o) = Within(NewerIn(order), KeysIn(o))
      PROVE  MapIsOrdered' /\ Lru!Put(k, new, gone)
  <2>1. \A j \in KeysIn(o) \cup {k} : all[j] = (IF j = k THEN new ELSE entry[j])
    BY <1>2, <1>5
  <2>2. \A j \in KeysIn(o) \cup {k} : all[j] \in CacheEntry
    BY <1>4, <1>5, <2>1 DEF MapIsOrdered
  <2>3. Store(Append(o, k), all)
    BY <1>3, <1>5
  <2> HIDE DEF all, kept
  <2>4. /\ IsOrder(order)' /\ Len(order') = Len(o) + 1 /\ KeysIn(order)' = KeysIn(o) \cup {k}
        /\ entry' \in [KeysIn(order)' -> CacheEntry]
        /\ Lru!BecomeUsing([j \in KeysIn(o) \cup {k} |-> all[j]], k)
    BY <1>5, <2>2, <2>3, MapGets
  <2>5. MapIsOrdered'
    <3>1. Len(order') <= MaxEntries
      BY <1>5, <2>4, OrderKeys
    <3> QED BY <1>3, <2>4, <3>1 DEF MapIsOrdered
  <2>6. (Lru!Held \ gone) \cup {k} = KeysIn(o) \cup {k}
    BY <1>2, <1>5
  <2>7. [j \in (Lru!Held \ gone) \cup {k} |-> IF j = k THEN new ELSE entry[j]]
          = [j \in KeysIn(o) \cup {k} |-> all[j]]
    BY <2>1, <2>6
  <2>8. Lru!BecomeUsing([j \in (Lru!Held \ gone) \cup {k} |->
                                 IF j = k THEN new ELSE entry[j]], k)
    BY <2>4, <2>7 DEF Lru!BecomeUsing
  <2>9. Lru!Put(k, new, gone)
    BY <1>3, <1>5, <2>8, SameCount DEF Lru!Put
  <2> QED BY <2>5, <2>9
<1>6. CASE Len(others) < MaxEntries
  <2>1. kept = others
    BY <1>1, <1>2, <1>6
  <2>2. k \in Lru!Held \/ Cardinality(Lru!Held) < MaxEntries
    BY <1>1, <1>2, <1>6
  <2> HIDE DEF kept
  <2>3. MapIsOrdered' /\ Lru!Put(k, new, {})
    BY <1>1, <1>5, <1>6, <2>1, <2>2
  <2> QED BY <1>4, <2>3
<1>7. CASE ~(Len(others) < MaxEntries)
  <2>1. k \notin KeysIn(order) /\ Len(order) = MaxEntries /\ others = order
    BY <1>1, <1>2, <1>7
  <2>2. PICK i \in 1 .. Len(order) : /\ EvictOne(order) = RemoveAt(order, i)
                                     /\ order[i] \in Lru!Victims
    BY <2>1, EvictedIsVictim
  <2>3. kept = RemoveAt(order, i)
    BY <1>7, <2>1, <2>2
  <2> HIDE DEF kept
  <2>4. /\ IsOrder(kept) /\ Len(kept) = Len(order) - 1 /\ KeysIn(kept) = KeysIn(order) \ {order[i]}
        /\ NewerIn(kept) = Within(NewerIn(order), KeysIn(kept))
    BY <1>2, <2>3, RemovedKey
  <2>5. order[i] \in KeysIn(order)
    BY DEF KeysIn
  <2>6. PICK gone \in {{}} \cup {{j} : j \in Lru!Held} : gone = {order[i]}
    BY <1>2, <2>5
  <2>7. k \notin gone /\ KeysIn(kept) = KeysIn(order) \ (gone \cup {k})
    BY <2>1, <2>4, <2>5, <2>6
  <2>8. ~(k \in Lru!Held \/ Cardinality(Lru!Held) < MaxEntries)
    BY <1>2, <2>1
  <2>9. Len(kept) < MaxEntries
    BY <2>1, <2>4
  <2>10. MapIsOrdered' /\ Lru!Put(k, new, gone)
    BY <1>5, <2>2, <2>4, <2>6, <2>7, <2>8, <2>9
  <2> QED BY <1>4, <2>10
<1> QED BY <1>6, <1>7

(* Hence every step of the one is a step of the other.                     *)
LEMMA InitLru == Init => MapIsOrdered /\ Lru!LruInit
<1> SUFFICES ASSUME Init PROVE MapIsOrdered /\ Lru!LruInit
  OBVIOUS
<1>1. MapIsOrdered
  BY DEF Init, MapIsOrdered, IsOrder, KeysIn
<1>2. Newer = {}
  BY NewerIsUse DEF Init, NewerIn
<1> QED BY <1>1, <1>2 DEF Init, Lru!LruInit, Lru!Miss, Undefined

(* Every step of the Map is a step of the abstract cache or none of it.    *)
LEMMA NextLru ==
  MapIsOrdered /\ [Next]_vars =>
    MapIsOrdered' /\ [Lru!LruNext]_Lru!lruVars
<1> SUFFICES ASSUME MapIsOrdered, [Next]_vars
             PROVE  MapIsOrdered' /\ [Lru!LruNext]_Lru!lruVars
  OBVIOUS
<1>1. CASE UNCHANGED vars
  BY <1>1 DEF vars, MapIsOrdered, IsOrder, KeysIn, Lru!lruVars,
              Newer, Places
<1>2. CASE Tick
  BY <1>2 DEF Tick, MapIsOrdered, IsOrder, KeysIn, Lru!LruNext,
              Lru!Tick, Newer, Places
<1>3. CASE Clear
  BY <1>3, ClearIsDiscard DEF Lru!LruNext
<1>4. ASSUME NEW k \in Keys, Delete(k) \/ ReadFresh(k)
      PROVE  MapIsOrdered' /\ Lru!LruNext
  BY <1>4, DeleteIsDiscard, ReadIsLookup DEF Lru!LruNext
<1>5. ASSUME NEW k \in Keys, NEW value \in Values, NEW expires \in 0 .. Horizon,
             Set(k, value, expires)
      PROVE  MapIsOrdered' /\ Lru!LruNext
  BY <1>5, SetIsPut DEF Lru!LruNext
<1> QED BY <1>1, <1>2, <1>3, <1>4, <1>5 DEF Next

(* The Map keeps its type: every key once, and never more of them than     *)
(* there are places (ttlCache.ts:62-121).                                  *)
THEOREM CacheTyping == Spec => []TypeOK
<1> QED BY InitLru, NextLru, MapIsTyped, PTL DEF Spec

(* The cache in memory does what its comment promises, whatever the number *)
(* of keys and places and the sequence of calls: a lookup returns the last *)
(* live value set, a full cache drops an expired entry first and else the  *)
(* least recently used one (ttlCache.ts:8-16, 68-130).                     *)
THEOREM CacheIsLru == Spec => ImplementsLru
<1> QED BY InitLru, NextLru, PTL DEF Spec, ImplementsLru, Lru!LruSpec

=============================================================================
