--------------------------- MODULE EvaluationProofs ---------------------------
(***************************************************************************)
(* Theorems about the scores and the reports, for every profile, every     *)
(* threshold and decay, and all accounts.  Sums are folds of the community *)
(* modules; what is needed of them comes first.                            *)
(***************************************************************************)
EXTENDS Evaluation, FiniteSetTheorems, WellFoundedInduction, TLAPS

(* A set of natural numbers has a least element.                           *)
LEMMA LeastElement ==
  ASSUME NEW T \in SUBSET Nat, T # {}
  PROVE  \E m \in T : \A k \in T : m <= k
<1> DEFINE R == OpToRel(<, Nat)
<1>1. IsWellFoundedOn(R, Nat)
  BY NatLessThanWellFounded
<1>2. \A x, y \in Nat : x < y => <<x, y>> \in R
  BY Zenon DEF OpToRel
<1> HIDE DEF R
<1>3. PICK m \in T : \A k \in T : <<k, m>> \notin R
  BY <1>1, WFMin
<1>4. \A k \in T : ~(k < m)
  BY <1>2, <1>3, Zenon
<1> QED BY <1>4

(* Induction over the numbers, with a set of numbers for the predicate.    *)
LEMMA Steps ==
  ASSUME NEW n \in Nat, NEW Bad \in SUBSET (0..n), 0 \notin Bad,
         \A k \in 0..n : k + 1 \in Bad => k \in Bad
  PROVE  Bad = {}
<1> SUFFICES ASSUME Bad # {} PROVE FALSE
  OBVIOUS
<1>1. PICK m \in Bad : \A k \in Bad : m <= k
  <2>1. Bad \in SUBSET Nat
    OBVIOUS
  <2> QED BY <2>1, LeastElement
<1>2. m - 1 \in 0..n /\ (m - 1) + 1 = m
  OBVIOUS
<1>3. m - 1 \in Bad
  BY <1>2
<1> QED BY <1>1, <1>3

(* Induction over the subsets of a finite set: if some of them are bad,    *)
(* one is bad that has only good subsets of its own size less one.         *)
LEMMA SmallestSubset ==
  ASSUME NEW D, IsFiniteSet(D), NEW Bad \in SUBSET SUBSET D, Bad # {}
  PROVE  \E s \in Bad : \A x \in s : s \ {x} \notin Bad
<1>1. \A s \in SUBSET D : IsFiniteSet(s) /\ Cardinality(s) \in Nat
  BY FS_Subset, FS_CardinalityType
<1> DEFINE N == {Cardinality(s) : s \in Bad}
<1>2. N \in SUBSET Nat /\ N # {}
  BY <1>1
<1>3. PICK m \in N : \A k \in N : m <= k
  BY <1>2, LeastElement
<1>4. PICK s \in Bad : m = Cardinality(s)
  OBVIOUS
<1>5. ASSUME NEW x \in s PROVE s \ {x} \notin Bad
  <2>1. Cardinality(s \ {x}) = m - 1 /\ m \in Nat
    BY <1>1, <1>4, FS_RemoveElement
  <2> QED BY <1>3, <2>1
<1> QED BY <1>4, <1>5

(* What a sum over D computes on the way: g[s] is the sum of f over s, of  *)
(* the values taken in the order in which CHOOSE names the elements of s.  *)
First(s) == CHOOSE x \in s : TRUE
Plus(f, g, s) == IF s = {} THEN 0 ELSE f[First(s)] + g[s \ {First(s)}]
Summing(f, D, g) == g = [s \in SUBSET D |-> Plus(f, g, s)]

(* The element it adds first is one of them.                               *)
LEMMA FirstIn == ASSUME NEW s, s # {} PROVE First(s) \in s
  BY DEF First

(* Some function sums f: the sums of the subsets with at most n elements   *)
(* give those of the subsets with one more.                                *)
LEMMA SummingExists ==
  ASSUME NEW D, IsFiniteSet(D), NEW f
  PROVE  \E g : Summing(f, D, g)
<1> DEFINE Upto(n) == {s \in SUBSET D : Cardinality(s) <= n}
           Sums(n, g) == g = [s \in Upto(n) |-> Plus(f, g, s)]
           Without == {n \in 0..Cardinality(D) : ~\E g : Sums(n, g)}
<1>0. Cardinality(D) \in Nat
  BY FS_CardinalityType
<1>1. \A s \in SUBSET D : IsFiniteSet(s) /\ Cardinality(s) \in Nat
  BY FS_Subset, FS_CardinalityType
<1>2. \A s \in SUBSET D : s # {} => /\ s \ {First(s)} \in SUBSET D
                                    /\ Cardinality(s \ {First(s)}) = Cardinality(s) - 1
  BY <1>1, FirstIn, FS_RemoveElement
<1>3. 0 \notin Without
  <2> DEFINE g == [s \in Upto(0) |-> 0]
  <2>1. \A s \in Upto(0) : s = {}
    BY <1>1, FS_EmptySet
  <2>2. \A s \in Upto(0) : Plus(f, g, s) = 0
    BY <2>1 DEF Plus
  <2>3. Sums(0, g)
    BY <2>2
  <2> QED BY <2>3
<1>4. ASSUME NEW n \in 0..Cardinality(D), n \notin Without PROVE n + 1 \notin Without
  <2>1. PICK h : Sums(n, h)
    BY <1>4
  <2> DEFINE g == [s \in Upto(n + 1) |-> Plus(f, h, s)]
  <2>2. \A s \in Upto(n) : s \in Upto(n + 1) /\ g[s] = h[s]
    <3>1. \A s \in Upto(n) : h[s] = Plus(f, h, s)
      BY <2>1
    <3>2. \A s \in Upto(n) : s \in Upto(n + 1)
      BY <1>0, <1>1
    <3> QED BY <3>1, <3>2
  <2>3. ASSUME NEW s \in Upto(n + 1) PROVE Plus(f, h, s) = Plus(f, g, s)
    <3>1. CASE s = {} BY <3>1 DEF Plus
    <3>2. CASE s # {}
      <4> DEFINE r == s \ {First(s)}
      <4>0. /\ Cardinality(s) \in Nat /\ Cardinality(s) <= n + 1 /\ n \in Nat
            /\ r \in SUBSET D /\ Cardinality(r) = Cardinality(s) - 1
        BY <1>0, <1>1, <1>2, <3>2
      <4>1. r \in Upto(n)
        BY <4>0
      <4>2. g[s \ {First(s)}] = h[s \ {First(s)}]
        BY <2>2, <4>1
      <4> QED BY <4>2 DEF Plus
    <3> QED BY <3>1, <3>2
  <2>4. Sums(n + 1, g)
    BY <2>3
  <2> QED BY <2>4
<1>5. Without = {}
  <2>1. Without \in SUBSET (0..Cardinality(D))
    OBVIOUS
  <2>2. \A k \in 0..Cardinality(D) : k + 1 \in Without => k \in Without
    BY <1>4
  <2> HIDE DEF Without
  <2> QED BY <1>0, <1>3, <2>1, <2>2, Steps
<1>6. PICK g : Sums(Cardinality(D), g)
  <2>1. Cardinality(D) \in 0..Cardinality(D)
    BY <1>0
  <2>2. Cardinality(D) \notin Without
    BY <1>5
  <2> QED BY <2>1, <2>2
<1>7. Upto(Cardinality(D)) = SUBSET D
  BY FS_Subset
<1> QED BY <1>6, <1>7 DEF Summing

(* The sum over S is what the partial sums come to.                        *)
LEMMA SumIsLast ==
  ASSUME NEW S, IsFiniteSet(S), NEW f
  PROVE  \E g : Summing(f, S, g) /\ SumFunctionOnSet(f, S) = g[S]
<1> DEFINE it == CHOOSE g : Summing(f, S, g)
<1>1. Summing(f, S, it)
  BY SummingExists
<1>2. SumFunctionOnSet(f, S) = it[S]
  BY Zenon DEF SumFunctionOnSet, FoldFunctionOnSet, MapThenFoldSet, Summing, Plus, First
<1> QED BY <1>1, <1>2

(* Partial sums are integers, and any element may be the one added first.  *)
LEMMA SummingSplits ==
  ASSUME NEW D, IsFiniteSet(D), NEW f, \A x \in D : f[x] \in Int,
         NEW g, Summing(f, D, g)
  PROVE  /\ g[{}] = 0
         /\ \A s \in SUBSET D : g[s] \in Int
         /\ \A s \in SUBSET D : \A x \in s : g[s] = f[x] + g[s \ {x}]
<1> DEFINE Good(s) == \A x \in s : g[s] = f[x] + g[s \ {x}]
           Bad == {s \in SUBSET D : ~Good(s)}
           NoInt == {s \in SUBSET D : g[s] \notin Int}
<1>1. \A s \in SUBSET D : g[s] = Plus(f, g, s)
  BY DEF Summing
<1>2. g[{}] = 0
  BY <1>1 DEF Plus
<1>3. \A s \in SUBSET D : s # {} =>
        First(s) \in s /\ s \ {First(s)} \in SUBSET D /\ g[s] = f[First(s)] + g[s \ {First(s)}]
  BY <1>1, FirstIn DEF Plus
<1>4. NoInt = {}
  <2>1. NoInt \in SUBSET SUBSET D
    OBVIOUS
  <2>2. ASSUME NEW s \in NoInt, \A x \in s : s \ {x} \notin NoInt PROVE FALSE
    <3>1. s # {}
      BY <1>2
    <3>2. First(s) \in s /\ s \ {First(s)} \in SUBSET D /\ g[s] = f[First(s)] + g[s \ {First(s)}]
      BY <1>3, <3>1
    <3>3. g[s \ {First(s)}] \in Int /\ f[First(s)] \in Int
      BY <2>2, <3>2
    <3> QED BY <3>2, <3>3
  <2> HIDE DEF NoInt
  <2> QED BY <2>1, <2>2, SmallestSubset
<1>5. \A s \in SUBSET D : g[s] \in Int
  BY <1>4
<1>6. ASSUME NEW s \in SUBSET D, \A x \in s : s \ {x} \notin Bad PROVE Good(s)
  <2> SUFFICES ASSUME NEW x \in s PROVE g[s] = f[x] + g[s \ {x}]
    OBVIOUS
  <2> DEFINE c == First(s)
  <2>1. c \in s /\ s \ {c} \in SUBSET D /\ g[s] = f[c] + g[s \ {c}]
    BY <1>3
  <2> HIDE DEF c
  <2>2. CASE x = c
    BY <2>1, <2>2
  <2>3. CASE x # c
    <3>1. g[s \ {c}] = f[x] + g[(s \ {c}) \ {x}]
      BY <1>6, <2>1, <2>3
    <3>2. g[s \ {x}] = f[c] + g[(s \ {x}) \ {c}]
      BY <1>6, <2>1, <2>3
    <3>3. (s \ {x}) \ {c} = (s \ {c}) \ {x}
      OBVIOUS
    <3> DEFINE rest == g[(s \ {c}) \ {x}]
    <3>4. rest \in Int /\ f[x] \in Int /\ f[c] \in Int
      BY <1>5, <2>1
    <3>5. g[s] = f[c] + (f[x] + rest)
      BY <2>1, <3>1
    <3>6. g[s \ {x}] = f[c] + rest
      BY <3>2, <3>3
    <3> HIDE DEF rest
    <3>7. f[c] + (f[x] + rest) = f[x] + (f[c] + rest)
      BY <3>4
    <3> QED BY <3>5, <3>6, <3>7
  <2> QED BY <2>2, <2>3
<1>7. Bad = {}
  <2>1. Bad \in SUBSET SUBSET D
    OBVIOUS
  <2>2. ASSUME NEW s \in Bad, \A x \in s : s \ {x} \notin Bad PROVE FALSE
    BY <1>6, <2>2
  <2> HIDE DEF Bad
  <2> QED BY <2>1, <2>2, SmallestSubset
<1> QED BY <1>2, <1>5, <1>7

(* The sum of f over S, one element less.                                  *)
LEMMA SumOnSet ==
  ASSUME NEW S, IsFiniteSet(S), NEW f, \A x \in S : f[x] \in Int
  PROVE  /\ SumFunctionOnSet(f, S) \in Int
         /\ S = {} => SumFunctionOnSet(f, S) = 0
         /\ \A x \in S : SumFunctionOnSet(f, S) = f[x] + SumFunctionOnSet(f, S \ {x})
<1>1. PICK g : Summing(f, S, g) /\ SumFunctionOnSet(f, S) = g[S]
  BY SumIsLast
<1>2. /\ g[{}] = 0
      /\ \A s \in SUBSET S : g[s] \in Int
      /\ \A s \in SUBSET S : \A x \in s : g[s] = f[x] + g[s \ {x}]
  BY <1>1, SummingSplits
<1>3. ASSUME NEW x \in S PROVE SumFunctionOnSet(f, S \ {x}) = g[S \ {x}]
  <2> DEFINE D == S \ {x}
  <2>1. IsFiniteSet(D) /\ \A y \in D : f[y] \in Int
    BY FS_Subset
  <2> HIDE DEF D
  <2>2. PICK h : Summing(f, D, h) /\ SumFunctionOnSet(f, D) = h[D]
    BY <2>1, SumIsLast
  <2>3. /\ h[{}] = 0
        /\ \A s \in SUBSET D : \A y \in s : h[s] = f[y] + h[s \ {y}]
    BY <2>1, <2>2, SummingSplits
  <2> DEFINE Bad == {s \in SUBSET D : g[s] # h[s]}
  <2>4. Bad \in SUBSET SUBSET D
    OBVIOUS
  <2>5. ASSUME NEW s \in Bad, \A y \in s : s \ {y} \notin Bad PROVE FALSE
    <3>1. s # {}
      BY <1>2, <2>3
    <3>2. PICK y \in s : TRUE
      BY <3>1
    <3>3. g[s \ {y}] = h[s \ {y}]
      BY <2>5, <3>2
    <3>4. s \in SUBSET S
      BY DEF D
    <3>5. g[s] = f[y] + g[s \ {y}] /\ h[s] = f[y] + h[s \ {y}]
      BY <1>2, <2>3, <3>2, <3>4
    <3> QED BY <3>3, <3>5
  <2>6. Bad = {}
    <3> HIDE DEF Bad
    <3> QED BY <2>1, <2>4, <2>5, SmallestSubset
  <2> QED BY <2>2, <2>6 DEF D
<1> QED BY <1>1, <1>2, <1>3

(* Induction over the subsets of a finite set, with the set of the good    *)
(* ones for the predicate.                                                 *)
LEMMA SubsetsUp ==
  ASSUME NEW S, IsFiniteSet(S), NEW Good \in SUBSET SUBSET S, {} \in Good,
         \A s \in SUBSET S : \A x \in s : s \ {x} \in Good => s \in Good
  PROVE  S \in Good
<1> DEFINE Bad == (SUBSET S) \ Good
<1>1. Bad \in SUBSET SUBSET S
  OBVIOUS
<1>2. ASSUME NEW s \in Bad, \A x \in s : s \ {x} \notin Bad PROVE FALSE
  <2>1. PICK x \in s : TRUE
    OBVIOUS
  <2>2. s \ {x} \in Good
    BY <1>2, <2>1
  <2> QED BY <2>1, <2>2
<1>3. Bad = {}
  <2> HIDE DEF Bad
  <2> QED BY <1>1, <1>2, SmallestSubset
<1> QED BY <1>3

(* Sums of values that are not greater are not greater.                    *)
LEMMA SumMonotone ==
  ASSUME NEW S, IsFiniteSet(S), NEW f, NEW g,
         \A x \in S : f[x] \in Int /\ g[x] \in Int /\ f[x] <= g[x]
  PROVE  SumFunctionOnSet(f, S) <= SumFunctionOnSet(g, S)
<1> DEFINE F(s) == SumFunctionOnSet(f, s)
           G(s) == SumFunctionOnSet(g, s)
           Good == {s \in SUBSET S : F(s) <= G(s)}
<1>1. \A s \in SUBSET S :
        /\ F(s) \in Int /\ G(s) \in Int
        /\ s = {} => F(s) = 0 /\ G(s) = 0
        /\ \A x \in s : F(s) = f[x] + F(s \ {x}) /\ G(s) = g[x] + G(s \ {x})
  <2> TAKE s \in SUBSET S
  <2>1. IsFiniteSet(s) /\ (\A x \in s : f[x] \in Int) /\ (\A x \in s : g[x] \in Int)
    BY FS_Subset
  <2> QED BY <2>1, SumOnSet
<1>2. {} \in Good
  BY <1>1
<1>3. ASSUME NEW s \in SUBSET S, NEW x \in s, s \ {x} \in Good PROVE s \in Good
  <2>1. F(s \ {x}) \in Int /\ G(s \ {x}) \in Int /\ F(s \ {x}) <= G(s \ {x})
    BY <1>1, <1>3
  <2>2. F(s) = f[x] + F(s \ {x}) /\ G(s) = g[x] + G(s \ {x})
    BY <1>1
  <2> HIDE DEF F, G
  <2> QED BY <2>1, <2>2
<1>4. S \in Good
  <2> HIDE DEF Good
  <2>1. Good \in SUBSET SUBSET S
    BY DEF Good
  <2> QED BY <1>2, <1>3, <2>1, SubsetsUp
<1> QED BY <1>4

(* A sum depends on the values at its indices only.                        *)
LEMMA SumSame ==
  ASSUME NEW S, IsFiniteSet(S), NEW f, NEW g, \A x \in S : f[x] \in Int /\ f[x] = g[x]
  PROVE  SumFunctionOnSet(f, S) = SumFunctionOnSet(g, S)
<1>1. /\ SumFunctionOnSet(f, S) <= SumFunctionOnSet(g, S)
      /\ SumFunctionOnSet(g, S) <= SumFunctionOnSet(f, S)
  <2>1. \A x \in S : f[x] \in Int /\ g[x] \in Int /\ f[x] <= g[x] /\ g[x] <= f[x]
    OBVIOUS
  <2> QED BY <2>1, SumMonotone
<1>2. SumFunctionOnSet(f, S) \in Int /\ SumFunctionOnSet(g, S) \in Int
  BY SumOnSet
<1> QED BY <1>1, <1>2

(* Products distribute over a sum.                                         *)
LEMMA Distribute ==
  ASSUME NEW m \in Int, NEW a \in Int, NEW b \in Int
  PROVE  m * (a + b) = m * a + m * b /\ m * (a - b) = m * a - m * b /\ m * a \in Int
  OBVIOUS

(* The sum of c times f[x] is c times the sum.                             *)
LEMMA SumScaled ==
  ASSUME NEW S, IsFiniteSet(S), NEW f, NEW g, NEW c \in Int,
         \A x \in S : f[x] \in Int /\ g[x] = c * f[x]
  PROVE  SumFunctionOnSet(g, S) = c * SumFunctionOnSet(f, S)
<1> DEFINE F(s) == SumFunctionOnSet(f, s)
           G(s) == SumFunctionOnSet(g, s)
           Good == {s \in SUBSET S : G(s) = c * F(s)}
<1>1. \A s \in SUBSET S :
        /\ F(s) \in Int
        /\ s = {} => F(s) = 0 /\ G(s) = 0
        /\ \A x \in s : F(s) = f[x] + F(s \ {x}) /\ G(s) = g[x] + G(s \ {x})
  <2> TAKE s \in SUBSET S
  <2>1. IsFiniteSet(s) /\ (\A x \in s : f[x] \in Int) /\ (\A x \in s : g[x] \in Int)
    BY FS_Subset
  <2> QED BY <2>1, SumOnSet
<1>2. {} \in Good
  <2>1. F({}) = 0 /\ G({}) = 0
    BY <1>1
  <2> HIDE DEF F, G
  <2> QED BY <2>1
<1>3. ASSUME NEW s \in SUBSET S, NEW x \in s, s \ {x} \in Good PROVE s \in Good
  <2>1. F(s \ {x}) \in Int /\ G(s \ {x}) = c * F(s \ {x})
    BY <1>1, <1>3
  <2>2. F(s) = f[x] + F(s \ {x}) /\ G(s) = g[x] + G(s \ {x})
    BY <1>1
  <2>3. f[x] \in Int /\ g[x] = c * f[x]
    OBVIOUS
  <2> HIDE DEF F, G
  <2>4. c * (f[x] + F(s \ {x})) = c * f[x] + c * F(s \ {x})
    BY <2>1, <2>3, Distribute
  <2>5. G(s) = c * F(s)
    BY <2>1, <2>2, <2>3, <2>4
  <2> QED BY <2>5
<1>4. S \in Good
  <2> HIDE DEF Good
  <2>1. Good \in SUBSET SUBSET S
    BY DEF Good
  <2> QED BY <1>2, <1>3, <2>1, SubsetsUp
<1> QED BY <1>4

(* Values that are all 1 sum up to the number of indices.                  *)
LEMMA SumOfOnes ==
  ASSUME NEW S, IsFiniteSet(S), NEW f, \A x \in S : f[x] = 1
  PROVE  SumFunctionOnSet(f, S) = Cardinality(S)
<1> DEFINE F(s) == SumFunctionOnSet(f, s)
           Good == {s \in SUBSET S : F(s) = Cardinality(s)}
<1>1. \A s \in SUBSET S :
        /\ s = {} => F(s) = 0
        /\ \A x \in s : F(s) = 1 + F(s \ {x})
  <2> TAKE s \in SUBSET S
  <2>1. IsFiniteSet(s) /\ (\A x \in s : f[x] \in Int)
    BY FS_Subset
  <2> QED BY <2>1, SumOnSet
<1>2. {} \in Good
  BY <1>1, FS_EmptySet
<1>3. ASSUME NEW s \in SUBSET S, NEW x \in s, s \ {x} \in Good PROVE s \in Good
  <2>1. F(s \ {x}) = Cardinality(s \ {x}) /\ F(s) = 1 + F(s \ {x})
    BY <1>1, <1>3
  <2>2. /\ IsFiniteSet(s) /\ Cardinality(s) \in Nat
        /\ Cardinality(s \ {x}) = Cardinality(s) - 1
    BY FS_Subset, FS_CardinalityType, FS_RemoveElement
  <2> HIDE DEF F
  <2> QED BY <2>1, <2>2
<1>4. S \in Good
  <2> HIDE DEF Good
  <2>1. Good \in SUBSET SUBSET S
    BY DEF Good
  <2> QED BY <1>2, <1>3, <2>1, SubsetsUp
<1> QED BY <1>4

(* A sum of natural numbers is one.                                        *)
LEMMA SumNatural ==
  ASSUME NEW S, IsFiniteSet(S), NEW f, \A x \in S : f[x] \in Nat
  PROVE  SumFunctionOnSet(f, S) \in Nat
<1> DEFINE ones == [x \in S |-> 1]
           none == [x \in S |-> 0]
<1>1. SumFunctionOnSet(ones, S) = Cardinality(S) /\ Cardinality(S) \in Nat
  BY SumOfOnes, FS_CardinalityType
<1>2. SumFunctionOnSet(none, S) = 0 * SumFunctionOnSet(ones, S)
  <2>1. \A x \in S : ones[x] \in Int /\ none[x] = 0 * ones[x]
    OBVIOUS
  <2>2. 0 \in Int
    OBVIOUS
  <2> HIDE DEF ones, none
  <2> QED BY ONLY <2>1, <2>2, IsFiniteSet(S), SumScaled
<1>3. SumFunctionOnSet(none, S) <= SumFunctionOnSet(f, S)
  <2>1. \A x \in S : none[x] \in Int /\ f[x] \in Int /\ none[x] <= f[x]
    OBVIOUS
  <2> HIDE DEF none
  <2> QED BY <2>1, SumMonotone
<1>4. SumFunctionOnSet(f, S) \in Int
  BY SumOnSet
<1> HIDE DEF ones, none
<1> QED BY <1>1, <1>2, <1>3, <1>4

(* A sum of values up to c is at most c times their number.                *)
LEMMA SumBounded ==
  ASSUME NEW S, IsFiniteSet(S), NEW f, NEW c \in Int, \A x \in S : f[x] \in 0..c
  PROVE  /\ SumFunctionOnSet(f, S) \in Nat
         /\ SumFunctionOnSet(f, S) <= c * Cardinality(S)
<1> DEFINE ones == [x \in S |-> 1]
           cs == [x \in S |-> c]
<1>1. SumFunctionOnSet(ones, S) = Cardinality(S) /\ Cardinality(S) \in Nat
  BY SumOfOnes, FS_CardinalityType
<1>2. SumFunctionOnSet(cs, S) = c * SumFunctionOnSet(ones, S)
  <2>1. \A x \in S : ones[x] \in Int /\ cs[x] = c * ones[x]
    OBVIOUS
  <2> HIDE DEF ones, cs
  <2> QED BY <2>1, SumScaled
<1>3. SumFunctionOnSet(f, S) <= SumFunctionOnSet(cs, S)
  <2>1. \A x \in S : f[x] \in Int /\ cs[x] \in Int /\ f[x] <= cs[x]
    OBVIOUS
  <2> HIDE DEF cs
  <2> QED BY <2>1, SumMonotone
<1>4. SumFunctionOnSet(f, S) \in Nat
  BY SumNatural
<1> HIDE DEF ones, cs
<1> QED BY <1>1, <1>2, <1>3, <1>4

(* One value greater by one makes the sum greater by one.                  *)
LEMMA SumRaised ==
  ASSUME NEW S, IsFiniteSet(S), NEW f, NEW g, NEW c \in S,
         \A x \in S : f[x] \in Int /\ g[x] = IF x = c THEN f[x] + 1 ELSE f[x]
  PROVE  SumFunctionOnSet(g, S) = SumFunctionOnSet(f, S) + 1
<1> DEFINE D == S \ {c}
<1>1. /\ SumFunctionOnSet(f, S) = f[c] + SumFunctionOnSet(f, D)
      /\ SumFunctionOnSet(g, S) = g[c] + SumFunctionOnSet(g, D)
  <2>1. \A x \in S : f[x] \in Int /\ g[x] \in Int
    OBVIOUS
  <2> QED BY <2>1, SumOnSet
<1>2. IsFiniteSet(D) /\ \A x \in D : f[x] \in Int /\ f[x] = g[x]
  BY FS_Subset
<1> HIDE DEF D
<1>3. SumFunctionOnSet(f, D) = SumFunctionOnSet(g, D) /\ SumFunctionOnSet(f, D) \in Int
  BY <1>2, SumSame, SumOnSet
<1> QED BY <1>1, <1>3

(* Elements of S counted for each value of f: each is counted once.        *)
LEMMA CountedOnce ==
  ASSUME NEW S, IsFiniteSet(S), NEW L, IsFiniteSet(L), NEW f, \A x \in S : f[x] \in L,
         NEW counts, counts = [l \in L |-> Cardinality({x \in S : f[x] = l})]
  PROVE  SumFunction(counts) = Cardinality(S)
<1> DEFINE Counts(s) == [l \in L |-> Cardinality({x \in s : f[x] = l})]
           Good == {s \in SUBSET S : SumFunctionOnSet(Counts(s), L) = Cardinality(s)}
<1>1. \A s \in SUBSET S : \A l \in L :
        IsFiniteSet({x \in s : f[x] = l}) /\ Counts(s)[l] \in Nat
  <2> TAKE s \in SUBSET S
  <2> TAKE l \in L
  <2>1. {x \in s : f[x] = l} \in SUBSET S
    OBVIOUS
  <2>2. IsFiniteSet({x \in s : f[x] = l}) /\ Cardinality({x \in s : f[x] = l}) \in Nat
    BY <2>1, FS_Subset, FS_CardinalityType
  <2> QED BY <2>2
<1>2. {} \in Good
  <2>1. \A l \in L : Counts({})[l] \in 0..0
    <3> TAKE l \in L
    <3>1. {x \in {} : f[x] = l} = {}
      OBVIOUS
    <3>2. Counts({})[l] = Cardinality({})
      BY <3>1
    <3> QED BY <3>2, FS_EmptySet
  <2> DEFINE no == Counts({})
             sum == SumFunctionOnSet(no, L)
  <2>2. sum \in Nat /\ sum <= 0 * Cardinality(L)
    <3> HIDE DEF no
    <3> QED BY <2>1, SumBounded DEF no
  <2>3. Cardinality(L) \in Nat
    BY FS_CardinalityType
  <2>4. sum = 0
    <3> HIDE DEF sum
    <3> QED BY <2>2, <2>3
  <2> QED BY <2>4, FS_EmptySet
<1>3. ASSUME NEW s \in SUBSET S, NEW x \in s, s \ {x} \in Good PROVE s \in Good
  <2> DEFINE r == s \ {x}
             F == Counts(r)
             G == Counts(s)
  <2>1. \A l \in L : F[l] \in Int /\ G[l] = IF l = f[x] THEN F[l] + 1 ELSE F[l]
    <3> TAKE l \in L
    <3>1. F[l] \in Int
      BY <1>1
    <3>2. CASE l = f[x]
      <4> DEFINE T == {y \in s : f[y] = l}
      <4>1. {y \in r : f[y] = l} = T \ {x} /\ x \in T
        BY <3>2
      <4>2. IsFiniteSet(T) /\ Cardinality(T) \in Nat
        BY <1>1, FS_CardinalityType
      <4>3. Cardinality(T \ {x}) = Cardinality(T) - 1
        BY <4>1, <4>2, FS_RemoveElement
      <4>4. F[l] = Cardinality(T \ {x}) /\ G[l] = Cardinality(T)
        BY <4>1
      <4> HIDE DEF T, F, G
      <4> QED BY <3>1, <3>2, <4>2, <4>3, <4>4
    <3>3. CASE l # f[x]
      <4>1. {y \in r : f[y] = l} = {y \in s : f[y] = l}
        BY <3>3
      <4>2. G[l] = F[l]
        BY <4>1
      <4> HIDE DEF F, G
      <4> QED BY <3>1, <3>3, <4>2
    <3> QED BY <3>1, <3>2, <3>3
  <2>2. SumFunctionOnSet(F, L) = Cardinality(r)
    BY <1>3
  <2>3. IsFiniteSet(s) /\ Cardinality(s) \in Nat /\ Cardinality(r) = Cardinality(s) - 1
    BY FS_Subset, FS_CardinalityType, FS_RemoveElement
  <2>4. SumFunctionOnSet(G, L) = SumFunctionOnSet(F, L) + 1
    <3> HIDE DEF F, G
    <3> QED BY <2>1, SumRaised
  <2>5. SumFunctionOnSet(G, L) = Cardinality(s)
    <3> HIDE DEF F, G, r
    <3> QED BY <2>2, <2>3, <2>4
  <2> QED BY <2>5
<1>4. S \in Good
  <2> HIDE DEF Good
  <2>1. Good \in SUBSET SUBSET S
    BY DEF Good
  <2> QED BY <1>2, <1>3, <2>1, SubsetsUp
<1>5. counts = Counts(S) /\ DOMAIN counts = L
  OBVIOUS
<1> HIDE DEF Counts
<1> QED BY <1>4, <1>5 DEF SumFunction
-----------------------------------------------------------------------------
(* Rounding and ranking.                                                   *)

(* Quotient and remainder.                                                 *)
LEMMA Quotient ==
  ASSUME NEW n \in Int, NEW d \in Nat \ {0}
  PROVE  /\ n \div d \in Int /\ n % d \in 0..(d - 1)
         /\ n = d * (n \div d) + (n % d)
<1>1. n \div d \in Int /\ n % d \in 0..(d - 1)
  OBVIOUS
<1>2. n = d * (n \div d) + (n % d)
  <2>1. d \in Nat /\ d > 0
    OBVIOUS
  <2> QED BY <2>1, Z3
<1> QED BY <1>1, <1>2

(* Numbers in an interval.                                                 *)
LEMMA Interval ==
  \A a, b \in Int : /\ IsFiniteSet(a..b)
                    /\ a <= b + 1 => Cardinality(a..b) = b - a + 1
  BY FS_Interval

(* The bins, and the metrics a comparison looks at.                        *)
LEMMA FiveBins == IsFiniteSet(0..4) /\ IsFiniteSet(1..5) /\ Cardinality(1..5) = 5
<1>1. 0 \in Int /\ 4 \in Int /\ 1 \in Int /\ 5 \in Int /\ 1 <= 5 + 1 /\ 5 - 1 + 1 = 5
  OBVIOUS
<1>2. IsFiniteSet(0..4) /\ IsFiniteSet(1..5) /\ Cardinality(1..5) = 5 - 1 + 1
  BY <1>1, Interval, Zenon
<1> QED BY <1>1, <1>2

(* A product grows with its second factor.                                 *)
LEMMA ProductMonotone ==
  ASSUME NEW m \in Nat, NEW a \in Int, NEW b \in Int, a <= b
  PROVE  m * a <= m * b
  OBVIOUS

(* A quotient of n and d is at most c if n is at most c times d.           *)
LEMMA QuotientBounded ==
  ASSUME NEW n \in Nat, NEW d \in Nat \ {0}, NEW c \in Nat, n <= d * c
  PROVE  n \div d \in 0..c
<1> DEFINE q == n \div d
           m == n % d
<1>1. q \in Int /\ m \in 0..(d - 1) /\ n = d * q + m
  BY Quotient
<1> HIDE DEF q, m
<1>2. q <= c
  <2> SUFFICES ASSUME q >= c + 1 PROVE FALSE
    BY <1>1
  <2>1. d * (c + 1) <= d * q
    BY <1>1, ProductMonotone
  <2>2. d * (c + 1) = d * c + d * 1 /\ d * q \in Int /\ d * c \in Int
    BY <1>1, Distribute
  <2> QED BY <1>1, <2>1, <2>2
<1>3. q >= 0
  <2> SUFFICES ASSUME q <= 0 - 1 PROVE FALSE
    BY <1>1
  <2>1. d * q <= d * (0 - 1)
    BY <1>1, ProductMonotone
  <2>2. d * (0 - 1) = 0 - d /\ d * q \in Int
    BY <1>1
  <2> QED BY <1>1, <2>1, <2>2
<1> QED BY <1>1, <1>2, <1>3 DEF q

(* So is the rounded one.                                                  *)
LEMMA RoundBounded ==
  ASSUME NEW n \in Nat, NEW d \in Nat \ {0}, NEW c \in Nat, n <= d * c
  PROVE  Round(n, d) \in 0..c
<1> DEFINE q == n \div d
           m == n % d
<1>1. q \in 0..c /\ m \in 0..(d - 1) /\ n = d * q + m
  <2>1. n \div d \in 0..c
    BY QuotientBounded, Zenon
  <2>2. m \in 0..(d - 1) /\ n = d * q + m
    BY Quotient
  <2> QED BY <2>1, <2>2
<1>2. Round(n, d) \in {q, q + 1} /\ (2 * m < d => Round(n, d) = q)
  BY DEF Round
<1> HIDE DEF q, m
<1>3. q = c => m = 0
  <2> SUFFICES ASSUME q = c PROVE m = 0
    OBVIOUS
  <2>1. d * c \in Int /\ n <= d * c /\ n = d * c + m
    BY <1>1
  <2> QED BY <1>1, <2>1
<1> QED BY <1>1, <1>2, <1>3

(* What is rounded is an integer.                                          *)
LEMMA RoundIsInt ==
  ASSUME NEW n \in Int, NEW d \in Nat \ {0}
  PROVE  Round(n, d) \in Int
  BY Quotient DEF Round

(* Which of two comes before the other is settled, and it is transitive.   *)
LEMMA BeforeOrders ==
  ASSUME NEW items \in SUBSET Int, NEW key, \A i \in items : key[i] \in Int
  PROVE  \A i, j \in items :
           /\ i # j => Before(key, i, j) \/ Before(key, j, i)
           /\ ~(Before(key, i, j) /\ Before(key, j, i))
           /\ \A k \in items : Before(key, i, j) /\ Before(key, j, k) => Before(key, i, k)
  BY DEF Before

(* What comes before another one has fewer before it.                      *)
Rank(key, items, i) == Cardinality({j \in items : Before(key, j, i)})

(* An item that comes before another has fewer items before it.            *)
LEMMA RankOrders ==
  ASSUME NEW items \in SUBSET Int, IsFiniteSet(items), NEW key, \A i \in items : key[i] \in Int
  PROVE  /\ \A i \in items : Rank(key, items, i) \in Nat
         /\ \A i, j \in items : Before(key, i, j) => Rank(key, items, i) < Rank(key, items, j)
<1> DEFINE Ahead(i) == {j \in items : Before(key, j, i)}
<1>1. \A i \in items : IsFiniteSet(Ahead(i)) /\ Cardinality(Ahead(i)) \in Nat
  <2> TAKE i \in items
  <2>1. Ahead(i) \in SUBSET items
    OBVIOUS
  <2> QED BY <2>1, FS_Subset, FS_CardinalityType
<1>2. ASSUME NEW i \in items, NEW j \in items, Before(key, i, j)
      PROVE  Cardinality(Ahead(i)) < Cardinality(Ahead(j))
  <2>1. i \notin Ahead(i) /\ i \in Ahead(j)
    BY <1>2, BeforeOrders
  <2>2. Ahead(i) \in SUBSET (Ahead(j) \ {i})
    BY <1>2, <2>1, BeforeOrders
  <2>3. IsFiniteSet(Ahead(j)) /\ IsFiniteSet(Ahead(i)) /\ Cardinality(Ahead(j)) \in Nat
    BY <1>1
  <2> HIDE DEF Ahead
  <2>4. /\ IsFiniteSet(Ahead(j) \ {i})
        /\ Cardinality(Ahead(j) \ {i}) = Cardinality(Ahead(j)) - 1
    BY <2>1, <2>3, FS_RemoveElement
  <2>5. Cardinality(Ahead(i)) <= Cardinality(Ahead(j) \ {i})
    BY <2>2, <2>4, FS_Subset
  <2> QED BY <1>1, <2>3, <2>4, <2>5
<1> QED BY <1>1, <1>2 DEF Rank

(* At most k are the largest k, and there is one if there is any.          *)
LEMMA LargestBounded ==
  ASSUME NEW items \in SUBSET Int, IsFiniteSet(items), NEW key, \A i \in items : key[i] \in Int,
         NEW k \in Nat
  PROVE  /\ Largest(key, items, k) \in SUBSET items
         /\ IsFiniteSet(Largest(key, items, k))
         /\ Cardinality(Largest(key, items, k)) \in 0..k
         /\ items # {} /\ k # 0 => Largest(key, items, k) # {}
<1> DEFINE L == Largest(key, items, k)
           rank == [i \in L |-> Rank(key, items, i)]
<1>1. L = {i \in items : Rank(key, items, i) < k}
  BY DEF Largest, Rank
<1>2. L \in SUBSET items /\ IsFiniteSet(L) /\ Cardinality(L) \in Nat
  <2>1. L \in SUBSET items
    BY <1>1
  <2> QED BY <2>1, FS_Subset, FS_CardinalityType
<1>r. /\ \A i \in items : Rank(key, items, i) \in Nat
      /\ \A i, j \in items : Before(key, i, j) => Rank(key, items, i) < Rank(key, items, j)
  BY RankOrders
<1>3. Cardinality(L) <= k
  <2> SUFFICES ASSUME k < Cardinality(L) PROVE FALSE
    BY <1>2
  <2>1. IsFiniteSet(0..(k - 1)) /\ Cardinality(0..(k - 1)) = k
    BY Interval
  <2>2. rank \in [L -> 0..(k - 1)]
    <3>1. \A i \in L : Rank(key, items, i) \in Nat /\ Rank(key, items, i) < k
      BY <1>1, <1>r
    <3> HIDE DEF L
    <3>2. \A i \in L : Rank(key, items, i) \in 0..(k - 1)
      BY <3>1
    <3> QED BY <3>2
  <2> HIDE DEF L, rank
  <2>3. PICK x, y \in L : x # y /\ rank[x] = rank[y]
    BY <1>2, <2>1, <2>2, FS_PigeonHole
  <2>4. rank[x] = Rank(key, items, x) /\ rank[y] = Rank(key, items, y)
    BY DEF rank
  <2>5. x \in items /\ y \in items
    BY <1>2
  <2>6. Before(key, x, y) \/ Before(key, y, x)
    BY <2>3, <2>5, BeforeOrders
  <2>7. Rank(key, items, x) = Rank(key, items, y) /\ Rank(key, items, x) \in Nat
    BY <1>r, <2>3, <2>4, <2>5
  <2>8. ASSUME NEW i \in {x, y}, NEW j \in {x, y}, Before(key, i, j) PROVE FALSE
    <3>1. Rank(key, items, i) < Rank(key, items, j)
      BY <1>r, <2>5, <2>8
    <3> QED BY <2>7, <3>1
  <2> QED BY <2>6, <2>8
<1>4. ASSUME items # {}, k # 0 PROVE L # {}
  <2> DEFINE ranks == {Rank(key, items, i) : i \in items}
  <2>1. ranks \in SUBSET Nat /\ ranks # {}
    BY <1>4, <1>r
  <2>2. PICK m \in ranks : \A n \in ranks : m <= n
    BY <2>1, LeastElement
  <2>3. PICK i \in items : m = Rank(key, items, i)
    OBVIOUS
  <2>4. \A j \in items : ~Before(key, j, i)
    <3> TAKE j \in items
    <3>1. m <= Rank(key, items, j) /\ m \in Nat /\ Rank(key, items, j) \in Nat
      BY <1>r, <2>1, <2>2
    <3>2. Before(key, j, i) => Rank(key, items, j) < m
      BY <1>r, <2>3
    <3> QED BY <3>1, <3>2
  <2>5. {j \in items : Before(key, j, i)} = {}
    BY <2>4
  <2>6. Rank(key, items, i) = 0
    BY <2>5, FS_EmptySet DEF Rank
  <2> QED BY <1>1, <1>4, <2>6
<1> QED BY <1>2, <1>3, <1>4
-----------------------------------------------------------------------------
(* The report.                                                             *)
Actions == {"pursue_now", "nurture", "disqualify", "human_review_required"}
ScoreSet ==
  [fit : 0..100, pain : 0..100, timing : 0..100, overall : 0..100, confidence : Int,
   disqualified : BOOLEAN, relevance : Int, topPain : Nat]
ResultSet ==
  [account : Accounts, score : ScoreSet, action : Actions, confidence : Int, contact : {0, 1}]

(* There are finitely many labels.                                         *)
LEMMA LabelsFinite == IsFiniteSet(Labels)
<1>1. IsFiniteSet({}) BY FS_EmptySet
<1>2. IsFiniteSet({} \cup {"pursue_now"}) BY <1>1, FS_AddElement
<1>3. IsFiniteSet(({} \cup {"pursue_now"}) \cup {"nurture"}) BY <1>2, FS_AddElement
<1>4. IsFiniteSet((({} \cup {"pursue_now"}) \cup {"nurture"}) \cup {"disqualify"})
  BY <1>3, FS_AddElement
<1>5. IsFiniteSet(((({} \cup {"pursue_now"}) \cup {"nurture"}) \cup {"disqualify"})
                  \cup {"human_review"})
  BY <1>4, FS_AddElement
<1>6. Labels = (((({} \cup {"pursue_now"}) \cup {"nurture"}) \cup {"disqualify"})
                  \cup {"human_review"})
  BY DEF Labels
<1> QED BY <1>5, <1>6

(* The indices of a sequence of results.                                   *)
LEMMA Indices ==
  ASSUME NEW E, NEW rs \in Seq(E)
  PROVE  /\ DOMAIN rs = 1..Len(rs) /\ Len(rs) \in Nat
         /\ IsFiniteSet(DOMAIN rs) /\ Cardinality(DOMAIN rs) = Len(rs)
         /\ \A s \in SUBSET (DOMAIN rs) : IsFiniteSet(s) /\ Cardinality(s) \in 0..Len(rs)
         /\ \A i \in DOMAIN rs : rs[i] \in E
<1>1. DOMAIN rs = 1..Len(rs) /\ Len(rs) \in Nat
  OBVIOUS
<1>2. IsFiniteSet(1..Len(rs)) /\ Cardinality(1..Len(rs)) = Len(rs)
  BY <1>1, FS_Interval
<1>3. \A s \in SUBSET (1..Len(rs)) : IsFiniteSet(s) /\ Cardinality(s) \in Nat /\ Cardinality(s) <= Len(rs)
  BY <1>2, FS_Subset, FS_CardinalityType
<1>4. \A i \in DOMAIN rs : rs[i] \in E
  OBVIOUS
<1> QED BY <1>1, <1>2, <1>3, <1>4

(* Correct ones are counted once by action, and once by bin.               *)
Thousandths == 0..1000

(* Each result has one label and is in one bin.                            *)
LEMMA CountsAgree ==
  ASSUME NEW rs \in Seq(ResultSet), \A i \in DOMAIN rs : rs[i].confidence \in Thousandths
  PROVE  /\ SumFunction(PerAction(rs)) = Cardinality(Correct(rs))
         /\ SumFunction(BinCorrect(rs)) = Cardinality(Correct(rs))
         /\ SumFunction(BinCounts(rs)) = Len(rs)
<1> DEFINE C == Correct(rs)
           D == DOMAIN rs
           label == [i \in D |-> rs[i].account.label]
           bins == 0..4
           bin == [i \in D |-> Bin(rs[i])]
<1>1. C \in SUBSET D /\ IsFiniteSet(C) /\ IsFiniteSet(D) /\ Cardinality(D) = Len(rs)
  <2>1. C \in SUBSET D
    BY DEF Correct
  <2> QED BY <2>1, Indices
<1>2. \A i \in D : label[i] \in Labels
  <2> TAKE i \in D
  <2>1. rs[i].account \in Accounts
    <3>1. rs[i] \in ResultSet
      BY Indices, Zenon
    <3> QED BY <3>1, Zenon DEF ResultSet
  <2>2. rs[i].account \in Facts
    BY <2>1, EvaluationAssumption DEF EvaluationAssumption
  <2>3. rs[i].account.label \in Labels
    BY <2>2, Zenon DEF Facts
  <2> QED BY <2>3
<1>3. \A i \in D : bin[i] \in bins
  <2> TAKE i \in D
  <2>1. rs[i].confidence \in Thousandths
    OBVIOUS
  <2>2. ASSUME NEW c \in Thousandths PROVE Least(c \div 200, 4) \in 0..4
    BY DEF Least, Thousandths
  <2>3. Bin(rs[i]) = Least(rs[i].confidence \div 200, 4)
    BY DEF Bin
  <2>4. bin[i] = Bin(rs[i])
    OBVIOUS
  <2> HIDE DEF D, bin
  <2> QED BY <2>1, <2>2, <2>3, <2>4
<1>4. IsFiniteSet(bins)
  BY FiveBins
<1>5. PerAction(rs) = [l \in Labels |-> Cardinality({i \in C : label[i] = l})]
  <2>1. \A l \in Labels : C \cap Labelled(rs, {l}) = {i \in C : label[i] = l}
    BY <1>1 DEF Labelled
  <2> QED BY <2>1 DEF PerAction
<1>6. BinCorrect(rs) = [b \in bins |-> Cardinality({i \in C : bin[i] = b})]
  <2>1. \A b \in bins : C \cap Binned(rs, b) = {i \in C : bin[i] = b}
    BY <1>1 DEF Binned
  <2> QED BY <2>1 DEF BinCorrect
<1>7. BinCounts(rs) = [b \in bins |-> Cardinality({i \in D : bin[i] = b})]
  <2>1. \A b \in bins : Binned(rs, b) = {i \in D : bin[i] = b}
    BY DEF Binned
  <2> QED BY <2>1 DEF BinCounts
<1> HIDE DEF C, D, label, bin, bins
<1>8. SumFunction(PerAction(rs)) = Cardinality(C)
  <2>1. \A i \in C : label[i] \in Labels
    BY <1>1, <1>2
  <2> QED BY <1>1, <1>5, <2>1, LabelsFinite, CountedOnce
<1>9. SumFunction(BinCorrect(rs)) = Cardinality(C)
  <2>1. \A i \in C : bin[i] \in bins
    BY <1>1, <1>3
  <2> QED BY <1>1, <1>4, <1>6, <2>1, CountedOnce
<1>10. SumFunction(BinCounts(rs)) = Cardinality(D)
  <2>1. IsFiniteSet(D) /\ \A i \in D : bin[i] \in bins
    BY <1>1, <1>3
  <2> QED BY <1>4, <1>7, <2>1, CountedOnce
<1> QED BY <1>1, <1>8, <1>9, <1>10 DEF C

(* No metric is below zero or above one.                                   *)
LEMMA RateBounded ==
  ASSUME NEW n \in Nat, NEW d \in Nat, n <= d
  PROVE  Rate(n, d) \in Metric
<1>1. CASE d = 0 BY <1>1 DEF Rate, Metric
<1>2. CASE d # 0
  <2>1. 10000 * n \in Nat /\ 10000 * n <= d * 10000 /\ 10000 \in Nat /\ d \in Nat \ {0}
    BY <1>2
  <2> DEFINE whole == 10000
  <2>2. Round(whole * n, d) \in 0..whole
    <3>1. whole * n \in Nat /\ whole * n <= d * whole /\ whole \in Nat /\ d \in Nat \ {0}
      BY <2>1
    <3> HIDE DEF whole
    <3> QED BY <3>1, RoundBounded
  <2>3. Rate(n, d) = Round(whole * n, d)
    BY <1>2 DEF Rate
  <2>4. Metric = 0..whole
    BY DEF Metric
  <2> HIDE DEF whole
  <2> QED BY <2>2, <2>3, <2>4
<1> QED BY <1>1, <1>2

(* Of k accounts, at most k are good.                                      *)
LEMMA PrecisionBounded ==
  ASSUME NEW rs \in Seq(ResultSet), NEW good, NEW k \in Nat \ {0}
  PROVE  PrecisionAtK(rs, good, k) \in Metric
<1> DEFINE priority == [i \in DOMAIN rs |-> rs[i].score.overall]
           T == Largest(priority, DOMAIN rs, k)
           H == Labelled(rs, good) \cap T
<1>1. DOMAIN rs \in SUBSET Int /\ IsFiniteSet(DOMAIN rs)
  BY Indices
<1>2. \A i \in DOMAIN rs : priority[i] \in Int
  <2> TAKE i \in DOMAIN rs
  <2>1. rs[i] \in ResultSet
    BY Indices, Zenon
  <2>2. rs[i].score \in ScoreSet
    BY <2>1, Zenon DEF ResultSet
  <2> DEFINE x == rs[i].score.overall
  <2>3. x \in 0..100
    BY <2>2, Zenon DEF ScoreSet
  <2>4. priority[i] = rs[i].score.overall
    OBVIOUS
  <2> HIDE DEF priority, x
  <2>5. x \in Int
    BY <2>3
  <2> QED BY <2>4, <2>5 DEF x
<1>3. IsFiniteSet(T) /\ Cardinality(T) \in 0..k
  <2> HIDE DEF priority
  <2> QED BY <1>1, <1>2, LargestBounded
<1>4. PrecisionAtK(rs, good, k) = Rate(Cardinality(H), k)
  BY DEF PrecisionAtK
<1>5. H \in SUBSET T
  OBVIOUS
<1> HIDE DEF H, T, priority
<1>6. Cardinality(H) \in Nat /\ Cardinality(H) <= k
  BY <1>3, <1>5, FS_Subset, FS_CardinalityType
<1>7. Rate(Cardinality(H), k) \in Metric
  BY <1>6, RateBounded, Zenon
<1> QED BY <1>4, <1>7

(* None of the five metrics is above one.                                  *)
LEMMA ScalarsBounded ==
  ASSUME NEW rs \in Seq(ResultSet)
  PROVE  \A m \in 1..5 : Scalars(rs)[m] \in Metric
<1>1. Rate(Cardinality(Correct(rs)), Len(rs)) \in Metric
  <2>1. Correct(rs) \in SUBSET (DOMAIN rs)
    BY DEF Correct
  <2>2. Cardinality(Correct(rs)) \in 0..Len(rs) /\ Len(rs) \in Nat
    BY <2>1, Indices
  <2>3. Cardinality(Correct(rs)) \in Nat /\ Cardinality(Correct(rs)) <= Len(rs) /\ Len(rs) \in Nat
    BY <2>2
  <2> QED BY <2>3, RateBounded, Zenon
<1>2. Rate(Cardinality(Found(rs)), Cardinality(Expecting(rs))) \in Metric
  <2>1. Expecting(rs) \in SUBSET (DOMAIN rs) /\ Found(rs) \in SUBSET Expecting(rs)
    BY DEF Expecting, Found
  <2>2. IsFiniteSet(Expecting(rs))
    BY <2>1, Indices
  <2>3. /\ Cardinality(Expecting(rs)) \in Nat /\ Cardinality(Found(rs)) \in Nat
        /\ Cardinality(Found(rs)) <= Cardinality(Expecting(rs))
    BY <2>1, <2>2, FS_Subset, FS_CardinalityType
  <2> QED BY <2>3, RateBounded, Zenon
<1>3. /\ TopAccounts[1] \in Nat \ {0} /\ TopAccounts[2] \in Nat \ {0}
      /\ TopAccounts[3] \in Nat \ {0}
  <2>1. TopAccounts \in Seq(Nat \ {0}) /\ Len(TopAccounts) = 3
    BY EvaluationAssumption DEF EvaluationAssumption
  <2>2. DOMAIN TopAccounts = 1..3 /\ \A i \in DOMAIN TopAccounts : TopAccounts[i] \in Nat \ {0}
    BY <2>1
  <2>3. 1 \in 1..3 /\ 2 \in 1..3 /\ 3 \in 1..3
    OBVIOUS
  <2> QED BY <2>2, <2>3, Zenon
<1>4. \A good : /\ PrecisionAtK(rs, good, TopAccounts[1]) \in Metric
               /\ PrecisionAtK(rs, good, TopAccounts[2]) \in Metric
               /\ PrecisionAtK(rs, good, TopAccounts[3]) \in Metric
  BY <1>3, PrecisionBounded, Zenon
<1>5. ASSUME NEW x1 \in Metric, NEW x2 \in Metric, NEW x3 \in Metric, NEW x4 \in Metric, NEW x5 \in Metric
      PROVE  \A m \in 1..5 : <<x1, x2, x3, x4, x5>>[m] \in Metric
  <2>1. \A m \in 1..5 : m = 1 \/ m = 2 \/ m = 3 \/ m = 4 \/ m = 5
    OBVIOUS
  <2> QED BY <2>1
<1> DEFINE p1 == PrecisionAtK(rs, {"pursue_now"}, TopAccounts[1])
           p2 == PrecisionAtK(rs, {"pursue_now"}, TopAccounts[2])
           p3 == PrecisionAtK(rs, {"pursue_now", "nurture"}, TopAccounts[3])
           r1 == Rate(Cardinality(Correct(rs)), Len(rs))
           r2 == Rate(Cardinality(Found(rs)), Cardinality(Expecting(rs)))
<1>6. p1 \in Metric /\ p2 \in Metric /\ p3 \in Metric
  BY <1>4, Zenon
<1>7. Scalars(rs) = <<r1, p1, p2, p3, r2>>
  BY Zenon DEF Scalars
<1>8. r1 \in Metric /\ r2 \in Metric
  BY <1>1, <1>2, Zenon
<1>9. \A m \in 1..5 : Scalars(rs)[m] \in Metric
  <2> HIDE DEF r1, r2, p1, p2, p3
  <2> QED BY <1>5, <1>6, <1>7, <1>8, Zenon
<1> QED BY <1>9, Zenon

(* Of two reports, at most one improves on the other: more than half of    *)
(* the metrics are not both higher and lower.                              *)
LEMMA OneImproves ==
  ASSUME NEW rs \in Seq(ResultSet), NEW qs \in Seq(ResultSet)
  PROVE  ~(OverallImproved(rs, qs) /\ OverallImproved(qs, rs))
<1> DEFINE up == {m \in 1..5 : Scalars(qs)[m] > Scalars(rs)[m]}
           down == {m \in 1..5 : Scalars(rs)[m] > Scalars(qs)[m]}
<1>1. up \cap down = {}
  <2>1. \A m \in 1..5 : Scalars(rs)[m] \in Metric /\ Scalars(qs)[m] \in Metric
    BY ScalarsBounded, Zenon
  <2>2. \A x, y \in Metric : ~(x > y /\ y > x)
    BY DEF Metric
  <2>3. \A m \in 1..5 : ~(Scalars(rs)[m] > Scalars(qs)[m] /\ Scalars(qs)[m] > Scalars(rs)[m])
    BY <2>1, <2>2, Zenon
  <2> QED BY <2>3, Zenon
<1>2. up \in SUBSET (1..5) /\ down \in SUBSET (1..5) /\ up \cup down \in SUBSET (1..5)
  OBVIOUS
<1>3. OverallImproved(rs, qs) = (2 * Cardinality(up) > 5)
  BY DEF OverallImproved
<1>4. OverallImproved(qs, rs) = (2 * Cardinality(down) > 5)
  BY DEF OverallImproved
<1> HIDE DEF up, down
<1>5. IsFiniteSet(1..5) /\ Cardinality(1..5) = 5
  BY FiveBins
<1>6. /\ IsFiniteSet(up) /\ IsFiniteSet(down) /\ Cardinality(up) \in Nat
      /\ Cardinality(down) \in Nat /\ Cardinality(up \cup down) <= 5
  BY <1>2, <1>5, FS_Subset, FS_CardinalityType
<1>7. Cardinality(up \cup down) = Cardinality(up) + Cardinality(down) - Cardinality(up \cap down)
  BY <1>6, FS_Union
<1>8. Cardinality(up \cap down) = 0
  BY <1>1, FS_EmptySet
<1>9. ~(2 * Cardinality(up) > 5 /\ 2 * Cardinality(down) > 5)
  BY <1>6, <1>7, <1>8
<1> QED BY <1>3, <1>4, <1>9
-----------------------------------------------------------------------------
(* The scores.                                                             *)
LEMMA FactsKnown ==
  ASSUME NEW a \in Accounts
  PROVE  /\ a.industry \in {"target", "unknown", "other"}
         /\ a.geography \in {"target", "unknown", "other"}
         /\ a.employees \in Nat \cup {None} /\ a.revenue \in Nat \cup {None}
         /\ a.customer \in BOOLEAN
         /\ a.signals \in Seq(Words)
         /\ a.dated \in Seq([age : Nat \cup {None}, reliability : 0..10])
         /\ a.answer \in [pain : Int, confidence : Int]
         /\ a.pain \in 0..100 /\ a.timing \in 0..100 /\ a.relevance \in Int /\ a.topPain \in Nat
         /\ a.ranked \in Seq([relevance : Int, expected : BOOLEAN])
<1>1. a \in Facts
  BY EvaluationAssumption DEF EvaluationAssumption
<1> QED BY <1>1, Zenon DEF Facts

(* A quotient of n and d is at least c if n is at least c times d.         *)
LEMMA QuotientAtLeast ==
  ASSUME NEW n \in Int, NEW d \in Nat \ {0}, NEW c \in Int, d * c <= n
  PROVE  c <= n \div d
<1> DEFINE q == n \div d
           m == n % d
<1>1. q \in Int /\ m \in 0..(d - 1) /\ n = d * q + m
  BY Quotient
<1> HIDE DEF q, m
<1>2. c <= q
  <2> SUFFICES ASSUME q + 1 <= c PROVE FALSE
    BY <1>1
  <2>1. d * (q + 1) <= d * c
    BY <1>1, ProductMonotone
  <2>2. d * (q + 1) = d * q + d * 1 /\ d * q \in Int /\ d * c \in Int
    BY <1>1, Distribute
  <2> QED BY <1>1, <2>1, <2>2
<1> QED BY <1>2 DEF q

(* Within a range, the points are 80 to 100.                               *)
LEMMA SweetSpotBounded ==
  ASSUME NEW r \in [min : Nat, max : Nat], r.min <= r.max, NEW c \in Nat, Within(c, r)
  PROVE  SweetSpot(c, r) \in 80..100
<1> DEFINE w == r.max - r.min
           x == Abs(2 * c - r.min - r.max)
           n == 100 * w - 20 * x
<1>1. r.min \in Nat /\ r.max \in Nat
  OBVIOUS
<1>2. CASE w = 0
  BY <1>1, <1>2 DEF SweetSpot
<1>3. CASE w # 0
  <2>1. w \in Nat \ {0} /\ x \in Nat /\ x <= w
    BY <1>1, <1>3 DEF Within, Abs
  <2>2. SweetSpot(c, r) = n \div w
    BY <1>1, <1>3 DEF SweetSpot
  <2> HIDE DEF w, x
  <2>3. n \in Nat /\ n <= w * 100 /\ w * 80 <= n
    BY <2>1
  <2> HIDE DEF n
  <2>4. n \div w \in 0..100 /\ 80 <= n \div w
    BY <2>1, <2>3, QuotientBounded, QuotientAtLeast
  <2> QED BY <2>2, <2>4
<1> QED BY <1>2, <1>3

(* The points for the size of a company are a percentage.                  *)
LEMMA SizeBounded == ASSUME NEW a \in Accounts PROVE ScoreCompanySize(a) \in 0..100
<1> DEFINE e == a.employees
<1>1. /\ Size \in [min : Nat, max : Nat] /\ Size.min \in Nat /\ Size.max \in Nat
      /\ Size.min <= Size.max
  BY ScoringAssumption DEF ScoringAssumption
<1>2. e \in Nat \cup {None} /\ None \notin Nat
  BY FactsKnown DEF None
<1> HIDE DEF e
<1>3. CASE e = None
  <2>1. ScoreCompanySize(a) = 50
    BY <1>1, <1>3 DEF ScoreCompanySize, e, None, Within
  <2> QED BY <2>1
<1>4. CASE e # None /\ Within(e, Size)
  <2>1. ScoreCompanySize(a) = SweetSpot(e, Size)
    BY <1>4, <1>1, <1>2 DEF ScoreCompanySize, Within, e
  <2>2. SweetSpot(e, Size) \in 80..100
    BY <1>1, <1>2, <1>4, SweetSpotBounded
  <2> QED BY <2>1, <2>2
<1>5. CASE e # None /\ e < Size.min
  <2>1. ScoreCompanySize(a) = (40 * e) \div Size.min
    BY <1>5, <1>1, <1>2 DEF ScoreCompanySize, Within, e
  <2>2. 40 * e \in Nat /\ Size.min \in Nat \ {0} /\ 40 * e <= Size.min * 100
    BY <1>1, <1>2, <1>5
  <2>3. (40 * e) \div Size.min \in 0..100
    BY <2>2, QuotientBounded
  <2> QED BY <2>1, <2>3
<1>6. CASE e # None /\ e > Size.max
  <2>1. ScoreCompanySize(a) = (40 * Size.max) \div e
    BY <1>6, <1>1, <1>2 DEF ScoreCompanySize, Within, e
  <2>2. 40 * Size.max \in Nat /\ e \in Nat \ {0} /\ 40 * Size.max <= e * 100
    BY <1>1, <1>2, <1>6
  <2>3. (40 * Size.max) \div e \in 0..100
    BY <2>2, QuotientBounded
  <2> QED BY <2>1, <2>3
<1> QED BY <1>1, <1>2, <1>3, <1>4, <1>5, <1>6 DEF Within

(* So are those for its revenue.                                           *)
LEMMA RevenueBounded == ASSUME NEW a \in Accounts PROVE ScoreRevenue(a) \in 0..100
<1> DEFINE e == a.revenue
<1>1. Revenue \in [min : Nat, max : Nat] /\ Revenue.min <= Revenue.max
  BY ScoringAssumption DEF ScoringAssumption
<1>2. e \in Nat \cup {None} /\ None \notin Nat
  BY FactsKnown DEF None
<1>3. CASE e = None
  <2>1. Revenue.min \in Nat
    BY <1>1
  <2>2. ScoreRevenue(a) = 50
    BY <1>3, <2>1 DEF ScoreRevenue, None, Within
  <2> QED BY <2>2
<1>4. CASE e # None /\ Within(e, Revenue)
  <2>1. ScoreRevenue(a) = SweetSpot(e, Revenue)
    BY <1>4 DEF ScoreRevenue
  <2> HIDE DEF e
  <2>2. SweetSpot(e, Revenue) \in 80..100
    BY <1>1, <1>2, <1>4, SweetSpotBounded
  <2> QED BY <2>1, <2>2
<1>5. CASE e # None /\ ~Within(e, Revenue)
  BY <1>5 DEF ScoreRevenue
<1> QED BY <1>3, <1>4, <1>5

(* And those for its industry and its country.                             *)
LEMMA WordsBounded ==
  ASSUME NEW a \in Accounts PROVE ScoreIndustry(a) \in 0..100 /\ ScoreGeography(a) \in 0..100
<1>1. a.industry \in {"target", "unknown", "other"} /\ a.geography \in {"target", "unknown", "other"}
  BY FactsKnown
<1> QED BY <1>1 DEF ScoreIndustry, ScoreGeography

(* The points after each of the signals.                                   *)
After(s, x) == AfterNegative(s, AfterPositive(s, x))
Points(w, n, score) ==
  score = [m \in 0..n |-> IF m = 0 THEN 50 ELSE After(w[m], score[m - 1])]

(* Some function gives the points after each signal.                       *)
LEMMA PointsExist == ASSUME NEW w, NEW n \in Nat PROVE \E score : Points(w, n, score)
<1> DEFINE Without == {m \in 0..n : ~\E score : Points(w, m, score)}
<1>1. 0 \notin Without
  <2> DEFINE score == [m \in 0..0 |-> 50]
  <2>1. \A m \in 0..0 : m = 0
    OBVIOUS
  <2>2. score = [m \in 0..0 |-> IF m = 0 THEN 50 ELSE After(w[m], score[m - 1])]
    BY <2>1
  <2> QED BY <2>2 DEF Points
<1>2. ASSUME NEW m \in 0..n, m \notin Without PROVE m + 1 \notin Without
  <2>1. PICK f : Points(w, m, f)
    BY <1>2
  <2> DEFINE g == [k \in 0..(m + 1) |-> IF k = 0 THEN 50 ELSE After(w[k], f[k - 1])]
  <2>2. \A k \in 0..m : g[k] = f[k]
    <3>1. \A k \in 0..m : f[k] = IF k = 0 THEN 50 ELSE After(w[k], f[k - 1])
      BY <2>1 DEF Points
    <3>2. \A k \in 0..m : k \in 0..(m + 1)
      OBVIOUS
    <3> QED BY <3>1, <3>2
  <2>3. \A k \in 0..(m + 1) : k # 0 => k - 1 \in 0..m
    OBVIOUS
  <2>4. \A k \in 0..(m + 1) : g[k] = IF k = 0 THEN 50 ELSE After(w[k], g[k - 1])
    <3> HIDE DEF g
    <3>1. \A k \in 0..(m + 1) : k # 0 => g[k - 1] = f[k - 1]
      BY <2>2, <2>3
    <3> QED BY <3>1 DEF g
  <2>5. Points(w, m + 1, g)
    BY <2>4 DEF Points
  <2> QED BY <2>5
<1>3. Without = {}
  <2>1. Without \in SUBSET (0..n)
    OBVIOUS
  <2>2. \A k \in 0..n : k + 1 \in Without => k \in Without
    BY <1>2
  <2> HIDE DEF Without
  <2> QED BY <1>1, <2>1, <2>2, Steps
<1>4. n \in 0..n /\ n \notin Without
  BY <1>3
<1> QED BY <1>4

(* The score is what the points come to.                                   *)
LEMMA MetadataIsLast ==
  ASSUME NEW a, Len(a.signals) \in Nat
  PROVE  \E score : /\ Points(a.signals, Len(a.signals), score)
                    /\ ScoreMetadataSignals(a) = score[Len(a.signals)]
<1> DEFINE it == CHOOSE score : Points(a.signals, Len(a.signals), score)
<1>1. Points(a.signals, Len(a.signals), it)
  BY PointsExist
<1>2. ScoreMetadataSignals(a) = it[Len(a.signals)]
  BY Zenon DEF ScoreMetadataSignals, Points, After
<1> QED BY <1>1, <1>2

(* A signal leaves percentages.                                            *)
LEMMA AfterBounded == ASSUME NEW s, NEW x \in 0..100 PROVE After(s, x) \in 0..100
  BY DEF After, AfterNegative, AfterPositive, Least

(* The points are a percentage after each signal.                          *)
LEMMA PointsBounded ==
  ASSUME NEW w, NEW n \in Nat, NEW score, Points(w, n, score)
  PROVE  \A m \in 0..n : score[m] \in 0..100
<1> DEFINE Bad == {m \in 0..n : score[m] \notin 0..100}
<1>1. \A m \in 0..n : score[m] = IF m = 0 THEN 50 ELSE After(w[m], score[m - 1])
  BY DEF Points
<1>2. 0 \notin Bad
  BY <1>1
<1>3. ASSUME NEW m \in 0..n, m + 1 \in Bad PROVE m \in Bad
  <2>1. m + 1 \in 0..n /\ m + 1 # 0 /\ (m + 1) - 1 = m
    BY <1>3
  <2>2. score[m + 1] = After(w[m + 1], score[m])
    BY <1>1, <2>1
  <2>3. score[m] \in 0..100 => score[m + 1] \in 0..100
    BY <2>2, AfterBounded
  <2> QED BY <1>3, <2>3
<1>4. Bad = {}
  <2>1. Bad \in SUBSET (0..n)
    OBVIOUS
  <2> HIDE DEF Bad
  <2> QED BY <1>2, <1>3, <2>1, Steps
<1> QED BY <1>4

(* So is the score of the metadata.                                        *)
LEMMA MetadataBounded == ASSUME NEW a \in Accounts PROVE ScoreMetadataSignals(a) \in 0..100
<1>1. Len(a.signals) \in Nat
  BY FactsKnown
<1>2. PICK score : /\ Points(a.signals, Len(a.signals), score)
                   /\ ScoreMetadataSignals(a) = score[Len(a.signals)]
  BY <1>1, MetadataIsLast
<1>3. Len(a.signals) \in 0..Len(a.signals)
  BY <1>1
<1> QED BY <1>1, <1>2, <1>3, PointsBounded

(* The weights add up to one: the fit is a percentage.                     *)
LEMMA FitBounded == ASSUME NEW a \in Accounts PROVE IcpFit(a) \in 0..100
<1> DEFINE i == ScoreIndustry(a)
           c == ScoreCompanySize(a)
           r == ScoreRevenue(a)
           g == ScoreGeography(a)
           m == ScoreMetadataSignals(a)
           p == 15 * i + 10 * c + 10 * r + 5 * g + 35 * m + 25 * 50
<1>1. p \in Nat /\ p <= 100 * 100
  <2>1. i \in 0..100 /\ c \in 0..100 /\ r \in 0..100 /\ g \in 0..100 /\ m \in 0..100
    BY WordsBounded, SizeBounded, RevenueBounded, MetadataBounded
  <2> HIDE DEF i, c, r, g, m
  <2> QED BY <2>1
<1>2. IcpFit(a) = 0 \/ IcpFit(a) = Round(p, 100)
  BY DEF IcpFit
<1> HIDE DEF p
<1>3. Round(p, 100) \in 0..100
  <2>1. 100 \in Nat \ {0} /\ 100 \in Nat
    OBVIOUS
  <2> QED BY <1>1, <2>1, RoundBounded, Zenon
<1> QED BY <1>2, <1>3
-----------------------------------------------------------------------------
(* How fresh a signal is, and what it weighs.                              *)
Signal == [age : Nat \cup {None}, reliability : 0..10]

(* The bounds of the decay are ordered, and None is no age.                *)
LEMMA Dates ==
  /\ Fresh \in Nat /\ Stale \in Nat /\ Expired \in Nat /\ Fresh < Stale /\ Stale < Expired
  /\ None \in Int /\ None < 0
  /\ TopSignals \in Nat /\ TopSignals # 0
<1>1. None \in Int /\ None < 0
  BY DEF None
<1>2. {Fresh, Stale, Expired} \subseteq Nat /\ Fresh < Stale /\ Stale < Expired
  BY ScoringAssumption DEF ScoringAssumption
<1>3. TopSignals \in Nat /\ TopSignals # 0
  BY ScoringAssumption DEF ScoringAssumption
<1> QED BY <1>1, <1>2, <1>3

(* A product of positive numbers is positive.                              *)
LEMMA Positive == ASSUME NEW x \in Nat \ {0}, NEW y \in Nat \ {0} PROVE x * y \in Nat \ {0}
  OBVIOUS

(* The unit of recency is positive.                                        *)
LEMMA UnitPositive == Unit \in Nat \ {0}
<1>1. 10 * (Stale - Fresh) \in Nat \ {0} /\ Expired - Stale \in Nat \ {0}
  BY Dates
<1> QED BY <1>1, Positive DEF Unit

(* A recency is between none and one.                                      *)
LEMMA RecencyBounded == ASSUME NEW s \in Signal PROVE Recency(s) \in 0..Unit
<1> DEFINE e == s.age
           U == Unit
<1>1. e \in Nat \cup {None}
  BY DEF Signal
<1>2. U \in Nat \ {0}
  BY UnitPositive
<1> HIDE DEF U, e
<1>3. CASE e = None
  <2>1. Recency(s) = (3 * U) \div 10
    BY <1>3, Dates DEF Recency, e, U
  <2>2. (3 * U) \div 10 \in 0..U
    BY <1>2
  <2> QED BY <2>1, <2>2 DEF U
<1>4. CASE e # None /\ e <= Fresh
  <2>1. Recency(s) = U
    BY <1>1, <1>4, Dates DEF Recency, e, U
  <2> QED BY <1>2, <2>1 DEF U
<1>5. CASE e # None /\ Fresh < e /\ e <= Stale
  <2> DEFINE part == (7 * U * (Stale - e)) \div (Stale - Fresh)
  <2>1. Recency(s) = (3 * U + part) \div 10
    BY <1>1, <1>5, Dates DEF Recency, e, U
  <2>2. part \in 0..(7 * U)
    <3>1. 7 * U \in Nat /\ Stale - e \in Nat /\ Stale - Fresh \in Nat \ {0} /\ Stale - e <= Stale - Fresh
      BY <1>1, <1>2, <1>5, Dates
    <3> DEFINE V == 7 * U
               x == Stale - e
               d == Stale - Fresh
    <3> HIDE DEF V, x, d
    <3>2. V * x \in Nat /\ V * x <= V * d /\ V * d = d * V
      BY <3>1, ProductMonotone DEF V, x, d
    <3>3. (V * x) \div d \in 0..V
      BY <3>1, <3>2, QuotientBounded DEF V, d
    <3> QED BY <3>3 DEF V, x, d
  <2> HIDE DEF part
  <2>3. (3 * U + part) \div 10 \in 0..U
    BY <1>2, <2>2
  <2> QED BY <2>1, <2>3 DEF U
<1>6. CASE e # None /\ Stale < e /\ e <= Expired
  <2> DEFINE d == 10 * (Expired - Stale)
             x == Expired - e
  <2>1. Recency(s) = (3 * U * x) \div d
    BY <1>1, <1>6, Dates DEF Recency, e, U
  <2>2. d \in Nat \ {0} /\ x \in Nat /\ 3 * x <= d
    BY <1>1, <1>6, Dates
  <2> HIDE DEF d, x
  <2>3. U * (3 * x) \in Nat /\ U * (3 * x) <= U * d /\ U * d = d * U /\ 3 * U * x = U * (3 * x)
    BY <1>2, <2>2, ProductMonotone
  <2>4. (3 * U * x) \div d \in 0..U
    BY <1>2, <2>2, <2>3, QuotientBounded
  <2> QED BY <2>1, <2>4 DEF U
<1>7. CASE e # None /\ e > Expired
  <2>1. Recency(s) = 0
    BY <1>1, <1>7, Dates DEF Recency, e
  <2> QED BY <1>2, <2>1 DEF U
<1> QED BY <1>1, <1>3, <1>4, <1>5, <1>6, <1>7, Dates

(* What is not expired has a weight.                                       *)
LEMMA WeightPositive ==
  ASSUME NEW s \in Signal
  PROVE  Weight(s) \in Nat /\ (Recency(s) > 0 => Weight(s) > 0)
<1> DEFINE w == IF s.reliability < 3 THEN 3 ELSE s.reliability
           r == Recency(s)
<1>1. s.reliability \in 0..10
  BY DEF Signal
<1>2. w \in Nat \ {0}
  BY <1>1
<1>3. r \in Nat
  BY RecencyBounded, UnitPositive
<1>4. Weight(s) = r * w
  BY DEF Weight
<1> HIDE DEF w, r
<1>5. r * w \in Nat
  BY <1>2, <1>3
<1>6. r > 0 => r * w > 0
  BY <1>2, <1>3, Positive
<1> QED BY <1>4, <1>5, <1>6 DEF r

(* The signals that count, if any is not expired.                          *)
LEMMA TopCounts ==
  ASSUME NEW signals \in Seq(Signal)
  PROVE  /\ Top(signals) \in SUBSET Scored(signals) /\ Scored(signals) \in SUBSET DOMAIN signals
         /\ IsFiniteSet(Top(signals)) /\ Cardinality(Top(signals)) \in Nat
         /\ IsFiniteSet(Scored(signals)) /\ Cardinality(Scored(signals)) \in Nat
         /\ \A i \in DOMAIN signals : /\ signals[i] \in Signal
                                      /\ Weights(signals)[i] = Weight(signals[i])
                                      /\ Weights(signals)[i] \in Nat
         /\ \A i \in Top(signals) : Weights(signals)[i] > 0
         /\ Scored(signals) # {} =>
              /\ Top(signals) # {}
              /\ SumFunctionOnSet(Weights(signals), Top(signals)) \in Nat \ {0}
<1> DEFINE S == Scored(signals)
           T == Top(signals)
           W == Weights(signals)
<1>1. S \in SUBSET DOMAIN signals /\ DOMAIN signals \in SUBSET Int
  BY Indices DEF Scored
<1>2. IsFiniteSet(S) /\ Cardinality(S) \in Nat
  BY <1>1, Indices
<1>3. \A i \in DOMAIN signals : signals[i] \in Signal
  BY Indices
<1>4. \A i \in DOMAIN signals : W[i] = Weight(signals[i]) /\ W[i] \in Nat
  BY <1>3, WeightPositive DEF Weights
<1>5. \A i \in S : W[i] > 0
  BY <1>1, <1>3, <1>4, WeightPositive DEF Scored
<1>6. /\ T \in SUBSET S /\ IsFiniteSet(T) /\ Cardinality(T) \in Nat
      /\ S # {} => T # {}
  <2>1. S \in SUBSET Int /\ \A i \in S : W[i] \in Int
    BY <1>1, <1>4
  <2>2. T = Largest(W, S, TopSignals)
    BY DEF Top
  <2>3. TopSignals \in Nat /\ TopSignals # 0
    BY Dates
  <2> HIDE DEF S, T, W
  <2>4. /\ T \in SUBSET S /\ IsFiniteSet(T) /\ (S # {} => T # {})
    BY <1>2, <2>1, <2>2, <2>3, LargestBounded
  <2> QED BY <2>4, FS_CardinalityType
<1>7. ASSUME S # {} PROVE SumFunctionOnSet(W, T) \in Nat \ {0}
  <2> HIDE DEF S, T, W
  <2>1. PICK i \in T : TRUE
    BY <1>6, <1>7
  <2>2. \A j \in T : W[j] \in Nat
    BY <1>1, <1>4, <1>6
  <2>3. SumFunctionOnSet(W, T) = W[i] + SumFunctionOnSet(W, T \ {i})
    <3>1. \A j \in T : W[j] \in Int
      BY <2>2
    <3> QED BY <1>6, <3>1, SumOnSet
  <2>4. SumFunctionOnSet(W, T \ {i}) \in Nat
    <3> DEFINE R == T \ {i}
    <3>1. IsFiniteSet(R) /\ \A j \in R : W[j] \in Nat
      BY <1>6, <2>2, FS_Subset
    <3> HIDE DEF R
    <3>2. SumFunctionOnSet(W, R) \in Nat
      BY <3>1, SumNatural
    <3> QED BY <3>2 DEF R
  <2>5. W[i] \in Nat /\ W[i] > 0
    BY <1>5, <1>6, <2>1, <2>2
  <2> QED BY <2>3, <2>4, <2>5
<1> QED BY <1>1, <1>2, <1>3, <1>4, <1>5, <1>6, <1>7

(* The timing score is a percentage.                                       *)
LEMMA TimingBounded ==
  ASSUME NEW signals \in Seq(Signal) PROVE TimingScore(signals) \in 0..100
<1> DEFINE T == Top(signals)
           total == Unit * SumFunctionOnSet(Weights(signals), T)
           f == [i \in DOMAIN signals |-> Weight(signals[i]) * Recency(signals[i])]
           sum == SumFunctionOnSet(f, T)
           k == Least(15, 3 * Cardinality(Scored(signals)))
           x == Round(80 * sum + 20 * total, total)
<1>1. CASE signals = <<>>
  <2>1. Scored(signals) = {}
    BY <1>1 DEF Scored
  <2> QED BY <1>1, <2>1 DEF TimingScore
<1>2. CASE signals # <<>> /\ Scored(signals) = {}
  BY <1>2 DEF TimingScore
<1>3. CASE Scored(signals) # {}
  <2>0. signals # <<>>
    BY <1>3 DEF Scored
  <2>1. total \in Nat \ {0}
    BY <1>3, TopCounts, UnitPositive, Positive
  <2>2. sum \in Nat
    <3>1. \A i \in T : signals[i] \in Signal /\ i \in DOMAIN signals
      BY TopCounts
    <3>2. \A i \in T : f[i] \in Nat
      <4> TAKE i \in T
      <4>1. Weight(signals[i]) \in Nat /\ Recency(signals[i]) \in Nat
        BY <3>1, WeightPositive, RecencyBounded, UnitPositive
      <4>2. \A u, v \in Nat : u * v \in Nat
        OBVIOUS
      <4> QED BY <3>1, <4>1, <4>2
    <3>3. IsFiniteSet(T)
      BY TopCounts
    <3> HIDE DEF f, T
    <3> QED BY <3>2, <3>3, SumNatural
  <2>3. TimingScore(signals) = Least(100, x + k)
    BY <1>3, <2>0 DEF TimingScore
  <2>4. k \in Nat
    <3>1. Cardinality(Scored(signals)) \in Nat
      BY TopCounts
    <3> QED BY <3>1 DEF Least
  <2> HIDE DEF total, sum, k
  <2>5. x \in Nat
    <3> DEFINE n == 80 * sum + 20 * total
    <3>1. n \in Nat /\ n <= total * n
      <4>1. n \in Nat
        BY <2>1, <2>2
      <4> HIDE DEF n
      <4>2. n * 1 <= n * total
        BY <2>1, <4>1, ProductMonotone
      <4> QED BY <2>1, <4>1, <4>2
    <3> HIDE DEF n
    <3>2. Round(n, total) \in 0..n
      BY <2>1, <3>1, RoundBounded
    <3> QED BY <3>1, <3>2 DEF n
  <2> HIDE DEF x
  <2>6. Least(100, x + k) \in 0..100
    BY <2>4, <2>5 DEF Least
  <2> QED BY <2>3, <2>6
<1> QED BY <1>1, <1>2, <1>3

(* The confidences are fractions, and that of the fit is at most 95%.      *)
LEMMA EvidenceFinite ==
  ASSUME NEW a \in Accounts
  PROVE  IsFiniteSet(EvidenceOf(a)) /\ \A e \in EvidenceOf(a) : Confidence(a)[e] \in 0..95
<1> DEFINE D == DOMAIN a.signals
           K == {"industry", "employees", "revenue", "geography", "positive", "negative"}
           I == D \cup {0}
<1>1. IsFiniteSet(D)
  BY FactsKnown, Indices
<1>2. IsFiniteSet(K)
  <2>1. IsFiniteSet({}) BY FS_EmptySet
  <2>2. IsFiniteSet({} \cup {"industry"}) BY <2>1, FS_AddElement
  <2>3. IsFiniteSet(({} \cup {"industry"}) \cup {"employees"}) BY <2>2, FS_AddElement
  <2>4. IsFiniteSet((({} \cup {"industry"}) \cup {"employees"}) \cup {"revenue"})
    BY <2>3, FS_AddElement
  <2>5. IsFiniteSet(((({} \cup {"industry"}) \cup {"employees"}) \cup {"revenue"})
                    \cup {"geography"})
    BY <2>4, FS_AddElement
  <2>6. IsFiniteSet((((({} \cup {"industry"}) \cup {"employees"}) \cup {"revenue"})
                    \cup {"geography"}) \cup {"positive"})
    BY <2>5, FS_AddElement
  <2>7. IsFiniteSet(((((({} \cup {"industry"}) \cup {"employees"}) \cup {"revenue"})
                    \cup {"geography"}) \cup {"positive"}) \cup {"negative"})
    BY <2>6, FS_AddElement
  <2>8. K = ((((({} \cup {"industry"}) \cup {"employees"}) \cup {"revenue"})
                    \cup {"geography"}) \cup {"positive"}) \cup {"negative"}
    OBVIOUS
  <2> QED BY <2>7, <2>8
<1>3. IsFiniteSet(I)
  BY <1>1, FS_AddElement
<1>4. EvidenceOf(a) \in SUBSET (K \X I)
  BY DEF EvidenceOf
<1>5. IsFiniteSet(EvidenceOf(a))
  <2> HIDE DEF K, I
  <2>1. IsFiniteSet(K \X I)
    BY <1>2, <1>3, FS_Product
  <2> QED BY <1>4, <2>1, FS_Subset
<1>6. ASSUME NEW e \in EvidenceOf(a) PROVE Confidence(a)[e] \in 0..95
  <2>1. e[1] \in K
    BY <1>4
  <2> QED BY <2>1 DEF Confidence
<1> QED BY <1>5, <1>6

(* The confidence of the fit is a fraction of at most 95%.                 *)
LEMMA IcpConfidenceIs ==
  ASSUME NEW a \in Accounts
  PROVE  /\ IcpConfidence(a).n \in Nat /\ IcpConfidence(a).d \in Nat \ {0}
         /\ IcpConfidence(a).n <= 95 * IcpConfidence(a).d
<1>1. CASE CheckDisqualify(a) \/ EvidenceOf(a) = {}
  BY <1>1 DEF IcpConfidence
<1>2. CASE ~CheckDisqualify(a) /\ EvidenceOf(a) # {}
  <2> DEFINE f == Confidence(a)
             S == EvidenceOf(a)
  <2>1. DOMAIN f = S
    BY DEF Confidence
  <2>2. IcpConfidence(a) = [n |-> SumFunctionOnSet(f, S), d |-> Cardinality(S)]
    BY <1>2, <2>1 DEF IcpConfidence, SumFunction
  <2>3. IsFiniteSet(S) /\ S # {} /\ \A e \in S : f[e] \in 0..95
    BY <1>2, EvidenceFinite
  <2> HIDE DEF f, S
  <2>4. Cardinality(S) \in Nat \ {0}
    BY <2>3, FS_CardinalityType, FS_EmptySet
  <2>5. 95 \in Int
    OBVIOUS
  <2>6. SumFunctionOnSet(f, S) \in Nat /\ SumFunctionOnSet(f, S) <= 95 * Cardinality(S)
    BY <2>3, <2>5, SumBounded, Zenon
  <2> QED BY <2>2, <2>4, <2>6
<1> QED BY <1>1, <1>2

(* That of the timing is a fraction.                                       *)
LEMMA TimingConfidenceIs ==
  ASSUME NEW signals \in Seq(Signal)
  PROVE  TimingConfidence(signals).n \in Int /\ TimingConfidence(signals).d \in Nat \ {0}
<1>1. CASE Scored(signals) = {}
  BY <1>1 DEF TimingConfidence
<1>2. CASE Scored(signals) # {}
  <2> DEFINE T == Top(signals)
             c == Cardinality(Scored(signals))
             d == Cardinality(T)
             f == [i \in DOMAIN signals |-> signals[i].reliability]
             sum == SumFunctionOnSet(f, T)
             n == d * (30 + 10 * c) + 3 * sum
  <2>1. TimingConfidence(signals) = [n |-> Least(100 * d, n), d |-> d]
    BY <1>2 DEF TimingConfidence
  <2>2. c \in Nat /\ d \in Nat
    BY TopCounts
  <2>3. d # 0
    BY <1>2, TopCounts, FS_EmptySet
  <2>4. sum \in Int
    <3>1. \A i \in T : f[i] \in Int
      <4> TAKE i \in T
      <4>1. i \in DOMAIN signals /\ signals[i] \in Signal
        BY TopCounts
      <4>2. signals[i].reliability \in 0..10
        BY <4>1 DEF Signal
      <4> QED BY <4>1, <4>2
    <3>2. IsFiniteSet(T)
      BY TopCounts
    <3> HIDE DEF f, T
    <3> QED BY <3>1, <3>2, SumOnSet
  <2> HIDE DEF c, d, sum
  <2>5. n \in Int
    BY <2>2, <2>4
  <2> HIDE DEF n
  <2>6. Least(100 * d, n) \in Int
    BY <2>2, <2>5 DEF Least
  <2> QED BY <2>1, <2>2, <2>3, <2>6
<1> QED BY <1>1, <1>2
-----------------------------------------------------------------------------
(* What is found for an account, and what the results consist of.          *)
Outcome(a, s) ==
  [account |-> a, score |-> s, action |-> RecommendAction(s),
   confidence |-> ActionConfidence(s), contact |-> ContactPrecision(a)]

Outcomes ==
  IF via = "graph" THEN {Outcome(a, IcpScorer(a, p, c)) : a \in Accounts, p \in Int, c \in Int}
  ELSE {Outcome(a, EvaluatedScore(a)) : a \in Accounts}

EvaluationInv == via \in {"graph", "evaluation"} /\ results \in Seq(Outcomes)

(* Either an account is disqualified, or it is not.                        *)
LEMMA Disqualified == ASSUME NEW a PROVE CheckDisqualify(a) \in BOOLEAN
  BY DEF CheckDisqualify

(* Scores are of their type.                                               *)
LEMMA ScoresTyped ==
  ASSUME NEW a \in Accounts, NEW f \in 0..100, NEW p \in 0..100, NEW t \in 0..100,
         NEW o \in 0..100, NEW c \in Int
  PROVE  Scores(a, f, p, t, o, c) \in ScoreSet
<1> DEFINE P == 0..100
<1>1. a.relevance \in Int /\ a.topPain \in Nat /\ CheckDisqualify(a) \in BOOLEAN
  BY FactsKnown, Disqualified
<1>2. f \in P /\ p \in P /\ t \in P /\ o \in P
  OBVIOUS
<1>3. ScoreSet = [fit : P, pain : P, timing : P, overall : P, confidence : Int,
                  disqualified : BOOLEAN, relevance : Int, topPain : Nat]
  BY DEF ScoreSet
<1> HIDE DEF P
<1> QED BY <1>1, <1>2, <1>3 DEF Scores

(* What icp_scorer finds is, whatever the model answers.                   *)
LEMMA IcpScorerTyped ==
  ASSUME NEW a \in Accounts, NEW answer \in Int, NEW painConfidence \in Int
  PROVE  IcpScorer(a, answer, painConfidence) \in ScoreSet
<1> DEFINE fit == IcpFit(a)
           pain == Clip(answer)
           timing == TimingScore(a.dated)
           icp == IcpConfidence(a)
           when == TimingConfidence(a.dated)
           n == 35 * icp.n * when.d + 35 * painConfidence * icp.d * when.d + 30 * when.n * icp.d
           d == 10 * icp.d * when.d
           o == 35 * fit + 35 * pain + 30 * timing
<1>1. a.dated \in Seq(Signal)
  BY FactsKnown, Zenon DEF Signal
<1>2. fit \in 0..100 /\ pain \in 0..100 /\ timing \in 0..100
  <2>1. pain \in 0..100
    BY DEF Clip, Least
  <2> QED BY <1>1, <2>1, FitBounded, TimingBounded
<1>3. icp.n \in Int /\ icp.d \in Nat \ {0} /\ when.n \in Int /\ when.d \in Nat \ {0}
  BY <1>1, IcpConfidenceIs, TimingConfidenceIs
<1>4. n \in Int
  <2> HIDE DEF icp, when
  <2>1. \A u, v \in Int : u * v \in Int
    OBVIOUS
  <2>2. 35 * icp.n * when.d \in Int /\ 35 * painConfidence * icp.d * when.d \in Int
    BY <1>3, <2>1
  <2>3. 30 * when.n * icp.d \in Int
    BY <1>3, <2>1
  <2> QED BY <2>2, <2>3
<1>5. d \in Nat \ {0}
  <2> HIDE DEF icp, when
  <2>1. 10 * icp.d \in Nat \ {0}
    BY <1>3
  <2> QED BY <1>3, <2>1, Positive
<1>6. Round(n, d) \in Int
  <2> HIDE DEF n, d
  <2> QED BY <1>4, <1>5, RoundIsInt
<1>7. Round(o, 100) \in 0..100
  <2> HIDE DEF fit, pain, timing
  <2>1. o \in Nat /\ o <= 100 * 100 /\ 100 \in Nat \ {0} /\ 100 \in Nat
    BY <1>2
  <2> HIDE DEF o
  <2> QED BY <2>1, RoundBounded, Zenon
<1>8. IcpScorer(a, answer, painConfidence) =
        IF CheckDisqualify(a) THEN Scores(a, 0, 0, 0, 0, 950)
        ELSE Scores(a, fit, pain, timing, Round(o, 100), Round(n, d))
  BY Zenon DEF IcpScorer
<1>9. Scores(a, 0, 0, 0, 0, 950) \in ScoreSet
  <2> DEFINE c == 950
             z == 0
  <2>1. z \in 0..100 /\ c \in Int
    OBVIOUS
  <2> HIDE DEF c, z
  <2>2. Scores(a, z, z, z, z, c) \in ScoreSet
    BY <2>1, ScoresTyped
  <2> QED BY <2>2 DEF c, z
<1>10. Scores(a, fit, pain, timing, Round(o, 100), Round(n, d)) \in ScoreSet
  <2> HIDE DEF fit, pain, timing, o, n, d
  <2> QED BY <1>2, <1>6, <1>7, ScoresTyped
<1> HIDE DEF fit, pain, timing, o, n, d
<1> QED BY <1>8, <1>9, <1>10

(* What run_evaluation finds is, and its confidence is at most one.        *)
LEMMA EvaluatedScoreTyped ==
  ASSUME NEW a \in Accounts
  PROVE  EvaluatedScore(a) \in ScoreSet /\ EvaluatedScore(a).confidence \in Thousandths
<1> DEFINE fit == IcpFit(a)
           icp == IcpConfidence(a)
           o == (35 * fit + 30 * a.pain + 35 * a.timing) \div 100
           c == (10 * icp.n) \div icp.d
<1>1. fit \in 0..100 /\ a.pain \in 0..100 /\ a.timing \in 0..100
  BY FitBounded, FactsKnown
<1>2. o \in 0..100
  <2> DEFINE p == a.pain
             t == a.timing
  <2> HIDE DEF fit, p, t
  <2>1. \A x, y, z \in 0..100 : (35 * x + 30 * y + 35 * z) \div 100 \in 0..100
    OBVIOUS
  <2> QED BY <1>1, <2>1
<1>3. c \in Thousandths
  <2>1. icp.n \in Nat /\ icp.d \in Nat \ {0} /\ icp.n <= 95 * icp.d
    BY IcpConfidenceIs
  <2> HIDE DEF icp
  <2> DEFINE n == 10 * icp.n
             k == 1000
  <2>2. n \in Nat /\ k \in Nat /\ n <= icp.d * k
    BY <2>1
  <2> HIDE DEF n, k
  <2>3. n \div icp.d \in 0..k
    BY <2>1, <2>2, QuotientBounded
  <2> QED BY <2>3 DEF Thousandths, n, k
<1>4. EvaluatedScore(a) = Scores(a, fit, a.pain, a.timing, o, c)
  BY DEF EvaluatedScore
<1>5. c \in Int
  BY <1>3 DEF Thousandths
<1> HIDE DEF fit, o, c
<1>6. EvaluatedScore(a) \in ScoreSet
  <2> DEFINE p == a.pain
             t == a.timing
  <2>1. p \in 0..100 /\ t \in 0..100 /\ EvaluatedScore(a) = Scores(a, fit, p, t, o, c)
    BY <1>1, <1>4
  <2> HIDE DEF p, t
  <2>2. Scores(a, fit, p, t, o, c) \in ScoreSet
    BY <1>1, <1>2, <1>5, <2>1, ScoresTyped
  <2> QED BY <2>1, <2>2
<1>7. EvaluatedScore(a).confidence = c
  BY <1>4 DEF Scores
<1> QED BY <1>3, <1>6, <1>7

(* A recommendation is an action, no surer than its scores.                *)
LEMMA OutcomeTyped ==
  ASSUME NEW a \in Accounts, NEW s \in ScoreSet
  PROVE  /\ Outcome(a, s) \in ResultSet
         /\ s.confidence \in Thousandths => Outcome(a, s).confidence \in Thousandths
<1>1. RecommendAction(s) \in Actions
  BY DEF RecommendAction, Actions
<1>2. ContactPrecision(a) \in {0, 1}
  BY DEF ContactPrecision
<1> DEFINE c == s.confidence
           p == s.topPain
<1>3. c \in Int /\ p \in Nat /\ s.disqualified \in BOOLEAN
  BY Zenon DEF ScoreSet
<1>4. ActionConfidence(s) \in {950, Least(c, p), (8 * c) \div 10, (7 * c) \div 10, c}
  BY DEF ActionConfidence
<1> HIDE DEF c, p
<1>5. ActionConfidence(s) \in Int
  <2>1. Least(c, p) \in Int
    BY <1>3 DEF Least
  <2>2. (8 * c) \div 10 \in Int /\ (7 * c) \div 10 \in Int
    BY <1>3
  <2> QED BY <1>3, <1>4, <2>1, <2>2
<1>6. c \in Thousandths => ActionConfidence(s) \in Thousandths
  <2> SUFFICES ASSUME c \in Thousandths PROVE ActionConfidence(s) \in Thousandths
    OBVIOUS
  <2>1. Least(c, p) \in Thousandths
    BY <1>3 DEF Least, Thousandths
  <2>2. (8 * c) \div 10 \in Thousandths /\ (7 * c) \div 10 \in Thousandths
    BY DEF Thousandths
  <2>3. 950 \in Thousandths
    BY DEF Thousandths
  <2> QED BY <1>4, <2>1, <2>2, <2>3
<1>7. Outcome(a, s) \in ResultSet
  BY <1>1, <1>2, <1>5 DEF Outcome, ResultSet
<1> QED BY <1>6, <1>7 DEF Outcome, c

(* So the results are of their type.                                       *)
LEMMA OutcomesTyped ==
  ASSUME EvaluationInv
  PROVE  /\ results \in Seq(ResultSet)
         /\ via = "evaluation" =>
              \A i \in DOMAIN results : /\ results[i].confidence \in Thousandths
                                        /\ results[i].score.confidence \in Thousandths
<1>1. \A i \in DOMAIN results : results[i] \in Outcomes
  BY Indices DEF EvaluationInv
<1>2. CASE via = "graph"
  <2>1. \A i \in DOMAIN results : results[i] \in ResultSet
    <3> TAKE i \in DOMAIN results
    <3>1. PICK a \in Accounts, p \in Int, c \in Int : results[i] = Outcome(a, IcpScorer(a, p, c))
      BY <1>1, <1>2 DEF Outcomes
    <3> QED BY <3>1, IcpScorerTyped, OutcomeTyped
  <2>2. results \in Seq(ResultSet)
    BY <2>1 DEF EvaluationInv
  <2> QED BY <1>2, <2>2
<1>3. CASE via = "evaluation"
  <2>1. \A i \in DOMAIN results : /\ results[i] \in ResultSet
                                  /\ results[i].confidence \in Thousandths
                                  /\ results[i].score.confidence \in Thousandths
    <3> TAKE i \in DOMAIN results
    <3>1. PICK a \in Accounts : results[i] = Outcome(a, EvaluatedScore(a))
      BY <1>1, <1>3 DEF Outcomes
    <3>2. results[i].score = EvaluatedScore(a)
      BY <3>1 DEF Outcome
    <3> QED BY <3>1, <3>2, EvaluatedScoreTyped, OutcomeTyped
  <2>2. results \in Seq(ResultSet)
    BY <2>1 DEF EvaluationInv
  <2> QED BY <2>1, <2>2
<1> QED BY <1>2, <1>3 DEF EvaluationInv

(* Every result is what one of the two ways finds for an account.          *)
LEMMA EvaluationInvHolds == Spec => []EvaluationInv
<1>1. Init => EvaluationInv
  BY DEF Init, EvaluationInv
<1>2. ASSUME EvaluationInv, [Next]_vars PROVE EvaluationInv'
  <2>1. CASE Qualify
    <3>1. PICK a \in Accounts : \E p \in {a.answer.pain, 50}, c \in {a.answer.confidence, 30} :
            Record(a, IcpScorer(a, p, c))
      BY <2>1 DEF Qualify
    <3>2. a.answer.pain \in Int /\ a.answer.confidence \in Int
      BY FactsKnown
    <3>3. PICK p \in Int, c \in Int : Record(a, IcpScorer(a, p, c))
      BY <3>1, <3>2
    <3>4. results' = Append(results, Outcome(a, IcpScorer(a, p, c)))
      BY <3>3, Zenon DEF Record, Outcome
    <3>5. via = "graph" /\ via' = via
      BY <2>1 DEF Qualify
    <3>6. Outcome(a, IcpScorer(a, p, c)) \in Outcomes
      BY <3>5 DEF Outcomes
    <3>7. Outcomes' = Outcomes
      BY <3>5 DEF Outcomes
    <3> QED BY <1>2, <3>4, <3>5, <3>6, <3>7 DEF EvaluationInv
  <2>2. CASE Evaluate
    <3>1. PICK a \in Accounts : Record(a, EvaluatedScore(a))
      BY <2>2 DEF Evaluate
    <3>2. results' = Append(results, Outcome(a, EvaluatedScore(a)))
      BY <3>1, Zenon DEF Record, Outcome
    <3>3. via = "evaluation" /\ via' = via
      BY <2>2 DEF Evaluate
    <3>4. Outcome(a, EvaluatedScore(a)) \in Outcomes /\ Outcomes' = Outcomes
      BY <3>3 DEF Outcomes
    <3> QED BY <1>2, <3>2, <3>3, <3>4 DEF EvaluationInv
  <2>3. CASE UNCHANGED vars
    BY <1>2, <2>3 DEF vars, EvaluationInv, Outcomes
  <2> QED BY <1>2, <2>1, <2>2, <2>3 DEF Next
<1> QED BY <1>1, <1>2, PTL DEF Spec

(* Scores are percentages whatever the model answers, and confidences of   *)
(* an evaluation are at most one.                                          *)
THEOREM TypeCorrect == Spec => []TypeOK
<1>1. ASSUME EvaluationInv PROVE TypeOK
  <2>1. results \in Seq(ResultSet)
    BY <1>1, OutcomesTyped
  <2>2. ASSUME NEW i \in DOMAIN results
        PROVE  /\ results[i].account \in Accounts
               /\ {results[i].score.fit, results[i].score.pain, results[i].score.timing,
                   results[i].score.overall} \subseteq 0..100
               /\ results[i].action \in Actions
    <3>1. results[i] \in ResultSet
      BY <2>1, Indices, Zenon
    <3>2. results[i].account \in Accounts /\ results[i].score \in ScoreSet /\ results[i].action \in Actions
      BY <3>1, Zenon DEF ResultSet
    <3>3. /\ results[i].score.fit \in 0..100 /\ results[i].score.pain \in 0..100
          /\ results[i].score.timing \in 0..100 /\ results[i].score.overall \in 0..100
      BY <3>2, Zenon DEF ScoreSet
    <3> QED BY <3>2, <3>3, Zenon
  <2>3. ASSUME NEW i \in DOMAIN results, via = "evaluation"
        PROVE  {results[i].score.confidence, results[i].confidence} \subseteq 0..1000
    <3> DEFINE u == results[i].score.confidence
               v == results[i].confidence
    <3>1. u \in Thousandths /\ v \in Thousandths
      BY <1>1, <2>3, OutcomesTyped
    <3> HIDE DEF u, v
    <3>2. {u, v} \subseteq Thousandths
      BY <3>1
    <3> QED BY <3>2 DEF Thousandths, u, v
  <2>4. via \in {"graph", "evaluation"}
    BY <1>1 DEF EvaluationInv
  <2> DEFINE A(i) == results[i].account \in Accounts
             B(i) == {results[i].score.fit, results[i].score.pain, results[i].score.timing,
                      results[i].score.overall} \subseteq 0..100
             C(i) == {results[i].score.confidence, results[i].confidence} \subseteq 0..1000
             D(i) == results[i].action \in Actions
  <2>5. TypeOK <=> /\ via \in {"graph", "evaluation"}
                   /\ \A i \in DOMAIN results :
                        A(i) /\ B(i) /\ (via = "evaluation" => C(i)) /\ D(i)
    BY SMTT(20) DEF TypeOK, Actions
  <2>6. \A i \in DOMAIN results : A(i) /\ B(i) /\ D(i)
    BY <2>2
  <2>7. via = "evaluation" => \A i \in DOMAIN results : C(i)
    <3>1. ASSUME NEW i \in DOMAIN results, via = "evaluation" PROVE C(i)
      BY <2>3, <3>1
    <3> HIDE DEF C
    <3> QED BY <3>1
  <2> HIDE DEF A, B, C, D
  <2> QED BY <2>4, <2>5, <2>6, <2>7
<1> QED BY <1>1, EvaluationInvHolds, PTL

(* Whatever was evaluated, the counts of a report agree, no metric leaves  *)
(* its range, and two reports do not both improve on the other.            *)
THEOREM ReportsAreConsistent == Spec => []ReportIsConsistent
<1>1. ASSUME EvaluationInv PROVE ReportIsConsistent
  <2>1. CASE via # "evaluation"
    BY <2>1, Zenon DEF ReportIsConsistent
  <2>2. CASE via = "evaluation"
    <3>1. results \in Seq(ResultSet) /\ \A i \in DOMAIN results : results[i].confidence \in Thousandths
      BY <1>1, <2>2, OutcomesTyped
    <3>2. /\ SumFunction(PerAction(results)) = Cardinality(Correct(results))
          /\ SumFunction(BinCorrect(results)) = Cardinality(Correct(results))
          /\ SumFunction(BinCounts(results)) = Len(results)
      BY <3>1, CountsAgree
    <3>3. \A m \in 1..5 : Scalars(results)[m] \in Metric
      BY <3>1, ScalarsBounded, Zenon
    <3>4. ASSUME NEW n \in 0..Len(results)
          PROVE  LET before == SubSeq(results, 1, n)
                 IN  ~(OverallImproved(before, results) /\ OverallImproved(results, before))
      <4>1. SubSeq(results, 1, n) \in Seq(ResultSet)
        BY <3>1
      <4> QED BY <3>1, <4>1, OneImproves
    <3> DEFINE A == SumFunction(PerAction(results)) = Cardinality(Correct(results))
               B == SumFunction(BinCorrect(results)) = Cardinality(Correct(results))
               C == SumFunction(BinCounts(results)) = Len(results)
               D == \A m \in 1..5 : Scalars(results)[m] \in Metric
               E == \A n \in 0..Len(results) :
                      LET before == SubSeq(results, 1, n)
                      IN  ~(OverallImproved(before, results) /\ OverallImproved(results, before))
    <3>5. ReportIsConsistent <=> (via = "evaluation" => A /\ B /\ C /\ D /\ E)
      BY DEF ReportIsConsistent
    <3>6. A /\ B /\ C
      BY <3>2
    <3>7. D
      BY <3>3
    <3>8. E
      BY <3>4, Zenon
    <3> HIDE DEF A, B, C, D, E
    <3> QED BY <3>5, <3>6, <3>7, <3>8
  <2> QED BY <2>1, <2>2
<1> QED BY <1>1, EvaluationInvHolds, PTL
-----------------------------------------------------------------------------
(* More evidence, higher points.                                           *)
LEMMA QuotientMonotone ==
  ASSUME NEW n \in Int, NEW p \in Int, NEW d \in Nat \ {0}, n <= p
  PROVE  n \div d <= p \div d
<1> DEFINE q == n \div d
<1>1. q \in Int /\ n % d \in 0..(d - 1) /\ n = d * q + (n % d)
  BY Quotient
<1>2. d * q <= p
  <2> DEFINE m == n % d
  <2> HIDE DEF q, m
  <2>1. d * q \in Int /\ m \in 0..(d - 1) /\ n = d * q + m
    BY <1>1 DEF m
  <2> QED BY <2>1
<1> HIDE DEF q
<1>3. q <= p \div d
  BY <1>1, <1>2, QuotientAtLeast
<1> QED BY <1>3 DEF q

(* A quotient falls as the divisor grows.                                  *)
LEMMA QuotientAntitone ==
  ASSUME NEW n \in Nat, NEW d \in Nat \ {0}, NEW e \in Nat \ {0}, d <= e
  PROVE  n \div e <= n \div d
<1> DEFINE q == n \div e
           m == n % e
<1>1. q \in Int /\ m \in 0..(e - 1) /\ n = e * q + m
  BY Quotient
<1>2. q \in Nat
  <2>1. n <= e * n
    <3>1. n * 1 <= n * e
      BY ProductMonotone
    <3> QED BY <3>1
  <2> QED BY <2>1, QuotientBounded
<1> HIDE DEF q, m
<1>3. d * q <= n
  <2>1. q * d <= q * e /\ q * d = d * q /\ q * e = e * q /\ d * q \in Int /\ e * q \in Int
    BY <1>1, <1>2, ProductMonotone
  <2> QED BY <1>1, <2>1
<1>4. q <= n \div d
  BY <1>1, <1>3, QuotientAtLeast
<1> QED BY <1>4 DEF q

(* A positive factor cancels.                                              *)
LEMMA Cancel ==
  ASSUME NEW a \in Int, NEW b \in Int, NEW d \in Nat \ {0}, d * a <= d * b
  PROVE  a <= b
<1> SUFFICES ASSUME b + 1 <= a PROVE FALSE
  OBVIOUS
<1>1. d * (b + 1) <= d * a
  BY ProductMonotone
<1>2. d * (b + 1) = d * b + d * 1 /\ d * a \in Int /\ d * b \in Int
  BY Distribute
<1> QED BY <1>1, <1>2

(* A fraction that is not greater is not rounded to a greater number.      *)
LEMMA RoundMonotone ==
  ASSUME NEW n \in Int, NEW d \in Nat \ {0}, NEW p \in Int, NEW e \in Nat \ {0}, n * e <= p * d
  PROVE  Round(n, d) <= Round(p, e)
<1> DEFINE q == n \div d
           m == n % d
           r == p \div e
           k == p % e
<1>1. /\ q \in Int /\ m \in 0..(d - 1) /\ n = d * q + m
      /\ r \in Int /\ k \in 0..(e - 1) /\ p = e * r + k
  BY Quotient
<1>2. Round(n, d) = IF 2 * m < d \/ (2 * m = d /\ q % 2 = 0) THEN q ELSE q + 1
  BY DEF Round
<1>3. Round(p, e) = IF 2 * k < e \/ (2 * k = e /\ r % 2 = 0) THEN r ELSE r + 1
  BY DEF Round
<1> HIDE DEF q, m, r, k
<1> DEFINE c == d * e
<1>4. c \in Nat \ {0}
  BY Positive
<1>5. n * e = c * q + e * m /\ p * d = c * r + d * k
  <2>1. n * e = (d * q) * e + m * e /\ p * d = (e * r) * d + k * d
    <3>1. \A x, y, z \in Int : (x + y) * z = x * z + y * z
      OBVIOUS
    <3>2. d * q \in Int /\ e * r \in Int
      BY <1>1
    <3> QED BY <1>1, <3>1, <3>2
  <2>2. (d * q) * e = c * q /\ (e * r) * d = c * r
    BY <1>1
  <2>3. m * e = e * m /\ k * d = d * k
    BY <1>1
  <2> QED BY <2>1, <2>2, <2>3
<1>6. e * m \in Nat /\ d * k \in Nat /\ e * m <= c - e /\ d * k <= c - d
  <2>1. e * m <= e * (d - 1) /\ d * k <= d * (e - 1)
    BY <1>1, ProductMonotone
  <2>2. e * (d - 1) = e * d - e * 1 /\ d * (e - 1) = d * e - d * 1 /\ e * d = d * e
    BY Distribute
  <2>3. e * m \in Nat /\ d * k \in Nat
    BY <1>1
  <2> QED BY <2>1, <2>2, <2>3
<1>7. c * q \in Int /\ c * r \in Int
  BY <1>1, <1>4
<1>8. q <= r
  <2> SUFFICES ASSUME r + 1 <= q PROVE FALSE
    BY <1>1
  <2>1. c * (r + 1) <= c * q /\ c * (r + 1) = c * r + c * 1
    BY <1>1, <1>4, ProductMonotone, Distribute
  <2> HIDE DEF c
  <2> QED BY <1>4, <1>5, <1>6, <1>7, <2>1
<1>9. CASE q < r
  BY <1>1, <1>2, <1>3, <1>9
<1>10. CASE q = r
  <2>1. e * m <= d * k
    <3> HIDE DEF c
    <3> QED BY <1>5, <1>6, <1>7, <1>10
  <2>2. e * (2 * m) <= d * (2 * k)
    <3>1. e * (2 * m) = 2 * (e * m) /\ d * (2 * k) = 2 * (d * k)
      BY <1>1
    <3> QED BY <1>6, <2>1, <3>1
  <2>3. 2 * m >= d => 2 * k >= e
    <3> SUFFICES ASSUME 2 * m >= d PROVE 2 * k >= e
      OBVIOUS
    <3>1. e * d <= e * (2 * m)
      BY <1>1, ProductMonotone
    <3>2. d * e <= d * (2 * k)
      <4>1. e * d = d * e /\ e * d \in Int /\ e * (2 * m) \in Int /\ d * (2 * k) \in Int
        BY <1>1
      <4> QED BY <2>2, <3>1, <4>1
    <3> QED BY <1>1, <3>2, Cancel
  <2>4. 2 * m > d => 2 * k > e
    <3> SUFFICES ASSUME 2 * m > d, 2 * k <= e PROVE FALSE
      BY <1>1
    <3>1. e * (d + 1) <= e * (2 * m) /\ e * (d + 1) = e * d + e * 1
      BY <1>1, ProductMonotone, Distribute
    <3>2. d * (2 * k) <= d * e
      BY <1>1, ProductMonotone
    <3>3. e * d = d * e /\ e * d \in Int /\ e * (2 * m) \in Int /\ d * (2 * k) \in Int
      BY <1>1
    <3> QED BY <2>2, <3>1, <3>2, <3>3
  <2>5. (2 * m < d \/ (2 * m = d /\ q % 2 = 0)) \/ ~(2 * k < e \/ (2 * k = e /\ r % 2 = 0))
    <3> HIDE DEF c
    <3> QED BY <1>1, <1>10, <2>3, <2>4
  <2> QED BY <1>1, <1>2, <1>3, <1>10, <2>5
<1> QED BY <1>1, <1>8, <1>9, <1>10

(* The same for two percentages.                                           *)
LEMMA RoundHundredths ==
  ASSUME NEW n \in Int, NEW p \in Int, n <= p
  PROVE  Round(n, 100) <= Round(p, 100)
<1>1. n * 100 <= p * 100
  OBVIOUS
<1> DEFINE d == 100
<1>2. d \in Nat \ {0} /\ n * d <= p * d
  BY <1>1
<1> HIDE DEF d
<1>3. Round(n, d) <= Round(p, d)
  BY <1>2, RoundMonotone
<1> QED BY <1>3 DEF d

(* Nearer to the middle of a range.                                        *)
LEMMA SweetSpotMonotone ==
  ASSUME NEW r \in [min : Nat, max : Nat], r.min <= r.max, NEW x \in Nat, NEW y \in Nat,
         Within(x, r), Within(y, r),
         Abs(2 * y - r.min - r.max) <= Abs(2 * x - r.min - r.max)
  PROVE  SweetSpot(x, r) <= SweetSpot(y, r)
<1> DEFINE w == r.max - r.min
           u == Abs(2 * x - r.min - r.max)
           v == Abs(2 * y - r.min - r.max)
<1>1. r.min \in Nat /\ r.max \in Nat
  OBVIOUS
<1>2. CASE w = 0
  BY <1>1, <1>2 DEF SweetSpot
<1>3. CASE w # 0
  <2>1. w \in Nat \ {0} /\ u \in Nat /\ v \in Nat /\ v <= u
    BY <1>1, <1>3 DEF Abs
  <2>2. /\ SweetSpot(x, r) = (100 * w - 20 * u) \div w
        /\ SweetSpot(y, r) = (100 * w - 20 * v) \div w
    BY <1>1, <1>3 DEF SweetSpot
  <2> HIDE DEF w, u, v
  <2> DEFINE n == 100 * w - 20 * u
             p == 100 * w - 20 * v
  <2>3. n \in Int /\ p \in Int /\ n <= p
    BY <2>1
  <2> HIDE DEF n, p
  <2>4. n \div w <= p \div w
    BY <2>1, <2>3, QuotientMonotone
  <2> QED BY <2>2, <2>4 DEF n, p
<1> QED BY <1>2, <1>3

(* Nearer to the middle of the profile, no fewer points for the size.      *)
LEMMA SizeMonotone ==
  ASSUME NEW a \in Accounts, NEW b \in Accounts, Nearer(a.employees, b.employees, Size)
  PROVE  ScoreCompanySize(a) <= ScoreCompanySize(b)
<1> DEFINE x == a.employees
           y == b.employees
           lo == Size.min
           hi == Size.max
           Score(e) == CASE e = None -> 50
                         [] Within(e, Size) -> SweetSpot(e, Size)
                         [] e # None /\ e < Size.min -> (40 * e) \div Size.min
                         [] e > Size.max -> (40 * Size.max) \div e
<1>1. /\ Size \in [min : Nat, max : Nat] /\ lo \in Nat /\ hi \in Nat /\ lo <= hi
  BY ScoringAssumption DEF ScoringAssumption
<1>2. x \in Nat \cup {None} /\ y \in Nat \cup {None} /\ None \notin Nat /\ None \in Int /\ None < 0
  BY FactsKnown DEF None
<1>3. ScoreCompanySize(a) = Score(x) /\ ScoreCompanySize(b) = Score(y)
  BY DEF ScoreCompanySize
<1>4. Score(None) = 50
  BY <1>1, <1>2 DEF Within
<1>5. \A e \in Nat : lo <= e /\ e <= hi => /\ Score(e) = SweetSpot(e, Size)
                                           /\ Score(e) \in 80..100
  <2> TAKE e \in Nat
  <2> SUFFICES ASSUME lo <= e, e <= hi PROVE Score(e) = SweetSpot(e, Size) /\ Score(e) \in 80..100
    OBVIOUS
  <2>1. Within(e, Size) /\ e # None
    BY <1>2 DEF Within
  <2>2. Score(e) = SweetSpot(e, Size)
    BY <1>1, <2>1
  <2>3. SweetSpot(e, Size) \in 80..100
    BY <1>1, <2>1, SweetSpotBounded
  <2> QED BY <2>2, <2>3
<1>6. \A e \in Nat : e < lo => Score(e) = (40 * e) \div lo /\ Score(e) \in 0..40
  <2> TAKE e \in Nat
  <2> SUFFICES ASSUME e < lo PROVE Score(e) = (40 * e) \div lo /\ Score(e) \in 0..40
    OBVIOUS
  <2>1. Score(e) = (40 * e) \div lo
    BY <1>1, <1>2 DEF Within
  <2>2. 40 * e \in Nat /\ lo \in Nat \ {0} /\ 40 * e <= lo * 40
    BY <1>1
  <2> HIDE DEF lo
  <2>3. (40 * e) \div lo \in 0..40
    BY <2>2, QuotientBounded
  <2> QED BY <2>1, <2>3
<1>7. \A e \in Nat : hi < e => Score(e) = (40 * hi) \div e /\ Score(e) \in 0..40
  <2> TAKE e \in Nat
  <2> SUFFICES ASSUME hi < e PROVE Score(e) = (40 * hi) \div e /\ Score(e) \in 0..40
    OBVIOUS
  <2>1. Score(e) = (40 * hi) \div e
    BY <1>1, <1>2 DEF Within
  <2>2. 40 * hi \in Nat /\ e \in Nat \ {0} /\ 40 * hi <= e * 40
    BY <1>1
  <2> HIDE DEF hi
  <2>3. (40 * hi) \div e \in 0..40
    BY <2>2, QuotientBounded
  <2> QED BY <2>1, <2>3
<1> HIDE DEF Score
<1>8. CASE x = y
  <2>1. Score(x) = Score(y)
    BY <1>8
  <2>2. ScoreCompanySize(a) \in 0..100
    BY SizeBounded
  <2> QED BY <1>3, <2>1, <2>2
<1>9. CASE x = None /\ y # None /\ Within(y, Size)
  <2>1. y \in Nat /\ lo <= y /\ y <= hi
    BY <1>2, <1>9 DEF Within
  <2> HIDE DEF x, y, lo, hi
  <2> QED BY <1>3, <1>4, <1>5, <1>9, <2>1
<1>10. CASE x # None /\ y # None /\ x <= y /\ 2 * y <= lo + hi
  <2>0. x \in Nat /\ y \in Nat
    BY <1>2, <1>10
  <2> HIDE DEF x, y, lo, hi
  <2>1. y <= hi
    BY <1>1, <1>10, <2>0
  <2>2. CASE y < lo
    <3>1. Score(x) = (40 * x) \div lo /\ Score(y) = (40 * y) \div lo
      BY <1>1, <1>6, <1>10, <2>0, <2>2
    <3>2. 40 * x \in Int /\ 40 * y \in Int /\ 40 * x <= 40 * y /\ lo \in Nat \ {0}
      BY <1>1, <1>10, <2>0, <2>2
    <3>3. (40 * x) \div lo <= (40 * y) \div lo
      BY <3>2, QuotientMonotone
    <3> QED BY <1>3, <3>1, <3>3
  <2>3. CASE lo <= y /\ x < lo
    BY <1>3, <1>5, <1>6, <2>0, <2>1, <2>3
  <2>4. CASE lo <= y /\ lo <= x
    <3>1. x <= hi
      BY <1>1, <1>10, <2>0, <2>1
    <3>2. Score(x) = SweetSpot(x, Size) /\ Score(y) = SweetSpot(y, Size)
      BY <1>5, <2>0, <2>1, <2>4, <3>1
    <3>3. Within(x, Size) /\ Within(y, Size)
      BY <2>1, <2>4, <3>1 DEF Within, lo, hi
    <3>4. Abs(2 * y - lo - hi) <= Abs(2 * x - lo - hi)
      BY <1>1, <1>10, <2>0 DEF Abs
    <3>5. SweetSpot(x, Size) <= SweetSpot(y, Size)
      BY <1>1, <2>0, <3>3, <3>4, SweetSpotMonotone DEF lo, hi
    <3> QED BY <1>3, <3>2, <3>5
  <2> QED BY <1>1, <2>0, <2>2, <2>3, <2>4
<1>11. CASE x # None /\ y # None /\ x >= y /\ 2 * y >= lo + hi
  <2>0. x \in Nat /\ y \in Nat
    BY <1>2, <1>11
  <2> HIDE DEF x, y, lo, hi
  <2>1. lo <= y
    BY <1>1, <1>11, <2>0
  <2>2. CASE hi < y
    <3>1. Score(x) = (40 * hi) \div x /\ Score(y) = (40 * hi) \div y
      BY <1>1, <1>7, <1>11, <2>0, <2>2
    <3>2. 40 * hi \in Nat /\ x \in Nat \ {0} /\ y \in Nat \ {0} /\ y <= x
      BY <1>1, <1>11, <2>0, <2>2
    <3>3. (40 * hi) \div x <= (40 * hi) \div y
      BY <3>2, QuotientAntitone
    <3> QED BY <1>3, <3>1, <3>3
  <2>3. CASE y <= hi /\ hi < x
    BY <1>3, <1>5, <1>7, <2>0, <2>1, <2>3
  <2>4. CASE y <= hi /\ x <= hi
    <3>1. lo <= x
      BY <1>1, <1>11, <2>0, <2>1
    <3>2. Score(x) = SweetSpot(x, Size) /\ Score(y) = SweetSpot(y, Size)
      BY <1>5, <2>0, <2>1, <2>4, <3>1
    <3>3. Within(x, Size) /\ Within(y, Size)
      BY <2>1, <2>4, <3>1 DEF Within, lo, hi
    <3>4. Abs(2 * y - lo - hi) <= Abs(2 * x - lo - hi)
      BY <1>1, <1>11, <2>0 DEF Abs
    <3>5. SweetSpot(x, Size) <= SweetSpot(y, Size)
      BY <1>1, <2>0, <3>3, <3>4, SweetSpotMonotone DEF lo, hi
    <3> QED BY <1>3, <3>2, <3>5
  <2> QED BY <1>1, <2>0, <2>2, <2>3, <2>4
<1> QED BY <1>8, <1>9, <1>10, <1>11 DEF Nearer
(* The same for the revenue.                                               *)
LEMMA RevenueMonotone ==
  ASSUME NEW a \in Accounts, NEW b \in Accounts, Nearer(a.revenue, b.revenue, Revenue)
  PROVE  ScoreRevenue(a) <= ScoreRevenue(b)
<1> DEFINE x == a.revenue
           y == b.revenue
           lo == Revenue.min
           hi == Revenue.max
           Score(e) == CASE e = None -> 50
                         [] Within(e, Revenue) -> SweetSpot(e, Revenue)
                         [] e # None /\ ~Within(e, Revenue) -> 15
<1>1. /\ Revenue \in [min : Nat, max : Nat] /\ lo \in Nat /\ hi \in Nat /\ lo <= hi
  BY ScoringAssumption DEF ScoringAssumption
<1>2. x \in Nat \cup {None} /\ y \in Nat \cup {None} /\ None \notin Nat /\ None \in Int /\ None < 0
  BY FactsKnown DEF None
<1>3. ScoreRevenue(a) = Score(x) /\ ScoreRevenue(b) = Score(y)
  BY DEF ScoreRevenue
<1>4. Score(None) = 50
  BY <1>1, <1>2 DEF Within
<1>5. \A e \in Nat : lo <= e /\ e <= hi => /\ Score(e) = SweetSpot(e, Revenue)
                                           /\ Score(e) \in 80..100
  <2> TAKE e \in Nat
  <2> SUFFICES ASSUME lo <= e, e <= hi PROVE Score(e) = SweetSpot(e, Revenue) /\ Score(e) \in 80..100
    OBVIOUS
  <2>1. Within(e, Revenue) /\ e # None
    BY <1>2 DEF Within
  <2>2. Score(e) = SweetSpot(e, Revenue)
    BY <1>1, <2>1
  <2>3. SweetSpot(e, Revenue) \in 80..100
    BY <1>1, <2>1, SweetSpotBounded
  <2> QED BY <2>2, <2>3
<1>6. \A e \in Nat : e < lo \/ hi < e => Score(e) = 15
  <2> TAKE e \in Nat
  <2>1. e # None /\ (e < lo \/ hi < e => ~Within(e, Revenue))
    BY <1>1, <1>2 DEF Within
  <2> QED BY <2>1
<1> HIDE DEF Score
<1>8. CASE x = y
  <2>1. Score(x) = Score(y)
    BY <1>8
  <2>2. ScoreRevenue(a) \in 0..100
    BY RevenueBounded
  <2> QED BY <1>3, <2>1, <2>2
<1>9. CASE x = None /\ y # None /\ Within(y, Revenue)
  <2>1. y \in Nat /\ lo <= y /\ y <= hi
    BY <1>2, <1>9 DEF Within
  <2> HIDE DEF x, y, lo, hi
  <2> QED BY <1>3, <1>4, <1>5, <1>9, <2>1
<1>10. CASE /\ x # None /\ y # None
            /\ \/ x <= y /\ 2 * y <= lo + hi
               \/ x >= y /\ 2 * y >= lo + hi
  <2>0. x \in Nat /\ y \in Nat
    BY <1>2, <1>10
  <2> HIDE DEF x, y, lo, hi
  <2>1. CASE x < lo \/ hi < x
    <3>1. Score(x) = 15
      BY <1>6, <2>0, <2>1
    <3>2. y < lo \/ hi < y \/ (lo <= y /\ y <= hi)
      BY <1>1, <2>0
    <3> QED BY <1>3, <1>5, <1>6, <2>0, <3>1, <3>2
  <2>2. CASE lo <= x /\ x <= hi
    <3>1. lo <= y /\ y <= hi
      BY <1>1, <1>10, <2>0, <2>2
    <3>2. Score(x) = SweetSpot(x, Revenue) /\ Score(y) = SweetSpot(y, Revenue)
      BY <1>5, <2>0, <2>2, <3>1
    <3>3. Within(x, Revenue) /\ Within(y, Revenue)
      BY <2>2, <3>1 DEF Within, lo, hi
    <3>4. Abs(2 * y - lo - hi) <= Abs(2 * x - lo - hi)
      BY <1>1, <1>10, <2>0 DEF Abs
    <3>5. SweetSpot(x, Revenue) <= SweetSpot(y, Revenue)
      BY <1>1, <2>0, <3>3, <3>4, SweetSpotMonotone DEF lo, hi
    <3> QED BY <1>3, <3>2, <3>5
  <2> QED BY <1>1, <2>0, <2>1, <2>2
<1> QED BY <1>8, <1>9, <1>10 DEF Nearer

(* A better industry or country, no fewer points.                          *)
LEMMA WordsMonotone ==
  ASSUME NEW a \in Accounts, NEW b \in Accounts
  PROVE  /\ Order(a.industry, b.industry, <<"other", "unknown", "target">>)
              => ScoreIndustry(a) <= ScoreIndustry(b)
         /\ Order(a.geography, b.geography, <<"other", "unknown", "target">>)
              => ScoreGeography(a) <= ScoreGeography(b)
<1> DEFINE words == <<"other", "unknown", "target">>
<1>1. \A x, y : Order(x, y, words) =>
        \/ x = "other" /\ y \in {"other", "unknown", "target"}
        \/ x = "unknown" /\ y \in {"unknown", "target"}
        \/ x = "target" /\ y = "target"
  <2>1. DOMAIN words = 1..3 /\ words[1] = "other" /\ words[2] = "unknown" /\ words[3] = "target"
    OBVIOUS
  <2> HIDE DEF words
  <2>2. \A i \in 1..3 : i = 1 \/ i = 2 \/ i = 3
    OBVIOUS
  <2>3. \A i, j \in 1..3 : i <= j => (i = 1 \/ (i = 2 /\ j # 1) \/ (i = 3 /\ j = 3))
    OBVIOUS
  <2> QED BY <2>1, <2>2, <2>3, Zenon DEF Order
<1> HIDE DEF words
<1>2. Order(a.industry, b.industry, words) => ScoreIndustry(a) <= ScoreIndustry(b)
  BY <1>1 DEF ScoreIndustry
<1>3. Order(a.geography, b.geography, words) => ScoreGeography(a) <= ScoreGeography(b)
  BY <1>1 DEF ScoreGeography
<1> QED BY <1>2, <1>3 DEF words

(* A signal that says no less raises the points no less.                   *)
Better(s, t) == Order(s, t, <<"negative", "both", "neither", "positive">>)

(* What the better signal leaves of more points is no less.                *)
LEMMA AfterMonotone ==
  ASSUME NEW s, NEW t, Better(s, t), NEW x \in 0..100, NEW y \in 0..100, x <= y
  PROVE  After(s, x) <= After(t, y)
<1> DEFINE words == <<"negative", "both", "neither", "positive">>
<1>1. \/ s = "negative" /\ t \in {"negative", "both", "neither", "positive"}
      \/ s = "both" /\ t \in {"both", "neither", "positive"}
      \/ s = "neither" /\ t \in {"neither", "positive"}
      \/ s = "positive" /\ t = "positive"
  <2>1. /\ DOMAIN words = 1..4 /\ words[1] = "negative" /\ words[2] = "both"
        /\ words[3] = "neither" /\ words[4] = "positive"
    OBVIOUS
  <2>2. PICK i \in DOMAIN words, j \in DOMAIN words : i <= j /\ words[i] = s /\ words[j] = t
    BY DEF Better, Order
  <2> HIDE DEF words
  <2>3. i \in 1..4 /\ j \in 1..4
    BY <2>1, <2>2
  <2>4. \/ i = 1 /\ (j = 1 \/ j = 2 \/ j = 3 \/ j = 4)
        \/ i = 2 /\ (j = 2 \/ j = 3 \/ j = 4)
        \/ i = 3 /\ (j = 3 \/ j = 4)
        \/ i = 4 /\ j = 4
    BY <2>2, <2>3
  <2> QED BY <2>1, <2>2, <2>4, Zenon
<1>2. /\ After("negative", x) = IF x < 25 THEN 0 ELSE x - 25
      /\ After("neither", x) = x
      /\ After("both", x) = IF Least(100, x + 15) < 25 THEN 0 ELSE Least(100, x + 15) - 25
      /\ After("positive", x) = Least(100, x + 15)
  BY DEF After, AfterPositive, AfterNegative
<1>3. /\ After("negative", y) = IF y < 25 THEN 0 ELSE y - 25
      /\ After("neither", y) = y
      /\ After("both", y) = IF Least(100, y + 15) < 25 THEN 0 ELSE Least(100, y + 15) - 25
      /\ After("positive", y) = Least(100, y + 15)
  BY DEF After, AfterPositive, AfterNegative
<1>4. /\ After("negative", x) <= After("negative", y) /\ After("both", x) <= After("both", y)
      /\ After("neither", x) <= After("neither", y) /\ After("positive", x) <= After("positive", y)
  BY <1>2, <1>3 DEF Least
<1>5. /\ After("negative", y) <= After("both", y) /\ After("both", y) <= After("neither", y)
      /\ After("neither", y) <= After("positive", y)
  BY <1>3 DEF Least
<1>6. /\ After("negative", y) \in 0..100 /\ After("both", y) \in 0..100
      /\ After("neither", y) \in 0..100 /\ After("positive", y) \in 0..100
      /\ After("negative", x) \in 0..100 /\ After("both", x) \in 0..100
      /\ After("neither", x) \in 0..100 /\ After("positive", x) \in 0..100
  BY AfterBounded
<1> DEFINE xn == After("negative", x)
           xb == After("both", x)
           xe == After("neither", x)
           xp == After("positive", x)
           yn == After("negative", y)
           yb == After("both", y)
           ye == After("neither", y)
           yp == After("positive", y)
<1>7. /\ xn <= yn /\ xn <= yb /\ xn <= ye /\ xn <= yp
      /\ xb <= yb /\ xb <= ye /\ xb <= yp
      /\ xe <= ye /\ xe <= yp /\ xp <= yp
  <2>1. xn <= yn /\ xb <= yb /\ xe <= ye /\ xp <= yp /\ yn <= yb /\ yb <= ye /\ ye <= yp
    BY <1>4, <1>5
  <2>2. /\ xn \in Int /\ xb \in Int /\ xe \in Int /\ xp \in Int
        /\ yn \in Int /\ yb \in Int /\ ye \in Int /\ yp \in Int
    BY <1>6
  <2> HIDE DEF xn, xb, xe, xp, yn, yb, ye, yp
  <2> QED BY <2>1, <2>2
<1> QED BY <1>1, <1>7, Zenon

(* Signals each of which says no less score no less, and more of them.     *)
LEMMA MetadataMonotone ==
  ASSUME NEW a \in Accounts, NEW b \in Accounts, Len(a.signals) <= Len(b.signals),
         \A i \in DOMAIN b.signals :
           Better(IF i \in DOMAIN a.signals THEN a.signals[i] ELSE "neither", b.signals[i])
  PROVE  ScoreMetadataSignals(a) <= ScoreMetadataSignals(b)
<1> DEFINE v == a.signals
           w == b.signals
           n == Len(v)
           m == Len(w)
<1>1. n \in Nat /\ m \in Nat /\ n <= m /\ DOMAIN v = 1..n /\ DOMAIN w = 1..m
  BY FactsKnown
<1>2. PICK f : Points(v, n, f) /\ ScoreMetadataSignals(a) = f[n]
  BY <1>1, MetadataIsLast
<1>3. PICK g : Points(w, m, g) /\ ScoreMetadataSignals(b) = g[m]
  BY <1>1, MetadataIsLast
<1>a. \A i \in 1..m : Better(IF i \in 1..n THEN v[i] ELSE "neither", w[i])
  BY <1>1
<1> HIDE DEF v, w, n, m
<1>4. /\ \A k \in 0..n : f[k] = IF k = 0 THEN 50 ELSE After(v[k], f[k - 1])
      /\ \A k \in 0..n : f[k] \in 0..100
  BY <1>1, <1>2, PointsBounded DEF Points
<1>5. /\ \A k \in 0..m : g[k] = IF k = 0 THEN 50 ELSE After(w[k], g[k - 1])
      /\ \A k \in 0..m : g[k] \in 0..100
  BY <1>1, <1>3, PointsBounded DEF Points
<1> DEFINE Cut(k) == IF k <= n THEN k ELSE n
           Bad == {k \in 0..m : ~(f[Cut(k)] <= g[k])}
<1>6. 0 \notin Bad
  BY <1>1, <1>4, <1>5
<1>7. ASSUME NEW k \in 0..m, k + 1 \in Bad PROVE k \in Bad
  <2> SUFFICES ASSUME k \notin Bad PROVE FALSE
    OBVIOUS
  <2>1. k + 1 \in 1..m /\ k + 1 # 0 /\ (k + 1) - 1 = k
    BY <1>1, <1>7
  <2>2. f[Cut(k)] <= g[k] /\ f[Cut(k)] \in 0..100 /\ g[k] \in 0..100
    <3>1. Cut(k) \in 0..n
      BY <1>1
    <3> QED BY <1>4, <1>5, <3>1
  <2>3. g[k + 1] = After(w[k + 1], g[k])
    BY <1>1, <1>5, <2>1
  <2>4. CASE k + 1 <= n
    <3>1. Cut(k + 1) = k + 1 /\ Cut(k) = k /\ k + 1 \in 0..n /\ k + 1 \in 1..n
      BY <1>1, <2>1, <2>4
    <3>2. f[k + 1] = After(v[k + 1], f[k])
      BY <1>4, <2>1, <3>1
    <3>3. Better(v[k + 1], w[k + 1])
      BY <1>a, <2>1, <3>1
    <3>4. After(v[k + 1], f[k]) <= After(w[k + 1], g[k])
      BY <2>2, <3>1, <3>3, AfterMonotone
    <3> QED BY <1>7, <2>3, <3>1, <3>2, <3>4
  <2>5. CASE ~(k + 1 <= n)
    <3>1. Cut(k + 1) = n /\ Cut(k) = n /\ k + 1 \notin 1..n
      BY <1>1, <2>1, <2>5
    <3>2. Better("neither", w[k + 1])
      BY <1>a, <2>1, <3>1
    <3>3. After("neither", f[n]) <= After(w[k + 1], g[k])
      BY <2>2, <3>1, <3>2, AfterMonotone
    <3>4. After("neither", f[n]) = f[n]
      BY DEF After, AfterPositive, AfterNegative
    <3> QED BY <1>7, <2>3, <3>1, <3>3, <3>4
  <2> QED BY <2>4, <2>5
<1>8. Bad = {}
  <2>1. Bad \in SUBSET (0..m)
    OBVIOUS
  <2> HIDE DEF Bad
  <2> QED BY <1>1, <1>6, <1>7, <2>1, Steps
<1>9. m \in 0..m /\ Cut(m) = n
  BY <1>1
<1>10. f[n] <= g[m]
  BY <1>8, <1>9
<1> QED BY <1>2, <1>3, <1>10
-----------------------------------------------------------------------------
(* Fresher signals, a higher timing score.                                 *)
LEMMA LargestSame ==
  ASSUME NEW items, NEW key, NEW other, \A i \in items : key[i] = other[i], NEW k
  PROVE  Largest(key, items, k) = Largest(other, items, k)
<1>1. \A i \in items : {j \in items : Before(key, j, i)} = {j \in items : Before(other, j, i)}
  BY DEF Before
<1> QED BY <1>1 DEF Largest

(* One more item is not among the largest, or comes to them, or takes the  *)
(* place of one with a key that is not greater.                            *)
Keyed(key, items) == \A i \in items : key[i] \in Int

(* U is T with at most one item more, or with z for one that is no heavier. *)
AtMostReplaces(key, z, T, U) ==
  \/ U = T
  \/ U = T \cup {z}
  \/ \E l \in T : U = (T \ {l}) \cup {z} /\ key[l] <= key[z]

(* One item more replaces at most one of the largest k.                    *)
LEMMA LargestOfMore ==
  ASSUME NEW items \in SUBSET Int, NEW z \in Int, NEW key, NEW k \in Nat, NEW T, NEW U,
         IsFiniteSet(items), z \notin items, Keyed(key, items \cup {z}),
         T = Largest(key, items, k), U = Largest(key, items \cup {z}, k)
  PROVE  AtMostReplaces(key, z, T, U)
<1> USE DEF Keyed, AtMostReplaces
<1> DEFINE more == items \cup {z}
           r(i) == Rank(key, items, i)
           q(i) == Rank(key, more, i)
<1>1. IsFiniteSet(more) /\ more \in SUBSET Int
  BY FS_AddElement
<1>2. /\ \A i \in items : r(i) \in Nat
      /\ \A i, j \in items : Before(key, i, j) => r(i) < r(j)
  BY RankOrders
<1>3. /\ \A i \in more : q(i) \in Nat
      /\ \A i, j \in more : Before(key, i, j) => q(i) < q(j)
  <2> HIDE DEF more
  <2>1. \A i \in more : key[i] \in Int
    BY DEF more
  <2> QED BY <1>1, <2>1, RankOrders
<1>4. \A i \in items : q(i) = IF Before(key, z, i) THEN r(i) + 1 ELSE r(i)
  <2> TAKE i \in items
  <2> DEFINE A == {j \in items : Before(key, j, i)}
  <2>1. IsFiniteSet(A) /\ Cardinality(A) \in Nat /\ z \notin A
    <3>1. A \in SUBSET items
      OBVIOUS
    <3> QED BY <3>1, FS_Subset, FS_CardinalityType
  <2>2. {j \in more : Before(key, j, i)} = IF Before(key, z, i) THEN A \cup {z} ELSE A
    OBVIOUS
  <2>3. Cardinality(A \cup {z}) = Cardinality(A) + 1
    BY <2>1, FS_AddElement
  <2> QED BY <2>2, <2>3 DEF Rank
<1>5. T = {i \in items : r(i) < k} /\ U = {i \in more : q(i) < k}
  BY DEF Largest, Rank
<1>6. z \in more /\ items \in SUBSET more
  OBVIOUS
<1>7. \A i \in items : i \in U => i \in T
  <2> SUFFICES ASSUME NEW i \in items, i \in U PROVE i \in T
    OBVIOUS
  <2>1. q(i) < k /\ q(i) \in Nat
    BY <1>3, <1>5, <1>6
  <2>2. r(i) \in Nat /\ (q(i) = r(i) + 1 \/ q(i) = r(i))
    BY <1>2, <1>4
  <2>3. r(i) < k
    <3> HIDE DEF r, q
    <3> QED BY <2>1, <2>2
  <2> QED BY <1>5, <2>3
<1>8. CASE z \notin U
  <2>1. ASSUME NEW i \in T PROVE i \in U
    <3>1. i \in items /\ r(i) \in Nat /\ r(i) < k
      BY <1>2, <1>5
    <3>2. ASSUME Before(key, z, i) PROVE FALSE
      <4>1. q(z) < q(i) /\ q(i) = r(i) + 1 /\ q(z) \in Nat
        BY <1>3, <1>4, <1>6, <3>1, <3>2
      <4>2. ~(q(z) < k)
        BY <1>5, <1>6, <1>8
      <4> QED BY <3>1, <4>1, <4>2
    <3>3. q(i) = r(i)
      BY <1>4, <3>1, <3>2
    <3> QED BY <1>5, <1>6, <3>1, <3>3
  <2>2. U = T
    BY <1>5, <1>7, <1>8, <2>1
  <2> QED BY <2>2
<1>9. CASE z \in U /\ T \in SUBSET U
  <2>1. U = T \cup {z}
    BY <1>5, <1>7, <1>9
  <2> QED BY <2>1
<1>10. CASE z \in U /\ T \notin SUBSET U
  <2>1. \A i \in T : i \notin U => Before(key, z, i) /\ r(i) = k - 1
    <3> TAKE i \in T
    <3> SUFFICES ASSUME i \notin U PROVE Before(key, z, i) /\ r(i) = k - 1
      OBVIOUS
    <3>1. i \in items /\ r(i) \in Nat /\ r(i) < k /\ ~(q(i) < k) /\ q(i) \in Nat
      BY <1>2, <1>3, <1>5, <1>6
    <3>2. q(i) = IF Before(key, z, i) THEN r(i) + 1 ELSE r(i)
      BY <1>4, <3>1
    <3> HIDE DEF r, q
    <3> QED BY <3>1, <3>2
  <2>2. PICK l \in T : l \notin U
    BY <1>10
  <2>3. \A i \in T : i \notin U => i = l
    <3> TAKE i \in T
    <3> SUFFICES ASSUME i \notin U, i # l PROVE FALSE
      OBVIOUS
    <3>1. i \in items /\ l \in items /\ r(i) = k - 1 /\ r(l) = k - 1
      BY <1>5, <2>1, <2>2
    <3>2. Before(key, i, l) \/ Before(key, l, i)
      BY <3>1, BeforeOrders
    <3>3. ~(r(i) < r(l)) /\ ~(r(l) < r(i))
      BY <3>1
    <3> QED BY <1>2, <3>1, <3>2, <3>3
  <2>4. U = (T \ {l}) \cup {z}
    BY <1>5, <1>7, <1>10, <2>2, <2>3
  <2>5. key[l] <= key[z]
    <3>1. Before(key, z, l) /\ l \in items
      BY <1>5, <2>1, <2>2
    <3> QED BY <3>1 DEF Before
  <2> QED BY <2>4, <2>5
<1> QED BY <1>8, <1>9, <1>10

(* The score, for what the signals that count come to.                     *)
Whole(signals) == [i \in DOMAIN signals |-> Unit * Weight(signals[i])]
Part(signals) == [i \in DOMAIN signals |-> Weight(signals[i]) * Recency(signals[i])]
WholeSum(signals) == SumFunctionOnSet(Whole(signals), Top(signals))
PartSum(signals) == SumFunctionOnSet(Part(signals), Top(signals))
Bonus(signals) == Least(15, 3 * Cardinality(Scored(signals)))

(* What each signal adds to the two sums.                                  *)
LEMMA PartsOfWhole ==
  ASSUME NEW signals \in Seq(Signal)
  PROVE  \A i \in DOMAIN signals :
           /\ Whole(signals)[i] = Unit * Weight(signals[i])
           /\ Part(signals)[i] = Weight(signals[i]) * Recency(signals[i])
           /\ Whole(signals)[i] \in Nat /\ Part(signals)[i] \in Nat
           /\ Part(signals)[i] <= Whole(signals)[i]
<1> TAKE i \in DOMAIN signals
<1> DEFINE w == Weight(signals[i])
           r == Recency(signals[i])
<1>1. signals[i] \in Signal
  BY Indices
<1>2. w \in Nat /\ r \in Nat /\ r <= Unit /\ Unit \in Nat
  BY <1>1, WeightPositive, RecencyBounded, UnitPositive
<1>3. Whole(signals)[i] = Unit * w /\ Part(signals)[i] = w * r
  BY DEF Whole, Part
<1> HIDE DEF w, r
<1>4. w * r <= w * Unit /\ w * Unit = Unit * w /\ w * r \in Nat /\ Unit * w \in Nat
  BY <1>2, ProductMonotone
<1> QED BY <1>3, <1>4 DEF w, r

(* The timing score is the rounded mean of the recencies, and the bonus.   *)
LEMMA TimingIs ==
  ASSUME NEW signals \in Seq(Signal), Scored(signals) # {}
  PROVE  /\ TimingScore(signals) =
              Least(100, Round(80 * PartSum(signals) + 20 * WholeSum(signals), WholeSum(signals))
                           + Bonus(signals))
         /\ WholeSum(signals) \in Nat \ {0} /\ PartSum(signals) \in Nat
         /\ PartSum(signals) <= WholeSum(signals)
         /\ Bonus(signals) \in Nat
<1> DEFINE T == Top(signals)
           W == Weights(signals)
<1>1. signals # <<>>
  BY DEF Scored
<1>2. /\ IsFiniteSet(T) /\ T \in SUBSET DOMAIN signals
      /\ \A i \in T : W[i] = Weight(signals[i]) /\ W[i] \in Int
      /\ SumFunctionOnSet(W, T) \in Nat \ {0}
  BY TopCounts
<1>3. \A i \in T : /\ Whole(signals)[i] = Unit * W[i]
                   /\ Whole(signals)[i] \in Nat /\ Part(signals)[i] \in Nat
                   /\ Part(signals)[i] <= Whole(signals)[i]
  <2> TAKE i \in T
  <2>1. i \in DOMAIN signals /\ W[i] = Weight(signals[i])
    BY <1>2
  <2> HIDE DEF T, W
  <2> QED BY <2>1, PartsOfWhole
<1> HIDE DEF T, W
<1>4. SumFunctionOnSet(Whole(signals), T) = Unit * SumFunctionOnSet(W, T)
  <2>1. Unit \in Int
    BY UnitPositive
  <2> QED BY <1>2, <1>3, <2>1, SumScaled
<1>5. WholeSum(signals) \in Nat \ {0}
  BY <1>2, <1>4, UnitPositive, Positive DEF WholeSum, T
<1>6. PartSum(signals) \in Nat
  BY <1>2, <1>3, SumNatural DEF PartSum, T
<1>7. PartSum(signals) <= WholeSum(signals)
  <2>1. \A i \in T : Part(signals)[i] \in Int /\ Whole(signals)[i] \in Int
    BY <1>3
  <2> QED BY <1>2, <1>3, <2>1, SumMonotone DEF PartSum, WholeSum, T
<1>8. Bonus(signals) \in Nat
  <2>1. Cardinality(Scored(signals)) \in Nat
    BY TopCounts
  <2> QED BY <2>1 DEF Bonus, Least
<1>9. WholeSum(signals) = Unit * SumFunctionOnSet(Weights(signals), Top(signals))
  BY <1>4 DEF WholeSum, T, W
<1>10. TimingScore(signals) =
              Least(100, Round(80 * PartSum(signals) + 20 * WholeSum(signals), WholeSum(signals))
                           + Bonus(signals))
  BY <1>1, <1>9 DEF TimingScore, PartSum, Part, Bonus
<1> QED BY <1>5, <1>6, <1>7, <1>8, <1>10

(* It is no less than c if c percent of the whole are no more than 80% of  *)
(* the parts and 20% of the whole.                                         *)
LEMMA RoundAtLeast ==
  ASSUME NEW n \in Int, NEW d \in Nat \ {0}, NEW c \in Int, c * d <= n
  PROVE  c <= Round(n, d)
<1>1. d * c <= n
  <2>1. d * c = c * d
    OBVIOUS
  <2> QED BY <2>1
<1>2. c <= n \div d
  BY <1>1, QuotientAtLeast
<1>3. n \div d \in Int
  BY Quotient
<1>4. Round(n, d) \in {n \div d, (n \div d) + 1}
  BY DEF Round
<1> QED BY <1>2, <1>3, <1>4

(* A mean grows if the whole grows and what it misses does not.            *)
LEMMA MeanGrows ==
  ASSUME NEW s \in Nat, NEW t \in Nat, NEW u \in Nat, NEW v \in Nat,
         t <= v, u <= v, v - u <= t - s
  PROVE  s * v <= u * t
<1> DEFINE d == t - s
           e == v - u
<1>1. d \in Int /\ e \in Nat /\ e <= d /\ d \in Nat
  OBVIOUS
<1>2. s = t - d /\ u = v - e
  OBVIOUS
<1> HIDE DEF d, e
<1>3. e * t <= e * v /\ v * e <= v * d /\ e * v = v * e
  BY <1>1, ProductMonotone
<1>4. s * v = t * v - v * d
  <2>1. v * (t - d) = v * t - v * d
    BY <1>1, Distribute
  <2>2. s * v = v * (t - d) /\ v * t = t * v
    BY <1>2
  <2> QED BY <2>1, <2>2
<1>5. u * t = t * v - e * t
  <2>1. t * (v - e) = t * v - t * e
    BY <1>1, Distribute
  <2>2. u * t = t * (v - e) /\ t * e = e * t
    BY <1>1, <1>2
  <2> QED BY <2>1, <2>2
<1>6. t * v \in Int /\ v * d \in Int /\ e * t \in Int /\ e * v \in Int
  BY <1>1
<1> QED BY <1>3, <1>4, <1>5, <1>6

(* What the scores are compared by.                                        *)
LEMMA TimingCompared ==
  ASSUME NEW x \in Seq(Signal), NEW y \in Seq(Signal), Scored(x) # {}, Scored(y) # {},
         PartSum(x) * WholeSum(y) <= PartSum(y) * WholeSum(x),
         Bonus(x) <= Bonus(y)
  PROVE  TimingScore(x) <= TimingScore(y)
<1> DEFINE s == PartSum(x)
           t == WholeSum(x)
           u == PartSum(y)
           v == WholeSum(y)
           n == 80 * s + 20 * t
           p == 80 * u + 20 * v
<1>1. /\ TimingScore(x) = Least(100, Round(n, t) + Bonus(x))
      /\ TimingScore(y) = Least(100, Round(p, v) + Bonus(y))
  BY TimingIs
<1>2. /\ t \in Nat \ {0} /\ v \in Nat \ {0} /\ s \in Nat /\ u \in Nat
      /\ Bonus(x) \in Nat /\ Bonus(y) \in Nat
  BY TimingIs
<1>a. s * v <= u * t
  OBVIOUS
<1> HIDE DEF s, t, u, v
<1>3. n * v <= p * t
  <2>1. v * n = v * (80 * s) + v * (20 * t) /\ t * p = t * (80 * u) + t * (20 * v)
    BY <1>2, Distribute
  <2>2. /\ v * (80 * s) = 80 * (s * v) /\ v * (20 * t) = 20 * (t * v)
        /\ t * (80 * u) = 80 * (u * t) /\ t * (20 * v) = 20 * (t * v)
    BY <1>2
  <2>3. n * v = v * n /\ p * t = t * p
    BY <1>2
  <2>4. s * v \in Int /\ u * t \in Int /\ t * v \in Int
    BY <1>2
  <2> QED BY <1>a, <2>1, <2>2, <2>3, <2>4
<1>4. n \in Int /\ p \in Int
  BY <1>2
<1> HIDE DEF n, p
<1>5. Round(n, t) <= Round(p, v) /\ Round(n, t) \in Int /\ Round(p, v) \in Int
  BY <1>2, <1>3, <1>4, RoundMonotone, RoundIsInt
<1> QED BY <1>1, <1>2, <1>5 DEF Least
(* A signal that is not older is not less fresh.                           *)
LEMMA RecencyMonotone ==
  ASSUME NEW s \in Signal, NEW t \in Signal, s.age # None, t.age # None, t.age <= s.age
  PROVE  Recency(s) <= Recency(t)
<1> DEFINE x == s.age
           y == t.age
           f == Stale - Fresh
           g == Expired - Stale
           V == f * g
           Mid(e) == (3 * Unit + (7 * Unit * (Stale - e)) \div f) \div 10
           Old(e) == (3 * Unit * (Expired - e)) \div (10 * g)
<1>1. x \in Nat /\ y \in Nat /\ y <= x
  BY DEF Signal
<1>2. /\ Fresh \in Nat /\ Stale \in Nat /\ Expired \in Nat /\ Fresh < Stale /\ Stale < Expired
      /\ f \in Nat \ {0} /\ g \in Nat \ {0} /\ 10 * g \in Nat \ {0} /\ 10 * f \in Nat
  BY Dates
<1>3. V \in Nat \ {0} /\ Unit = 10 * V
  <2>1. Unit = 10 * f * g
    BY DEF Unit
  <2> HIDE DEF f, g
  <2>2. 10 * f * g = 10 * (f * g)
    BY <1>2
  <2> QED BY <1>2, <2>1, <2>2, Positive
<1>4. /\ Recency(s) \in 0..Unit /\ Recency(t) \in 0..Unit
      /\ x > Expired => Recency(s) = 0
      /\ y <= Fresh => Recency(t) = Unit
  <2>1. x > Expired => Recency(s) = 0
    BY <1>1, <1>2 DEF Recency
  <2>2. y <= Fresh => Recency(t) = Unit
    BY <1>1, <1>2 DEF Recency
  <2> QED BY <2>1, <2>2, RecencyBounded
<1>5. /\ Fresh < x /\ x <= Stale => Recency(s) = Mid(x)
      /\ Fresh < y /\ y <= Stale => Recency(t) = Mid(y)
      /\ Stale < x /\ x <= Expired => Recency(s) = Old(x)
      /\ Stale < y /\ y <= Expired => Recency(t) = Old(y)
  <2>1. Fresh < x /\ x <= Stale => Recency(s) = Mid(x)
    BY <1>1, <1>2 DEF Recency
  <2>2. Fresh < y /\ y <= Stale => Recency(t) = Mid(y)
    BY <1>1, <1>2 DEF Recency
  <2>3. Stale < x /\ x <= Expired => Recency(s) = Old(x)
    BY <1>1, <1>2 DEF Recency
  <2>4. Stale < y /\ y <= Expired => Recency(t) = Old(y)
    BY <1>1, <1>2 DEF Recency
  <2> QED BY <2>1, <2>2, <2>3, <2>4
<1> HIDE DEF x, y, f, V
<1>6. ASSUME x <= Expired, Fresh < y PROVE Recency(s) <= Recency(t)
  <2>1. CASE y > Stale
    <3> DEFINE u == 3 * Unit
               a == Expired - x
               b == Expired - y
    <3>1. u \in Nat /\ a \in Int /\ b \in Int /\ a <= b
      BY <1>1, <1>2, <1>3
    <3>2. Recency(s) = (u * a) \div (10 * g) /\ Recency(t) = (u * b) \div (10 * g)
      BY <1>1, <1>2, <1>5, <1>6, <2>1
    <3> HIDE DEF u, a, b, g
    <3>3. u * a \in Int /\ u * b \in Int /\ u * a <= u * b
      BY <3>1, ProductMonotone
    <3> QED BY <1>2, <3>2, <3>3, QuotientMonotone
  <2>2. CASE x <= Stale
    <3> DEFINE u == 7 * Unit
               a == Stale - x
               b == Stale - y
    <3>1. u \in Nat /\ a \in Int /\ b \in Int /\ a <= b
      BY <1>1, <1>2, <1>3
    <3>2. /\ Recency(s) = (3 * Unit + (u * a) \div f) \div 10
          /\ Recency(t) = (3 * Unit + (u * b) \div f) \div 10
      BY <1>1, <1>2, <1>5, <1>6, <2>2
    <3> HIDE DEF u, a, b
    <3>3. u * a \in Int /\ u * b \in Int /\ u * a <= u * b
      BY <3>1, ProductMonotone
    <3> DEFINE c == (u * a) \div f
               d == (u * b) \div f
    <3>4. c \in Int /\ d \in Int /\ c <= d
      BY <1>2, <3>3, QuotientMonotone, Quotient
    <3>5. Recency(s) = (3 * Unit + c) \div 10 /\ Recency(t) = (3 * Unit + d) \div 10
      BY <3>2
    <3> HIDE DEF c, d
    <3> QED BY <1>3, <3>4, <3>5
  <2>3. CASE Stale < x /\ y <= Stale
    <3>1. Recency(s) <= 3 * V
      <4> DEFINE a == Expired - x
                 n == 3 * Unit * a
      <4>1. a \in Nat /\ a <= g
        BY <1>1, <1>2, <1>6, <2>3
      <4>2. Recency(s) = n \div (10 * g)
        BY <1>5, <1>6, <2>3
      <4> HIDE DEF a, g
      <4>3. n = 30 * V * a /\ 30 * V \in Nat
        BY <1>3, <4>1
      <4>4. 30 * V * a <= 30 * V * g /\ 30 * V * a \in Nat
        BY <1>2, <4>1, <4>3, ProductMonotone
      <4>5. 30 * V * g = (10 * g) * (3 * V) /\ 3 * V \in Nat
        BY <1>2, <1>3
      <4> HIDE DEF n
      <4>6. n \in Nat /\ n <= (10 * g) * (3 * V)
        BY <4>3, <4>4, <4>5
      <4>7. n \div (10 * g) \in 0..(3 * V)
        BY <1>2, <4>5, <4>6, QuotientBounded
      <4> QED BY <1>3, <4>2, <4>7
    <3>2. 3 * V <= Recency(t)
      <4> DEFINE b == Stale - y
                 n == 7 * Unit * b
                 c == n \div f
      <4>1. b \in Nat /\ 7 * Unit \in Nat
        BY <1>1, <1>2, <1>3, <2>3
      <4>2. Recency(t) = (3 * Unit + c) \div 10
        BY <1>5, <1>6, <2>3
      <4> HIDE DEF b
      <4>3. n \in Nat
        BY <4>1
      <4> HIDE DEF n
      <4>4. c \in Int /\ 0 <= c
        <5>1. f * 0 <= n
          BY <1>2, <4>3
        <5> QED BY <1>2, <4>3, <5>1, QuotientAtLeast, Quotient
      <4> HIDE DEF c
      <4> QED BY <1>3, <4>2, <4>4
    <3>3. Recency(s) \in Int /\ Recency(t) \in Int /\ 3 * V \in Int
      BY <1>3, <1>4
    <3> QED BY <3>1, <3>2, <3>3
  <2> QED BY <1>1, <1>2, <2>1, <2>2, <2>3
<1>7. CASE x > Expired \/ y <= Fresh
  BY <1>3, <1>4, <1>7
<1> QED BY <1>1, <1>2, <1>6, <1>7

(* The sum of one value.                                                   *)
LEMMA SumOfOne ==
  ASSUME NEW f, NEW x, f[x] \in Int
  PROVE  SumFunctionOnSet(f, {x}) = f[x]
<1>1. IsFiniteSet({x}) /\ \A y \in {x} : f[y] \in Int
  BY FS_Singleton
<1>2. SumFunctionOnSet(f, {x}) = f[x] + SumFunctionOnSet(f, {x} \ {x})
  BY <1>1, SumOnSet
<1>3. IsFiniteSet({}) /\ {x} \ {x} = {}
  BY FS_EmptySet
<1>4. SumFunctionOnSet(f, {}) = 0
  BY <1>3, SumOnSet
<1>5. SumFunctionOnSet(f, {x}) = f[x] + 0
  BY <1>2, <1>3, <1>4, Zenon
<1> QED BY <1>5

(* The sums when only one signal counts.                                   *)
LEMMA OneCounts ==
  ASSUME NEW signals \in Seq(Signal), NEW i, Scored(signals) = {i}
  PROVE  /\ i \in DOMAIN signals /\ signals[i] \in Signal
         /\ WholeSum(signals) = Unit * Weight(signals[i])
         /\ PartSum(signals) = Weight(signals[i]) * Recency(signals[i])
         /\ Bonus(signals) = 3
<1>1. i \in DOMAIN signals /\ signals[i] \in Signal
  BY TopCounts
<1>2. Top(signals) = {i}
  BY TopCounts
<1>3. /\ Whole(signals)[i] = Unit * Weight(signals[i]) /\ Whole(signals)[i] \in Int
      /\ Part(signals)[i] = Weight(signals[i]) * Recency(signals[i]) /\ Part(signals)[i] \in Int
  BY <1>1, PartsOfWhole
<1>4. /\ WholeSum(signals) = Whole(signals)[i]
      /\ PartSum(signals) = Part(signals)[i]
  BY <1>2, <1>3, SumOfOne DEF WholeSum, PartSum
<1>5. Bonus(signals) = 3
  <2>1. Cardinality(Scored(signals)) = 1
    BY FS_Singleton
  <2> QED BY <2>1 DEF Bonus, Least
<1> QED BY <1>1, <1>3, <1>4, <1>5

(* With a signal that counts, the timing score is at least 20.             *)
LEMMA FloorOfTwenty ==
  ASSUME NEW signals \in Seq(Signal), Scored(signals) # {}
  PROVE  TimingScore(signals) >= 20
<1> DEFINE u == PartSum(signals)
           v == WholeSum(signals)
           p == 80 * u + 20 * v
<1>1. v \in Nat \ {0} /\ u \in Nat /\ Bonus(signals) \in Nat
  BY TimingIs
<1>2. TimingScore(signals) = Least(100, Round(p, v) + Bonus(signals))
  BY TimingIs
<1> HIDE DEF u, v
<1>3. p \in Int /\ 20 * v <= p
  BY <1>1
<1> HIDE DEF p
<1> DEFINE c == 20
<1>4. c \in Int /\ c * v <= p
  BY <1>3
<1> HIDE DEF c
<1>5. c <= Round(p, v) /\ Round(p, v) \in Int
  BY <1>1, <1>3, <1>4, RoundAtLeast, RoundIsInt
<1>6. 20 <= Round(p, v)
  BY <1>5 DEF c
<1> QED BY <1>1, <1>2, <1>5, <1>6 DEF Least

(* The only signal is not older: timing is not lower.                      *)
LEMMA TimingOfOne ==
  ASSUME NEW x \in Seq(Signal), NEW y \in Seq(Signal), Len(x) = 1, Len(y) = 1,
         x[1].age # None, y[1].age # None, y[1].age <= x[1].age
  PROVE  TimingScore(x) <= TimingScore(y)
<1>1. DOMAIN x = {1} /\ DOMAIN y = {1} /\ x[1] \in Signal /\ y[1] \in Signal /\ x # <<>> /\ y # <<>>
  OBVIOUS
<1>2. Recency(x[1]) <= Recency(y[1]) /\ Recency(x[1]) \in Nat /\ Recency(y[1]) \in Nat
  BY <1>1, RecencyMonotone, RecencyBounded, UnitPositive
<1>3. CASE Scored(x) = {}
  <2>1. TimingScore(x) = 20
    BY <1>1, <1>3 DEF TimingScore
  <2>2. CASE Scored(y) = {}
    BY <1>1, <2>1, <2>2 DEF TimingScore
  <2>3. CASE Scored(y) # {}
    BY <2>1, <2>3, FloorOfTwenty
  <2> QED BY <2>2, <2>3
<1>4. CASE Scored(x) # {}
  <2>1. Scored(x) = {1} /\ Recency(x[1]) > 0
    BY <1>1, <1>4 DEF Scored
  <2>2. Scored(y) = {1}
    BY <1>1, <1>2, <2>1 DEF Scored
  <2> DEFINE w == Weight(x[1])
             k == Weight(y[1])
             r == Recency(x[1])
             q == Recency(y[1])
  <2>3. /\ WholeSum(x) = Unit * w /\ PartSum(x) = w * r /\ Bonus(x) = 3
        /\ WholeSum(y) = Unit * k /\ PartSum(y) = k * q /\ Bonus(y) = 3
    BY <2>1, <2>2, OneCounts
  <2>4. w \in Nat /\ k \in Nat /\ Unit \in Nat /\ r \in Nat /\ q \in Nat /\ r <= q
    BY <1>1, <1>2, WeightPositive, UnitPositive
  <2>5. (w * r) * (Unit * k) <= (k * q) * (Unit * w)
    <3> DEFINE c == (w * k) * Unit
    <3> HIDE DEF w, k, r, q
    <3>1. c \in Nat /\ c * r <= c * q
      <4>1. c \in Nat
        BY <2>4
      <4> HIDE DEF c
      <4> QED BY <2>4, <4>1, ProductMonotone
    <3>2. (w * r) * (Unit * k) = c * r /\ (k * q) * (Unit * w) = c * q
      BY <2>4
    <3> QED BY <3>1, <3>2
  <2>6. PartSum(x) * WholeSum(y) <= PartSum(y) * WholeSum(x) /\ Bonus(x) <= Bonus(y)
    BY <2>3, <2>5
  <2> QED BY <2>1, <2>2, <2>6, TimingCompared
<1> QED BY <1>3, <1>4

(* There is a fresh signal more: timing is not lower.                      *)
LEMMA TimingOfMore ==
  ASSUME NEW x \in Seq(Signal), NEW s \in Signal, s.age # None, s.age <= Fresh
  PROVE  TimingScore(x) <= TimingScore(Append(x, s))
<1> DEFINE y == Append(x, s)
           z == Len(x) + 1
<1>1. /\ y \in Seq(Signal) /\ y # <<>> /\ z \in Nat /\ DOMAIN x = 1..Len(x) /\ DOMAIN y = 1..z
      /\ y[z] = s /\ \A i \in DOMAIN x : i \in DOMAIN y /\ i # z /\ y[i] = x[i]
      /\ DOMAIN y = DOMAIN x \cup {z} /\ z \notin DOMAIN x
  OBVIOUS
<1>2. Recency(s) = Unit
  <2>1. s.age \in Nat /\ Fresh \in Nat
    BY Dates DEF Signal
  <2> QED BY <2>1, Dates DEF Recency
<1> HIDE DEF y, z
<1>3. Scored(y) = Scored(x) \cup {z} /\ z \notin Scored(x) /\ Scored(x) \in SUBSET DOMAIN x
  <2>1. Recency(y[z]) > 0
    BY <1>1, <1>2, UnitPositive
  <2> QED BY <1>1, <2>1 DEF Scored
<1>4. CASE Scored(x) = {}
  <2>1. TimingScore(x) \in {20, 30}
    BY <1>4 DEF TimingScore
  <2>2. Scored(y) = {z}
    BY <1>3, <1>4
  <2> DEFINE v == WholeSum(y)
             u == PartSum(y)
             p == 80 * u + 20 * v
  <2>3. v \in Nat \ {0} /\ u = v /\ Bonus(y) = 3
    <3>1. Weight(s) * Recency(s) = Unit * Weight(s)
      <4>1. Weight(s) \in Nat /\ Unit \in Nat
        BY WeightPositive, UnitPositive
      <4> QED BY <1>2, <4>1
    <3> QED BY <1>1, <2>2, <3>1, OneCounts, TimingIs
  <2>4. TimingScore(y) = Least(100, Round(p, v) + Bonus(y))
    BY <1>1, <2>2, TimingIs
  <2> HIDE DEF u, v
  <2> DEFINE c == 100
  <2>5. p \in Int /\ c \in Int /\ c * v <= p
    BY <2>3
  <2> HIDE DEF p, c
  <2>6. c <= Round(p, v) /\ Round(p, v) \in Int
    BY <2>3, <2>5, RoundAtLeast, RoundIsInt
  <2>7. TimingScore(y) = 100
    BY <2>3, <2>4, <2>6 DEF Least, c
  <2> QED BY <2>1, <2>7 DEF y
<1>5. CASE Scored(x) # {}
  <2> DEFINE T == Top(x)
             U == Top(y)
             W == Weights(y)
             h == Whole(y)
             f == Part(y)
  <2>1. /\ IsFiniteSet(Scored(x)) /\ Scored(x) \in SUBSET Int /\ z \in Int
        /\ DOMAIN x \in SUBSET Int
    BY <1>1, <1>3, TopCounts, Indices
  <2>2. /\ \A i \in DOMAIN y : W[i] = Weight(y[i]) /\ W[i] \in Nat
        /\ \A i \in DOMAIN x : Weights(x)[i] = Weight(x[i])
        /\ \A i \in DOMAIN y : /\ h[i] = Unit * W[i] /\ h[i] \in Nat /\ f[i] \in Nat
                               /\ f[i] <= h[i]
        /\ \A i \in DOMAIN x : Whole(x)[i] = h[i] /\ Part(x)[i] = f[i]
        /\ h[z] = f[z]
    <3>1. \A i \in DOMAIN y : W[i] = Weight(y[i]) /\ W[i] \in Nat
      BY <1>1, TopCounts
    <3>2. \A i \in DOMAIN x : Weights(x)[i] = Weight(x[i])
      BY TopCounts
    <3>3. \A i \in DOMAIN y : /\ h[i] = Unit * Weight(y[i]) /\ h[i] \in Nat /\ f[i] \in Nat
                              /\ f[i] = Weight(y[i]) * Recency(y[i]) /\ f[i] <= h[i]
      BY <1>1, PartsOfWhole
    <3>4. \A i \in DOMAIN x : /\ Whole(x)[i] = Unit * Weight(x[i])
                              /\ Part(x)[i] = Weight(x[i]) * Recency(x[i])
      BY PartsOfWhole
    <3>5. \A i \in DOMAIN x : Whole(x)[i] = h[i] /\ Part(x)[i] = f[i]
      BY <1>1, <3>3, <3>4
    <3>6. h[z] = f[z]
      <4>1. h[z] = Unit * Weight(s) /\ f[z] = Weight(s) * Unit
        BY <1>1, <1>2, <3>3
      <4>2. Weight(s) \in Nat /\ Unit \in Nat
        BY WeightPositive, UnitPositive
      <4> QED BY <4>1, <4>2
    <3> QED BY <3>1, <3>2, <3>3, <3>5, <3>6
  <2>3. T = Largest(W, Scored(x), TopSignals) /\ U = Largest(W, Scored(x) \cup {z}, TopSignals)
    <3>1. \A i \in Scored(x) : Weights(x)[i] = W[i]
      BY <1>1, <1>3, <2>2
    <3>2. Largest(Weights(x), Scored(x), TopSignals) = Largest(W, Scored(x), TopSignals)
      BY <3>1, LargestSame
    <3> QED BY <1>3, <3>2 DEF Top
  <2>4. /\ T \in SUBSET DOMAIN x /\ U \in SUBSET DOMAIN y /\ IsFiniteSet(T) /\ IsFiniteSet(U)
        /\ z \notin T
    BY <1>1, <1>3, TopCounts
  <2> HIDE DEF T, U, W, h, f
  <2>5. AtMostReplaces(W, z, T, U)
    <3>1. Keyed(W, Scored(x) \cup {z})
      BY <1>1, <1>3, <2>2 DEF Keyed
    <3>2. TopSignals \in Nat
      BY Dates
    <3>3. z \notin Scored(x)
      BY <1>3
    <3> DEFINE items == Scored(x)
    <3>4. /\ items \in SUBSET Int /\ z \in Int /\ IsFiniteSet(items) /\ z \notin items
          /\ Keyed(W, items \cup {z})
          /\ T = Largest(W, items, TopSignals) /\ U = Largest(W, items \cup {z}, TopSignals)
      BY <2>1, <2>3, <3>1, <3>3
    <3> HIDE DEF items
    <3> QED BY <3>2, <3>4, LargestOfMore, Zenon
  <2> DEFINE S(k, q) == SumFunctionOnSet(k, q)
  <2>6. /\ WholeSum(x) = S(h, T) /\ PartSum(x) = S(f, T)
        /\ WholeSum(y) = S(h, U) /\ PartSum(y) = S(f, U)
    <3>1. SumFunctionOnSet(Whole(x), T) = SumFunctionOnSet(h, T)
      <4>1. \A i \in T : Whole(x)[i] \in Int /\ Whole(x)[i] = h[i]
        BY <1>1, <2>2, <2>4
      <4> QED BY <2>4, <4>1, SumSame
    <3>2. SumFunctionOnSet(Part(x), T) = SumFunctionOnSet(f, T)
      <4>1. \A i \in T : Part(x)[i] \in Int /\ Part(x)[i] = f[i]
        BY <1>1, <2>2, <2>4
      <4> QED BY <2>4, <4>1, SumSame
    <3> QED BY <3>1, <3>2 DEF WholeSum, PartSum, T, U, h, f
  <2>7. \A D \in SUBSET DOMAIN y :
          IsFiniteSet(D) => /\ S(h, D) \in Int /\ S(f, D) \in Int
                            /\ \A i \in D : /\ S(h, D) = h[i] + S(h, D \ {i})
                                            /\ S(f, D) = f[i] + S(f, D \ {i})
    <3> TAKE D \in SUBSET DOMAIN y
    <3> SUFFICES ASSUME IsFiniteSet(D)
                 PROVE  /\ S(h, D) \in Int /\ S(f, D) \in Int
                        /\ \A i \in D : /\ S(h, D) = h[i] + S(h, D \ {i})
                                        /\ S(f, D) = f[i] + S(f, D \ {i})
      OBVIOUS
    <3>1. (\A i \in D : h[i] \in Int) /\ (\A i \in D : f[i] \in Int)
      BY <2>2
    <3> QED BY <3>1, SumOnSet
  <2>8. /\ S(h, T) \in Nat /\ S(f, T) \in Nat /\ S(h, U) \in Nat /\ S(f, U) \in Nat
        /\ S(f, U) <= S(h, U)
    <3>1. y \in Seq(Signal) /\ Scored(y) # {}
      BY <1>1, <1>3
    <3>2. /\ WholeSum(x) \in Nat /\ PartSum(x) \in Nat /\ WholeSum(y) \in Nat /\ PartSum(y) \in Nat
          /\ PartSum(y) <= WholeSum(y)
      BY <1>5, <3>1, TimingIs
    <3> QED BY <2>6, <3>2
  <2>9. S(h, T) <= S(h, U) /\ S(h, U) - S(f, U) <= S(h, T) - S(f, T)
    <3>1. CASE U = T
      BY <2>8, <3>1
    <3>2. CASE U = T \cup {z}
      <4>1. U \ {z} = T /\ z \in U
        BY <2>4, <3>2
      <4>2. S(h, U) = h[z] + S(h, T) /\ S(f, U) = f[z] + S(f, T)
        BY <2>4, <2>7, <4>1
      <4>3. h[z] \in Nat /\ f[z] = h[z]
        BY <1>1, <2>2
      <4> HIDE DEF S
      <4> QED BY <2>8, <4>2, <4>3
    <3>3. CASE \E l \in T : U = (T \ {l}) \cup {z} /\ W[l] <= W[z]
      <4>1. PICK l \in T : U = (T \ {l}) \cup {z} /\ W[l] <= W[z]
        BY <3>3
      <4> DEFINE D == T \ {l}
      <4>2. U \ {z} = D /\ z \in U /\ l \in DOMAIN y /\ T \in SUBSET DOMAIN y
        BY <1>1, <2>4, <4>1
      <4>3. /\ S(h, U) = h[z] + S(h, D) /\ S(f, U) = f[z] + S(f, D)
            /\ S(h, T) = h[l] + S(h, D) /\ S(f, T) = f[l] + S(f, D)
        BY <2>4, <2>7, <4>2
      <4>4. h[l] \in Nat /\ f[l] \in Nat /\ f[l] <= h[l] /\ h[z] \in Nat /\ f[z] = h[z]
        BY <1>1, <2>2, <4>2
      <4>5. h[l] <= h[z]
        <5>1. W[l] \in Nat /\ W[z] \in Nat /\ Unit \in Nat /\ W[l] <= W[z]
          BY <1>1, <2>2, <4>1, <4>2, UnitPositive
        <5>2. h[l] = Unit * W[l] /\ h[z] = Unit * W[z]
          BY <1>1, <2>2, <4>2
        <5> QED BY <5>1, <5>2, ProductMonotone
      <4>6. S(h, D) \in Int /\ S(f, D) \in Int
        <5>1. D \in SUBSET DOMAIN y /\ IsFiniteSet(D)
          BY <2>4, <4>2, FS_Subset
        <5> QED BY <2>7, <5>1
      <4> HIDE DEF S, D
      <4> QED BY <4>3, <4>4, <4>5, <4>6
    <3> QED BY <2>5, <3>1, <3>2, <3>3 DEF AtMostReplaces
  <2>10. PartSum(x) * WholeSum(y) <= PartSum(y) * WholeSum(x)
    <3> HIDE DEF S
    <3>1. S(f, T) * S(h, U) <= S(f, U) * S(h, T)
      BY <2>8, <2>9, MeanGrows
    <3> QED BY <2>6, <3>1
  <2>11. Bonus(x) <= Bonus(y)
    <3>1. /\ IsFiniteSet(Scored(y)) /\ Cardinality(Scored(y)) \in Nat
          /\ Cardinality(Scored(x)) \in Nat
      BY <1>1, TopCounts
    <3>2. Scored(x) \in SUBSET Scored(y)
      BY <1>3
    <3>3. Cardinality(Scored(x)) <= Cardinality(Scored(y))
      BY <3>1, <3>2, FS_Subset
    <3> QED BY <3>1, <3>3 DEF Bonus, Least
  <2>12. y \in Seq(Signal) /\ Scored(y) # {}
    BY <1>1, <1>3
  <2> QED BY <1>5, <2>10, <2>11, <2>12, TimingCompared DEF y
<1> QED BY <1>4, <1>5

(* Fresher signals, a timing score at least as high.                       *)
LEMMA TimingMonotone ==
  ASSUME NEW x \in Seq(Signal), NEW y \in Seq(Signal), Fresher(x, y)
  PROVE  TimingScore(x) <= TimingScore(y)
<1>1. CASE x = y
  <2>1. TimingScore(x) \in 0..100
    BY TimingBounded
  <2>2. TimingScore(y) = TimingScore(x)
    BY <1>1
  <2>3. \A i \in 0..100 : i <= i
    OBVIOUS
  <2> QED BY <2>1, <2>2, <2>3, Zenon
<1>2. CASE Len(x) = 1 /\ Len(y) = 1 /\ None \notin {x[1].age, y[1].age} /\ x[1].age >= y[1].age
  <2>1. x[1].age # None /\ y[1].age # None
    BY <1>2
  <2>2. x[1].age \in Nat /\ y[1].age \in Nat
    <3>1. x[1] \in Signal /\ y[1] \in Signal
      BY <1>2
    <3> QED BY <2>1, <3>1 DEF Signal
  <2>3. y[1].age <= x[1].age
    BY <1>2, <2>2
  <2> QED BY <1>2, <2>1, <2>3, TimingOfOne
<1>3. CASE \E s \in Range(y) : y = Append(x, s) /\ s.age # None /\ s.age <= Fresh
  <2>1. PICK s \in Range(y) : y = Append(x, s) /\ s.age # None /\ s.age <= Fresh
    BY <1>3
  <2>2. s \in Signal
    BY <2>1 DEF Range
  <2> QED BY <2>1, <2>2, TimingOfMore
<1> QED BY <1>1, <1>2, <1>3 DEF Fresher
-----------------------------------------------------------------------------
(* More evidence, and nothing is disqualified that was not.                *)
LEMMA DisqualifyMonotone ==
  ASSUME NEW a \in Accounts, NEW b \in Accounts, RulesBelowProfile, AtLeast(a, b),
         CheckDisqualify(b)
  PROVE  CheckDisqualify(a)
<1>1. /\ a.employees \in Nat \cup {None} /\ b.employees \in Nat \cup {None}
      /\ a.revenue \in Nat \cup {None} /\ b.revenue \in Nat \cup {None}
      /\ None \in Int /\ None < 0
  BY FactsKnown DEF None
<1>2. /\ Nearer(a.employees, b.employees, Size) /\ Nearer(a.revenue, b.revenue, Revenue)
      /\ b.customer => a.customer
  BY Zenon DEF AtLeast
<1>3. /\ Size.min \in Nat /\ Size.max \in Nat /\ Size.min <= Size.max
      /\ Revenue.min \in Nat /\ Revenue.max \in Nat /\ Revenue.min <= Revenue.max
      /\ DisqualifyBelow \in Nat
  BY ScoringAssumption DEF ScoringAssumption
<1>4. CASE /\ "employee_count_below_20" \in DisqualifyRules
           /\ b.employees # None /\ b.employees < DisqualifyBelow
  <2>1. DisqualifyBelow <= Size.min
    BY <1>4 DEF RulesBelowProfile
  <2> DEFINE x == a.employees
             y == b.employees
             lo == Size.min
             hi == Size.max
  <2>2. \/ x = y
        \/ x = None /\ y # None /\ lo <= y /\ y <= hi
        \/ x # None /\ y # None /\ x <= y /\ 2 * y <= lo + hi
        \/ x # None /\ y # None /\ x >= y /\ 2 * y >= lo + hi
    BY <1>2 DEF Nearer, Within
  <2>3. y # None /\ y < DisqualifyBelow
    BY <1>4
  <2>4. x \in Nat \cup {None} /\ y \in Nat \cup {None} /\ lo \in Nat /\ hi \in Nat /\ lo <= hi
    BY <1>1, <1>3
  <2> HIDE DEF x, y, lo, hi
  <2>5. x # None /\ x < DisqualifyBelow
    <3>1. DisqualifyBelow <= lo
      BY <2>1 DEF lo
    <3> QED BY <1>1, <1>3, <2>2, <2>3, <2>4, <3>1
  <2> QED BY <1>4, <2>5 DEF CheckDisqualify, x
<1>5. CASE "pre_revenue" \in DisqualifyRules /\ b.revenue # None /\ b.revenue <= 0
  <2>1. Revenue.min > 0
    BY <1>5 DEF RulesBelowProfile
  <2> DEFINE x == a.revenue
             y == b.revenue
             lo == Revenue.min
             hi == Revenue.max
  <2>2. \/ x = y
        \/ x = None /\ y # None /\ lo <= y /\ y <= hi
        \/ x # None /\ y # None /\ x <= y /\ 2 * y <= lo + hi
        \/ x # None /\ y # None /\ x >= y /\ 2 * y >= lo + hi
    BY <1>2 DEF Nearer, Within
  <2>3. y # None /\ y <= 0
    BY <1>5
  <2>4. /\ x \in Nat \cup {None} /\ y \in Nat \cup {None} /\ lo \in Nat /\ hi \in Nat
        /\ lo <= hi /\ lo > 0
    BY <1>1, <1>3, <2>1
  <2> HIDE DEF x, y, lo, hi
  <2>5. x # None /\ x <= 0
    BY <1>1, <2>2, <2>3, <2>4
  <2> QED BY <1>5, <2>5 DEF CheckDisqualify, x
<1>6. CASE "existing_customer" \in DisqualifyRules /\ b.customer
  BY <1>2, <1>6 DEF CheckDisqualify
<1> QED BY <1>4, <1>5, <1>6 DEF CheckDisqualify

(* More evidence, a fit at least as high.                                  *)
LEMMA FitMonotone ==
  ASSUME NEW a \in Accounts, NEW b \in Accounts, RulesBelowProfile, AtLeast(a, b)
  PROVE  IcpFit(a) <= IcpFit(b)
<1>1. CASE CheckDisqualify(a)
  <2>1. IcpFit(a) = 0
    BY <1>1 DEF IcpFit
  <2>2. IcpFit(b) \in 0..100
    BY FitBounded
  <2> QED BY <2>1, <2>2
<1>2. CASE ~CheckDisqualify(a)
  <2>1. ~CheckDisqualify(b)
    BY <1>2, DisqualifyMonotone
  <2> DEFINE i == ScoreIndustry(a)
             c == ScoreCompanySize(a)
             r == ScoreRevenue(a)
             g == ScoreGeography(a)
             m == ScoreMetadataSignals(a)
             j == ScoreIndustry(b)
             d == ScoreCompanySize(b)
             s == ScoreRevenue(b)
             h == ScoreGeography(b)
             k == ScoreMetadataSignals(b)
             n == 15 * i + 10 * c + 10 * r + 5 * g + 35 * m + 25 * 50
             p == 15 * j + 10 * d + 10 * s + 5 * h + 35 * k + 25 * 50
  <2>2. IcpFit(a) = Round(n, 100) /\ IcpFit(b) = Round(p, 100)
    BY <1>2, <2>1 DEF IcpFit
  <2>3. i <= j /\ g <= h
    <3>1. /\ Order(a.industry, b.industry, <<"other", "unknown", "target">>)
          /\ Order(a.geography, b.geography, <<"other", "unknown", "target">>)
      BY Zenon DEF AtLeast
    <3> QED BY <3>1, WordsMonotone
  <2>4. c <= d /\ r <= s
    <3>1. Nearer(a.employees, b.employees, Size) /\ Nearer(a.revenue, b.revenue, Revenue)
      BY Zenon DEF AtLeast
    <3> QED BY <3>1, SizeMonotone, RevenueMonotone
  <2>5. m <= k
    <3>1. /\ Len(a.signals) <= Len(b.signals)
          /\ \A q \in DOMAIN b.signals :
               Better(IF q \in DOMAIN a.signals THEN a.signals[q] ELSE "neither", b.signals[q])
      BY Zenon DEF AtLeast, Better
    <3> QED BY <3>1, MetadataMonotone
  <2>6. /\ i \in 0..100 /\ c \in 0..100 /\ r \in 0..100 /\ g \in 0..100 /\ m \in 0..100
        /\ j \in 0..100 /\ d \in 0..100 /\ s \in 0..100 /\ h \in 0..100 /\ k \in 0..100
    BY WordsBounded, SizeBounded, RevenueBounded, MetadataBounded
  <2>7. n \in Int /\ p \in Int /\ n <= p
    <3> HIDE DEF i, c, r, g, m, j, d, s, h, k
    <3> QED BY <2>3, <2>4, <2>5, <2>6
  <2> HIDE DEF n, p
  <2> QED BY <2>2, <2>7, RoundHundredths
<1> QED BY <1>1, <1>2

(* Scores r and s of accounts of which the second has the better evidence. *)
Ranked(r, s) ==
  /\ s.disqualified => r.disqualified
  /\ r.fit <= s.fit
  /\ r.overall <= s.overall
  /\ (via = "graph" => r.timing <= s.timing)
  /\ r.relevance <= s.relevance
  /\ r.topPain <= s.topPain

(* The fields of the scores.                                               *)
LEMMA ScoresAre ==
  ASSUME NEW a, NEW f, NEW p, NEW t, NEW o, NEW c
  PROVE  /\ Scores(a, f, p, t, o, c).fit = f /\ Scores(a, f, p, t, o, c).pain = p
         /\ Scores(a, f, p, t, o, c).timing = t /\ Scores(a, f, p, t, o, c).overall = o
         /\ Scores(a, f, p, t, o, c).disqualified = CheckDisqualify(a)
         /\ Scores(a, f, p, t, o, c).relevance = a.relevance
         /\ Scores(a, f, p, t, o, c).topPain = a.topPain
  BY DEF Scores

(* What AtLeast says of the facts that are no evidence of the fit.         *)
LEMMA KnownOrder ==
  ASSUME NEW a \in Accounts, NEW b \in Accounts, AtLeast(a, b)
  PROVE  /\ Fresher(a.dated, b.dated)
         /\ a.timing <= b.timing /\ a.relevance <= b.relevance /\ a.topPain <= b.topPain
  BY Zenon DEF AtLeast

(* In an evaluation, more evidence ranks an account no lower.              *)
LEMMA EvaluationRanks ==
  ASSUME NEW a \in Accounts, NEW b \in Accounts, RulesBelowProfile, AtLeast(a, b),
         EvaluatedScore(a).pain <= EvaluatedScore(b).pain, via = "evaluation"
  PROVE  Ranked(EvaluatedScore(a), EvaluatedScore(b))
<1> DEFINE f == IcpFit(a)
           g == IcpFit(b)
           p == a.pain
           q == b.pain
           t == a.timing
           u == b.timing
           n == 35 * f + 30 * p + 35 * t
           m == 35 * g + 30 * q + 35 * u
           c == (10 * IcpConfidence(a).n) \div IcpConfidence(a).d
           d == (10 * IcpConfidence(b).n) \div IcpConfidence(b).d
           h == 100
<1>1. /\ EvaluatedScore(a) = Scores(a, f, p, t, n \div h, c)
      /\ EvaluatedScore(b) = Scores(b, g, q, u, m \div h, d)
  BY DEF EvaluatedScore
<1>2. /\ f \in 0..100 /\ g \in 0..100 /\ p \in 0..100 /\ q \in 0..100
      /\ t \in 0..100 /\ u \in 0..100
  BY FitBounded, FactsKnown
<1>3. f <= g /\ t <= u
  BY FitMonotone, KnownOrder
<1>4. h \in Nat \ {0}
  OBVIOUS
<1>5. CheckDisqualify(b) => CheckDisqualify(a)
  BY DisqualifyMonotone
<1>6. a.relevance <= b.relevance /\ a.topPain <= b.topPain
  BY KnownOrder
<1> HIDE DEF f, g, p, q, t, u, c, d, h
<1>7. p <= q
  <2> HIDE DEF n, m
  <2>1. EvaluatedScore(a).pain = p /\ EvaluatedScore(b).pain = q
    BY <1>1, ScoresAre
  <2> QED BY <2>1
<1>8. n \in Int /\ m \in Int /\ n <= m
  BY <1>2, <1>3, <1>7
<1> HIDE DEF n, m
<1>9. n \div h <= m \div h
  BY <1>4, <1>8, QuotientMonotone
<1> QED BY <1>1, <1>3, <1>5, <1>6, <1>9, ScoresAre DEF Ranked

(* Nor does it in the graph, whatever the model answers.                   *)
LEMMA GraphRanks ==
  ASSUME NEW a \in Accounts, NEW b \in Accounts, RulesBelowProfile, AtLeast(a, b),
         NEW v \in Int, NEW w \in Int, NEW x \in Int, NEW y \in Int,
         \/ IcpScorer(a, v, x).pain <= IcpScorer(b, w, y).pain
         \/ IcpScorer(b, w, y).disqualified
  PROVE  Ranked(IcpScorer(a, v, x), IcpScorer(b, w, y))
<1> DEFINE r == IcpScorer(a, v, x)
           s == IcpScorer(b, w, y)
<1>1. CheckDisqualify(b) => CheckDisqualify(a)
  BY DisqualifyMonotone
<1>2. a.relevance <= b.relevance /\ a.topPain <= b.topPain
  BY KnownOrder
<1>3. r \in ScoreSet /\ s \in ScoreSet
  BY IcpScorerTyped
<1>4. s.fit \in 0..100 /\ s.timing \in 0..100 /\ s.overall \in 0..100
  <2> HIDE DEF r, s
  <2> QED BY <1>3, Zenon DEF ScoreSet
<1> DEFINE f == IcpFit(a)
           g == IcpFit(b)
           p == Clip(v)
           q == Clip(w)
           t == TimingScore(a.dated)
           u == TimingScore(b.dated)
           n == 35 * f + 35 * p + 30 * t
           m == 35 * g + 35 * q + 30 * u
<1>5. /\ CheckDisqualify(a) => \E c : r = Scores(a, 0, 0, 0, 0, c)
      /\ ~CheckDisqualify(a) => \E c : r = Scores(a, f, p, t, Round(n, 100), c)
      /\ CheckDisqualify(b) => \E c : s = Scores(b, 0, 0, 0, 0, c)
      /\ ~CheckDisqualify(b) => \E c : s = Scores(b, g, q, u, Round(m, 100), c)
  BY DEF IcpScorer
<1> HIDE DEF r, s
<1>6. /\ r.disqualified = CheckDisqualify(a) /\ r.relevance = a.relevance /\ r.topPain = a.topPain
      /\ s.disqualified = CheckDisqualify(b) /\ s.relevance = b.relevance /\ s.topPain = b.topPain
  <2> HIDE DEF f, g, p, q, t, u, n, m
  <2> QED BY <1>5, ScoresAre
<1>7. r.fit <= s.fit /\ r.overall <= s.overall /\ r.timing <= s.timing
  <2>1. CASE CheckDisqualify(a)
    <3>1. r.fit = 0 /\ r.overall = 0 /\ r.timing = 0
      BY <1>5, <2>1, ScoresAre
    <3> QED BY <1>4, <3>1
  <2>2. CASE ~CheckDisqualify(a)
    <3>1. ~CheckDisqualify(b)
      BY <1>1, <2>2
    <3>2. /\ r.fit = f /\ r.pain = p /\ r.timing = t /\ r.overall = Round(n, 100)
          /\ s.fit = g /\ s.pain = q /\ s.timing = u /\ s.overall = Round(m, 100)
      <4> HIDE DEF f, g, p, q, t, u, n, m
      <4> QED BY <1>5, <2>2, <3>1, ScoresAre
    <3>3. f <= g /\ t <= u
      <4>1. a.dated \in Seq(Signal) /\ b.dated \in Seq(Signal)
        BY FactsKnown, Zenon DEF Signal
      <4> QED BY <4>1, FitMonotone, KnownOrder, TimingMonotone
    <3>4. f \in 0..100 /\ g \in 0..100 /\ t \in 0..100 /\ u \in 0..100
      <4>1. a.dated \in Seq(Signal) /\ b.dated \in Seq(Signal)
        BY FactsKnown, Zenon DEF Signal
      <4> QED BY <4>1, FitBounded, TimingBounded
    <3>5. p \in 0..100 /\ q \in 0..100
      BY DEF Clip, Least
    <3> HIDE DEF f, g, p, q, t, u
    <3>6. p <= q
      BY <1>6, <3>1, <3>2 DEF r, s
    <3>7. n \in Int /\ m \in Int /\ n <= m
      BY <3>3, <3>4, <3>5, <3>6
    <3> HIDE DEF n, m
    <3>8. Round(n, 100) <= Round(m, 100)
      BY <3>7, RoundHundredths
    <3> QED BY <3>2, <3>3, <3>8
  <2> QED BY <2>1, <2>2
<1> QED BY <1>1, <1>2, <1>6, <1>7 DEF Ranked, r, s

(* What is pursued is pursued on higher scores as well.                    *)
LEMMA PursuitMonotone ==
  ASSUME NEW r \in ScoreSet, NEW s \in ScoreSet, Ranked(r, s), RecommendAction(r) = "pursue_now"
  PROVE  RecommendAction(s) = "pursue_now" \/ s.confidence < Thresholds.confidence
<1>1. /\ ~r.disqualified /\ r.overall >= Thresholds.priority
      /\ r.relevance >= Thresholds.relevance /\ r.topPain >= Thresholds.pain
  BY DEF RecommendAction
<1>2. ~s.disqualified
  BY <1>1 DEF Ranked
<1>3. r.overall <= s.overall /\ r.relevance <= s.relevance /\ r.topPain <= s.topPain
  BY DEF Ranked
<1>4. /\ r.overall \in Int /\ r.relevance \in Int /\ r.topPain \in Int
      /\ s.overall \in Int /\ s.relevance \in Int /\ s.topPain \in Int
  BY DEF ScoreSet
<1>5. Thresholds.priority \in Int /\ Thresholds.relevance \in Int /\ Thresholds.pain \in Int
  BY ScoringAssumption DEF ScoringAssumption
<1>6. /\ s.overall >= Thresholds.priority /\ s.relevance >= Thresholds.relevance
      /\ s.topPain >= Thresholds.pain
  BY <1>1, <1>3, <1>4, <1>5
<1> QED BY <1>2, <1>6 DEF RecommendAction

(* More evidence never ranks an account lower, and never stops a pursuit   *)
(* unless the confidence is too low, whatever the model answers.           *)
THEOREM RankingHolds ==
  ASSUME RulesBelowProfile PROVE Spec => []RankingFollowsEvidence
<1>1. ASSUME EvaluationInv PROVE RankingFollowsEvidence
  <2> SUFFICES ASSUME NEW i \in DOMAIN results, NEW j \in DOMAIN results,
                      AtLeast(results[i].account, results[j].account),
                      \/ results[i].score.pain <= results[j].score.pain
                      \/ via = "graph" /\ results[j].score.disqualified
               PROVE  /\ Ranked(results[i].score, results[j].score)
                      /\ results[i].action = "pursue_now" =>
                           \/ results[j].action = "pursue_now"
                           \/ results[j].score.confidence < Thresholds.confidence
    BY DEF RankingFollowsEvidence, Ranked
  <2>1. results[i] \in Outcomes /\ results[j] \in Outcomes
    BY <1>1, Indices DEF EvaluationInv
  <2>2. PICK a \in Accounts, r \in ScoreSet, b \in Accounts, s \in ScoreSet :
          results[i] = Outcome(a, r) /\ results[j] = Outcome(b, s) /\ Ranked(r, s)
    <3>1. CASE via = "graph"
      <4>1. PICK a \in Accounts, v \in Int, x \in Int : results[i] = Outcome(a, IcpScorer(a, v, x))
        BY <2>1, <3>1 DEF Outcomes
      <4>2. PICK b \in Accounts, w \in Int, y \in Int : results[j] = Outcome(b, IcpScorer(b, w, y))
        BY <2>1, <3>1 DEF Outcomes
      <4>3. /\ results[i].account = a /\ results[i].score = IcpScorer(a, v, x)
            /\ results[j].account = b /\ results[j].score = IcpScorer(b, w, y)
        BY <4>1, <4>2 DEF Outcome
      <4>4. Ranked(IcpScorer(a, v, x), IcpScorer(b, w, y))
        BY <4>1, <4>2, <4>3, GraphRanks
      <4> QED BY <4>1, <4>2, <4>4, IcpScorerTyped
    <3>2. CASE via # "graph"
      <4>1. PICK a \in Accounts : results[i] = Outcome(a, EvaluatedScore(a))
        BY <2>1, <3>2 DEF Outcomes
      <4>2. PICK b \in Accounts : results[j] = Outcome(b, EvaluatedScore(b))
        BY <2>1, <3>2 DEF Outcomes
      <4>3. /\ results[i].account = a /\ results[i].score = EvaluatedScore(a)
            /\ results[j].account = b /\ results[j].score = EvaluatedScore(b)
        BY <4>1, <4>2 DEF Outcome
      <4>4. via = "evaluation"
        BY <1>1, <3>2 DEF EvaluationInv
      <4>5. Ranked(EvaluatedScore(a), EvaluatedScore(b))
        BY <3>2, <4>1, <4>2, <4>3, <4>4, EvaluationRanks
      <4> QED BY <4>1, <4>2, <4>5, EvaluatedScoreTyped
    <3> QED BY <3>1, <3>2
  <2>3. /\ results[i].score = r /\ results[i].action = RecommendAction(r)
        /\ results[j].score = s /\ results[j].action = RecommendAction(s)
    BY <2>2 DEF Outcome
  <2> QED BY <2>2, <2>3, PursuitMonotone
<1> QED BY <1>1, EvaluationInvHolds, PTL
=============================================================================
