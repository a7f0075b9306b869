----------------------------- MODULE Arithmetic -----------------------------
(***************************************************************************)
(* Facts about products, rounded division, sums over finite sets, and what *)
(* stakes are owed per token of a reward. A sum is a recursive function    *)
(* that CHOOSE takes; what holds of every sum is shown by taking a         *)
(* smallest subset for which it fails.                                     *)
(***************************************************************************)
EXTENDS Integers, Functions, FiniteSetTheorems, WellFoundedInduction, TLAPS

-----------------------------------------------------------------------------
(* Division that rounds down.                                              *)

(* Rounding down gives a natural number, and no more than the dividend.    *)
LEMMA DivIsFloor ==
  ASSUME NEW a \in Nat, NEW b \in Nat \ {0}
  PROVE  a \div b \in Nat /\ (a \div b) * b <= a
  BY SMT

(* A product of natural numbers is one.                                    *)
LEMMA ProductIsNat ==
  ASSUME NEW a \in Nat, NEW b \in Nat
  PROVE  a * b \in Nat
  BY SMT

(* More of a kind is worth no less.                                        *)
LEMMA ProductIsMonotone ==
  ASSUME NEW a \in Nat, NEW b \in Nat, NEW k \in Nat, a <= b
  PROVE  a * k <= b * k
  BY SMT

(* A common factor cancels.                                                *)
LEMMA ProductCancels ==
  ASSUME NEW a \in Nat, NEW b \in Nat, NEW k \in Nat \ {0}, a * k <= b * k
  PROVE  a <= b
  BY SMT

(* Rounding down reaches every number whose multiple fits.                 *)
LEMMA DivIsLargest ==
  ASSUME NEW a \in Nat, NEW b \in Nat \ {0}, NEW k \in Nat, k * b <= a
  PROVE  k <= a \div b
  BY SMT

(* Rounding down loses less than one unit.                                 *)
LEMMA DivIsNear ==
  ASSUME NEW a \in Nat, NEW b \in Nat \ {0}
  PROVE  a < (a \div b) * b + b
  BY SMT

(* Rounding up gives no less than the exact quotient.                      *)
LEMMA RemainderRoundsUp ==
  ASSUME NEW a \in Nat, NEW b \in Nat \ {0}
  PROVE  /\ (a \div b) + (IF a % b > 0 THEN 1 ELSE 0) \in Nat
         /\ a <= ((a \div b) + (IF a % b > 0 THEN 1 ELSE 0)) * b
  BY SMT

-----------------------------------------------------------------------------
(* Sums over finite sets.  SumFunctionOnSet takes one element after the    *)
(* other by CHOOSE, through a recursive function on the subsets; that such *)
(* a function exists, and what it gives, follows from the strict subsets   *)
(* of a finite set being well-founded: no set of counterexamples is        *)
(* without a smallest one.                                                 *)
LEMMA SmallestSubset ==
  ASSUME NEW S, IsFiniteSet(S), NEW B, B \subseteq SUBSET S, B # {}
  PROVE  \E T \in B : \A U \in SUBSET T : U # T => U \notin B
<1>1. B \subseteq FiniteSubsetsOf(S)
  BY FS_Subset DEF FiniteSubsetsOf
<1>2. \E T \in B : \A U \in B : ~(<<U, T>> \in StrictSubsetOrdering(S))
  BY <1>1, WFMin, FS_StrictSubsetOrderingWellFounded
<1> QED
  BY <1>2 DEF StrictSubsetOrdering

(* sum gives every subset of S the sum of the values of f on it.           *)
IsSumOn(sum, f, S) ==
  sum = [s \in SUBSET S |->
           IF s = {} THEN 0
           ELSE LET x == CHOOSE x \in s : TRUE IN f[x] + sum[s \ {x}]]

(* The sum is read off the function that CHOOSE takes.                     *)
LEMMA SumIsChosen ==
  ASSUME NEW f, NEW S
  PROVE  SumFunctionOnSet(f, S) = (CHOOSE sum : IsSumOn(sum, f, S))[S]
  BY DEF SumFunctionOnSet, FoldFunctionOnSet, MapThenFoldSet, IsSumOn

(* Such a function takes one element away and adds it.                     *)
LEMMA SumFunctionStep ==
  ASSUME NEW sum, NEW f, NEW S, IsSumOn(sum, f, S), NEW T \in SUBSET S
  PROVE  sum[T] = IF T = {} THEN 0
                  ELSE LET x == CHOOSE x \in T : TRUE IN f[x] + sum[T \ {x}]
  BY DEF IsSumOn

(* Two such functions agree wherever both are defined.                     *)
LEMMA SumsAgree ==
  ASSUME NEW f, NEW S, IsFiniteSet(S), NEW T,
         NEW g, IsSumOn(g, f, S), NEW h, IsSumOn(h, f, T), NEW U \in SUBSET S, U \subseteq T
  PROVE  g[U] = h[U]
<1> DEFINE Bad == {V \in SUBSET S : V \subseteq T /\ g[V] # h[V]}
<1>1. SUFFICES ASSUME Bad # {} PROVE FALSE
  OBVIOUS
<1>2. PICK V \in Bad : \A W \in SUBSET V : W # V => W \notin Bad
  <2>1. Bad \subseteq SUBSET S
    OBVIOUS
  <2> HIDE DEF Bad
  <2> QED
    BY <1>1, <2>1, SmallestSubset
<1>3. V # {}
  BY <1>2, SumFunctionStep
<1> DEFINE x == CHOOSE x \in V : TRUE
<1>4. x \in V
  BY <1>3
<1>5. g[V] = f[x] + g[V \ {x}] /\ h[V] = f[x] + h[V \ {x}]
  BY <1>2, <1>3, SumFunctionStep
<1>6. V \ {x} \in SUBSET V /\ V \ {x} # V
  BY <1>4
<1>7. g[V \ {x}] = h[V \ {x}]
  BY <1>2, <1>6
<1> QED
  BY <1>2, <1>5, <1>7

(* There is such a function for every finite set, so CHOOSE takes one.     *)
LEMMA SumExists ==
  ASSUME NEW f, NEW S, IsFiniteSet(S)
  PROVE  \E sum : IsSumOn(sum, f, S)
<1> DEFINE Bad == {T \in SUBSET S : ~\E sum : IsSumOn(sum, f, T)}
<1>1. SUFFICES ASSUME Bad # {} PROVE FALSE
  OBVIOUS
<1>2. PICK T \in Bad : \A U \in SUBSET T : U # T => U \notin Bad
  <2>1. Bad \subseteq SUBSET S
    OBVIOUS
  <2> HIDE DEF Bad
  <2> QED
    BY <1>1, <2>1, SmallestSubset
<1> DEFINE Part(U) == CHOOSE sum : IsSumOn(sum, f, U)
           whole == [s \in SUBSET T |->
                       IF s = {} THEN 0
                       ELSE LET x == CHOOSE x \in s : TRUE IN f[x] + Part(s \ {x})[s \ {x}]]
<1>3. ASSUME NEW U \in SUBSET T, U # T
      PROVE  IsSumOn(Part(U), f, U) /\ IsFiniteSet(U)
  <2>1. \E sum : IsSumOn(sum, f, U)
    BY <1>2, <1>3
  <2>2. IsFiniteSet(U)
    BY <1>2, <1>3, FS_Subset
  <2> QED
    BY <2>1, <2>2
<1>4. ASSUME NEW U \in SUBSET T, U # T
      PROVE  whole[U] = Part(U)[U]
  <2> DEFINE x == CHOOSE x \in U : TRUE
  <2>1. IsSumOn(Part(U), f, U)
    BY <1>3, <1>4
  <2>2. CASE U = {}
    <3>1. Part(U)[U] = 0
      BY <2>1, <2>2, SumFunctionStep
    <3> QED
      BY <2>2, <3>1
  <2>3. CASE U # {}
    <3>1. x \in U /\ U \ {x} \in SUBSET T /\ U \ {x} # T /\ U \ {x} \in SUBSET U
      BY <2>3
    <3>2. IsSumOn(Part(U \ {x}), f, U \ {x}) /\ IsFiniteSet(U \ {x})
      BY <1>3, <3>1
    <3>3. Part(U \ {x})[U \ {x}] = Part(U)[U \ {x}]
      <4> HIDE DEF Part
      <4> QED
        BY <2>1, <3>1, <3>2, SumsAgree
    <3>4. Part(U)[U] = f[x] + Part(U)[U \ {x}]
      <4> HIDE DEF Part
      <4>1. U \in SUBSET U
        OBVIOUS
      <4> QED
        BY <2>1, <2>3, <4>1, SumFunctionStep
    <3>5. whole[U] = f[x] + Part(U \ {x})[U \ {x}]
      BY <2>3
    <3> QED
      BY <3>3, <3>4, <3>5
  <2> QED
    BY <2>2, <2>3
<1>5. ASSUME NEW s \in SUBSET T, s # {}
      PROVE  LET x == CHOOSE x \in s : TRUE
             IN  Part(s \ {x})[s \ {x}] = whole[s \ {x}]
  <2> DEFINE x == CHOOSE x \in s : TRUE
  <2>1. x \in s
    BY <1>5
  <2>2. s \ {x} \in SUBSET T /\ s \ {x} # T
    BY <2>1
  <2> HIDE DEF Part, whole
  <2> QED
    BY <1>4, <2>2
<1>6. IsSumOn(whole, f, T)
  <2> DEFINE again == [s \in SUBSET T |->
                         IF s = {} THEN 0
                         ELSE LET x == CHOOSE x \in s : TRUE IN f[x] + whole[s \ {x}]]
  <2>1. \A s \in SUBSET T : whole[s] = again[s]
    <3> TAKE s \in SUBSET T
    <3>1. CASE s = {}
      BY <3>1
    <3>2. CASE s # {}
      <4> DEFINE x == CHOOSE x \in s : TRUE
      <4>1. whole[s] = f[x] + Part(s \ {x})[s \ {x}]
        <5> HIDE DEF Part
        <5> QED
          BY <3>2
      <4>2. again[s] = f[x] + whole[s \ {x}]
        <5> HIDE DEF whole
        <5> QED
          BY <3>2
      <4>3. Part(s \ {x})[s \ {x}] = whole[s \ {x}]
        <5> HIDE DEF Part, whole
        <5> QED
          BY <1>5, <3>2
      <4> HIDE DEF Part, whole, again
      <4> QED
        BY <4>1, <4>2, <4>3
    <3> QED
      BY <3>1, <3>2
  <2>2. whole = again
    <3>1. whole = [s \in SUBSET T |-> whole[s]] /\ again = [s \in SUBSET T |-> again[s]]
      OBVIOUS
    <3> HIDE DEF whole, again
    <3> QED
      BY <2>1, <3>1
  <2> QED
    BY <2>2 DEF IsSumOn
<1> QED
  BY <1>2, <1>6

(* The sum of a set that is not empty is its chosen element and the rest.  *)
LEMMA SumStep ==
  ASSUME NEW f, NEW S, IsFiniteSet(S), S # {}
  PROVE  \E x \in S : /\ x = CHOOSE y \in S : TRUE
                      /\ SumFunctionOnSet(f, S) = f[x] + SumFunctionOnSet(f, S \ {x})
<1> DEFINE x == CHOOSE y \in S : TRUE
           g == CHOOSE sum : IsSumOn(sum, f, S)
           h == CHOOSE sum : IsSumOn(sum, f, S \ {x})
<1>1. x \in S /\ IsFiniteSet(S \ {x})
  BY FS_Subset
<1>2. IsSumOn(g, f, S) /\ IsSumOn(h, f, S \ {x})
  BY <1>1, SumExists
<1>3. SumFunctionOnSet(f, S) = g[S] /\ SumFunctionOnSet(f, S \ {x}) = h[S \ {x}]
  BY SumIsChosen
<1> HIDE DEF g, h
<1>4. g[S] = f[x] + g[S \ {x}]
  BY <1>2, SumFunctionStep
<1>5. g[S \ {x}] = h[S \ {x}]
  BY <1>1, <1>2, SumsAgree
<1> QED
  BY <1>1, <1>3, <1>4, <1>5

(* Nothing adds up to zero.                                                *)
LEMMA SumEmpty ==
  ASSUME NEW f
  PROVE  SumFunctionOnSet(f, {}) = 0
<1>1. IsSumOn(CHOOSE sum : IsSumOn(sum, f, {}), f, {})
  BY SumExists, FS_EmptySet
<1>2. (CHOOSE sum : IsSumOn(sum, f, {}))[{}] = 0
  BY <1>1, SumFunctionStep
<1> QED
  BY <1>2, SumIsChosen

(* One element adds up to itself.                                          *)
LEMMA SumOfOne ==
  ASSUME NEW f, NEW x, f[x] \in Int
  PROVE  SumFunctionOnSet(f, {x}) = f[x]
<1>1. IsFiniteSet({x}) /\ {x} # {}
  BY FS_Singleton
<1>2. PICK y \in {x} : SumFunctionOnSet(f, {x}) = f[y] + SumFunctionOnSet(f, {x} \ {y})
  BY <1>1, SumStep
<1>3. y = x /\ {x} \ {y} = {}
  BY <1>2
<1>4. SumFunctionOnSet(f, {x} \ {y}) = SumFunctionOnSet(f, {})
  BY <1>3, Zenon
<1> QED
  BY <1>2, <1>3, <1>4, SumEmpty

(* A sum of integers is one.                                               *)
LEMMA SumIsInt ==
  ASSUME NEW f, NEW S, IsFiniteSet(S), \A x \in S : f[x] \in Int
  PROVE  SumFunctionOnSet(f, S) \in Int
<1> DEFINE Bad == {T \in SUBSET S : SumFunctionOnSet(f, T) \notin Int}
<1>1. SUFFICES ASSUME Bad # {} PROVE FALSE
  OBVIOUS
<1>2. PICK T \in Bad : \A U \in SUBSET T : U # T => U \notin Bad
  <2>1. Bad \subseteq SUBSET S
    OBVIOUS
  <2> HIDE DEF Bad
  <2> QED
    BY <1>1, <2>1, SmallestSubset
<1>3. T # {} /\ IsFiniteSet(T)
  <2>1. SumFunctionOnSet(f, {}) \in Int
    BY SumEmpty
  <2>2. T \in SUBSET S /\ SumFunctionOnSet(f, T) \notin Int
    BY <1>2
  <2> QED
    BY <2>1, <2>2, FS_Subset
<1>4. PICK x \in T : SumFunctionOnSet(f, T) = f[x] + SumFunctionOnSet(f, T \ {x})
  BY <1>3, SumStep
<1>5. T \ {x} \in SUBSET T /\ T \ {x} # T
  OBVIOUS
<1>6. SumFunctionOnSet(f, T \ {x}) \in Int
  BY <1>2, <1>5
<1> QED
  BY <1>2, <1>4, <1>6

(* Any element can be taken out first, not the chosen one only.            *)
LEMMA SumRemove ==
  ASSUME NEW f, NEW S, IsFiniteSet(S), \A x \in S : f[x] \in Int, NEW x \in S
  PROVE  SumFunctionOnSet(f, S) = f[x] + SumFunctionOnSet(f, S \ {x})
<1> DEFINE Sum(T) == SumFunctionOnSet(f, T)
           Bad == {T \in SUBSET S : \E y \in T : Sum(T) # f[y] + Sum(T \ {y})}
<1>1. SUFFICES ASSUME Bad # {} PROVE FALSE
  OBVIOUS
<1>2. PICK T \in Bad : \A U \in SUBSET T : U # T => U \notin Bad
  <2>1. Bad \subseteq SUBSET S
    OBVIOUS
  <2> HIDE DEF Bad
  <2> QED
    BY <1>1, <2>1, SmallestSubset
<1>3. PICK y \in T : Sum(T) # f[y] + Sum(T \ {y})
  BY <1>2
<1>4. IsFiniteSet(T)
  BY <1>2, FS_Subset
<1>5. PICK z \in T : Sum(T) = f[z] + Sum(T \ {z})
  BY <1>4, SumStep
<1>6. y # z
  BY <1>3, <1>5
<1>7. Sum(T \ {z}) = f[y] + Sum((T \ {z}) \ {y})
  <2>1. T \ {z} \in SUBSET T /\ T \ {z} # T /\ y \in T \ {z}
    BY <1>6
  <2> QED
    BY <1>2, <2>1
<1>8. Sum(T \ {y}) = f[z] + Sum((T \ {y}) \ {z})
  <2>1. T \ {y} \in SUBSET T /\ T \ {y} # T /\ z \in T \ {y}
    BY <1>6
  <2> QED
    BY <1>2, <2>1
<1>9. (T \ {z}) \ {y} = (T \ {y}) \ {z}
  OBVIOUS
<1>10. f[y] \in Int /\ f[z] \in Int /\ Sum((T \ {y}) \ {z}) \in Int
  <2>1. IsFiniteSet((T \ {y}) \ {z})
    BY <1>4, FS_Subset
  <2> QED
    BY <1>2, <2>1, SumIsInt
<1>11. \A m, n, k \in Int : m + (n + k) = n + (m + k)
  OBVIOUS
<1>12. Sum(T) = f[y] + Sum(T \ {y})
  <2> DEFINE rest == Sum((T \ {y}) \ {z})
  <2>1. Sum(T) = f[z] + (f[y] + rest)
    BY <1>5, <1>7, <1>9
  <2>2. Sum(T \ {y}) = f[z] + rest
    BY <1>8
  <2>3. f[y] \in Int /\ f[z] \in Int /\ rest \in Int
    BY <1>10
  <2>4. f[z] + (f[y] + rest) = f[y] + (f[z] + rest)
    <3> HIDE DEF rest
    <3> QED
      BY <1>11, <2>3
  <2> QED
    BY <2>1, <2>2, <2>4
<1> QED
  BY <1>3, <1>12

(* A sum of natural numbers is one.                                        *)
LEMMA SumIsNat ==
  ASSUME NEW f, NEW S, IsFiniteSet(S), \A x \in S : f[x] \in Nat
  PROVE  SumFunctionOnSet(f, S) \in Nat
<1> DEFINE Bad == {T \in SUBSET S : SumFunctionOnSet(f, T) \notin Nat}
<1>1. SUFFICES ASSUME Bad # {} PROVE FALSE
  OBVIOUS
<1>2. PICK T \in Bad : \A U \in SUBSET T : U # T => U \notin Bad
  <2>1. Bad \subseteq SUBSET S
    OBVIOUS
  <2> HIDE DEF Bad
  <2> QED
    BY <1>1, <2>1, SmallestSubset
<1>3. T # {} /\ IsFiniteSet(T)
  <2>1. SumFunctionOnSet(f, {}) \in Nat
    BY SumEmpty
  <2>2. T \in SUBSET S /\ SumFunctionOnSet(f, T) \notin Nat
    BY <1>2
  <2> QED
    BY <2>1, <2>2, FS_Subset
<1>4. PICK x \in T : SumFunctionOnSet(f, T) = f[x] + SumFunctionOnSet(f, T \ {x})
  BY <1>3, SumStep
<1>5. T \ {x} \in SUBSET T /\ T \ {x} # T
  OBVIOUS
<1>6. SumFunctionOnSet(f, T \ {x}) \in Nat
  BY <1>2, <1>5
<1> QED
  BY <1>2, <1>4, <1>6

(* Values that are no greater have a sum that is no greater.               *)
LEMMA SumIsMonotone ==
  ASSUME NEW f, NEW g, NEW S, IsFiniteSet(S),
         \A x \in S : f[x] \in Int /\ g[x] \in Int /\ f[x] <= g[x]
  PROVE  SumFunctionOnSet(f, S) <= SumFunctionOnSet(g, S)
<1> DEFINE Bad == {T \in SUBSET S : ~(SumFunctionOnSet(f, T) <= SumFunctionOnSet(g, T))}
<1>1. SUFFICES ASSUME Bad # {} PROVE FALSE
  OBVIOUS
<1>2. PICK T \in Bad : \A U \in SUBSET T : U # T => U \notin Bad
  <2>1. Bad \subseteq SUBSET S
    OBVIOUS
  <2> HIDE DEF Bad
  <2> QED
    BY <1>1, <2>1, SmallestSubset
<1>3. T # {} /\ IsFiniteSet(T)
  <2>1. SumFunctionOnSet(f, {}) <= SumFunctionOnSet(g, {})
    BY SumEmpty
  <2>2. T \in SUBSET S /\ ~(SumFunctionOnSet(f, T) <= SumFunctionOnSet(g, T))
    BY <1>2
  <2> QED
    BY <2>1, <2>2, FS_Subset
<1>4. PICK x \in T : TRUE
  BY <1>3
<1>5. T \in SUBSET S /\ T \ {x} \in SUBSET T /\ T \ {x} # T /\ IsFiniteSet(T \ {x})
  BY <1>2, <1>3, FS_Subset
<1>6. SumFunctionOnSet(f, T \ {x}) <= SumFunctionOnSet(g, T \ {x})
  BY <1>2, <1>5
<1>7. SumFunctionOnSet(f, T \ {x}) \in Int /\ SumFunctionOnSet(g, T \ {x}) \in Int
  BY <1>5, SumIsInt
<1>8. /\ SumFunctionOnSet(f, T) = f[x] + SumFunctionOnSet(f, T \ {x})
      /\ SumFunctionOnSet(g, T) = g[x] + SumFunctionOnSet(g, T \ {x})
  BY <1>3, <1>5, SumRemove
<1> QED
  BY <1>2, <1>5, <1>6, <1>7, <1>8

(* A sum sees the values on its set and nothing else.                      *)
LEMMA SumOfSame ==
  ASSUME NEW f, NEW g, NEW S, IsFiniteSet(S), \A x \in S : f[x] \in Int /\ f[x] = g[x]
  PROVE  SumFunctionOnSet(f, S) = SumFunctionOnSet(g, S)
<1>1. \A x \in S : f[x] \in Int /\ g[x] \in Int /\ f[x] <= g[x] /\ g[x] <= f[x]
  OBVIOUS
<1>2. SumFunctionOnSet(f, S) \in Int /\ SumFunctionOnSet(g, S) \in Int
  BY <1>1, SumIsInt
<1>3. /\ SumFunctionOnSet(f, S) <= SumFunctionOnSet(g, S)
      /\ SumFunctionOnSet(g, S) <= SumFunctionOnSet(f, S)
  BY <1>1, SumIsMonotone
<1> QED
  BY <1>2, <1>3

(* When one value changes the sum changes by as much.                      *)
LEMMA SumOfChanged ==
  ASSUME NEW f, NEW g, NEW S, IsFiniteSet(S), NEW y \in S,
         \A x \in S : f[x] \in Int /\ g[x] \in Int /\ (x # y => f[x] = g[x])
  PROVE  SumFunctionOnSet(g, S) = SumFunctionOnSet(f, S) + (g[y] - f[y])
<1>1. IsFiniteSet(S \ {y})
  BY FS_Subset
<1>2. SumFunctionOnSet(f, S \ {y}) \in Int
  BY <1>1, SumIsInt
<1>3. SumFunctionOnSet(f, S \ {y}) = SumFunctionOnSet(g, S \ {y})
  <2>1. \A x \in S \ {y} : f[x] \in Int /\ f[x] = g[x]
    OBVIOUS
  <2> QED
    BY <1>1, <2>1, SumOfSame
<1>4. /\ SumFunctionOnSet(f, S) = f[y] + SumFunctionOnSet(f, S \ {y})
      /\ SumFunctionOnSet(g, S) = g[y] + SumFunctionOnSet(g, S \ {y})
  BY SumRemove
<1> QED
  BY <1>2, <1>3, <1>4

(* One value is new, or more than before, and the others stay.             *)
LEMMA SumOfAdded ==
  ASSUME NEW f, NEW g, NEW I, IsFiniteSet(I), NEW D, NEW y, NEW d \in Nat,
         \A i \in I \ {y} : i \in D /\ f[i] \in Nat /\ g[i] = f[i],
         y \in D => f[y] \in Nat,
         y \in D => g[y] = d + f[y],
         y \notin D => g[y] = d
  PROVE  /\ y \in I => SumFunctionOnSet(g, I) = SumFunctionOnSet(f, I \cap D) + d
         /\ y \notin I => SumFunctionOnSet(g, I) = SumFunctionOnSet(f, I \cap D)
<1>1. IsFiniteSet(I \ {y})
  BY FS_Subset
<1>2. g[y] \in Nat
  OBVIOUS
<1>3. /\ \A i \in I : g[i] \in Int
      /\ \A i \in I \ {y} : g[i] \in Int /\ g[i] = f[i]
  BY <1>2
<1>4. /\ SumFunctionOnSet(g, I \ {y}) = SumFunctionOnSet(f, I \ {y})
      /\ SumFunctionOnSet(g, I \ {y}) \in Int
  BY <1>1, <1>3, SumOfSame, SumIsInt
<1>5. CASE y \notin I
  <2>1. I \ {y} = I /\ I \cap D = I
    BY <1>5
  <2> QED
    BY <1>4, <1>5, <2>1
<1>6. CASE y \in I /\ y \in D
  <2>1. I \cap D = I
    BY <1>6
  <2>2. \A i \in I : f[i] \in Int /\ g[i] \in Int /\ (i # y => f[i] = g[i])
    BY <1>3, <1>6
  <2>3. SumFunctionOnSet(g, I) = SumFunctionOnSet(f, I) + (g[y] - f[y])
    BY <1>6, <2>2, SumOfChanged
  <2>4. SumFunctionOnSet(f, I) \in Int /\ f[y] \in Nat /\ g[y] = d + f[y]
    BY <1>6, <2>2, SumIsInt
  <2>5. SumFunctionOnSet(f, I \cap D) = SumFunctionOnSet(f, I)
    BY <2>1, Zenon
  <2>6. SumFunctionOnSet(g, I) = SumFunctionOnSet(f, I \cap D) + d
    BY <2>3, <2>4, <2>5
  <2> QED
    BY <1>6, <2>6, Zenon
<1>7. CASE y \in I /\ y \notin D
  <2>1. I \cap D = I \ {y}
    BY <1>7
  <2>2. SumFunctionOnSet(g, I) = g[y] + SumFunctionOnSet(g, I \ {y})
    BY <1>3, <1>7, SumRemove
  <2>3. g[y] = d
    BY <1>7
  <2>4. SumFunctionOnSet(f, I \cap D) = SumFunctionOnSet(f, I \ {y})
    BY <2>1, Zenon
  <2>5. SumFunctionOnSet(g, I) = SumFunctionOnSet(f, I \cap D) + d
    BY <1>4, <2>2, <2>3, <2>4
  <2> QED
    BY <1>7, <2>5, Zenon
<1> QED
  BY <1>5, <1>6, <1>7

(* None of several values counts.                                          *)
LEMMA SumOfZeros ==
  ASSUME NEW f, NEW S, IsFiniteSet(S), \A x \in S : f[x] = 0
  PROVE  SumFunctionOnSet(f, S) = 0
<1> DEFINE Bad == {T \in SUBSET S : SumFunctionOnSet(f, T) # 0}
<1>1. SUFFICES ASSUME Bad # {} PROVE FALSE
  OBVIOUS
<1>2. PICK T \in Bad : \A U \in SUBSET T : U # T => U \notin Bad
  <2>1. Bad \subseteq SUBSET S
    OBVIOUS
  <2> HIDE DEF Bad
  <2> QED
    BY <1>1, <2>1, SmallestSubset
<1>3. T # {} /\ IsFiniteSet(T)
  <2>1. T \in SUBSET S /\ SumFunctionOnSet(f, T) # 0
    BY <1>2
  <2> QED
    BY <2>1, SumEmpty, FS_Subset
<1>4. PICK x \in T : SumFunctionOnSet(f, T) = f[x] + SumFunctionOnSet(f, T \ {x})
  BY <1>3, SumStep
<1>5. T \ {x} \in SUBSET T /\ T \ {x} # T
  OBVIOUS
<1>6. SumFunctionOnSet(f, T \ {x}) = 0
  BY <1>2, <1>5
<1> QED
  BY <1>2, <1>4, <1>6

(* Each of several natural numbers is within their sum.                    *)
LEMMA SumCoversEach ==
  ASSUME NEW f, NEW S, IsFiniteSet(S), \A x \in S : f[x] \in Nat, NEW y \in S
  PROVE  f[y] <= SumFunctionOnSet(f, S)
<1>1. IsFiniteSet(S \ {y})
  BY FS_Subset
<1>2. SumFunctionOnSet(f, S \ {y}) \in Nat
  BY <1>1, SumIsNat
<1>3. SumFunctionOnSet(f, S) = f[y] + SumFunctionOnSet(f, S \ {y})
  BY SumRemove
<1> QED
  BY <1>2, <1>3

(* The sum of sums.                                                        *)
LEMMA SumOfSums ==
  ASSUME NEW f, NEW g, NEW h, NEW S, IsFiniteSet(S),
         \A x \in S : f[x] \in Int /\ g[x] \in Int /\ h[x] = f[x] + g[x]
  PROVE  SumFunctionOnSet(h, S) = SumFunctionOnSet(f, S) + SumFunctionOnSet(g, S)
<1> DEFINE Bad == {T \in SUBSET S :
                     SumFunctionOnSet(h, T) # SumFunctionOnSet(f, T) + SumFunctionOnSet(g, T)}
<1>1. SUFFICES ASSUME Bad # {} PROVE FALSE
  OBVIOUS
<1>2. PICK T \in Bad : \A U \in SUBSET T : U # T => U \notin Bad
  <2>1. Bad \subseteq SUBSET S
    OBVIOUS
  <2> HIDE DEF Bad
  <2> QED
    BY <1>1, <2>1, SmallestSubset
<1>3. T # {} /\ IsFiniteSet(T)
  <2>1. SumFunctionOnSet(h, {}) = SumFunctionOnSet(f, {}) + SumFunctionOnSet(g, {})
    BY SumEmpty
  <2>2. T \in SUBSET S /\ SumFunctionOnSet(h, T) # SumFunctionOnSet(f, T) + SumFunctionOnSet(g, T)
    BY <1>2
  <2> QED
    BY <2>1, <2>2, FS_Subset
<1>4. PICK x \in T : TRUE
  BY <1>3
<1>5. T \in SUBSET S /\ T \ {x} \in SUBSET T /\ T \ {x} # T /\ IsFiniteSet(T \ {x})
  BY <1>2, <1>3, FS_Subset
<1>6. SumFunctionOnSet(h, T \ {x})
        = SumFunctionOnSet(f, T \ {x}) + SumFunctionOnSet(g, T \ {x})
  BY <1>2, <1>5
<1>7. SumFunctionOnSet(f, T \ {x}) \in Int /\ SumFunctionOnSet(g, T \ {x}) \in Int
  BY <1>5, SumIsInt
<1>8. \A y \in S : h[y] \in Int
  OBVIOUS
<1>9. /\ SumFunctionOnSet(f, T) = f[x] + SumFunctionOnSet(f, T \ {x})
      /\ SumFunctionOnSet(g, T) = g[x] + SumFunctionOnSet(g, T \ {x})
      /\ SumFunctionOnSet(h, T) = h[x] + SumFunctionOnSet(h, T \ {x})
  BY <1>3, <1>5, <1>8, SumRemove
<1> QED
  BY <1>2, <1>5, <1>6, <1>7, <1>9

(* A common factor comes out of a sum.                                     *)
LEMMA SumScales ==
  ASSUME NEW f, NEW h, NEW k \in Int, NEW S, IsFiniteSet(S),
         \A x \in S : f[x] \in Int /\ h[x] = f[x] * k
  PROVE  SumFunctionOnSet(h, S) = SumFunctionOnSet(f, S) * k
<1> DEFINE Bad == {T \in SUBSET S : SumFunctionOnSet(h, T) # SumFunctionOnSet(f, T) * k}
<1>1. SUFFICES ASSUME Bad # {} PROVE FALSE
  OBVIOUS
<1>2. PICK T \in Bad : \A U \in SUBSET T : U # T => U \notin Bad
  <2>1. Bad \subseteq SUBSET S
    OBVIOUS
  <2> HIDE DEF Bad
  <2> QED
    BY <1>1, <2>1, SmallestSubset
<1>3. T # {} /\ IsFiniteSet(T)
  <2>1. SumFunctionOnSet(h, {}) = SumFunctionOnSet(f, {}) * k
    BY SumEmpty
  <2>2. T \in SUBSET S /\ SumFunctionOnSet(h, T) # SumFunctionOnSet(f, T) * k
    BY <1>2
  <2> QED
    BY <2>1, <2>2, FS_Subset
<1>4. PICK x \in T : TRUE
  BY <1>3
<1>5. T \in SUBSET S /\ T \ {x} \in SUBSET T /\ T \ {x} # T /\ IsFiniteSet(T \ {x})
  BY <1>2, <1>3, FS_Subset
<1>6. SumFunctionOnSet(h, T \ {x}) = SumFunctionOnSet(f, T \ {x}) * k
  BY <1>2, <1>5
<1>7. SumFunctionOnSet(f, T \ {x}) \in Int /\ f[x] \in Int
  BY <1>5, SumIsInt
<1>8. \A y \in S : h[y] \in Int
  BY SMT
<1>9. /\ SumFunctionOnSet(f, T) = f[x] + SumFunctionOnSet(f, T \ {x})
      /\ SumFunctionOnSet(h, T) = f[x] * k + SumFunctionOnSet(h, T \ {x})
  BY <1>3, <1>5, <1>8, SumRemove
<1>10. \A m, n \in Int : m * k + n * k = (m + n) * k
  BY SMT
<1> QED
  BY <1>2, <1>6, <1>7, <1>9, <1>10

(* A sum over two sets that have nothing in common.                        *)
LEMMA SumOfUnion ==
  ASSUME NEW f, NEW S, NEW R, IsFiniteSet(S), IsFiniteSet(R), S \cap R = {},
         \A x \in S \cup R : f[x] \in Int
  PROVE  SumFunctionOnSet(f, S \cup R) = SumFunctionOnSet(f, S) + SumFunctionOnSet(f, R)
<1> DEFINE Bad == {T \in SUBSET S :
                     SumFunctionOnSet(f, T \cup R) # SumFunctionOnSet(f, T) + SumFunctionOnSet(f, R)}
<1>1. SUFFICES ASSUME Bad # {} PROVE FALSE
  OBVIOUS
<1>2. PICK T \in Bad : \A U \in SUBSET T : U # T => U \notin Bad
  <2>1. Bad \subseteq SUBSET S
    OBVIOUS
  <2> HIDE DEF Bad
  <2> QED
    BY <1>1, <2>1, SmallestSubset
<1>0. SumFunctionOnSet(f, R) \in Int
  BY SumIsInt
<1>3. T # {} /\ IsFiniteSet(T)
  <2>1. SumFunctionOnSet(f, {}) + SumFunctionOnSet(f, R) = SumFunctionOnSet(f, R)
    BY <1>0, SumEmpty
  <2>2. {} \cup R = R
    OBVIOUS
  <2>3. T \in SUBSET S /\ SumFunctionOnSet(f, T \cup R) # SumFunctionOnSet(f, T) + SumFunctionOnSet(f, R)
    BY <1>2
  <2> QED
    BY <2>1, <2>2, <2>3, FS_Subset
<1>4. PICK x \in T : TRUE
  BY <1>3
<1>5. /\ T \in SUBSET S /\ T \ {x} \in SUBSET T /\ T \ {x} # T /\ IsFiniteSet(T \ {x})
      /\ IsFiniteSet(T \cup R) /\ (T \cup R) \ {x} = (T \ {x}) \cup R
  BY <1>2, <1>3, <1>4, FS_Subset, FS_Union
<1>6. SumFunctionOnSet(f, (T \ {x}) \cup R) = SumFunctionOnSet(f, T \ {x}) + SumFunctionOnSet(f, R)
  BY <1>2, <1>5
<1>7. SumFunctionOnSet(f, T \ {x}) \in Int /\ f[x] \in Int
  BY <1>5, SumIsInt
<1>8. /\ SumFunctionOnSet(f, T) = f[x] + SumFunctionOnSet(f, T \ {x})
      /\ SumFunctionOnSet(f, T \cup R) = f[x] + SumFunctionOnSet(f, (T \cup R) \ {x})
  BY <1>3, <1>5, SumRemove
<1>9. SumFunctionOnSet(f, T \cup R) = f[x] + (SumFunctionOnSet(f, T \ {x}) + SumFunctionOnSet(f, R))
  BY <1>5, <1>6, <1>8
<1> QED
  BY <1>0, <1>2, <1>7, <1>8, <1>9

(* A part of a set adds up to no more than the whole.                      *)
LEMMA SumOfPart ==
  ASSUME NEW f, NEW S, IsFiniteSet(S), \A x \in S : f[x] \in Nat, NEW T \in SUBSET S
  PROVE  SumFunctionOnSet(f, T) <= SumFunctionOnSet(f, S)
<1>1. IsFiniteSet(T) /\ IsFiniteSet(S \ T) /\ T \cap (S \ T) = {} /\ S = T \cup (S \ T)
  BY FS_Subset
<1>2. SumFunctionOnSet(f, T) \in Nat /\ SumFunctionOnSet(f, S \ T) \in Nat
  BY <1>1, SumIsNat
<1>3. SumFunctionOnSet(f, S) = SumFunctionOnSet(f, T) + SumFunctionOnSet(f, S \ T)
  <2>1. \A x \in T \cup (S \ T) : f[x] \in Int
    OBVIOUS
  <2>2. SumFunctionOnSet(f, T \cup (S \ T)) = SumFunctionOnSet(f, T) + SumFunctionOnSet(f, S \ T)
    BY <1>1, <2>1, SumOfUnion
  <2> QED
    BY <1>1, <2>2
<1> QED
  BY <1>1, <1>2, <1>3

(* A sum of sums over classes that have nothing in common is the sum over  *)
(* their members.                                                          *)
LEMMA SumOfClasses ==
  ASSUME NEW f, NEW D, IsFiniteSet(D), \A x \in D : f[x] \in Int,
         NEW C, IsFiniteSet(C), NEW part, NEW h,
         \A c \in C : part[c] \subseteq D /\ h[c] = SumFunctionOnSet(f, part[c]),
         \A c, d \in C : c # d => part[c] \cap part[d] = {}
  PROVE  SumFunctionOnSet(h, C) = SumFunctionOnSet(f, {x \in D : \E c \in C : x \in part[c]})
<1> DEFINE Members(T) == {x \in D : \E c \in T : x \in part[c]}
           Bad == {T \in SUBSET C : SumFunctionOnSet(h, T) # SumFunctionOnSet(f, Members(T))}
<1>1. SUFFICES ASSUME Bad # {} PROVE FALSE
  OBVIOUS
<1>2. PICK T \in Bad : \A U \in SUBSET T : U # T => U \notin Bad
  <2>1. Bad \subseteq SUBSET C
    OBVIOUS
  <2> HIDE DEF Bad
  <2> QED
    BY <1>1, <2>1, SmallestSubset
<1>3. T # {} /\ IsFiniteSet(T) /\ T \in SUBSET C
  <2>1. Members({}) = {}
    OBVIOUS
  <2>2. SumFunctionOnSet(h, {}) = 0 /\ SumFunctionOnSet(f, {}) = 0
    BY SumEmpty
  <2>3. SumFunctionOnSet(h, {}) = SumFunctionOnSet(f, Members({}))
    BY <2>1, <2>2, Zenon
  <2>4. T \in SUBSET C /\ SumFunctionOnSet(h, T) # SumFunctionOnSet(f, Members(T))
    BY <1>2
  <2> QED
    BY <2>3, <2>4, FS_Subset, Zenon
<1>4. PICK c \in T : TRUE
  BY <1>3
<1>5. T \ {c} \in SUBSET T /\ T \ {c} # T /\ IsFiniteSet(T \ {c}) /\ T \ {c} \in SUBSET C
  BY <1>3, <1>4, FS_Subset
<1>6. SumFunctionOnSet(h, T \ {c}) = SumFunctionOnSet(f, Members(T \ {c}))
  BY <1>2, <1>5
<1>7. /\ part[c] \subseteq D /\ IsFiniteSet(part[c]) /\ IsFiniteSet(Members(T \ {c}))
      /\ h[c] = SumFunctionOnSet(f, part[c])
      /\ \A x \in part[c] \cup Members(T \ {c}) : f[x] \in Int
  BY <1>3, <1>4, FS_Subset
<1>8. part[c] \cap Members(T \ {c}) = {}
  BY <1>3, <1>4
<1>9. Members(T) = part[c] \cup Members(T \ {c})
  BY <1>3, <1>4, <1>7
<1>10. SumFunctionOnSet(f, part[c] \cup Members(T \ {c}))
         = SumFunctionOnSet(f, part[c]) + SumFunctionOnSet(f, Members(T \ {c}))
  <2> DEFINE A == part[c]
             B == Members(T \ {c})
  <2>1. IsFiniteSet(A) /\ IsFiniteSet(B) /\ A \cap B = {} /\ \A x \in A \cup B : f[x] \in Int
    BY <1>7, <1>8
  <2> HIDE DEF A, B
  <2>2. SumFunctionOnSet(f, A \cup B) = SumFunctionOnSet(f, A) + SumFunctionOnSet(f, B)
    BY <2>1, SumOfUnion
  <2> QED
    BY <2>2 DEF A, B
<1>11. SumFunctionOnSet(h, T) = h[c] + SumFunctionOnSet(h, T \ {c})
  <2>1. ASSUME NEW d \in C PROVE h[d] \in Int
    <3>1. IsFiniteSet(part[d]) /\ \A x \in part[d] : f[x] \in Int
      BY FS_Subset
    <3> QED
      BY <3>1, SumIsInt
  <2> QED
    BY <1>3, <1>4, <2>1, SumRemove
<1>12. SumFunctionOnSet(f, Members(T)) = SumFunctionOnSet(f, part[c] \cup Members(T \ {c}))
  BY <1>9, Zenon
<1>13. SumFunctionOnSet(h, T) # SumFunctionOnSet(f, Members(T))
  BY <1>2
<1> HIDE DEF Members, Bad
<1> QED
  BY <1>6, <1>7, <1>10, <1>11, <1>12, <1>13

(* A table of numbers by rows, f, and by columns, c; g the sums of the     *)
(* rows of a table.                                                        *)
IsTable(f, c, S, R) == \A x \in S : \A y \in R : f[x][y] \in Int /\ c[y][x] = f[x][y]
AreSums(g, f, S, R) == \A x \in S : g[x] = SumFunctionOnSet(f[x], R)

(* The rows of a table and its columns have the same sum.                  *)
LEMMA SumsExchange ==
  ASSUME NEW S, IsFiniteSet(S), NEW R, IsFiniteSet(R), NEW f, NEW c, IsTable(f, c, S, R),
         NEW g, AreSums(g, f, S, R), NEW h, AreSums(h, c, R, S)
  PROVE  SumFunctionOnSet(g, S) = SumFunctionOnSet(h, R)
<1> USE DEF IsTable, AreSums
<1> DEFINE column(y) == c[y]
           sums(T) == [y \in R |-> SumFunctionOnSet(column(y), T)]
           Bad == {T \in SUBSET S : SumFunctionOnSet(g, T) # SumFunctionOnSet(sums(T), R)}
<1>0. ASSUME S \notin Bad PROVE SumFunctionOnSet(g, S) = SumFunctionOnSet(h, R)
  <2>1. SumFunctionOnSet(g, S) = SumFunctionOnSet(sums(S), R)
    BY <1>0
  <2>2. \A y \in R : sums(S)[y] \in Int /\ sums(S)[y] = h[y]
    <3> SUFFICES ASSUME NEW y \in R PROVE sums(S)[y] \in Int /\ sums(S)[y] = h[y]
      OBVIOUS
    <3>1. \A x \in S : column(y)[x] \in Int
      OBVIOUS
    <3>2. sums(S)[y] = SumFunctionOnSet(column(y), S) /\ h[y] = SumFunctionOnSet(column(y), S)
      OBVIOUS
    <3> HIDE DEF column
    <3>3. SumFunctionOnSet(column(y), S) \in Int
      BY <3>1, SumIsInt
    <3> QED
      BY <3>2, <3>3
  <2> HIDE DEF sums
  <2>3. SumFunctionOnSet(sums(S), R) = SumFunctionOnSet(h, R)
    BY <2>2, SumOfSame
  <2> QED
    BY <2>1, <2>3
<1>1. SUFFICES ASSUME Bad # {} PROVE FALSE
  BY <1>0
<1>2. PICK T \in Bad : \A U \in SUBSET T : U # T => U \notin Bad
  <2>1. Bad \subseteq SUBSET S
    OBVIOUS
  <2> HIDE DEF Bad
  <2> QED
    BY <1>1, <2>1, SmallestSubset
<1>3. T # {} /\ IsFiniteSet(T) /\ T \in SUBSET S
  <2>1. \A y \in R : sums({})[y] = 0
    BY SumEmpty
  <2>2. SumFunctionOnSet(g, {}) = 0
    BY SumEmpty
  <2>3. T \in SUBSET S /\ SumFunctionOnSet(g, T) # SumFunctionOnSet(sums(T), R)
    BY <1>2
  <2>4. SumFunctionOnSet(sums({}), R) = 0
    <3> HIDE DEF sums
    <3> QED
      BY <2>1, SumOfZeros
  <2>5. IsFiniteSet(T)
    BY <2>3, FS_Subset
  <2> HIDE DEF sums, Bad
  <2> QED
    BY <2>2, <2>3, <2>4, <2>5
<1>4. PICK x \in T : TRUE
  BY <1>3
<1>5. T \ {x} \in SUBSET T /\ T \ {x} # T /\ IsFiniteSet(T \ {x}) /\ T \ {x} \in SUBSET S
  BY <1>3, <1>4, FS_Subset
<1>6. SumFunctionOnSet(g, T \ {x}) = SumFunctionOnSet(sums(T \ {x}), R)
  BY <1>2, <1>5
<1>7. \A y \in R : /\ f[x][y] \in Int /\ sums(T \ {x})[y] \in Int
                   /\ sums(T)[y] = f[x][y] + sums(T \ {x})[y]
  <2> SUFFICES ASSUME NEW y \in R
               PROVE  /\ f[x][y] \in Int /\ sums(T \ {x})[y] \in Int
                      /\ sums(T)[y] = f[x][y] + sums(T \ {x})[y]
    OBVIOUS
  <2>1. \A z \in S : column(y)[z] \in Int /\ column(y)[z] = f[z][y]
    OBVIOUS
  <2>2. /\ sums(T)[y] = SumFunctionOnSet(column(y), T)
        /\ sums(T \ {x})[y] = SumFunctionOnSet(column(y), T \ {x})
    OBVIOUS
  <2> HIDE DEF column, sums, Bad
  <2>3. SumFunctionOnSet(column(y), T) = column(y)[x] + SumFunctionOnSet(column(y), T \ {x})
    BY <1>3, <1>4, <2>1, SumRemove
  <2>4. SumFunctionOnSet(column(y), T \ {x}) \in Int
    BY <1>5, <2>1, SumIsInt
  <2> QED
    BY <1>3, <1>4, <2>1, <2>2, <2>3, <2>4
<1>8. g[x] = SumFunctionOnSet(f[x], R) /\ SumFunctionOnSet(g, T) # SumFunctionOnSet(sums(T), R)
  BY <1>2, <1>3, <1>4
<1>9. \A z \in S : g[z] \in Int
  BY SumIsInt
<1> HIDE DEF sums, Bad
<1>10. SumFunctionOnSet(sums(T), R)
         = SumFunctionOnSet(f[x], R) + SumFunctionOnSet(sums(T \ {x}), R)
  <2> DEFINE row == f[x]
             left == sums(T \ {x})
             all == sums(T)
  <2>1. \A y \in R : row[y] \in Int /\ left[y] \in Int /\ all[y] = row[y] + left[y]
    BY <1>7
  <2> HIDE DEF row, left, all
  <2>2. SumFunctionOnSet(all, R) = SumFunctionOnSet(row, R) + SumFunctionOnSet(left, R)
    BY <2>1, SumOfSums
  <2> QED
    BY <2>2 DEF row, left, all
<1>11. SumFunctionOnSet(g, T) = g[x] + SumFunctionOnSet(g, T \ {x})
  BY <1>3, <1>4, <1>9, SumRemove
<1> QED
  BY <1>6, <1>8, <1>10, <1>11

(* A finite set of numbers has a largest one.                              *)
LEMMA LargestExists ==
  ASSUME NEW S \in SUBSET Int, IsFiniteSet(S), S # {}
  PROVE  \E m \in S : \A n \in S : n <= m
<1> DEFINE Bad == {T \in SUBSET S : T # {} /\ ~\E m \in T : \A n \in T : n <= m}
<1>1. SUFFICES ASSUME Bad # {} PROVE FALSE
  OBVIOUS
<1>2. PICK T \in Bad : \A U \in SUBSET T : U # T => U \notin Bad
  <2>1. Bad \subseteq SUBSET S
    OBVIOUS
  <2> HIDE DEF Bad
  <2> QED
    BY <1>1, <2>1, SmallestSubset
<1>3. T \subseteq S /\ T # {} /\ ~\E m \in T : \A n \in T : n <= m
  BY <1>2
<1>4. PICK x \in T : TRUE
  BY <1>3
<1>5. T \ {x} \in SUBSET T /\ T \ {x} # T /\ T \ {x} \in SUBSET S
  BY <1>3
<1>6. PICK m \in T \ {x} : \A n \in T \ {x} : n <= m
  <2>1. T \ {x} # {}
    BY <1>3
  <2> QED
    BY <1>2, <1>5, <2>1
<1>7. m \in Int /\ x \in Int /\ T \subseteq Int
  BY <1>3
<1>8. CASE x <= m
  BY <1>3, <1>6, <1>7, <1>8
<1>9. CASE m <= x
  <2>1. \A n \in T : n <= x
    BY <1>6, <1>7, <1>9
  <2> QED
    BY <1>3, <2>1
<1> QED
  BY <1>7, <1>8, <1>9

(* What is not empty among the natural numbers has a smallest.             *)
LEMMA SmallestExists ==
  ASSUME NEW S \in SUBSET Nat, S # {}
  PROVE  \E m \in S : \A n \in S : m <= n
<1>1. PICK k \in S : TRUE
  OBVIOUS
<1> DEFINE Below == {j \in 0 .. k : k - j \in S}
<1>2. k \in Nat /\ 0 \in Below /\ Below \subseteq 0 .. k /\ Below \in SUBSET Int
  BY <1>1
<1>3. IsFiniteSet(0 .. k)
  BY <1>2, FS_Interval
<1>4. IsFiniteSet(Below)
  BY <1>2, <1>3, FS_Subset
<1>5. PICK j \in Below : \A i \in Below : i <= j
  <2> HIDE DEF Below
  <2> QED
    BY <1>2, <1>4, LargestExists
<1>6. j \in 0 .. k /\ k - j \in S
  BY <1>5
<1>7. ASSUME NEW n \in S PROVE k - j <= n
  <2>1. CASE n <= k
    <3>1. k - n \in 0 .. k /\ k - (k - n) = n
      BY <1>2, <2>1
    <3>2. k - n \in Below
      BY <3>1
    <3>3. k - n <= j
      BY <1>5, <3>2
    <3> QED
      BY <1>2, <1>6, <3>3
  <2>2. CASE n > k
    BY <1>2, <1>6, <2>2
  <2> QED
    BY <1>2, <2>1, <2>2
<1> QED
  BY <1>6, <1>7

(* One more or one less leaves a finite set finite.                        *)
LEMMA FiniteWithOne ==
  /\ IsFiniteSet({})
  /\ \A S, x : IsFiniteSet(S) => IsFiniteSet(S \cup {x}) /\ IsFiniteSet(S \ {x})
  BY FS_EmptySet, FS_AddElement, FS_RemoveElement

-----------------------------------------------------------------------------
(* Rewards per token: a stake is owed the growth of the reward per token   *)
(* since it was last settled, in units of 1 / unit.                        *)

(* As the reward per token grows a stake is owed as many times the growth. *)
LEMMA ClaimGrows ==
  ASSUME NEW stake \in Nat, NEW paid \in Nat, NEW rewards \in Nat, NEW unit \in Nat,
         NEW stored \in Nat, NEW rpt \in Nat, paid <= stored, stored <= rpt
  PROVE  /\ stake * (stored - paid) + rewards * unit \in Nat
         /\ stake * (rpt - stored) \in Nat
         /\ stake * (rpt - paid) + rewards * unit
               = (stake * (stored - paid) + rewards * unit) + stake * (rpt - stored)
<1>1. stored - paid \in Nat /\ rpt - stored \in Nat
  OBVIOUS
<1>2. stake * (stored - paid) \in Nat /\ stake * (rpt - stored) \in Nat /\ rewards * unit \in Nat
  BY <1>1, ProductIsNat
<1>3. stake * (rpt - paid) = stake * (stored - paid) + stake * (rpt - stored)
  BY SMT
<1> QED
  BY <1>2, <1>3

(* What can be claimed is rounded down from what is owed.                  *)
LEMMA ClaimIsRounded ==
  ASSUME NEW stake \in Nat, NEW paid \in Nat, NEW rewards \in Nat, NEW unit \in Nat \ {0},
         NEW rpt \in Nat, paid <= rpt
  PROVE  LET earned == (stake * (rpt - paid)) \div unit + rewards
         IN  earned \in Nat /\ earned * unit <= stake * (rpt - paid) + rewards * unit
<1> DEFINE whole == stake * (rpt - paid)
           share == whole \div unit
<1>1. rpt - paid \in Nat
  OBVIOUS
<1>2. whole \in Nat
  BY <1>1, ProductIsNat
<1> HIDE DEF whole
<1>3. share \in Nat /\ share * unit <= whole
  BY <1>2, DivIsFloor
<1> HIDE DEF share
<1>4. (share + rewards) * unit = share * unit + rewards * unit
  BY <1>3, SMT
<1>5. share * unit \in Nat /\ rewards * unit \in Nat
  BY <1>3, ProductIsNat
<1>6. share + rewards \in Nat /\ (share + rewards) * unit <= whole + rewards * unit
  BY <1>2, <1>3, <1>4, <1>5
<1> QED
  BY <1>6 DEF share, whole

(* So are all stakes together.                                             *)
LEMMA ClaimsGrow ==
  ASSUME NEW owed, NEW owedNow, NEW stakes, NEW S, IsFiniteSet(S), NEW growth \in Nat,
         \A x \in S : /\ owed[x] \in Nat /\ stakes[x] \in Nat
                      /\ owedNow[x] = owed[x] + stakes[x] * growth
  PROVE  /\ SumFunctionOnSet(owed, S) \in Nat /\ SumFunctionOnSet(owedNow, S) \in Nat
         /\ SumFunctionOnSet(owedNow, S)
               = SumFunctionOnSet(owed, S) + SumFunctionOnSet(stakes, S) * growth
<1> DEFINE more == [x \in S |-> stakes[x] * growth]
<1>1. \A x \in S : more[x] \in Nat /\ more[x] = stakes[x] * growth
  BY ProductIsNat
<1> HIDE DEF more
<1>2. \A x \in S : /\ owed[x] \in Int /\ more[x] \in Int /\ stakes[x] \in Int
                   /\ owedNow[x] = owed[x] + more[x] /\ owedNow[x] \in Nat
  BY <1>1
<1>3. SumFunctionOnSet(owedNow, S) = SumFunctionOnSet(owed, S) + SumFunctionOnSet(more, S)
  BY <1>2, SumOfSums
<1>4. SumFunctionOnSet(more, S) = SumFunctionOnSet(stakes, S) * growth
  BY <1>1, <1>2, SumScales
<1>5. SumFunctionOnSet(owed, S) \in Nat /\ SumFunctionOnSet(owedNow, S) \in Nat
  BY <1>2, SumIsNat
<1> QED
  BY <1>3, <1>4, <1>5

(* Shares rounded down one by one are covered by what they are shares of.  *)
LEMMA SumOfFloors ==
  ASSUME NEW f, NEW owed, NEW S, IsFiniteSet(S), NEW unit \in Nat \ {0},
         \A x \in S : f[x] \in Nat /\ owed[x] \in Nat /\ f[x] * unit <= owed[x]
  PROVE  /\ SumFunctionOnSet(f, S) \in Nat /\ SumFunctionOnSet(owed, S) \in Nat
         /\ SumFunctionOnSet(f, S) * unit <= SumFunctionOnSet(owed, S)
<1> DEFINE h == [x \in S |-> f[x] * unit]
<1>1. unit \in Int /\ \A x \in S : f[x] \in Int /\ h[x] = f[x] * unit
  OBVIOUS
<1>2. \A x \in S : h[x] \in Int /\ owed[x] \in Int /\ h[x] <= owed[x]
  <2> TAKE x \in S
  <2>1. f[x] \in Nat /\ owed[x] \in Nat /\ f[x] * unit <= owed[x] /\ unit \in Nat
    OBVIOUS
  <2>2. f[x] * unit \in Nat
    BY <2>1, ProductIsNat
  <2> QED
    BY <2>1, <2>2
<1> HIDE DEF h
<1>3. SumFunctionOnSet(h, S) = SumFunctionOnSet(f, S) * unit
  BY <1>1, SumScales
<1>4. SumFunctionOnSet(h, S) <= SumFunctionOnSet(owed, S)
  BY <1>2, SumIsMonotone
<1>5. SumFunctionOnSet(f, S) \in Nat /\ SumFunctionOnSet(owed, S) \in Nat
  BY SumIsNat
<1> QED
  BY <1>3, <1>4, <1>5

(* If the owed amounts are backed in units of 1 / unit, the amounts that   *)
(* can be claimed are backed.                                              *)
LEMMA ClaimsAreBacked ==
  ASSUME NEW earned, NEW owed, NEW S, IsFiniteSet(S), NEW unit \in Nat \ {0},
         NEW rest \in Nat, NEW held \in Nat,
         \A x \in S : earned[x] \in Nat /\ owed[x] \in Nat /\ earned[x] * unit <= owed[x],
         SumFunctionOnSet(owed, S) + rest * unit <= held * unit
  PROVE  SumFunctionOnSet(earned, S) \in Nat /\ SumFunctionOnSet(earned, S) + rest <= held
<1> DEFINE scaled == [x \in S |-> earned[x] * unit]
           all == SumFunctionOnSet(earned, S)
<1>1. \A x \in S : scaled[x] = earned[x] * unit /\ scaled[x] \in Nat
  BY ProductIsNat
<1> HIDE DEF scaled
<1>2. \A x \in S : scaled[x] \in Int /\ owed[x] \in Int /\ scaled[x] <= owed[x] /\ earned[x] \in Int
  BY <1>1
<1>3. SumFunctionOnSet(scaled, S) <= SumFunctionOnSet(owed, S)
  BY <1>2, SumIsMonotone
<1>4. SumFunctionOnSet(scaled, S) = all * unit
  <2>1. \A x \in S : earned[x] \in Int /\ scaled[x] = earned[x] * unit
    BY <1>1, <1>2
  <2> QED
    BY <2>1, SumScales
<1>5. all \in Nat
  BY SumIsNat
<1>6. SumFunctionOnSet(owed, S) \in Nat
  BY SumIsNat
<1> HIDE DEF all
<1>7. (all + rest) * unit = all * unit + rest * unit
  BY <1>5, SMT
<1>8. all * unit \in Nat /\ rest * unit \in Nat /\ held * unit \in Nat
  BY <1>5, ProductIsNat
<1>9. (all + rest) * unit <= held * unit /\ all + rest \in Nat
  BY <1>3, <1>4, <1>5, <1>6, <1>7, <1>8
<1>10. all + rest <= held
  BY <1>9, ProductCancels
<1> QED
  BY <1>5, <1>10 DEF all

-----------------------------------------------------------------------------
(* Sums of the amounts of records, and of the amounts in a sequence.       *)

AmountsOf(S) == SumFunctionOnSet([m \in S |-> m.amount], S)

(* Several amounts have a sum.                                             *)
LEMMA AmountsHaveSum ==
  ASSUME NEW S, IsFiniteSet(S), \A m \in S : m.amount \in Nat
  PROVE  AmountsOf(S) \in Nat
<1> DEFINE f == [m \in S |-> m.amount]
<1>1. \A m \in S : f[m] \in Nat
  OBVIOUS
<1> HIDE DEF f
<1>2. SumFunctionOnSet(f, S) \in Nat
  BY <1>1, SumIsNat
<1> QED
  BY <1>2 DEF f, AmountsOf

(* A record that is new adds its amount.                                   *)
LEMMA AmountsOfMore ==
  ASSUME NEW S, IsFiniteSet(S), \A m \in S : m.amount \in Nat,
         NEW x, x \notin S, x.amount \in Nat
  PROVE  AmountsOf(S \cup {x}) = AmountsOf(S) + x.amount
<1> DEFINE R == S \cup {x}
           f == [m \in S |-> m.amount]
           g == [m \in R |-> m.amount]
<1>1. IsFiniteSet(R) /\ x \in R /\ R \ {x} = S
  BY FS_AddElement
<1>2. \A m \in R : g[m] = m.amount /\ g[m] \in Int
  OBVIOUS
<1>3. \A m \in S : f[m] \in Int /\ g[m] \in Int /\ g[m] = f[m]
  OBVIOUS
<1>4. g[x] = x.amount
  OBVIOUS
<1>5. AmountsOf(R) = SumFunctionOnSet(g, R) /\ AmountsOf(S) = SumFunctionOnSet(f, S)
  BY DEF AmountsOf
<1> HIDE DEF f, g, R
<1>6. SumFunctionOnSet(g, R) = g[x] + SumFunctionOnSet(g, R \ {x})
  BY <1>1, <1>2, SumRemove
<1>7. SumFunctionOnSet(g, S) = SumFunctionOnSet(f, S)
  BY <1>3, SumOfSame
<1>8. SumFunctionOnSet(f, S) \in Int
  BY <1>3, SumIsInt
<1>9. SumFunctionOnSet(g, R \ {x}) = SumFunctionOnSet(g, S)
  BY <1>1, Zenon
<1> QED
  BY <1>4, <1>5, <1>6, <1>7, <1>8, <1>9 DEF R

(* A record that is taken out takes its amount with it.                    *)
LEMMA AmountsOfLess ==
  ASSUME NEW S, IsFiniteSet(S), \A m \in S : m.amount \in Nat, NEW x \in S
  PROVE  AmountsOf(S) = AmountsOf(S \ {x}) + x.amount
<1> DEFINE R == S \ {x}
<1>1. IsFiniteSet(R) /\ R \cup {x} = S /\ x \notin R /\ \A m \in R : m.amount \in Nat
  BY FS_Subset
<1>2. x.amount \in Nat
  OBVIOUS
<1> HIDE DEF R
<1>3. AmountsOf(R \cup {x}) = AmountsOf(R) + x.amount
  BY <1>1, <1>2, AmountsOfMore
<1>4. AmountsOf(R \cup {x}) = AmountsOf(S)
  BY <1>1, Zenon
<1> QED
  BY <1>3, <1>4 DEF R

(* Putting a record into a set adds no more than its amount.               *)
LEMMA AmountsOfAtMost ==
  ASSUME NEW S, IsFiniteSet(S), \A m \in S : m.amount \in Nat, NEW x, x.amount \in Nat
  PROVE  AmountsOf(S \cup {x}) <= AmountsOf(S) + x.amount
<1>1. CASE x \notin S
  <2>1. AmountsOf(S \cup {x}) = AmountsOf(S) + x.amount
    BY <1>1, AmountsOfMore
  <2>2. AmountsOf(S) \in Nat
    BY AmountsHaveSum
  <2> QED
    BY <2>1, <2>2
<1>2. CASE x \in S
  <2>1. S \cup {x} = S
    BY <1>2
  <2>2. AmountsOf(S \cup {x}) = AmountsOf(S)
    BY <2>1, Zenon
  <2>3. AmountsOf(S) \in Nat
    BY AmountsHaveSum
  <2> QED
    BY <2>2, <2>3
<1> QED
  BY <1>1, <1>2

(* Values that move to the index before keep their sum.                    *)
LEMMA SumOfShifted ==
  ASSUME NEW f, NEW g, NEW n \in Nat,
         \A i \in 1 .. n : f[i + 1] \in Int /\ g[i] = f[i + 1]
  PROVE  SumFunctionOnSet(g, 1 .. n) = SumFunctionOnSet(f, 2 .. (n + 1))
<1> DEFINE C == 1 .. n
           D == 2 .. (n + 1)
           part == [i \in C |-> {i + 1}]
<1>1. IsFiniteSet(C) /\ IsFiniteSet(D)
  BY FS_Interval
<1>2. \A x \in D : f[x] \in Int
  <2>1. ASSUME NEW x \in D PROVE f[x] \in Int
    <3>1. x - 1 \in 1 .. n /\ (x - 1) + 1 = x
      OBVIOUS
    <3>2. f[(x - 1) + 1] \in Int
      BY <3>1
    <3> QED
      BY <3>1, <3>2
  <2> QED
    BY <2>1
<1>3. \A c \in C : part[c] \subseteq D /\ g[c] = SumFunctionOnSet(f, part[c])
  <2>1. ASSUME NEW c \in C PROVE part[c] \subseteq D /\ g[c] = SumFunctionOnSet(f, part[c])
    <3>1. g[c] = SumFunctionOnSet(f, {c + 1})
      BY SumOfOne
    <3>2. part[c] = {c + 1} /\ c + 1 \in D
      OBVIOUS
    <3>3. SumFunctionOnSet(f, part[c]) = SumFunctionOnSet(f, {c + 1})
      BY <3>2, Zenon
    <3> HIDE DEF part, D
    <3> QED
      BY <3>1, <3>2, <3>3
  <2> QED
    BY <2>1
<1>4. \A c, d \in C : c # d => part[c] \cap part[d] = {}
  OBVIOUS
<1>5. {x \in D : \E c \in C : x \in part[c]} = D
  <2>1. ASSUME NEW x \in D PROVE \E c \in C : x \in part[c]
    <3>1. x - 1 \in C /\ (x - 1) + 1 = x
      OBVIOUS
    <3> QED
      BY <3>1
  <2> QED
    BY <2>1
<1> HIDE DEF C, D, part
<1>6. SumFunctionOnSet(g, C) = SumFunctionOnSet(f, {x \in D : \E c \in C : x \in part[c]})
  BY <1>1, <1>2, <1>3, <1>4, SumOfClasses
<1>7. SumFunctionOnSet(g, C) = SumFunctionOnSet(f, D)
  BY <1>5, <1>6, Zenon
<1> QED
  BY <1>7 DEF C, D
=============================================================================
