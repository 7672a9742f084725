-------------------------------- MODULE Sums --------------------------------
(***************************************************************************)
(* What proofs need to know of SumFunctionOnSet, the community modules'    *)
(* sum of f[x] for all x in a finite set S: the type of the sum, the sum   *)
(* of the empty set, one element taken out or put in, a larger set.        *)
(*                                                                         *)
(* The sum is the value of a recursive function that CHOOSE picks, so it   *)
(* must be shown that there is such a function (SumExists), and that it    *)
(* does not depend on the set it is defined on (SumAgrees).  Both are by   *)
(* induction on cardinality, which is put as the membership of a set: the  *)
(* provers cannot instantiate a theorem that takes an operator.            *)
(***************************************************************************)
EXTENDS Integers, FiniteSets, Functions, FiniteSetTheorems,
        WellFoundedInduction, TLAPS

\* A set of naturals that has n whenever it has all below n has them all.
LEMMA AllNaturals ==
  ASSUME NEW B, \A n \in Nat : (\A k \in Nat : k < n => k \in B) => n \in B
  PROVE  \A n \in Nat : n \in B
<1> SUFFICES ASSUME Nat \ B # {} PROVE FALSE
  OBVIOUS
<1>1. PICK n \in Nat \ B : \A k \in Nat \ B : <<k, n>> \notin OpToRel(<, Nat)
  <2> HIDE DEF OpToRel
  <2> DEFINE R == OpToRel(<, Nat)
  <2>1. IsWellFoundedOn(R, Nat)
    BY NatLessThanWellFounded
  <2>2. Nat \ B \subseteq Nat
    OBVIOUS
  <2> HIDE DEF R
  <2>3. \E x \in Nat \ B : \A y \in Nat \ B : <<y, x>> \notin R
    BY <2>1, <2>2, WFMin
  <2> QED
    BY <2>3 DEF R
<1>2. \A k \in Nat : k < n => k \in B
  BY <1>1 DEF OpToRel
<1> QED
  BY <1>1, <1>2

\* A set of subsets of S that has T whenever it has the smaller ones has them
\* all.
LEMMA AllSubsets ==
  ASSUME NEW S, IsFiniteSet(S), NEW Good,
         \A T \in SUBSET S :
           (\A U \in SUBSET S : Cardinality(U) < Cardinality(T) => U \in Good)
             => T \in Good
  PROVE  \A T \in SUBSET S : T \in Good
<1> DEFINE B == {n \in Nat : \A T \in SUBSET S : Cardinality(T) = n => T \in Good}
<1>1. \A T \in SUBSET S : Cardinality(T) \in Nat
  BY FS_Subset, FS_CardinalityType
<1>2. ASSUME NEW n \in Nat, \A k \in Nat : k < n => k \in B
      PROVE  n \in B
  <2> SUFFICES ASSUME NEW T \in SUBSET S, Cardinality(T) = n PROVE T \in Good
    OBVIOUS
  <2>1. \A U \in SUBSET S : Cardinality(U) < Cardinality(T) => U \in Good
    BY <1>1, <1>2
  <2> QED
    BY <2>1
<1>3. \A n \in Nat : n \in B
  <2> HIDE DEF B
  <2> QED
    BY <1>2, AllNaturals
<1> QED
  BY <1>1, <1>3

------------------------------------------------------------------------
(* The recursion.                                                        *)

Chosen(T) == CHOOSE x \in T : TRUE

StepOf(f, g, T) == IF T = {} THEN 0 ELSE f[Chosen(T)] + g[T \ {Chosen(T)}]

IsSum(f, g, S) == g = [T \in SUBSET S |-> StepOf(f, g, T)]

LEMMA ChosenSmaller ==
  ASSUME NEW T, IsFiniteSet(T), T # {}
  PROVE  /\ Chosen(T) \in T
         /\ Cardinality(T) \in Nat /\ Cardinality(T \ {Chosen(T)}) \in Nat
         /\ Cardinality(T \ {Chosen(T)}) = Cardinality(T) - 1
<1>1. Chosen(T) \in T
  BY DEF Chosen
<1>2. /\ IsFiniteSet(T \ {Chosen(T)})
      /\ Cardinality(T \ {Chosen(T)}) = Cardinality(T) - 1
  BY <1>1, FS_RemoveElement
<1> QED
  BY <1>1, <1>2, FS_CardinalityType

LEMMA SumExists ==
  ASSUME NEW f, NEW S, IsFiniteSet(S)
  PROVE  \E g : IsSum(f, g, S)
<1> DEFINE Upto(n) == {T \in SUBSET S : Cardinality(T) <= n}
           B == {n \in Nat : \E g : g = [T \in Upto(n) |-> StepOf(f, g, T)]}
<1>1. \A T \in SUBSET S : IsFiniteSet(T) /\ Cardinality(T) \in Nat
  BY FS_Subset, FS_CardinalityType
<1>2. \A T \in SUBSET S : T # {} =>
        /\ T \ {Chosen(T)} \in SUBSET S
        /\ Cardinality(T \ {Chosen(T)}) = Cardinality(T) - 1
  BY <1>1, ChosenSmaller
<1>3. ASSUME NEW n \in Nat, \A k \in Nat : k < n => k \in B
      PROVE  n \in B
  <2>1. CASE n = 0
    <3> DEFINE g == [T \in Upto(n) |-> 0]
    <3>1. \A T \in Upto(n) : StepOf(f, g, T) = 0
      BY <1>1, <2>1, FS_EmptySet DEF StepOf
    <3>2. g = [T \in Upto(n) |-> StepOf(f, g, T)]
      BY <3>1
    <3> QED
      BY <3>2
  <2>2. CASE n # 0
    <3>1. n - 1 \in Nat /\ n - 1 < n
      BY <2>2
    <3>2. n - 1 \in B
      BY <1>3, <3>1
    <3>3. PICK g : g = [T \in Upto(n - 1) |-> StepOf(f, g, T)]
      BY <3>2
    <3> DEFINE h == [T \in Upto(n) |-> StepOf(f, g, T)]
    <3>4. \A T \in Upto(n - 1) : T \in Upto(n) /\ h[T] = g[T]
      BY <1>1, <3>1, <3>3
    <3>5. \A T \in Upto(n) : T # {} => T \ {Chosen(T)} \in Upto(n - 1)
      BY <1>1, <1>2, <3>1
    <3>6. \A T \in Upto(n) : StepOf(f, g, T) = StepOf(f, h, T)
      <4> HIDE DEF h, Upto
      <4> QED
        BY <3>4, <3>5 DEF StepOf
    <3>7. h = [T \in Upto(n) |-> StepOf(f, h, T)]
      <4>1. h = [T \in Upto(n) |-> StepOf(f, g, T)]
        OBVIOUS
      <4> HIDE DEF h, Upto
      <4> QED
        BY <3>6, <4>1
    <3> QED
      <4> HIDE DEF h, Upto
      <4> QED
        BY <3>7
  <2> QED
    BY <2>1, <2>2
<1>4. Cardinality(S) \in B
  <2>1. \A n \in Nat : n \in B
    <3> HIDE DEF B
    <3> QED
      BY <1>3, AllNaturals
  <2> QED
    BY <2>1, FS_CardinalityType
<1>5. Upto(Cardinality(S)) = SUBSET S
  BY <1>1, FS_Subset
<1>6. PICK g : g = [T \in Upto(Cardinality(S)) |-> StepOf(f, g, T)]
  BY <1>4
<1>7. g = [T \in SUBSET S |-> StepOf(f, g, T)]
  <2> HIDE DEF Upto
  <2> QED
    BY <1>5, <1>6
<1> QED
  BY <1>7 DEF IsSum

LEMMA SumAgrees ==
  ASSUME NEW f, NEW S, IsFiniteSet(S), NEW R \in SUBSET S,
         NEW g, IsSum(f, g, S), NEW h, IsSum(f, h, R)
  PROVE  g[R] = h[R]
<1> DEFINE Good == {T \in SUBSET R : g[T] = h[T]}
<1>1. IsFiniteSet(R)
  BY FS_Subset
<1>2. ASSUME NEW T \in SUBSET R,
             \A U \in SUBSET R : Cardinality(U) < Cardinality(T) => U \in Good
      PROVE  T \in Good
  <2>1. g[T] = StepOf(f, g, T) /\ h[T] = StepOf(f, h, T)
    BY DEF IsSum
  <2>2. CASE T = {}
    BY <2>1, <2>2 DEF StepOf
  <2>3. CASE T # {}
    <3>1. IsFiniteSet(T)
      BY <1>1, FS_Subset
    <3>2. T \ {Chosen(T)} \in Good
      BY <1>2, <2>3, <3>1, ChosenSmaller
    <3> QED
      BY <2>1, <2>3, <3>2 DEF StepOf
  <2> QED
    BY <2>2, <2>3
<1>3. \A T \in SUBSET R : T \in Good
  <2> HIDE DEF Good
  <2> QED
    BY <1>1, <1>2, AllSubsets
<1> QED
  BY <1>3

LEMMA SumIs ==
  ASSUME NEW f, NEW S, IsFiniteSet(S)
  PROVE  \E g : IsSum(f, g, S) /\ SumFunctionOnSet(f, S) = g[S]
<1> DEFINE g == CHOOSE g : IsSum(f, g, S)
<1>1. IsSum(f, g, S)
  BY SumExists
<1>2. SumFunctionOnSet(f, S) = g[S]
  BY DEF SumFunctionOnSet, FoldFunctionOnSet, MapThenFoldSet, IsSum, StepOf, Chosen
<1> QED
  BY <1>1, <1>2

------------------------------------------------------------------------
(* What the proofs of the components cite.                               *)

LEMMA SumOfNone == ASSUME NEW f PROVE SumFunctionOnSet(f, {}) = 0
<1>1. PICK g : IsSum(f, g, {}) /\ SumFunctionOnSet(f, {}) = g[{}]
  BY SumIs, FS_EmptySet
<1> QED
  BY <1>1 DEF IsSum, StepOf

\* The sum of a set in terms of a smaller one, for the element chosen.
LEMMA SumWithoutChosen ==
  ASSUME NEW f, NEW S, IsFiniteSet(S), S # {}
  PROVE  SumFunctionOnSet(f, S) =
           f[Chosen(S)] + SumFunctionOnSet(f, S \ {Chosen(S)})
<1> DEFINE R == S \ {Chosen(S)}
<1>1. PICK g : IsSum(f, g, S) /\ SumFunctionOnSet(f, S) = g[S]
  BY SumIs
<1>2. IsFiniteSet(R) /\ R \in SUBSET S
  BY FS_RemoveElement
<1>3. PICK h : IsSum(f, h, R) /\ SumFunctionOnSet(f, R) = h[R]
  BY <1>2, SumIs
<1>4. g[R] = h[R]
  BY <1>1, <1>2, <1>3, SumAgrees
<1>5. g[S] = f[Chosen(S)] + g[R]
  BY <1>1 DEF IsSum, StepOf
<1> QED
  BY <1>1, <1>3, <1>4, <1>5

LEMMA SumInt ==
  ASSUME NEW f, NEW S, IsFiniteSet(S), \A x \in S : f[x] \in Int
  PROVE  SumFunctionOnSet(f, S) \in Int
<1> DEFINE Good == {T \in SUBSET S : SumFunctionOnSet(f, T) \in Int}
<1>1. ASSUME NEW T \in SUBSET S,
             \A U \in SUBSET S : Cardinality(U) < Cardinality(T) => U \in Good
      PROVE  T \in Good
  <2>1. CASE T = {}
    BY <2>1, SumOfNone
  <2>2. CASE T # {}
    <3>1. IsFiniteSet(T)
      BY FS_Subset
    <3>2. T \ {Chosen(T)} \in Good /\ f[Chosen(T)] \in Int
      BY <1>1, <2>2, <3>1, ChosenSmaller
    <3> QED
      BY <2>2, <3>1, <3>2, SumWithoutChosen
  <2> QED
    BY <2>1, <2>2
<1>2. \A T \in SUBSET S : T \in Good
  <2> HIDE DEF Good
  <2> QED
    BY <1>1, AllSubsets
<1> QED
  BY <1>2

LEMMA SumWithout ==
  ASSUME NEW f, NEW S, IsFiniteSet(S), \A x \in S : f[x] \in Int, NEW x \in S
  PROVE  SumFunctionOnSet(f, S) = f[x] + SumFunctionOnSet(f, S \ {x})
<1> DEFINE Sum(T) == SumFunctionOnSet(f, T)
           Good == {T \in SUBSET S : \A y \in T : Sum(T) = f[y] + Sum(T \ {y})}
<1>1. \A T \in SUBSET S : IsFiniteSet(T) /\ Sum(T) \in Int
  <2> SUFFICES ASSUME NEW T \in SUBSET S PROVE IsFiniteSet(T) /\ Sum(T) \in Int
    OBVIOUS
  <2>1. IsFiniteSet(T)
    BY FS_Subset
  <2> QED
    BY <2>1, SumInt
<1>2. ASSUME NEW T \in SUBSET S,
             \A U \in SUBSET S : Cardinality(U) < Cardinality(T) => U \in Good
      PROVE  T \in Good
  <2> SUFFICES ASSUME NEW y \in T PROVE Sum(T) = f[y] + Sum(T \ {y})
    OBVIOUS
  <2> DEFINE c == Chosen(T)
  <2>1. /\ c \in T /\ IsFiniteSet(T)
        /\ Cardinality(T) \in Nat
        /\ Cardinality(T \ {c}) < Cardinality(T)
        /\ Cardinality(T \ {y}) < Cardinality(T)
    <3>1. IsFiniteSet(T) /\ T # {}
      BY <1>1
    <3>2. Cardinality(T \ {y}) = Cardinality(T) - 1
      BY <3>1, FS_RemoveElement
    <3> QED
      BY <3>1, <3>2, ChosenSmaller
  <2>2. Sum(T) = f[c] + Sum(T \ {c})
    BY <2>1, SumWithoutChosen
  <2>3. CASE y = c
    BY <2>2, <2>3
  <2>4. CASE y # c
    <3> DEFINE R == (T \ {c}) \ {y}
    <3> HIDE DEF Sum, c
    <3>1. T \ {c} \in Good /\ T \ {y} \in Good
      BY <1>2, <2>1
    <3>2. Sum(T \ {c}) = f[y] + Sum(R)
      BY <2>4, <3>1
    <3>3. Sum(T \ {y}) = f[c] + Sum(R)
      <4>1. R = (T \ {y}) \ {c}
        OBVIOUS
      <4>2. c \in T \ {y}
        BY <2>1, <2>4
      <4> HIDE DEF R
      <4> QED
        BY <3>1, <4>1, <4>2
    <3>4. f[c] \in Int /\ f[y] \in Int /\ Sum(R) \in Int
      BY <1>1, <2>1
    <3> HIDE DEF R
    <3> QED
      BY <2>2, <3>2, <3>3, <3>4
  <2> QED
    BY <2>3, <2>4
<1>3. S \in Good
  <2>1. \A T \in SUBSET S : T \in Good
    <3> HIDE DEF Good
    <3> QED
      BY <1>2, AllSubsets
  <2> QED
    BY <2>1
<1> QED
  BY <1>3

LEMMA SumWith ==
  ASSUME NEW f, NEW S, IsFiniteSet(S), NEW x, x \notin S,
         \A y \in S \cup {x} : f[y] \in Int
  PROVE  SumFunctionOnSet(f, S \cup {x}) = f[x] + SumFunctionOnSet(f, S)
<1>1. IsFiniteSet(S \cup {x}) /\ x \in S \cup {x} /\ (S \cup {x}) \ {x} = S
  BY FS_AddElement
<1> QED
  BY <1>1, SumWithout

LEMMA SumNat ==
  ASSUME NEW f, NEW S, IsFiniteSet(S), \A x \in S : f[x] \in Nat
  PROVE  SumFunctionOnSet(f, S) \in Nat
<1> DEFINE Good == {T \in SUBSET S : SumFunctionOnSet(f, T) \in Nat}
<1>1. ASSUME NEW T \in SUBSET S,
             \A U \in SUBSET S : Cardinality(U) < Cardinality(T) => U \in Good
      PROVE  T \in Good
  <2>1. CASE T = {}
    BY <2>1, SumOfNone
  <2>2. CASE T # {}
    <3>1. IsFiniteSet(T)
      BY FS_Subset
    <3>2. T \ {Chosen(T)} \in Good /\ f[Chosen(T)] \in Nat
      BY <1>1, <2>2, <3>1, ChosenSmaller
    <3> QED
      BY <2>2, <3>1, <3>2, SumWithoutChosen
  <2> QED
    BY <2>1, <2>2
<1>2. \A T \in SUBSET S : T \in Good
  <2> HIDE DEF Good
  <2> QED
    BY <1>1, AllSubsets
<1> QED
  BY <1>2

\* Of two sets the larger one has the larger sum.
LEMMA SumOfSubset ==
  ASSUME NEW f, NEW S, IsFiniteSet(S), \A x \in S : f[x] \in Nat, NEW R \in SUBSET S
  PROVE  SumFunctionOnSet(f, R) <= SumFunctionOnSet(f, S)
<1> DEFINE Sum(T) == SumFunctionOnSet(f, T)
           Good == {T \in SUBSET S : R \subseteq T => Sum(R) <= Sum(T)}
<1>1. \A T \in SUBSET S : IsFiniteSet(T) /\ Sum(T) \in Nat
  <2> SUFFICES ASSUME NEW T \in SUBSET S PROVE IsFiniteSet(T) /\ Sum(T) \in Nat
    OBVIOUS
  <2>1. IsFiniteSet(T)
    BY FS_Subset
  <2> QED
    BY <2>1, SumNat
<1>2. ASSUME NEW T \in SUBSET S,
             \A U \in SUBSET S : Cardinality(U) < Cardinality(T) => U \in Good
      PROVE  T \in Good
  <2> SUFFICES ASSUME R \subseteq T PROVE Sum(R) <= Sum(T)
    OBVIOUS
  <2> HIDE DEF Sum
  <2>1. CASE R = T
    BY <1>1, <2>1
  <2>2. CASE R # T
    <3>1. PICK x \in T : x \notin R
      BY <2>2
    <3>2. IsFiniteSet(T) /\ \A y \in T : f[y] \in Int
      BY <1>1
    <3>3. Cardinality(T) \in Nat /\ Cardinality(T \ {x}) = Cardinality(T) - 1
      BY <3>1, <3>2, FS_RemoveElement, FS_CardinalityType
    <3>4. T \ {x} \in Good
      BY <1>2, <3>3
    <3>5. Sum(T) = f[x] + Sum(T \ {x})
      BY <3>1, <3>2, SumWithout DEF Sum
    <3> QED
      BY <1>1, <3>1, <3>4, <3>5
  <2> QED
    BY <2>1, <2>2
<1>3. \A T \in SUBSET S : T \in Good
  <2> HIDE DEF Good
  <2> QED
    BY <1>2, AllSubsets
<1> QED
  BY <1>3

\* An element replaced by one of the same value leaves the sum as it is.
LEMMA SumReplaced ==
  ASSUME NEW f, NEW S, IsFiniteSet(S), NEW x \in S, NEW y, y \notin S,
         \A z \in S \cup {y} : f[z] \in Int, f[x] = f[y]
  PROVE  SumFunctionOnSet(f, (S \ {x}) \cup {y}) = SumFunctionOnSet(f, S)
<1>1. IsFiniteSet(S \ {x}) /\ y \notin S \ {x}
  BY FS_RemoveElement
<1>2. SumFunctionOnSet(f, (S \ {x}) \cup {y}) = f[y] + SumFunctionOnSet(f, S \ {x})
  BY <1>1, SumWith
<1> QED
  BY <1>2, SumWithout

\* The sum depends on the values at the elements alone, and grows with them.
LEMMA SumOfSmaller ==
  ASSUME NEW f, NEW g, NEW S, IsFiniteSet(S),
         \A x \in S : f[x] \in Int /\ g[x] \in Int /\ f[x] <= g[x]
  PROVE  SumFunctionOnSet(f, S) <= SumFunctionOnSet(g, S)
<1> DEFINE F(T) == SumFunctionOnSet(f, T)
           G(T) == SumFunctionOnSet(g, T)
           Good == {T \in SUBSET S : F(T) <= G(T)}
<1>1. \A T \in SUBSET S : IsFiniteSet(T) /\ F(T) \in Int /\ G(T) \in Int
  <2> SUFFICES ASSUME NEW T \in SUBSET S
               PROVE  IsFiniteSet(T) /\ F(T) \in Int /\ G(T) \in Int
    OBVIOUS
  <2>1. IsFiniteSet(T)
    BY FS_Subset
  <2> QED
    BY <2>1, SumInt
<1>2. ASSUME NEW T \in SUBSET S,
             \A U \in SUBSET S : Cardinality(U) < Cardinality(T) => U \in Good
      PROVE  T \in Good
  <2>1. CASE T = {}
    BY <2>1, SumOfNone
  <2>2. CASE T # {}
    <3> DEFINE c == Chosen(T)
    <3>1. /\ IsFiniteSet(T) /\ c \in T /\ T \ {c} \in SUBSET S
          /\ Cardinality(T) \in Nat
          /\ Cardinality(T \ {c}) = Cardinality(T) - 1
      BY <1>1, <2>2, ChosenSmaller
    <3>2. F(T) = f[c] + F(T \ {c}) /\ G(T) = g[c] + G(T \ {c})
      BY <2>2, <3>1, SumWithoutChosen
    <3> HIDE DEF c, F, G
    <3>3. F(T \ {c}) <= G(T \ {c})
      BY <1>2, <3>1
    <3>4. /\ f[c] \in Int /\ g[c] \in Int /\ f[c] <= g[c]
          /\ F(T \ {c}) \in Int /\ G(T \ {c}) \in Int
      BY <1>1, <3>1
    <3> QED
      BY <3>2, <3>3, <3>4
  <2> QED
    BY <2>1, <2>2
<1>3. \A T \in SUBSET S : T \in Good
  <2> HIDE DEF Good
  <2> QED
    BY <1>2, AllSubsets
<1> QED
  BY <1>3

LEMMA SumOfSame ==
  ASSUME NEW f, NEW g, NEW S, IsFiniteSet(S),
         \A x \in S : f[x] \in Int /\ g[x] = f[x]
  PROVE  SumFunctionOnSet(g, S) = SumFunctionOnSet(f, S)
<1>1. /\ SumFunctionOnSet(f, S) \in Int /\ SumFunctionOnSet(g, S) \in Int
  BY SumInt
<1>2. SumFunctionOnSet(f, S) <= SumFunctionOnSet(g, S)
  BY SumOfSmaller
<1>3. SumFunctionOnSet(g, S) <= SumFunctionOnSet(f, S)
  BY SumOfSmaller
<1> QED
  BY <1>1, <1>2, <1>3
=============================================================================
