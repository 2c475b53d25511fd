------------------------------ MODULE FiniteLemmas ------------------------------
(***************************************************************************)
(* Facts about finite sets that the proofs of several components need.     *)
(* The induction theorems of the library take an operator; here what is    *)
(* shown by induction is a set, of the subsets it holds for, so that the   *)
(* lemmas can be used as they stand.  On them rest the highest of a set of *)
(* numbers and the facts about the sum of a function over a finite set     *)
(* (SumFunctionOnSet).                                                     *)
(***************************************************************************)
EXTENDS Naturals, FiniteSets, Functions, FiniteSetTheorems, WellFoundedInduction, TLAPS

\* A property of 0 that each number passes on to the next.
LEMMA NaturalInduction ==
  ASSUME NEW F, 0 \in F, \A n \in Nat : n \in F => n + 1 \in F
  PROVE  Nat \subseteq F
  <1> DEFINE Missing == Nat \ F
             Before == OpToRel(<, Nat)
  <1>1. SUFFICES ASSUME Missing # {} PROVE FALSE
    OBVIOUS
  <1>2. \A i, j \in Nat : <<i, j>> \in Before <=> i < j
    BY DEF OpToRel
  <1>3. PICK k \in Missing : \A j \in Missing : <<j, k>> \notin Before
    <2>1. IsWellFoundedOn(Before, Nat)
      BY NatLessThanWellFounded
    <2> HIDE DEF Before
    <2> QED
      BY <1>1, <2>1, WFMin
  <1> HIDE DEF Before
  <1>4. k # 0 /\ k - 1 \in Nat /\ k - 1 < k
    BY <1>3
  <1>5. k - 1 \in F
    BY <1>2, <1>3, <1>4
  <1> QED
    BY <1>3, <1>4, <1>5

\* A set of naturals that is not empty has a lowest one.
LEMMA LowestExists ==
  ASSUME NEW S, S \subseteq Nat, S # {}
  PROVE  \E x \in S : \A y \in S : x <= y
  <1> DEFINE Before == OpToRel(<, Nat)
  <1>1. \A i, j \in Nat : <<i, j>> \in Before <=> i < j
    BY DEF OpToRel
  <1>2. PICK x \in S : \A y \in S : <<y, x>> \notin Before
    <2>1. IsWellFoundedOn(Before, Nat)
      BY NatLessThanWellFounded
    <2> HIDE DEF Before
    <2> QED
      BY <2>1, WFMin
  <1> HIDE DEF Before
  <1>3. \A y \in S : x \in Nat /\ y \in Nat /\ ~(y < x)
    BY <1>1, <1>2
  <1> QED
    BY <1>3

\* A property of finite sets that holds when it holds of every smaller subset.
LEMMA StrongInduction ==
  ASSUME NEW S, NEW F, IsFiniteSet(S),
         \A T \in SUBSET S : (\A U \in SUBSET T : U # T => U \in F) => T \in F
  PROVE  SUBSET S \subseteq F
  <1> DEFINE Bad == (SUBSET S) \ F
  <1>1. SUFFICES ASSUME Bad # {} PROVE FALSE
    OBVIOUS
  <1>2. PICK T \in Bad : \A U \in Bad : <<U, T>> \notin StrictSubsetOrdering(S)
    <2>1. IsWellFoundedOn(StrictSubsetOrdering(S), FiniteSubsetsOf(S))
      BY FS_StrictSubsetOrderingWellFounded
    <2>2. Bad \subseteq FiniteSubsetsOf(S)
      BY FS_FiniteSubsetsOfFinite
    <2> HIDE DEF Bad
    <2> QED
      BY <1>1, <2>1, <2>2, WFMin
  <1>3. ASSUME NEW U \in SUBSET T, U # T PROVE U \in F
    <2>1. <<U, T>> \in StrictSubsetOrdering(S)
      BY <1>3 DEF StrictSubsetOrdering
    <2> QED
      BY <1>2, <2>1
  <1> QED
    BY <1>3

\* A property of the empty set that adding one element keeps.
LEMMA FiniteInduction ==
  ASSUME NEW S, NEW F, IsFiniteSet(S), {} \in F,
         \A T \in SUBSET S : \A x \in S \ T : T \in F => T \cup {x} \in F
  PROVE  S \in F
  <1>1. ASSUME NEW T \in SUBSET S, \A U \in SUBSET T : U # T => U \in F
        PROVE  T \in F
    <2>1. CASE T = {}
      BY <2>1
    <2>2. CASE T # {}
      <3>1. PICK x \in T : TRUE
        BY <2>2
      <3>2. T \ {x} \in F /\ x \in S \ (T \ {x}) /\ T \ {x} \in SUBSET S
        BY <1>1, <3>1
      <3>3. (T \ {x}) \cup {x} = T
        BY <3>1
      <3> QED
        BY <3>2, <3>3
    <2> QED
      BY <2>1, <2>2
  <1>2. SUBSET S \subseteq F
    BY <1>1, StrongInduction
  <1> QED
    BY <1>2

\* What a function makes of finitely many elements is finite.
LEMMA ImageIsFinite ==
  ASSUME NEW S, IsFiniteSet(S), NEW f
  PROVE  IsFiniteSet({f[x] : x \in S})
  <1> DEFINE F == {T \in SUBSET S : IsFiniteSet({f[x] : x \in T})}
  <1>1. {} \in F
    BY FS_EmptySet
  <1>2. ASSUME NEW T \in SUBSET S, NEW x \in S \ T, T \in F PROVE T \cup {x} \in F
    <2>1. {f[y] : y \in T \cup {x}} = {f[y] : y \in T} \cup {f[x]}
      OBVIOUS
    <2>2. IsFiniteSet({f[y] : y \in T} \cup {f[x]})
      BY <1>2, FS_AddElement
    <2> QED
      BY <2>1, <2>2
  <1>3. S \in F
    <2> HIDE DEF F
    <2> QED
      BY <1>1, <1>2, FiniteInduction
  <1> QED
    BY <1>3

\* A bounded set of naturals that is not empty has a highest one.
LEMMA HighestExists ==
  ASSUME NEW n \in Nat, NEW S, S \subseteq 0..n, S # {}
  PROVE  \E x \in S : \A y \in S : y <= x
  <1> DEFINE F == {T \in SUBSET S : T # {} => \E x \in T : \A y \in T : y <= x}
  <1>1. IsFiniteSet(S)
    <2>1. IsFiniteSet(0..n)
      BY FS_Interval
    <2> QED
      BY <2>1, FS_Subset
  <1>2. {} \in F
    OBVIOUS
  <1>3. ASSUME NEW T \in SUBSET S, NEW x \in S \ T, T \in F PROVE T \cup {x} \in F
    <2>1. \A y \in T \cup {x} : y \in Nat
      OBVIOUS
    <2>2. CASE T = {}
      BY <2>1, <2>2
    <2>3. CASE T # {}
      <3>1. PICK h \in T : \A y \in T : y <= h
        BY <1>3, <2>3
      <3> QED
        BY <2>1, <3>1
    <2> QED
      BY <2>2, <2>3
  <1>4. S \in F
    <2> HIDE DEF F
    <2> QED
      BY <1>1, <1>2, <1>3, FiniteInduction
  <1> QED
    BY <1>4

--------------------------------------------------------------------------------
(* The recursion a sum is computed by.                                     *)

AnyOf(s) == CHOOSE x \in s : TRUE

SumStep(w, g, s) == IF s = {} THEN 0 ELSE w[AnyOf(s)] + g[s \ {AnyOf(s)}]

\* g gives the sum of w over every subset of S.
SolvesSum(g, w, S) == g = [s \in SUBSET S |-> SumStep(w, g, s)]

\* The library's sum is the value of the chosen solution,
LEMMA SumUnfolds ==
  ASSUME NEW S, NEW w
  PROVE  SumFunctionOnSet(w, S) = (CHOOSE g : SolvesSum(g, w, S))[S]
  BY DEF SumFunctionOnSet, FoldFunctionOnSet, MapThenFoldSet, AnyOf, SumStep, SolvesSum

\* which takes some element of the set first.
LEMMA AnyIsIn ==
  ASSUME NEW s, s # {}
  PROVE  AnyOf(s) \in s
  BY DEF AnyOf

\* The recursion has a solution on the subsets of each size, hence on all.
LEMMA RecursionExists ==
  ASSUME NEW S, IsFiniteSet(S), NEW w
  PROVE  \E g : SolvesSum(g, w, S)
  <1> DEFINE UpTo(n) == {s \in SUBSET S : Cardinality(s) <= n}
             Solved == {n \in Nat : \E g : g = [s \in UpTo(n) |-> SumStep(w, g, s)]}
  <1>1. \A s \in SUBSET S : IsFiniteSet(s) /\ Cardinality(s) \in Nat /\ Cardinality(s) <= Cardinality(S)
    BY FS_Subset, FS_CardinalityType
  <1>2. Cardinality(S) \in Nat
    BY FS_CardinalityType
  <1>3. 0 \in Solved
    <2> DEFINE g == [s \in UpTo(0) |-> 0]
    <2>1. \A s \in UpTo(0) : s = {}
      BY <1>1, FS_EmptySet
    <2>2. g = [s \in UpTo(0) |-> SumStep(w, g, s)]
      BY <2>1 DEF SumStep
    <2> QED
      BY <2>2
  <1>4. ASSUME NEW n \in Nat, n \in Solved PROVE n + 1 \in Solved
    <2>1. PICK g : g = [s \in UpTo(n) |-> SumStep(w, g, s)]
      BY <1>4
    <2> DEFINE h == [s \in UpTo(n + 1) |-> SumStep(w, g, s)]
    <2>2. \A s \in UpTo(n) : s \in UpTo(n + 1) /\ g[s] = SumStep(w, g, s)
      BY <1>1, <2>1
    <2>3. \A s \in UpTo(n) : h[s] = g[s]
      BY <2>2
    <2>4. ASSUME NEW s \in UpTo(n + 1) PROVE SumStep(w, g, s) = SumStep(w, h, s)
      <3>1. CASE s = {}
        BY <3>1 DEF SumStep
      <3>2. CASE s # {}
        <4>1. AnyOf(s) \in s
          BY <3>2, AnyIsIn
        <4>2. Cardinality(s \ {AnyOf(s)}) = Cardinality(s) - 1
          BY <1>1, <4>1, FS_RemoveElement
        <4>3. s \ {AnyOf(s)} \in UpTo(n)
          BY <1>1, <4>2
        <4> HIDE DEF h, UpTo
        <4> QED
          BY <2>3, <3>2, <4>3 DEF SumStep
      <3> QED
        BY <3>1, <3>2
    <2>5. h = [s \in UpTo(n + 1) |-> SumStep(w, h, s)]
      BY <2>4
    <2> HIDE DEF h
    <2> QED
      BY <2>5
  <1>5. Cardinality(S) \in Solved
    <2> HIDE DEF Solved
    <2> QED
      BY <1>2, <1>3, <1>4, NaturalInduction
  <1>6. UpTo(Cardinality(S)) = SUBSET S
    BY <1>1
  <1> QED
    BY <1>5, <1>6 DEF SolvesSum

\* Two solutions agree wherever both are defined and sum the same numbers.
LEMMA RecursionIsUnique ==
  ASSUME NEW S, NEW T, NEW w, NEW v, NEW g, NEW h,
         IsFiniteSet(S), T \in SUBSET S, \A x \in T : w[x] = v[x],
         SolvesSum(g, w, S), SolvesSum(h, v, T)
  PROVE  g[T] = h[T]
  <1> DEFINE Agree == {s \in SUBSET T : g[s] = h[s]}
  <1>1. \A s \in SUBSET T : g[s] = SumStep(w, g, s) /\ h[s] = SumStep(v, h, s)
    BY DEF SolvesSum
  <1>2. ASSUME NEW s \in SUBSET T, \A u \in SUBSET s : u # s => u \in Agree
        PROVE  s \in Agree
    <2>1. CASE s = {}
      BY <1>1, <2>1 DEF SumStep
    <2>2. CASE s # {}
      <3>1. AnyOf(s) \in s
        BY <2>2, AnyIsIn
      <3>2. s \ {AnyOf(s)} \in Agree
        BY <1>2, <3>1
      <3>3. w[AnyOf(s)] = v[AnyOf(s)]
        BY <3>1
      <3> QED
        BY <1>1, <2>2, <3>2, <3>3 DEF SumStep
    <2> QED
      BY <2>1, <2>2
  <1>3. SUBSET T \subseteq Agree
    <2>1. IsFiniteSet(T)
      BY FS_Subset
    <2> HIDE DEF Agree
    <2> QED
      BY <1>2, <2>1, StrongInduction
  <1> QED
    BY <1>3

\* The chosen function is that solution.
LEMMA SumIsSolution ==
  ASSUME NEW S, IsFiniteSet(S), NEW w
  PROVE  \E g : SolvesSum(g, w, S) /\ SumFunctionOnSet(w, S) = g[S]
  <1> DEFINE G == CHOOSE g : SolvesSum(g, w, S)
  <1>1. SolvesSum(G, w, S)
    BY RecursionExists
  <1>2. SumFunctionOnSet(w, S) = G[S]
    BY SumUnfolds
  <1> QED
    BY <1>1, <1>2

--------------------------------------------------------------------------------
(* Sums.                                                                   *)

\* A sum looks at nothing but the function's values on the set.
LEMMA SumAgrees ==
  ASSUME NEW S, IsFiniteSet(S), NEW w, NEW v, \A x \in S : w[x] = v[x]
  PROVE  SumFunctionOnSet(w, S) = SumFunctionOnSet(v, S)
  <1>1. PICK g : SolvesSum(g, w, S) /\ SumFunctionOnSet(w, S) = g[S]
    BY SumIsSolution
  <1>2. PICK h : SolvesSum(h, v, S) /\ SumFunctionOnSet(v, S) = h[S]
    BY SumIsSolution
  <1>3. S \in SUBSET S
    OBVIOUS
  <1>4. g[S] = h[S]
    BY <1>1, <1>2, <1>3, RecursionIsUnique
  <1> QED
    BY <1>1, <1>2, <1>4

\* The sum of nothing is zero,
LEMMA SumEmpty ==
  ASSUME NEW w
  PROVE  SumFunctionOnSet(w, {}) = 0
  <1>1. PICK g : SolvesSum(g, w, {}) /\ SumFunctionOnSet(w, {}) = g[{}]
    BY SumIsSolution, FS_EmptySet
  <1>2. g[{}] = SumStep(w, g, {})
    BY <1>1 DEF SolvesSum
  <1> QED
    BY <1>1, <1>2 DEF SumStep

\* and any other is that of the element picked and of the rest.
LEMMA SumPicks ==
  ASSUME NEW S, IsFiniteSet(S), S # {}, NEW w
  PROVE  SumFunctionOnSet(w, S) = w[AnyOf(S)] + SumFunctionOnSet(w, S \ {AnyOf(S)})
  <1> DEFINE T == S \ {AnyOf(S)}
  <1>1. IsFiniteSet(T) /\ T \in SUBSET S
    BY FS_Subset
  <1>2. PICK g : SolvesSum(g, w, S) /\ SumFunctionOnSet(w, S) = g[S]
    BY SumIsSolution
  <1>3. PICK h : SolvesSum(h, w, T) /\ SumFunctionOnSet(w, T) = h[T]
    BY <1>1, SumIsSolution
  <1>4. g[T] = h[T]
    BY <1>1, <1>2, <1>3, RecursionIsUnique
  <1>5. g[S] = w[AnyOf(S)] + g[T]
    <2>1. g[S] = SumStep(w, g, S)
      BY <1>2 DEF SolvesSum
    <2> QED
      BY <2>1 DEF SumStep
  <1> QED
    BY <1>2, <1>3, <1>4, <1>5

\* Numbers sum to a number.
LEMMA SumType ==
  ASSUME NEW S, IsFiniteSet(S), NEW w, \A x \in S : w[x] \in Nat
  PROVE  SumFunctionOnSet(w, S) \in Nat
  <1> DEFINE Good == {T \in SUBSET S : SumFunctionOnSet(w, T) \in Nat}
  <1>1. ASSUME NEW T \in SUBSET S, \A U \in SUBSET T : U # T => U \in Good
        PROVE  T \in Good
    <2>1. CASE T = {}
      BY <2>1, SumEmpty
    <2>2. CASE T # {}
      <3>1. AnyOf(T) \in T /\ w[AnyOf(T)] \in Nat
        BY <2>2, AnyIsIn
      <3>2. SumFunctionOnSet(w, T) = w[AnyOf(T)] + SumFunctionOnSet(w, T \ {AnyOf(T)})
        BY <2>2, SumPicks, FS_Subset
      <3>3. SumFunctionOnSet(w, T \ {AnyOf(T)}) \in Nat
        BY <1>1, <3>1
      <3> QED
        BY <3>1, <3>2, <3>3
    <2> QED
      BY <2>1, <2>2
  <1>2. SUBSET S \subseteq Good
    <2> HIDE DEF Good
    <2> QED
      BY <1>1, StrongInduction
  <1> QED
    BY <1>2

\* Any element may be taken out of a sum, not only the one picked first.
LEMMA SumRemoves ==
  ASSUME NEW S, IsFiniteSet(S), NEW w, \A x \in S : w[x] \in Nat, NEW x \in S
  PROVE  SumFunctionOnSet(w, S) = w[x] + SumFunctionOnSet(w, S \ {x})
  <1> DEFINE Sum(T) == SumFunctionOnSet(w, T)
             Good == {T \in SUBSET S : \A y \in T : Sum(T) = w[y] + Sum(T \ {y})}
  <1>1. \A T \in SUBSET S : IsFiniteSet(T) /\ Sum(T) \in Nat
    BY FS_Subset, SumType
  <1>2. ASSUME NEW T \in SUBSET S, \A U \in SUBSET T : U # T => U \in Good, NEW y \in T
        PROVE  Sum(T) = w[y] + Sum(T \ {y})
    <2> DEFINE p == AnyOf(T)
    <2>1. p \in T
      BY AnyIsIn
    <2>2. Sum(T) = w[p] + Sum(T \ {p})
      BY <1>1, SumPicks
    <2>3. CASE y = p
      BY <2>2, <2>3
    <2>4. CASE y # p
      <3>1. T \ {p} \in Good /\ y \in T \ {p}
        BY <1>2, <2>1, <2>4
      <3>2. T \ {y} \in Good /\ p \in T \ {y}
        BY <1>2, <2>1, <2>4
      <3>3. Sum(T \ {p}) = w[y] + Sum((T \ {p}) \ {y})
        BY <3>1
      <3>4. Sum(T \ {y}) = w[p] + Sum((T \ {y}) \ {p})
        BY <3>2
      <3>5. (T \ {p}) \ {y} = (T \ {y}) \ {p}
        OBVIOUS
      <3>6. w[y] \in Nat /\ w[p] \in Nat /\ Sum((T \ {y}) \ {p}) \in Nat
        BY <1>1, <2>1
      <3>7. \A i, j, k \in Nat : i + (j + k) = j + (i + k)
        OBVIOUS
      <3>8. w[p] + (w[y] + Sum((T \ {y}) \ {p})) = w[y] + (w[p] + Sum((T \ {y}) \ {p}))
        BY <3>6, <3>7
      <3> HIDE DEF Sum, p, Good
      <3> QED
        BY <2>2, <3>3, <3>4, <3>5, <3>8
    <2> QED
      BY <2>3, <2>4
  <1>3. SUBSET S \subseteq Good
    <2>1. \A T \in SUBSET S : (\A U \in SUBSET T : U # T => U \in Good) => T \in Good
      <3>1. SUFFICES ASSUME NEW T \in SUBSET S, \A U \in SUBSET T : U # T => U \in Good
                     PROVE  \A y \in T : Sum(T) = w[y] + Sum(T \ {y})
        OBVIOUS
      <3> HIDE DEF Sum, Good
      <3> QED
        BY <1>2, <3>1
    <2> HIDE DEF Good
    <2> QED
      BY <2>1, StrongInduction
  <1> QED
    BY <1>3

\* An element more adds its value.
LEMMA SumAdds ==
  ASSUME NEW S, IsFiniteSet(S), NEW x, x \notin S, NEW w, \A y \in S \cup {x} : w[y] \in Nat
  PROVE  SumFunctionOnSet(w, S \cup {x}) = w[x] + SumFunctionOnSet(w, S)
  <1>1. IsFiniteSet(S \cup {x}) /\ (S \cup {x}) \ {x} = S
    BY FS_AddElement
  <1> QED
    BY <1>1, SumRemoves

\* Sets that share nothing sum to the sum of both.
LEMMA SumOfUnion ==
  ASSUME NEW S, IsFiniteSet(S), NEW T, IsFiniteSet(T), S \cap T = {},
         NEW w, \A x \in S \cup T : w[x] \in Nat
  PROVE  SumFunctionOnSet(w, S \cup T) = SumFunctionOnSet(w, S) + SumFunctionOnSet(w, T)
  <1> DEFINE Sum(U) == SumFunctionOnSet(w, U)
             Good == {U \in SUBSET T : Sum(S \cup U) = Sum(S) + Sum(U)}
  <1>1. \A U \in SUBSET T : /\ IsFiniteSet(U) /\ IsFiniteSet(S \cup U)
                            /\ Sum(U) \in Nat /\ Sum(S \cup U) \in Nat
    BY FS_Subset, FS_Union, SumType
  <1>2. Sum(S) \in Nat
    BY SumType
  <1>3. {} \in Good
    BY <1>2, SumEmpty
  <1>4. ASSUME NEW U \in SUBSET T, NEW x \in T \ U, U \in Good
        PROVE  U \cup {x} \in Good
    <2>1. Sum(U \cup {x}) = w[x] + Sum(U)
      BY <1>1, SumAdds
    <2>2. Sum((S \cup U) \cup {x}) = w[x] + Sum(S \cup U)
      BY <1>1, SumAdds
    <2>3. (S \cup U) \cup {x} = S \cup (U \cup {x})
      OBVIOUS
    <2>4. w[x] \in Nat /\ Sum(S \cup U) = Sum(S) + Sum(U)
      BY <1>4
    <2>5. Sum(S \cup (U \cup {x})) = Sum(S) + Sum(U \cup {x})
      <3>1. \A i, j, k \in Nat : i + (j + k) = j + (i + k)
        OBVIOUS
      <3>2. w[x] + (Sum(S) + Sum(U)) = Sum(S) + (w[x] + Sum(U))
        BY <1>1, <1>2, <2>4, <3>1
      <3> HIDE DEF Sum, Good
      <3> QED
        BY <2>1, <2>2, <2>3, <2>4, <3>2
    <2> QED
      BY <2>5
  <1>5. T \in Good
    <2>1. \A U \in SUBSET T : \A x \in T \ U : U \in Good => U \cup {x} \in Good
      <3> HIDE DEF Good
      <3> QED
        BY <1>4
    <2> HIDE DEF Good
    <2> QED
      BY <1>3, <2>1, FiniteInduction
  <1> QED
    BY <1>5

\* What each element adds at most, the sum adds at most as often as there are elements.
LEMMA SumGrows ==
  ASSUME NEW S, IsFiniteSet(S), NEW k \in Nat, NEW w, NEW v,
         \A x \in S : w[x] \in Nat /\ v[x] \in Nat /\ w[x] <= v[x] + k
  PROVE  SumFunctionOnSet(w, S) <= SumFunctionOnSet(v, S) + Cardinality(S) * k
  <1> DEFINE A(T) == SumFunctionOnSet(w, T)
             B(T) == SumFunctionOnSet(v, T)
             Good == {T \in SUBSET S : A(T) <= B(T) + Cardinality(T) * k}
  <1>1. \A T \in SUBSET S : /\ IsFiniteSet(T) /\ Cardinality(T) \in Nat
                            /\ A(T) \in Nat /\ B(T) \in Nat
    BY FS_Subset, FS_CardinalityType, SumType
  <1>2. {} \in Good
    <2>1. A({}) = 0 /\ B({}) = 0 /\ Cardinality({}) = 0
      BY SumEmpty, FS_EmptySet
    <2> QED
      BY <2>1
  <1>3. ASSUME NEW T \in SUBSET S, NEW x \in S \ T, T \in Good
        PROVE  T \cup {x} \in Good
    <2>1. A(T \cup {x}) = w[x] + A(T) /\ B(T \cup {x}) = v[x] + B(T)
      BY <1>1, SumAdds
    <2>2. Cardinality(T \cup {x}) = Cardinality(T) + 1
      BY <1>1, FS_AddElement
    <2>3. \A n \in Nat : (n + 1) * k = n * k + k /\ n * k \in Nat
      OBVIOUS
    <2>4. w[x] \in Nat /\ v[x] \in Nat /\ w[x] <= v[x] + k
      OBVIOUS
    <2>5. A(T) <= B(T) + Cardinality(T) * k
      BY <1>3
    <2>6. A(T \cup {x}) <= B(T \cup {x}) + Cardinality(T \cup {x}) * k
      <3> HIDE DEF A, B
      <3>1. Cardinality(T \cup {x}) * k = Cardinality(T) * k + k /\ Cardinality(T) * k \in Nat
        BY <1>1, <2>2, <2>3
      <3> QED
        BY <1>1, <2>1, <2>4, <2>5, <3>1
    <2> QED
      BY <2>6
  <1>4. S \in Good
    <2> HIDE DEF Good
    <2> QED
      BY <1>2, <1>3, FiniteInduction
  <1> QED
    BY <1>4

\* Zeroes sum to zero.
LEMMA SumOfNothing ==
  ASSUME NEW S, IsFiniteSet(S), NEW w, \A x \in S : w[x] = 0
  PROVE  SumFunctionOnSet(w, S) = 0
  <1> DEFINE Good == {T \in SUBSET S : SumFunctionOnSet(w, T) = 0}
  <1>1. {} \in Good
    BY SumEmpty
  <1>2. ASSUME NEW T \in SUBSET S, NEW x \in S \ T, T \in Good
        PROVE  T \cup {x} \in Good
    <2>1. IsFiniteSet(T) /\ \A y \in T \cup {x} : w[y] \in Nat
      BY FS_Subset
    <2>2. SumFunctionOnSet(w, T \cup {x}) = w[x] + SumFunctionOnSet(w, T)
      BY <2>1, SumAdds
    <2> QED
      BY <1>2, <2>2
  <1>3. S \in Good
    <2> HIDE DEF Good
    <2> QED
      BY <1>1, <1>2, FiniteInduction
  <1> QED
    BY <1>3

\* Numbers of at most b sum to at most b for each.
LEMMA SumBounded ==
  ASSUME NEW S, IsFiniteSet(S), NEW k \in Nat, NEW w, \A x \in S : w[x] \in Nat /\ w[x] <= k
  PROVE  SumFunctionOnSet(w, S) <= Cardinality(S) * k
  <1> DEFINE zero == [x \in S |-> 0]
  <1>1. \A x \in S : w[x] \in Nat /\ zero[x] \in Nat /\ zero[x] = 0 /\ w[x] <= zero[x] + k
    OBVIOUS
  <1>2. SumFunctionOnSet(zero, S) = 0 /\ SumFunctionOnSet(w, S) <= SumFunctionOnSet(zero, S) + Cardinality(S) * k
    <2> HIDE DEF zero
    <2> QED
      BY <1>1, SumOfNothing, SumGrows
  <1>3. Cardinality(S) \in Nat /\ Cardinality(S) * k \in Nat
    BY FS_CardinalityType
  <1> HIDE DEF zero
  <1> QED
    BY <1>2, <1>3

\* What is nowhere more sums to no more.
LEMMA SumCompares ==
  ASSUME NEW S, IsFiniteSet(S), NEW w, NEW v,
         \A x \in S : w[x] \in Nat /\ v[x] \in Nat /\ w[x] <= v[x]
  PROVE  SumFunctionOnSet(w, S) <= SumFunctionOnSet(v, S)
  <1>1. SumFunctionOnSet(w, S) <= SumFunctionOnSet(v, S) + Cardinality(S) * 0
    BY SumGrows
  <1>2. Cardinality(S) * 0 = 0 /\ SumFunctionOnSet(v, S) \in Nat
    BY FS_CardinalityType, SumType
  <1> QED
    BY <1>1, <1>2

\* Sums of the same numbers but for one are apart by what those two are.
LEMMA SumChanges ==
  ASSUME NEW S, IsFiniteSet(S), NEW w, NEW v, NEW x \in S,
         \A y \in S : w[y] \in Nat /\ v[y] \in Nat,
         \A y \in S \ {x} : w[y] = v[y]
  PROVE  SumFunctionOnSet(w, S) + v[x] = SumFunctionOnSet(v, S) + w[x]
  <1>1. IsFiniteSet(S \ {x})
    BY FS_Subset
  <1>2. SumFunctionOnSet(w, S) = w[x] + SumFunctionOnSet(w, S \ {x})
    BY SumRemoves
  <1>3. SumFunctionOnSet(v, S) = v[x] + SumFunctionOnSet(v, S \ {x})
    BY SumRemoves
  <1>4. SumFunctionOnSet(w, S \ {x}) = SumFunctionOnSet(v, S \ {x})
    BY <1>1, SumAgrees
  <1>5. SumFunctionOnSet(v, S \ {x}) \in Nat
    BY <1>1, SumType
  <1> QED
    BY <1>2, <1>3, <1>4, <1>5

\* The sum over a set is that over a part of it and that over the rest.
LEMMA SumOfPart ==
  ASSUME NEW S, NEW T \in SUBSET S, IsFiniteSet(S), NEW w, \A x \in S : w[x] \in Nat
  PROVE  /\ SumFunctionOnSet(w, S) = SumFunctionOnSet(w, T) + SumFunctionOnSet(w, S \ T)
         /\ SumFunctionOnSet(w, T) <= SumFunctionOnSet(w, S)
  <1>1. IsFiniteSet(T) /\ IsFiniteSet(S \ T)
    BY FS_Subset
  <1>2. T \cap (S \ T) = {} /\ T \cup (S \ T) = S
    OBVIOUS
  <1>3. SumFunctionOnSet(w, T \cup (S \ T)) = SumFunctionOnSet(w, T) + SumFunctionOnSet(w, S \ T)
    BY <1>1, <1>2, SumOfUnion
  <1>4. SumFunctionOnSet(w, T) \in Nat /\ SumFunctionOnSet(w, S \ T) \in Nat
    BY <1>1, SumType
  <1>5. SumFunctionOnSet(w, S) = SumFunctionOnSet(w, T) + SumFunctionOnSet(w, S \ T)
    BY <1>2, <1>3, Zenon
  <1> QED
    BY <1>4, <1>5

\* What is nowhere more and somewhere less sums to less.
LEMMA SumIsLess ==
  ASSUME NEW S, IsFiniteSet(S), NEW w, NEW v, NEW x \in S, w[x] < v[x],
         \A y \in S : w[y] \in Nat /\ v[y] \in Nat /\ w[y] <= v[y]
  PROVE  SumFunctionOnSet(w, S) < SumFunctionOnSet(v, S)
  <1>1. IsFiniteSet(S \ {x})
    BY FS_Subset
  <1>2. SumFunctionOnSet(w, S) = w[x] + SumFunctionOnSet(w, S \ {x})
    BY SumRemoves
  <1>3. SumFunctionOnSet(v, S) = v[x] + SumFunctionOnSet(v, S \ {x})
    BY SumRemoves
  <1>4. SumFunctionOnSet(w, S \ {x}) <= SumFunctionOnSet(v, S \ {x})
    BY <1>1, SumCompares
  <1>5. SumFunctionOnSet(v, S \ {x}) \in Nat /\ SumFunctionOnSet(w, S \ {x}) \in Nat
    BY <1>1, SumType
  <1> QED
    BY <1>2, <1>3, <1>4, <1>5

\* Equal numbers sum to as many times the number.
LEMMA SumOfEqual ==
  ASSUME NEW S, IsFiniteSet(S), NEW k \in Nat, NEW w, \A x \in S : w[x] = k
  PROVE  SumFunctionOnSet(w, S) = Cardinality(S) * k
  <1> DEFINE Sum(T) == SumFunctionOnSet(w, T)
             Good == {T \in SUBSET S : Sum(T) = Cardinality(T) * k}
  <1>1. \A T \in SUBSET S : IsFiniteSet(T) /\ Cardinality(T) \in Nat
    BY FS_Subset, FS_CardinalityType
  <1>2. {} \in Good
    <2>1. Sum({}) = 0 /\ Cardinality({}) = 0
      BY SumEmpty, FS_EmptySet
    <2> QED
      BY <2>1
  <1>3. ASSUME NEW T \in SUBSET S, NEW x \in S \ T, T \in Good
        PROVE  T \cup {x} \in Good
    <2>1. Sum(T \cup {x}) = k + Sum(T)
      <3>1. \A y \in T \cup {x} : w[y] \in Nat
        OBVIOUS
      <3>2. SumFunctionOnSet(w, T \cup {x}) = w[x] + SumFunctionOnSet(w, T)
        BY <1>1, <3>1, SumAdds
      <3> QED
        BY <3>2
    <2>2. Cardinality(T \cup {x}) = Cardinality(T) + 1
      BY <1>1, FS_AddElement
    <2>3. \A n \in Nat : (n + 1) * k = k + n * k
      OBVIOUS
    <2>4. Cardinality(T \cup {x}) * k = k + Cardinality(T) * k
      BY <1>1, <2>2, <2>3
    <2>5. Sum(T) = Cardinality(T) * k
      BY <1>3
    <2> HIDE DEF Sum
    <2> QED
      BY <2>1, <2>4, <2>5
  <1>4. S \in Good
    <2> HIDE DEF Good
    <2> QED
      BY <1>2, <1>3, FiniteInduction
  <1> QED
    BY <1>4

\* Numbers sorted by what f makes of their elements: the sums of the sorts sum to the
\* sum of all.
LEMMA SumOfFibres ==
  ASSUME NEW S, IsFiniteSet(S), NEW w, \A x \in S : w[x] \in Nat,
         NEW Y, IsFiniteSet(Y), NEW f, \A x \in S : f[x] \in Y,
         NEW g, \A y \in Y : g[y] \subseteq S /\ \A x \in S : x \in g[y] <=> f[x] = y,
         NEW v, \A y \in Y : v[y] = SumFunctionOnSet(w, g[y])
  PROVE  SumFunctionOnSet(v, Y) = SumFunctionOnSet(w, S)
  <1> DEFINE Of(T) == {x \in S : f[x] \in T}
             Good == {T \in SUBSET Y : SumFunctionOnSet(v, T) = SumFunctionOnSet(w, Of(T))}
  <1>1. \A U \in SUBSET S : IsFiniteSet(U) /\ SumFunctionOnSet(w, U) \in Nat
    BY FS_Subset, SumType
  <1>2. \A y \in Y : v[y] \in Nat
    BY <1>1
  <1>2a. \A y \in Y : g[y] = Of({y})
    OBVIOUS
  <1>3. {} \in Good
    <2>1. Of({}) = {}
      OBVIOUS
    <2> QED
      BY <2>1, SumEmpty
  <1>4. ASSUME NEW T \in SUBSET Y, NEW y \in Y \ T, T \in Good
        PROVE  T \cup {y} \in Good
    <2>1. IsFiniteSet(T)
      BY FS_Subset
    <2>2. SumFunctionOnSet(v, T \cup {y}) = v[y] + SumFunctionOnSet(v, T)
      BY <1>2, <2>1, SumAdds
    <2> DEFINE New == Of({y})
               Old == Of(T)
    <2>3. Of(T \cup {y}) = New \cup Old /\ New \cap Old = {}
      OBVIOUS
    <2>4. New \subseteq S /\ Old \subseteq S
      OBVIOUS
    <2>5. v[y] = SumFunctionOnSet(w, New)
      BY <1>2a
    <2>6. SumFunctionOnSet(v, T) = SumFunctionOnSet(w, Old)
      BY <1>4
    <2>7. SumFunctionOnSet(w, New \cup Old) = SumFunctionOnSet(w, New) + SumFunctionOnSet(w, Old)
      <3> HIDE DEF New, Old
      <3>1. \A x \in New \cup Old : w[x] \in Nat
        BY <2>4
      <3>2. IsFiniteSet(New) /\ IsFiniteSet(Old)
        BY <1>1, <2>4
      <3> QED
        BY <2>3, <3>1, <3>2, SumOfUnion
    <2>8. SumFunctionOnSet(v, T \cup {y}) = SumFunctionOnSet(w, Of(T \cup {y}))
      <3> HIDE DEF New, Old, Of
      <3> QED
        BY <2>2, <2>3, <2>5, <2>6, <2>7, Zenon
    <2> QED
      BY <2>8
  <1>5. Y \in Good
    <2> HIDE DEF Good
    <2> QED
      BY <1>3, <1>4, FiniteInduction
  <1>6. Of(Y) = S
    OBVIOUS
  <1> QED
    BY <1>5, <1>6


--------------------------------------------------------------------------------
(* Folds.                                                                  *)

\* A fold that takes the elements of a finite set one by one, each after the others
\* that are left, is defined on all its subsets.
FoldStep(base, step, last, g, s) == IF s = {} THEN base ELSE step[<<last[s], g[s \ {last[s]}]>>]
TakesLast(last, S) == \A s \in SUBSET S : s # {} => last[s] \in s
SolvesFold(g, base, step, last, A, S) ==
  g \in [SUBSET S -> A] /\ \A s \in SUBSET S : g[s] = FoldStep(base, step, last, g, s)

LEMMA FoldExists ==
  ASSUME NEW S, IsFiniteSet(S), NEW last, TakesLast(last, S),
         NEW A, NEW base, base \in A, NEW step, step \in [S \X A -> A]
  PROVE  \E g : SolvesFold(g, base, step, last, A, S)
  <1> DEFINE UpTo(n) == {s \in SUBSET S : Cardinality(s) <= n}
             Solves(n) == \E g \in [UpTo(n) -> A] :
                            \A s \in UpTo(n) : g[s] = FoldStep(base, step, last, g, s)
             Solved == {n \in Nat : Solves(n)}
  <1>1. \A s \in SUBSET S : IsFiniteSet(s) /\ Cardinality(s) \in Nat /\ Cardinality(s) <= Cardinality(S)
    BY FS_Subset, FS_CardinalityType
  <1>2. Cardinality(S) \in Nat
    BY FS_CardinalityType
  <1>3. 0 \in Solved
    <2> DEFINE g == [s \in UpTo(0) |-> base]
    <2>1. \A s \in UpTo(0) : s = {}
      BY <1>1, FS_EmptySet
    <2>2. g \in [UpTo(0) -> A] /\ \A s \in UpTo(0) : g[s] = FoldStep(base, step, last, g, s)
      BY <2>1 DEF FoldStep
    <2> QED
      BY <2>2
  <1>4. ASSUME NEW n \in Nat, n \in Solved PROVE n + 1 \in Solved
    <2>1. PICK g \in [UpTo(n) -> A] : \A s \in UpTo(n) : g[s] = FoldStep(base, step, last, g, s)
      BY <1>4
    <2> DEFINE h == [s \in UpTo(n + 1) |-> FoldStep(base, step, last, g, s)]
    <2>2. \A s \in UpTo(n) : s \in UpTo(n + 1) /\ h[s] = g[s]
      BY <1>1, <2>1
    <2>3. ASSUME NEW s \in UpTo(n + 1), s # {}
          PROVE  last[s] \in S /\ s \ {last[s]} \in UpTo(n)
      <3>1. last[s] \in s
        BY <2>3 DEF TakesLast
      <3>2. Cardinality(s \ {last[s]}) = Cardinality(s) - 1
        BY <1>1, <3>1, FS_RemoveElement
      <3> QED
        BY <1>1, <3>1, <3>2
    <2>4. h \in [UpTo(n + 1) -> A]
      <3>1. ASSUME NEW s \in UpTo(n + 1) PROVE FoldStep(base, step, last, g, s) \in A
        <4>1. CASE s = {}
          BY <4>1 DEF FoldStep
        <4>2. CASE s # {}
          <5>1. g[s \ {last[s]}] \in A /\ last[s] \in S
            BY <2>1, <2>3, <4>2
          <5>2. <<last[s], g[s \ {last[s]}]>> \in S \X A
            BY <5>1
          <5> QED
            BY <4>2, <5>2 DEF FoldStep
        <4> QED
          BY <4>1, <4>2
      <3> QED
        BY <3>1
    <2>5. ASSUME NEW s \in UpTo(n + 1) PROVE h[s] = FoldStep(base, step, last, h, s)
      <3>1. CASE s = {}
        BY <3>1 DEF FoldStep
      <3>2. CASE s # {}
        <4>1. h[s \ {last[s]}] = g[s \ {last[s]}]
          BY <2>2, <2>3, <3>2
        <4>2. h[s] = FoldStep(base, step, last, g, s)
          OBVIOUS
        <4> HIDE DEF h, UpTo
        <4> QED
          BY <3>2, <4>1, <4>2 DEF FoldStep
      <3> QED
        BY <3>1, <3>2
    <2>6. Solves(n + 1)
      <3> HIDE DEF h, UpTo
      <3> QED
        BY <2>4, <2>5
    <2> HIDE DEF Solves
    <2> QED
      BY <2>6
  <1>5. Cardinality(S) \in Solved
    <2> HIDE DEF Solved
    <2> QED
      BY <1>2, <1>3, <1>4, NaturalInduction
  <1>6. UpTo(Cardinality(S)) = SUBSET S
    BY <1>1
  <1> QED
    BY <1>5, <1>6 DEF SolvesFold
================================================================================
