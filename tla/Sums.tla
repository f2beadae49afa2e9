-------------------------------- MODULE Sums --------------------------------
(***************************************************************************)
(* What SumFunctionOnSet of the community modules computes: the laws of    *)
(* sums over finite sets, for the proofs about balances, supplies and      *)
(* journals.                                                               *)
(*                                                                         *)
(* The operator is a fold, that is, a function defined by recursion on     *)
(* subsets, one element chosen at a time.  SubsetInduction is induction    *)
(* over such subsets with the property given as a set, which a prover can  *)
(* instantiate; from it follow that the function exists, that the choice   *)
(* of the elements does not matter, and the laws.                          *)
(***************************************************************************)
EXTENDS Functions, FiniteSetTheorems, TLAPS

\* What passes from the proper subsets of each subset to that subset, holds of S.
LEMMA SubsetInduction ==
  ASSUME NEW S, IsFiniteSet(S), NEW G,
         \A T \in SUBSET S : (\A U \in SUBSET T : U # T => U \in G) => T \in G
  PROVE  S \in G
<1> DEFINE Bad == (SUBSET S) \ G
<1>1. SUFFICES ASSUME S \notin G PROVE FALSE
  OBVIOUS
<1>2. IsWellFoundedOn(StrictSubsetOrdering(S), SUBSET S)
  BY FS_StrictSubsetOrderingWellFounded, FS_FiniteSubsetsOfFinite
<1>3. Bad \subseteq SUBSET S /\ Bad # {}
  BY <1>1
<1>4. PICK T \in Bad : \A U \in Bad : ~ (<<U, T>> \in StrictSubsetOrdering(S))
  <2> HIDE DEF Bad
  <2> QED BY <1>2, <1>3, WFMin
<1>5. \A U \in SUBSET T : U # T => <<U, T>> \in StrictSubsetOrdering(S)
  BY DEF StrictSubsetOrdering
<1>6. \A U \in SUBSET T : U # T => U \in G
  <2> TAKE U \in SUBSET T
  <2> HAVE U # T
  <2>1. U \notin Bad
    BY <1>4, <1>5
  <2> QED BY <2>1, <1>4
<1> QED BY <1>6, <1>4

-----------------------------------------------------------------------------
\* The element the fold takes next.
Chosen(s) == CHOOSE x \in s : TRUE

\* f sums fun over every subset of S.
SumsUp(f, fun, S) ==
  f = [s \in SUBSET S |-> IF s = {} THEN 0 ELSE fun[Chosen(s)] + f[s \ {Chosen(s)}]]

\* A set that is not empty has the element chosen from it.
LEMMA ChosenIsIn == ASSUME NEW s, s # {} PROVE Chosen(s) \in s
BY DEF Chosen

\* The definitions of the community modules, put together.
LEMMA SumUnfolds ==
  ASSUME NEW fun, NEW S
  PROVE  SumFunctionOnSet(fun, S) = (CHOOSE f : SumsUp(f, fun, S))[S]
BY DEF SumFunctionOnSet, FoldFunctionOnSet, MapThenFoldSet, SumsUp, Chosen

\* Whatever set it is defined over, the recursion comes to the same sum of U.
LEMMA SumsUpAgree ==
  ASSUME NEW fun, NEW T, NEW U, U \subseteq T, IsFiniteSet(U),
         NEW f, SumsUp(f, fun, T), NEW g, SumsUp(g, fun, U)
  PROVE  f[U] = g[U]
<1> DEFINE G == {s \in SUBSET U : f[s] = g[s]}
<1>1. ASSUME NEW s \in SUBSET U, \A r \in SUBSET s : r # s => r \in G
      PROVE  s \in G
  <2>1. CASE s = {}
    BY <2>1 DEF SumsUp
  <2>2. CASE s # {}
    <3>1. s \ {Chosen(s)} \in G
      BY <1>1, <2>2, ChosenIsIn
    <3>2. f[s] = fun[Chosen(s)] + f[s \ {Chosen(s)}] /\ g[s] = fun[Chosen(s)] + g[s \ {Chosen(s)}]
      BY <2>2 DEF SumsUp
    <3> QED BY <3>1, <3>2
  <2> QED BY <2>1, <2>2
<1>2. U \in G
  <2> HIDE DEF G
  <2> QED BY <1>1, SubsetInduction
<1> QED BY <1>2

\* The recursion defines a function: each proper part of S has its sum, and those
\* are the values of the function on S.
LEMMA SumExists ==
  ASSUME NEW fun, NEW S, IsFiniteSet(S)
  PROVE  \E f : SumsUp(f, fun, S)
<1> DEFINE G == {T \in SUBSET S : \E f : SumsUp(f, fun, T)}
           Sum(T) == SumFunctionOnSet(fun, T)
<1>1. ASSUME NEW T \in SUBSET S, \A U \in SUBSET T : U # T => U \in G
      PROVE  T \in G
  <2> DEFINE f == [s \in SUBSET T |-> IF s = {} THEN 0 ELSE fun[Chosen(s)] + Sum(s \ {Chosen(s)})]
  <2>1. ASSUME NEW s \in SUBSET T, s # T
        PROVE  \E g : SumsUp(g, fun, s) /\ Sum(s) = g[s]
    <3>1. \E g : SumsUp(g, fun, s)
      BY <1>1, <2>1
    <3> QED BY <3>1, SumUnfolds
  <2>2. ASSUME NEW s \in SUBSET T, s # T
        PROVE  f[s] = Sum(s)
    <3>1. PICK g : SumsUp(g, fun, s) /\ Sum(s) = g[s]
      BY <2>2, <2>1
    <3>2. CASE s = {}
      BY <3>1, <3>2 DEF SumsUp
    <3>3. CASE s # {}
      <4> DEFINE r == s \ {Chosen(s)}
      <4>1. r \in SUBSET s /\ r # s /\ r # T /\ IsFiniteSet(r)
        BY <3>3, ChosenIsIn, FS_Subset
      <4>2. PICK h : SumsUp(h, fun, r) /\ Sum(r) = h[r]
        BY <4>1, <2>1
      <4>3. g[r] = h[r]
        BY <4>1, <4>2, <3>1, SumsUpAgree
      <4>4. g[s] = fun[Chosen(s)] + g[r]
        BY <3>1, <3>3 DEF SumsUp
      <4> QED BY <4>2, <4>3, <4>4, <3>1, <3>3
    <3> QED BY <3>2, <3>3
  <2>3. \A s \in SUBSET T : s # {} => f[s \ {Chosen(s)}] = Sum(s \ {Chosen(s)})
    <3> TAKE s \in SUBSET T
    <3> HAVE s # {}
    <3>1. s \ {Chosen(s)} \in SUBSET T /\ s \ {Chosen(s)} # T
      BY ChosenIsIn
    <3> HIDE DEF f
    <3> QED BY <3>1, <2>2
  <2>4. f = [s \in SUBSET T |-> IF s = {} THEN 0 ELSE fun[Chosen(s)] + f[s \ {Chosen(s)}]]
    BY <2>3
  <2> QED BY <2>4 DEF SumsUp
<1>2. S \in G
  <2> HIDE DEF G
  <2> QED BY <1>1, SubsetInduction
<1> QED BY <1>2

-----------------------------------------------------------------------------
\* The empty sum.
LEMMA SumOfNothing ==
  ASSUME NEW fun
  PROVE  SumFunctionOnSet(fun, {}) = 0
<1>1. PICK f : SumsUp(f, fun, {})
  BY SumExists, FS_EmptySet
<1>2. \A g : SumsUp(g, fun, {}) => g[{}] = 0
  BY DEF SumsUp
<1> QED BY <1>1, <1>2, SumUnfolds

\* One step of the recursion.
LEMMA SumOfChosen ==
  ASSUME NEW fun, NEW S, IsFiniteSet(S), S # {}
  PROVE  SumFunctionOnSet(fun, S) = fun[Chosen(S)] + SumFunctionOnSet(fun, S \ {Chosen(S)})
<1> DEFINE r == S \ {Chosen(S)}
<1>1. IsFiniteSet(r) /\ r \subseteq S
  BY FS_Subset
<1>2. PICK f : SumsUp(f, fun, S) /\ SumFunctionOnSet(fun, S) = f[S]
  BY SumExists, SumUnfolds
<1>3. PICK g : SumsUp(g, fun, r) /\ SumFunctionOnSet(fun, r) = g[r]
  BY <1>1, SumExists, SumUnfolds
<1>4. f[S] = fun[Chosen(S)] + f[r]
  BY <1>2 DEF SumsUp
<1>5. f[r] = g[r]
  BY <1>1, <1>2, <1>3, SumsUpAgree
<1> QED BY <1>2, <1>3, <1>4, <1>5

\* A sum of integers is one.
LEMMA SumIsInt ==
  ASSUME NEW fun, NEW S, IsFiniteSet(S), \A x \in S : fun[x] \in Int
  PROVE  SumFunctionOnSet(fun, S) \in Int
<1> DEFINE Sum(T) == SumFunctionOnSet(fun, T)
           G == {T \in SUBSET S : Sum(T) \in Int}
<1>1. ASSUME NEW T \in SUBSET S, \A U \in SUBSET T : U # T => U \in G
      PROVE  T \in G
  <2>1. CASE T = {}
    BY <2>1, SumOfNothing
  <2>2. CASE T # {}
    <3>1. T \ {Chosen(T)} \in G /\ Chosen(T) \in T
      BY <1>1, <2>2, ChosenIsIn
    <3>2. Sum(T) = fun[Chosen(T)] + Sum(T \ {Chosen(T)})
      BY <2>2, SumOfChosen, FS_Subset
    <3> QED BY <3>1, <3>2
  <2> QED BY <2>1, <2>2
<1>2. S \in G
  <2> HIDE DEF G
  <2> QED BY <1>1, SubsetInduction
<1> QED BY <1>2

\* The order does not matter: any element may be taken out first.
LEMMA SumTakesOut ==
  ASSUME NEW fun, NEW S, IsFiniteSet(S), \A x \in S : fun[x] \in Int, NEW y \in S
  PROVE  SumFunctionOnSet(fun, S) = fun[y] + SumFunctionOnSet(fun, S \ {y})
<1> DEFINE Sum(T) == SumFunctionOnSet(fun, T)
           G == {T \in SUBSET S : \A x \in T : Sum(T) = fun[x] + Sum(T \ {x})}
<1>0. \A T \in SUBSET S : IsFiniteSet(T) /\ Sum(T) \in Int
  BY SumIsInt, FS_Subset
<1>1. ASSUME NEW T \in SUBSET S, \A U \in SUBSET T : U # T => U \in G
      PROVE  T \in G
  <2> SUFFICES ASSUME NEW x \in T PROVE Sum(T) = fun[x] + Sum(T \ {x})
    OBVIOUS
  <2> DEFINE c == Chosen(T)
  <2>1. c \in T /\ Sum(T) = fun[c] + Sum(T \ {c})
    BY <1>0, ChosenIsIn, SumOfChosen
  <2>2. CASE c = x
    BY <2>1, <2>2
  <2>3. CASE c # x
    <3> HIDE DEF c
    <3> DEFINE R == T \ {c, x}
    <3>1. Sum(T \ {c}) = fun[x] + Sum(R)
      <4>1. (T \ {c}) \ {x} = R
        OBVIOUS
      <4> QED BY <4>1, <2>3, <2>1, <1>1
    <3>2. Sum(T \ {x}) = fun[c] + Sum(R)
      <4>1. (T \ {x}) \ {c} = R
        OBVIOUS
      <4> QED BY <4>1, <2>3, <2>1, <1>1
    <3>3. fun[c] \in Int /\ fun[x] \in Int /\ Sum(R) \in Int
      BY <2>1, <1>0
    <3> HIDE DEF Sum, R
    <3>4. fun[c] + (fun[x] + Sum(R)) = fun[x] + (fun[c] + Sum(R))
      BY <3>3
    <3> QED BY <3>1, <3>2, <3>4, <2>1
  <2> QED BY <2>2, <2>3
<1>2. S \in G
  <2> HIDE DEF G
  <2> QED BY <1>1, SubsetInduction
<1> QED BY <1>2

\* A new element adds its value.
LEMMA SumAdds ==
  ASSUME NEW fun, NEW S, IsFiniteSet(S), NEW y, y \notin S,
         \A x \in S \union {y} : fun[x] \in Int
  PROVE  SumFunctionOnSet(fun, S \union {y}) = SumFunctionOnSet(fun, S) + fun[y]
<1>1. IsFiniteSet(S \union {y}) /\ (S \union {y}) \ {y} = S
  BY FS_AddElement
<1>2. SumFunctionOnSet(fun, S \union {y}) = fun[y] + SumFunctionOnSet(fun, S)
  BY <1>1, SumTakesOut
<1> QED BY <1>2, SumIsInt

\* Only the values on S matter.
LEMMA SumAgrees ==
  ASSUME NEW fun, NEW gun, NEW S, IsFiniteSet(S), \A x \in S : fun[x] = gun[x]
  PROVE  SumFunctionOnSet(fun, S) = SumFunctionOnSet(gun, S)
<1> DEFINE G == {T \in SUBSET S : SumFunctionOnSet(fun, T) = SumFunctionOnSet(gun, T)}
<1>1. ASSUME NEW T \in SUBSET S, \A U \in SUBSET T : U # T => U \in G
      PROVE  T \in G
  <2>1. CASE T = {}
    BY <2>1, SumOfNothing
  <2>2. CASE T # {}
    <3>1. T \ {Chosen(T)} \in G /\ Chosen(T) \in T
      BY <1>1, <2>2, ChosenIsIn
    <3> QED BY <3>1, <2>2, SumOfChosen, FS_Subset
  <2> QED BY <2>1, <2>2
<1>2. S \in G
  <2> HIDE DEF G
  <2> QED BY <1>1, SubsetInduction
<1> QED BY <1>2

\* The sum over two disjoint sets.
LEMMA SumOfUnion ==
  ASSUME NEW fun, NEW S, IsFiniteSet(S), NEW T, IsFiniteSet(T), S \intersect T = {},
         \A x \in S \union T : fun[x] \in Int
  PROVE  SumFunctionOnSet(fun, S \union T) = SumFunctionOnSet(fun, S) + SumFunctionOnSet(fun, T)
<1> DEFINE Sum(U) == SumFunctionOnSet(fun, U)
           G == {U \in SUBSET T : Sum(S \union U) = Sum(S) + Sum(U)}
<1>0. \A U \in SUBSET T : IsFiniteSet(U) /\ IsFiniteSet(S \union U) /\ Sum(U) \in Int
  BY FS_Subset, FS_Union, SumIsInt
<1>1. ASSUME NEW U \in SUBSET T, \A V \in SUBSET U : V # U => V \in G
      PROVE  U \in G
  <2>1. CASE U = {}
    <3>1. S \union U = S /\ Sum(S) \in Int
      BY <2>1, SumIsInt
    <3> QED BY <3>1, <2>1, SumOfNothing
  <2>2. CASE U # {}
    <3> PICK y \in U : TRUE
      BY <2>2
    <3> DEFINE V == U \ {y}
    <3>0. (\A x \in U : fun[x] \in Int) /\ (\A x \in S \union U : fun[x] \in Int)
      OBVIOUS
    <3>1. Sum(S \union V) = Sum(S) + Sum(V)
      BY <1>1
    <3>2. Sum(U) = fun[y] + Sum(V)
      <4>1. IsFiniteSet(U)
        BY <1>0
      <4> QED BY <4>1, <3>0, SumTakesOut
    <3>3. Sum(S \union U) = fun[y] + Sum(S \union V)
      <4>1. IsFiniteSet(S \union U) /\ y \in S \union U /\ (S \union U) \ {y} = S \union V
        BY <1>0
      <4>2. SumFunctionOnSet(fun, S \union U) = fun[y] + SumFunctionOnSet(fun, (S \union U) \ {y})
        BY <4>1, <3>0, SumTakesOut
      <4> QED BY <4>1, <4>2
    <3>4. Sum(S) \in Int /\ Sum(V) \in Int /\ fun[y] \in Int
      BY <1>0, SumIsInt
    <3> HIDE DEF Sum, V
    <3>5. Sum(S \union U) = Sum(S) + Sum(U)
      BY <3>1, <3>2, <3>3, <3>4
    <3> QED BY <3>5
  <2> QED BY <2>1, <2>2
<1>2. T \in G
  <2> HIDE DEF G
  <2> QED BY <1>1, SubsetInduction
<1> QED BY <1>2

\* Adding up two functions at once.
LEMMA SumOfSums ==
  ASSUME NEW fun, NEW gun, NEW sum, NEW S, IsFiniteSet(S),
         \A x \in S : fun[x] \in Int /\ gun[x] \in Int /\ sum[x] = fun[x] + gun[x]
  PROVE  SumFunctionOnSet(sum, S) = SumFunctionOnSet(fun, S) + SumFunctionOnSet(gun, S)
<1> DEFINE F(T) == SumFunctionOnSet(fun, T)
           H(T) == SumFunctionOnSet(gun, T)
           B(T) == SumFunctionOnSet(sum, T)
           G == {T \in SUBSET S : B(T) = F(T) + H(T)}
<1>0. \A T \in SUBSET S : IsFiniteSet(T) /\ F(T) \in Int /\ H(T) \in Int
  BY FS_Subset, SumIsInt
<1>1. ASSUME NEW T \in SUBSET S, \A U \in SUBSET T : U # T => U \in G
      PROVE  T \in G
  <2>1. CASE T = {}
    BY <2>1, SumOfNothing
  <2>2. CASE T # {}
    <3> DEFINE y == Chosen(T)
    <3>1. y \in T /\ B(T \ {y}) = F(T \ {y}) + H(T \ {y})
      BY <2>2, <1>1, ChosenIsIn
    <3>2. F(T) = fun[y] + F(T \ {y}) /\ H(T) = gun[y] + H(T \ {y}) /\ B(T) = sum[y] + B(T \ {y})
      BY <2>2, <1>0, SumOfChosen
    <3>3. F(T \ {y}) \in Int /\ H(T \ {y}) \in Int
      BY <1>0
    <3> HIDE DEF F, H, B, y
    <3>4. B(T) = F(T) + H(T)
      BY <3>1, <3>2, <3>3
    <3> QED BY <3>4
  <2> QED BY <2>1, <2>2
<1>2. S \in G
  <2> HIDE DEF G
  <2> QED BY <1>1, SubsetInduction
<1> QED BY <1>2

\* Nothing comes of nothing.
LEMMA SumOfZeros ==
  ASSUME NEW fun, NEW S, IsFiniteSet(S), \A x \in S : fun[x] = 0
  PROVE  SumFunctionOnSet(fun, S) = 0
<1> DEFINE G == {T \in SUBSET S : SumFunctionOnSet(fun, T) = 0}
<1>1. ASSUME NEW T \in SUBSET S, \A U \in SUBSET T : U # T => U \in G
      PROVE  T \in G
  <2>1. CASE T = {}
    BY <2>1, SumOfNothing
  <2>2. CASE T # {}
    <3>1. T \ {Chosen(T)} \in G /\ Chosen(T) \in T
      BY <1>1, <2>2, ChosenIsIn
    <3>2. IsFiniteSet(T)
      BY FS_Subset
    <3> QED BY <3>1, <3>2, <2>2, SumOfChosen
  <2> QED BY <2>1, <2>2
<1>2. S \in G
  <2> HIDE DEF G
  <2> QED BY <1>1, SubsetInduction
<1> QED BY <1>2

\* What is zero outside of T need only be summed over T.
LEMMA SumOfPart ==
  ASSUME NEW fun, NEW S, IsFiniteSet(S), NEW T \in SUBSET S,
         \A x \in S : fun[x] \in Int, \A x \in S \ T : fun[x] = 0
  PROVE  SumFunctionOnSet(fun, S) = SumFunctionOnSet(fun, T)
<1>1. IsFiniteSet(T) /\ IsFiniteSet(S \ T) /\ S = T \union (S \ T)
  BY FS_Subset
<1>2. SumFunctionOnSet(fun, S) = SumFunctionOnSet(fun, T) + SumFunctionOnSet(fun, S \ T)
  BY <1>1, SumOfUnion
<1> QED BY <1>1, <1>2, SumOfZeros, SumIsInt

\* Sums are monotone in what is summed,
LEMMA SumIsBounded ==
  ASSUME NEW fun, NEW gun, NEW S, IsFiniteSet(S),
         \A x \in S : fun[x] \in Int /\ gun[x] \in Int /\ fun[x] <= gun[x]
  PROVE  SumFunctionOnSet(fun, S) <= SumFunctionOnSet(gun, S)
<1> DEFINE F(T) == SumFunctionOnSet(fun, T)
           H(T) == SumFunctionOnSet(gun, T)
           G == {T \in SUBSET S : F(T) <= H(T)}
<1>0. \A T \in SUBSET S : IsFiniteSet(T) /\ F(T) \in Int /\ H(T) \in Int
  BY FS_Subset, SumIsInt
<1>1. ASSUME NEW T \in SUBSET S, \A U \in SUBSET T : U # T => U \in G
      PROVE  T \in G
  <2>1. CASE T = {}
    BY <2>1, SumOfNothing
  <2>2. CASE T # {}
    <3> DEFINE y == Chosen(T)
    <3>1. y \in T /\ F(T \ {y}) <= H(T \ {y})
      BY <2>2, <1>1, ChosenIsIn
    <3>2. F(T) = fun[y] + F(T \ {y}) /\ H(T) = gun[y] + H(T \ {y})
      BY <2>2, <1>0, SumOfChosen
    <3>3. F(T \ {y}) \in Int /\ H(T \ {y}) \in Int
      BY <1>0
    <3> HIDE DEF F, H, y
    <3>4. F(T) <= H(T)
      BY <3>1, <3>2, <3>3
    <3> QED BY <3>4
  <2> QED BY <2>1, <2>2
<1>2. S \in G
  <2> HIDE DEF G
  <2> QED BY <1>1, SubsetInduction
<1> QED BY <1>2

\* those of natural numbers are natural,
LEMMA SumIsNat ==
  ASSUME NEW fun, NEW S, IsFiniteSet(S), \A x \in S : fun[x] \in Nat
  PROVE  SumFunctionOnSet(fun, S) \in Nat
<1> DEFINE zero == [x \in S |-> 0]
<1>1. SumFunctionOnSet(zero, S) = 0
  BY SumOfZeros
<1>2. SumFunctionOnSet(zero, S) <= SumFunctionOnSet(fun, S)
  BY SumIsBounded
<1> QED BY <1>1, <1>2, SumIsInt

\* and then monotone in the set.
LEMMA SumOfSubset ==
  ASSUME NEW fun, NEW S, IsFiniteSet(S), NEW T \in SUBSET S, \A x \in S : fun[x] \in Nat
  PROVE  SumFunctionOnSet(fun, T) <= SumFunctionOnSet(fun, S)
<1>1. IsFiniteSet(T) /\ IsFiniteSet(S \ T) /\ S = T \union (S \ T)
  BY FS_Subset
<1>2. SumFunctionOnSet(fun, S) = SumFunctionOnSet(fun, T) + SumFunctionOnSet(fun, S \ T)
  BY <1>1, SumOfUnion
<1> QED BY <1>1, <1>2, SumIsNat

\* Equal summands come to a multiple of their number.
LEMMA SumOfEqual ==
  ASSUME NEW fun, NEW S, IsFiniteSet(S), NEW n \in Int, \A x \in S : fun[x] = n
  PROVE  SumFunctionOnSet(fun, S) = n * Cardinality(S)
<1> DEFINE Sum(T) == SumFunctionOnSet(fun, T)
           G == {T \in SUBSET S : Sum(T) = n * Cardinality(T)}
<1>1. ASSUME NEW T \in SUBSET S, \A U \in SUBSET T : U # T => U \in G
      PROVE  T \in G
  <2>1. CASE T = {}
    BY <2>1, SumOfNothing, FS_EmptySet
  <2>2. CASE T # {}
    <3>1. PICK c \in T : TRUE
      BY <2>2
    <3>2. T \ {c} \in G /\ IsFiniteSet(T)
      BY <1>1, <3>1, FS_Subset
    <3>3. Cardinality(T) = Cardinality(T \ {c}) + 1 /\ Cardinality(T \ {c}) \in Nat
      <4>1. Cardinality(T \ {c}) = Cardinality(T) - 1 /\ Cardinality(T) \in Nat
        BY <3>1, <3>2, FS_RemoveElement, FS_CardinalityType
      <4>2. IsFiniteSet(T \ {c})
        BY <3>2, FS_Subset
      <4>3. Cardinality(T \ {c}) \in Nat
        BY <4>2, FS_CardinalityType
      <4> QED BY <4>1, <4>3
    <3>4. Sum(T) = n + n * Cardinality(T \ {c})
      <4>1. Sum(T) = fun[c] + Sum(T \ {c})
        BY <3>1, <3>2, SumTakesOut
      <4> QED BY <4>1, <3>1, <3>2
    <3>5. \A k \in Nat : n * (k + 1) = n + n * k
      OBVIOUS
    <3>6. n * Cardinality(T) = n + n * Cardinality(T \ {c})
      BY <3>3, <3>5
    <3> QED BY <3>4, <3>6
  <2> QED BY <2>1, <2>2
<1>2. S \in G
  <2> HIDE DEF G
  <2> QED BY <1>1, SubsetInduction
<1> QED BY <1>2

\* A function that changes at one place changes the sum by as much.
LEMMA SumChanges ==
  ASSUME NEW fun, NEW gun, NEW S, IsFiniteSet(S), NEW y \in S,
         \A x \in S : fun[x] \in Int /\ gun[x] \in Int,
         \A x \in S \ {y} : gun[x] = fun[x]
  PROVE  SumFunctionOnSet(gun, S) = SumFunctionOnSet(fun, S) + (gun[y] - fun[y])
<1>1. SumFunctionOnSet(fun, S) = fun[y] + SumFunctionOnSet(fun, S \ {y})
  BY SumTakesOut
<1>2. SumFunctionOnSet(gun, S) = gun[y] + SumFunctionOnSet(gun, S \ {y})
  BY SumTakesOut
<1>3. SumFunctionOnSet(gun, S \ {y}) = SumFunctionOnSet(fun, S \ {y})
  BY SumAgrees, FS_Subset
<1>4. SumFunctionOnSet(fun, S \ {y}) \in Int
  BY SumIsInt, FS_Subset
<1> QED BY <1>1, <1>2, <1>3, <1>4

\* Summed part by part, or at once.
LEMMA SumOfFibres ==
  ASSUME NEW fun, NEW S, IsFiniteSet(S), \A x \in S : fun[x] \in Int, NEW of, NEW W, IsFiniteSet(W)
  PROVE  SumFunctionOnSet([w \in W |-> SumFunctionOnSet(fun, {x \in S : of[x] = w})], W)
           = SumFunctionOnSet(fun, {x \in S : of[x] \in W})
<1> DEFINE Fibre(w) == {x \in S : of[x] = w}
           Over(V) == {x \in S : of[x] \in V}
           part == [w \in W |-> SumFunctionOnSet(fun, Fibre(w))]
           G == {V \in SUBSET W : SumFunctionOnSet(part, V) = SumFunctionOnSet(fun, Over(V))}
<1>0. /\ \A V : Over(V) \subseteq S /\ IsFiniteSet(Over(V)) /\ SumFunctionOnSet(fun, Over(V)) \in Int
      /\ \A w : Fibre(w) \subseteq S /\ IsFiniteSet(Fibre(w)) /\ SumFunctionOnSet(fun, Fibre(w)) \in Int
  BY SumIsInt, FS_Subset
<1>1. ASSUME NEW V \in SUBSET W, \A U \in SUBSET V : U # V => U \in G
      PROVE  V \in G
  <2>1. CASE V = {}
    <3>1. Over(V) = {}
      BY <2>1
    <3> HIDE DEF Over
    <3> QED BY <2>1, <3>1, SumOfNothing
  <2>2. CASE V # {}
    <3> PICK w \in V : TRUE
      BY <2>2
    <3>1. SumFunctionOnSet(part, V \ {w}) = SumFunctionOnSet(fun, Over(V \ {w}))
      BY <1>1
    <3>2. IsFiniteSet(V) /\ \A v \in V : part[v] \in Int
      BY <1>0, FS_Subset
    <3>3. SumFunctionOnSet(part, V) = part[w] + SumFunctionOnSet(part, V \ {w})
      <4> HIDE DEF part
      <4> QED BY <3>2, SumTakesOut
    <3>4. Over(V) = Over(V \ {w}) \union Fibre(w) /\ Over(V \ {w}) \intersect Fibre(w) = {}
      OBVIOUS
    <3>5. SumFunctionOnSet(fun, Over(V)) = SumFunctionOnSet(fun, Over(V \ {w})) + SumFunctionOnSet(fun, Fibre(w))
      <4>1. \A x \in Over(V \ {w}) \union Fibre(w) : fun[x] \in Int
        OBVIOUS
      <4> HIDE DEF Over, Fibre
      <4> QED BY <1>0, <3>4, <4>1, SumOfUnion
    <3>6. part[w] = SumFunctionOnSet(fun, Fibre(w))
      OBVIOUS
    <3> HIDE DEF part, Over, Fibre
    <3> QED BY <1>0, <3>1, <3>3, <3>5, <3>6
  <2> QED BY <2>1, <2>2
<1> HIDE DEF G
<1>2. W \in G
  BY <1>1, SubsetInduction
<1> QED BY <1>2 DEF G

\* Of finitely many, one has the greatest value.
LEMMA HasGreatest ==
  ASSUME NEW S, IsFiniteSet(S), S # {}, NEW fun, \A x \in S : fun[x] \in Int
  PROVE  \E x \in S : \A y \in S : fun[y] <= fun[x]
<1> DEFINE G == {T \in SUBSET S : T # {} => \E x \in T : \A y \in T : fun[y] <= fun[x]}
<1>1. ASSUME NEW T \in SUBSET S, \A U \in SUBSET T : U # T => U \in G
      PROVE  T \in G
  <2> SUFFICES ASSUME T # {} PROVE \E x \in T : \A y \in T : fun[y] <= fun[x]
    OBVIOUS
  <2> PICK c \in T : TRUE
    OBVIOUS
  <2>1. CASE T \ {c} = {}
    <3>1. \A y \in T : y = c
      BY <2>1
    <3> QED BY <3>1
  <2>2. CASE T \ {c} # {}
    <3>0. T \ {c} \in G
      BY <1>1
    <3> PICK x \in T \ {c} : \A y \in T \ {c} : fun[y] <= fun[x]
      BY <3>0, <2>2
    <3>1. CASE fun[c] <= fun[x]
      BY <3>1
    <3>2. CASE ~(fun[c] <= fun[x])
      <4>1. \A y \in T : fun[y] <= fun[c]
        BY <3>2
      <4> QED BY <4>1
    <3> QED BY <3>1, <3>2
  <2> QED BY <2>1, <2>2
<1>2. S \in G
  <2> HIDE DEF G
  <2> QED BY <1>1, SubsetInduction
<1> QED BY <1>2
=============================================================================
