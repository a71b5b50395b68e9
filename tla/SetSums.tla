-------------------------------- MODULE SetSums --------------------------------
(***************************************************************************)
(* What MapThenSumSet and Max compute, for every finite set.  The library's*)
(* induction theorems take an operator; here the induction is on a smallest*)
(* counterexample, which is a set: of the subsets of a finite set, any     *)
(* non-empty collection has one that contains no other.                    *)
(***************************************************************************)
EXTENDS Integers, FiniteSetsExt, FiniteSetTheorems, TLAPS

(* The element that a sum takes first of a set. *)
Least(S) == CHOOSE x \in S : TRUE

(* f sums g over each subset of S: what MapThenFoldSet iterates.           *)
IsSum(f, g, S) ==
    f = [T \in SUBSET S |-> IF T = {} THEN 0 ELSE g[Least(T)] + f[T \ {Least(T)}]]

LEMMA LeastIn == ASSUME NEW S, S # {} PROVE Least(S) \in S
BY DEF Least

(* The induction: among subsets of a finite set there is a smallest one.   *)
LEMMA SmallestSubset ==
    ASSUME NEW S, IsFiniteSet(S), NEW F \in SUBSET SUBSET S, F # {}
    PROVE  \E T \in F : \A U \in F : U \subseteq T => U = T
<1>1. IsWellFoundedOn(StrictSubsetOrdering(S), SUBSET S)
  BY FS_FiniteSubsetsOfFinite, FS_StrictSubsetOrderingWellFounded
<1>2. PICK T \in F : \A U \in F : <<U, T>> \notin StrictSubsetOrdering(S)
  BY <1>1, WFMin
<1> QED BY <1>2 DEF StrictSubsetOrdering

-----------------------------------------------------------------------------
(* A finite set has a member that a strict order puts below no other.      *)
LEMMA TopExists ==
    ASSUME NEW S, IsFiniteSet(S), S # {}, NEW R,
           \A x, y, z \in S : <<x, y>> \in R /\ <<y, z>> \in R => <<x, z>> \in R,
           \A x \in S : <<x, x>> \notin R
    PROVE  \E x \in S : \A y \in S : <<x, y>> \notin R
<1> DEFINE Above(x) == {y \in S : <<x, y>> \in R}
           Aboves == {Above(x) : x \in S}
<1>1. PICK T \in Aboves : \A U \in Aboves : U \subseteq T => U = T
  <2>1. PICK x \in S : TRUE
    OBVIOUS
  <2>2. Above(x) \in Aboves
    OBVIOUS
  <2>3. \A y \in S : Above(y) \in SUBSET S
    OBVIOUS
  <2> HIDE DEF Above
  <2>4. Aboves \in SUBSET SUBSET S /\ Aboves # {}
    BY <2>2, <2>3
  <2> HIDE DEF Aboves
  <2> QED BY <2>4, SmallestSubset
<1>2. PICK x \in S : T = Above(x)
  OBVIOUS
<1>3. ASSUME NEW y \in S, <<x, y>> \in R
      PROVE  FALSE
  <2>1. Above(y) \subseteq T /\ y \in T /\ y \notin Above(y) /\ Above(y) \in Aboves
    BY <1>2, <1>3
  <2> QED BY <1>1, <2>1
<1> QED BY <1>3

(* A finite set of numbers has a greatest member, which is its Max.        *)
LEMMA MaxIsMember ==
    ASSUME NEW S \in SUBSET Int, IsFiniteSet(S), S # {}
    PROVE  Max(S) \in S /\ \A y \in S : Max(S) >= y
<1> DEFINE R == {p \in S \X S : p[1] < p[2]}
<1>1. \A x, y \in S : <<x, y>> \in R <=> x < y
  OBVIOUS
<1> HIDE DEF R
<1>2. PICK x \in S : \A y \in S : <<x, y>> \notin R
  <2>1. /\ \A x, y, z \in S : <<x, y>> \in R /\ <<y, z>> \in R => <<x, z>> \in R
        /\ \A x \in S : <<x, x>> \notin R
    BY <1>1
  <2> QED BY <2>1, TopExists, Zenon
<1>3. ASSUME NEW y \in S
      PROVE  x >= y
  <2>1. ~(x < y)
    BY <1>1, <1>2
  <2> QED BY <2>1
<1> QED BY <1>3 DEF Max

-----------------------------------------------------------------------------
(* Sums: at most one function sums g over the subsets of S ...             *)
LEMMA SumUnique ==
    ASSUME NEW S, IsFiniteSet(S), NEW g, NEW f, NEW h, IsSum(f, g, S), IsSum(h, g, S)
    PROVE  f = h
<1> DEFINE Bad == {T \in SUBSET S : f[T] # h[T]}
<1>1. SUFFICES ASSUME Bad # {} PROVE FALSE
  BY DEF IsSum
<1>2. PICK T \in Bad : \A U \in Bad : U \subseteq T => U = T
  <2>1. Bad \in SUBSET SUBSET S
    OBVIOUS
  <2> HIDE DEF Bad
  <2> QED BY <1>1, <2>1, SmallestSubset
<1>3. T # {}
  BY DEF IsSum
<1>4. Least(T) \in T
  BY <1>3, LeastIn
<1>5. f[T \ {Least(T)}] = h[T \ {Least(T)}]
  BY <1>2, <1>4
<1> QED BY <1>3, <1>5 DEF IsSum

LEMMA SumRestricts ==
    ASSUME NEW S, IsFiniteSet(S), NEW g, NEW f, IsSum(f, g, S),
           NEW T \in SUBSET S, NEW h, IsSum(h, g, T)
    PROVE  h[T] = f[T]
<1> DEFINE r == [U \in SUBSET T |-> f[U]]
<1>1. IsSum(r, g, T)
  <2>1. \A U \in SUBSET T : U # {} => Least(U) \in U
    BY LeastIn
  <2> QED BY <2>1 DEF IsSum
<1>2. IsFiniteSet(T)
  BY FS_Subset
<1> HIDE DEF r
<1>3. r = h
  BY <1>1, <1>2, SumUnique
<1> QED BY <1>3 DEF r

(* ... and there is one: a smallest set without a sum would have one, made *)
(* of the sums of its subsets.                                             *)
LEMMA SumExists ==
    ASSUME NEW S, IsFiniteSet(S), NEW g
    PROVE  \E f : IsSum(f, g, S)
<1> DEFINE Bad == {T \in SUBSET S : ~ \E f : IsSum(f, g, T)}
<1>1. SUFFICES ASSUME Bad # {} PROVE FALSE
  OBVIOUS
<1>2. PICK T \in Bad : \A U \in Bad : U \subseteq T => U = T
  <2>1. Bad \in SUBSET SUBSET S
    OBVIOUS
  <2> HIDE DEF Bad
  <2> QED BY <1>1, <2>1, SmallestSubset
<1> DEFINE sum(U) == CHOOSE f : IsSum(f, g, U)
<1>3. \A U \in SUBSET T : U # T => IsSum(sum(U), g, U)
  BY <1>2
<1> HIDE DEF sum
<1> DEFINE f == [U \in SUBSET T |->
                    IF U = {} THEN 0 ELSE g[Least(U)] + sum(U \ {Least(U)})[U \ {Least(U)}]]
<1>4. ASSUME NEW U \in SUBSET T, U # T
      PROVE  f[U] = sum(U)[U]
  <2>1. IsSum(sum(U), g, U)
    BY <1>3, <1>4
  <2>2. CASE U = {}
    BY <2>1, <2>2 DEF IsSum
  <2>3. CASE U # {}
    <3> DEFINE V == U \ {Least(U)}
    <3>1. Least(U) \in U
      BY <2>3, LeastIn
    <3>2. sum(U)[U] = g[Least(U)] + sum(U)[V]
      BY <2>1, <2>3 DEF IsSum
    <3>3. V \in SUBSET T /\ V \in SUBSET U /\ V # T /\ IsFiniteSet(U)
      BY <3>1, FS_Subset
    <3>4. IsSum(sum(V), g, V)
      BY <1>3, <3>3
    <3> HIDE DEF V
    <3>5. sum(V)[V] = sum(U)[V]
      BY <2>1, <3>3, <3>4, SumRestricts
    <3> QED BY <2>3, <3>2, <3>5 DEF V
  <2> QED BY <2>2, <2>3
<1>5. IsSum(f, g, T)
  <2> SUFFICES ASSUME NEW U \in SUBSET T, U # {}
               PROVE  sum(U \ {Least(U)})[U \ {Least(U)}] = f[U \ {Least(U)}]
    BY DEF IsSum
  <2>1. Least(U) \in U
    BY LeastIn
  <2> HIDE DEF f
  <2> QED BY <1>4, <2>1
<1> QED BY <1>2, <1>5

(* A sum of naturals is a natural number.                                  *)
LEMMA SumOfNaturals ==
    ASSUME NEW S, IsFiniteSet(S), NEW g, \A x \in S : g[x] \in Nat, NEW f, IsSum(f, g, S)
    PROVE  \A T \in SUBSET S : f[T] \in Nat
<1> DEFINE Bad == {T \in SUBSET S : f[T] \notin Nat}
<1>1. SUFFICES ASSUME Bad # {} PROVE FALSE
  OBVIOUS
<1>2. PICK T \in Bad : \A U \in Bad : U \subseteq T => U = T
  <2>1. Bad \in SUBSET SUBSET S
    OBVIOUS
  <2> HIDE DEF Bad
  <2> QED BY <1>1, <2>1, SmallestSubset
<1>3. T # {}
  BY DEF IsSum
<1>4. Least(T) \in T
  BY <1>3, LeastIn
<1>5. f[T \ {Least(T)}] \in Nat
  BY <1>2, <1>4
<1>6. f[T] = g[Least(T)] + f[T \ {Least(T)}]
  BY <1>3 DEF IsSum
<1>7. g[Least(T)] \in Nat
  BY <1>4
<1> QED BY <1>5, <1>6, <1>7
=============================================================================
