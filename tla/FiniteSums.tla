----------------------------- MODULE FiniteSums -----------------------------
(***************************************************************************)
(* What the proofs need to know of sums over finite sets, and of the       *)
(* smallest and largest of finitely many numbers.                          *)
(***************************************************************************)
EXTENDS Naturals, FiniteSets, FiniteSetsExt, Functions, FiniteSetTheorems,
        WellFoundedInduction, TLAPS

(* Every non-empty set of numbers has a smallest element.                  *)
LEMMA HasSmallest ==
  ASSUME NEW S, S \subseteq Nat, S # {}
  PROVE  \E x \in S : \A y \in S : x <= y
<1> DEFINE R == {p \in Nat \X Nat : p[1] < p[2]}
<1>1. IsWellFoundedOn(R, Nat)
  BY NatLessThanWellFounded, Zenon DEF OpToRel
<1>2. PICK x \in S : \A y \in S : ~ (<<y, x>> \in R)
  BY <1>1, WFMin
<1>3. \A y \in S : x <= y
  <2> TAKE y \in S
  <2>1. x \in Nat /\ y \in Nat
    OBVIOUS
  <2>2. ~(y < x)
    BY <1>2, <2>1
  <2> QED
    BY <2>1, <2>2
<1> QED
  BY <1>3

(* The values of a function on a finite set are finitely many.             *)
LEMMA FiniteImage ==
  ASSUME NEW f, NEW S, IsFiniteSet(S)
  PROVE  IsFiniteSet({f[x] : x \in S})
<1> DEFINE T == {f[x] : x \in S}
           g == [x \in S |-> f[x]]
<1>1. g \in Surjection(S, T)
  BY DEF Surjection
<1> HIDE DEF g, T
<1>2. IsFiniteSet(T)
  BY <1>1, FS_Surjection
<1> QED
  BY <1>2 DEF T

(* A property of finite sets fails, if it fails, for a set of smallest     *)
(* size: Fails is the set of the subsets of S for which it does.           *)
LEMMA SmallestFailure ==
  ASSUME NEW S, IsFiniteSet(S), NEW Fails \in SUBSET (SUBSET S), Fails # {}
  PROVE  \E T \in SUBSET S : /\ IsFiniteSet(T) /\ T \in Fails
                            /\ \A U \in SUBSET T : U # T => U \notin Fails
<1> DEFINE Sizes == {Cardinality(T) : T \in Fails}
<1>1. \A T \in Fails : IsFiniteSet(T) /\ Cardinality(T) \in Nat
  BY FS_Subset, FS_CardinalityType
<1>2. Sizes \subseteq Nat /\ Sizes # {}
  BY <1>1
<1>3. PICK T \in Fails : \A U \in Fails : Cardinality(T) <= Cardinality(U)
  <2>1. PICK n \in Sizes : \A k \in Sizes : n <= k
    BY <1>2, HasSmallest
  <2> QED
    BY <2>1
<1>4. ASSUME NEW U \in SUBSET T, U # T
      PROVE  U \notin Fails
  <2>1. IsFiniteSet(U) /\ Cardinality(U) <= Cardinality(T) /\ Cardinality(U) # Cardinality(T)
    BY <1>1, <1>4, FS_Subset
  <2>2. Cardinality(T) \in Nat /\ Cardinality(U) \in Nat
    BY <1>1, <2>1, FS_CardinalityType
  <2>3. ~(Cardinality(T) <= Cardinality(U))
    BY <2>1, <2>2
  <2> QED
    BY <1>3, <2>3
<1> QED
  BY <1>1, <1>3, <1>4

LEMMA HasLargest ==
  ASSUME NEW S, S \subseteq Nat, IsFiniteSet(S), S # {}
  PROVE  \E x \in S : \A y \in S : y <= x
<1> DEFINE Fails == {T \in SUBSET S : T # {} /\ ~\E x \in T : \A y \in T : y <= x}
<1> SUFFICES ASSUME Fails # {}
             PROVE  FALSE
  OBVIOUS
<1>1. Fails \in SUBSET (SUBSET S)
  OBVIOUS
<1> HIDE DEF Fails
<1>2. PICK T \in SUBSET S : IsFiniteSet(T) /\ T \in Fails
                          /\ \A U \in SUBSET T : U # T => U \notin Fails
  BY <1>1, SmallestFailure, ZenonT(40)
<1>3. PICK x \in T : TRUE
  BY <1>2 DEF Fails
<1>4. PICK y \in T : ~(y <= x)
  BY <1>2 DEF Fails
<1>5. x \in Nat /\ y \in Nat /\ x < y
  BY <1>4
<1>6. T \ {x} \notin Fails /\ T \ {x} # {}
  BY <1>2, <1>3, <1>5
<1>7. PICK z \in T \ {x} : \A w \in T \ {x} : w <= z
  BY <1>6 DEF Fails
<1>8. z \in Nat /\ x <= z /\ z \in T
  <2>1. y \in T \ {x}
    BY <1>4, <1>5
  <2> QED
    BY <1>5, <1>7, <2>1
<1>9. \A w \in T : w <= z
  BY <1>7, <1>8
<1> QED
  BY <1>2, <1>8, <1>9 DEF Fails

---------------------------------------------------------------------------
(* SumFunctionOnSet folds over the set in the order of CHOOSE.  First, the *)
(* recursion is well defined; then, the order does not matter.             *)

Fold(f, S, iter) ==
  iter = [s \in SUBSET S |-> IF s = {} THEN 0
                             ELSE f[CHOOSE x \in s : TRUE] + iter[s \ {CHOOSE x \in s : TRUE}]]

LEMMA SumIsFold ==
  ASSUME NEW f, NEW S
  PROVE  SumFunctionOnSet(f, S) = (CHOOSE iter : Fold(f, S, iter))[S]
BY DEF SumFunctionOnSet, FoldFunctionOnSet, MapThenFoldSet, Fold

LEMMA FoldUnique ==
  ASSUME NEW f, NEW S, IsFiniteSet(S), NEW i, Fold(f, S, i), NEW j, Fold(f, S, j)
  PROVE  i = j
<1> DEFINE Fails == {s \in SUBSET S : i[s] # j[s]}
<1>1. ASSUME Fails # {}
      PROVE  FALSE
  <2>0. Fails \in SUBSET (SUBSET S)
    OBVIOUS
  <2> HIDE DEF Fails
  <2>1. PICK s \in SUBSET S : s \in Fails /\ \A u \in SUBSET s : u # s => u \notin Fails
    BY <1>1, <2>0, SmallestFailure
  <2>2. PICK x : x = CHOOSE y \in s : TRUE
    OBVIOUS
  <2>3. CASE s = {}
    BY <2>1, <2>3 DEF Fold, Fails
  <2>4. CASE s # {}
    <3>1. x \in s /\ s \ {x} \in SUBSET s /\ s \ {x} # s
      BY <2>2, <2>4
    <3>2. i[s] = f[x] + i[s \ {x}] /\ j[s] = f[x] + j[s \ {x}]
      BY <2>2, <2>4 DEF Fold
    <3>3. i[s \ {x}] = j[s \ {x}]
      BY <2>1, <3>1 DEF Fails
    <3> QED
      BY <2>1, <3>2, <3>3 DEF Fails
  <2> QED
    BY <2>3, <2>4
<1>2. i = [s \in SUBSET S |-> i[s]] /\ j = [s \in SUBSET S |-> j[s]]
  BY DEF Fold
<1> QED
  BY <1>1, <1>2

LEMMA FoldRestrict ==
  ASSUME NEW f, NEW S, NEW i, Fold(f, S, i), NEW U \in SUBSET S
  PROVE  Fold(f, U, [s \in SUBSET U |-> i[s]])
<1> DEFINE j == [s \in SUBSET U |-> i[s]]
<1>1. ASSUME NEW s \in SUBSET U
      PROVE  j[s] = IF s = {} THEN 0
                    ELSE f[CHOOSE x \in s : TRUE] + j[s \ {CHOOSE x \in s : TRUE}]
  <2>1. s \in SUBSET S /\ s \ {CHOOSE x \in s : TRUE} \in SUBSET U
    OBVIOUS
  <2> QED
    BY <2>1 DEF Fold
<1> QED
  BY <1>1 DEF Fold

LEMMA SumOfFold ==
  ASSUME NEW f, NEW S, IsFiniteSet(S), NEW i, Fold(f, S, i), NEW U \in SUBSET S
  PROVE  SumFunctionOnSet(f, U) = i[U]
<1> DEFINE j == [s \in SUBSET U |-> i[s]]
           k == CHOOSE iter : Fold(f, U, iter)
<1>1. Fold(f, U, j)
  BY FoldRestrict
<1>2. Fold(f, U, k)
  BY <1>1
<1>3. IsFiniteSet(U)
  BY FS_Subset
<1>4. k = j
  BY <1>1, <1>2, <1>3, FoldUnique
<1> QED
  BY <1>4, SumIsFold

LEMMA FoldExists ==
  ASSUME NEW f, NEW S, IsFiniteSet(S)
  PROVE  \E i : Fold(f, S, i)
<1> DEFINE Fails == {s \in SUBSET S : ~\E i : Fold(f, s, i)}
<1> SUFFICES ASSUME Fails # {}
             PROVE  FALSE
  OBVIOUS
<1>0. Fails \in SUBSET (SUBSET S)
  OBVIOUS
<1> HIDE DEF Fails
<1>1. PICK T \in SUBSET S : IsFiniteSet(T) /\ T \in Fails
                          /\ \A U \in SUBSET T : U # T => U \notin Fails
  BY <1>0, SmallestFailure
<1> DEFINE Rest(s) == s \ {CHOOSE x \in s : TRUE}
           i == [s \in SUBSET T |-> IF s = {} THEN 0
                   ELSE f[CHOOSE x \in s : TRUE] + SumFunctionOnSet(f, Rest(s))]
<1>2. ASSUME NEW u \in SUBSET T, u # T
      PROVE  SumFunctionOnSet(f, u) = i[u]
  <2>1. PICK j : Fold(f, u, j)
    BY <1>1, <1>2 DEF Fails
  <2>2. IsFiniteSet(u)
    BY <1>1, FS_Subset
  <2>3. SumFunctionOnSet(f, u) = j[u] /\ SumFunctionOnSet(f, Rest(u)) = j[Rest(u)]
    BY <2>1, <2>2, SumOfFold
  <2>4. j[u] = IF u = {} THEN 0 ELSE f[CHOOSE x \in u : TRUE] + j[Rest(u)]
    BY <2>1 DEF Fold
  <2> QED
    BY <2>3, <2>4
<1>3. ASSUME NEW s \in SUBSET T, s # {}
      PROVE  SumFunctionOnSet(f, Rest(s)) = i[Rest(s)]
  <2>1. Rest(s) \in SUBSET T /\ Rest(s) # T
    BY <1>3
  <2> QED
    BY <1>2, <2>1
<1>4. Fold(f, T, i)
  <2>1. PICK k : k = i
    OBVIOUS
  <2>2. ASSUME NEW s \in SUBSET T
        PROVE  k[s] = IF s = {} THEN 0 ELSE f[CHOOSE x \in s : TRUE] + k[Rest(s)]
    <3>1. k[s] = IF s = {} THEN 0
                 ELSE f[CHOOSE x \in s : TRUE] + SumFunctionOnSet(f, Rest(s))
      BY <2>1
    <3>2. s # {} => SumFunctionOnSet(f, Rest(s)) = k[Rest(s)]
      BY <1>3, <2>1
    <3> QED
      BY <3>1, <3>2
  <2>3. k = [s \in SUBSET T |-> k[s]]
    BY <2>1
  <2> HIDE DEF i
  <2>4. k = [s \in SUBSET T |-> IF s = {} THEN 0 ELSE f[CHOOSE x \in s : TRUE] + k[Rest(s)]]
    BY <2>2, <2>3
  <2> QED
    BY <2>1, <2>4 DEF Fold
<1> QED
  BY <1>1, <1>4 DEF Fails

---------------------------------------------------------------------------
(* The sums of natural numbers.                                            *)

LEMMA SumEmpty ==
  ASSUME NEW f
  PROVE  SumFunctionOnSet(f, {}) = 0
<1>1. IsFiniteSet({})
  BY FS_EmptySet
<1>2. PICK i : Fold(f, {}, i)
  BY <1>1, FoldExists
<1>3. SumFunctionOnSet(f, {}) = i[{}]
  BY <1>1, <1>2, SumOfFold
<1> QED
  BY <1>2, <1>3 DEF Fold

LEMMA SumChosen ==
  ASSUME NEW f, NEW S, IsFiniteSet(S), S # {}
  PROVE  \E x \in S : SumFunctionOnSet(f, S) = f[x] + SumFunctionOnSet(f, S \ {x})
<1>1. PICK x : x = CHOOSE y \in S : TRUE
  OBVIOUS
<1>2. x \in S /\ S \ {x} \in SUBSET S /\ S \in SUBSET S
  BY <1>1
<1>3. PICK i : Fold(f, S, i)
  BY FoldExists
<1>4. SumFunctionOnSet(f, S) = i[S] /\ SumFunctionOnSet(f, S \ {x}) = i[S \ {x}]
  BY <1>2, <1>3, SumOfFold
<1>5. i[S] = f[x] + i[S \ {x}]
  BY <1>1, <1>2, <1>3 DEF Fold
<1> QED
  BY <1>2, <1>4, <1>5

(* The order of the summands does not matter.                              *)
LEMMA SumSplit ==
  ASSUME NEW f, NEW S, IsFiniteSet(S), \A x \in S : f[x] \in Nat
  PROVE  /\ SumFunctionOnSet(f, S) \in Nat
         /\ \A x \in S : SumFunctionOnSet(f, S) = f[x] + SumFunctionOnSet(f, S \ {x})
<1> DEFINE Sum(T) == SumFunctionOnSet(f, T)
           Splits(T) == Sum(T) \in Nat /\ \A x \in T : Sum(T) = f[x] + Sum(T \ {x})
           Fails == {T \in SUBSET S : ~Splits(T)}
<1> SUFFICES ASSUME Fails # {}
             PROVE  FALSE
  OBVIOUS
<1>1. Fails \in SUBSET (SUBSET S)
  OBVIOUS
<1> HIDE DEF Fails, Sum
<1>2. PICK T \in SUBSET S : IsFiniteSet(T) /\ T \in Fails
                          /\ \A U \in SUBSET T : U # T => U \notin Fails
  BY <1>1, SmallestFailure
<1>3. \A U \in SUBSET T : U # T => Splits(U)
  BY <1>2 DEF Fails
<1>4. CASE T = {}
  BY <1>2, <1>4, SumEmpty DEF Fails, Sum
<1>5. CASE T # {}
  <2>1. PICK c \in T : Sum(T) = f[c] + Sum(T \ {c})
    BY <1>2, <1>5, SumChosen DEF Sum
  <2>2. f[c] \in Nat /\ Splits(T \ {c})
    BY <1>3, <2>1
  <2>3. Sum(T) \in Nat
    BY <2>1, <2>2
  <2>4. ASSUME NEW x \in T
        PROVE  Sum(T) = f[x] + Sum(T \ {x})
    <3>1. CASE x = c
      BY <2>1, <3>1
    <3>2. CASE x # c
      <4>1. Splits(T \ {x}) /\ c \in T \ {x} /\ x \in T \ {c} /\ f[x] \in Nat
        BY <1>3, <3>2
      <4>2. PICK R : R = (T \ {c}) \ {x} /\ R = (T \ {x}) \ {c}
        OBVIOUS
      <4>3. Sum(T \ {c}) = f[x] + Sum(R) /\ Sum(T \ {x}) = f[c] + Sum(R)
        BY <2>2, <4>1, <4>2
      <4>4. Sum(R) \in Nat
        <5>1. R \in SUBSET T /\ R # T
          BY <4>1, <4>2
        <5> QED
          BY <1>3, <5>1
      <4> QED
        BY <2>1, <2>2, <4>1, <4>3, <4>4
    <3> QED
      BY <3>1, <3>2
  <2> QED
    BY <1>2, <2>3, <2>4 DEF Fails
<1> QED
  BY <1>4, <1>5

LEMMA SumAdd ==
  ASSUME NEW f, NEW S, IsFiniteSet(S), NEW y, y \notin S, \A x \in S \cup {y} : f[x] \in Nat
  PROVE  SumFunctionOnSet(f, S \cup {y}) = f[y] + SumFunctionOnSet(f, S)
<1>1. IsFiniteSet(S \cup {y}) /\ (S \cup {y}) \ {y} = S
  BY FS_AddElement
<1> QED
  BY <1>1, SumSplit

LEMMA SumMonotone ==
  ASSUME NEW f, NEW g, NEW S, IsFiniteSet(S),
         \A x \in S : f[x] \in Nat /\ g[x] \in Nat /\ f[x] <= g[x]
  PROVE  SumFunctionOnSet(f, S) <= SumFunctionOnSet(g, S)
<1> DEFINE F(T) == SumFunctionOnSet(f, T)
           G(T) == SumFunctionOnSet(g, T)
           Fails == {T \in SUBSET S : ~(F(T) <= G(T))}
<1> SUFFICES ASSUME Fails # {}
             PROVE  FALSE
  OBVIOUS
<1>1. Fails \in SUBSET (SUBSET S)
  OBVIOUS
<1> HIDE DEF Fails, F, G
<1>2. PICK T \in SUBSET S : IsFiniteSet(T) /\ T \in Fails
                          /\ \A U \in SUBSET T : U # T => U \notin Fails
  BY <1>1, SmallestFailure
<1>3. T # {}
  <2>1. F({}) = 0 /\ G({}) = 0
    BY SumEmpty DEF F, G
  <2>2. F({}) <= G({})
    BY <2>1
  <2> QED
    BY <1>2, <2>2 DEF Fails
<1>4. PICK x \in T : TRUE
  BY <1>3
<1>5. F(T) = f[x] + F(T \ {x}) /\ G(T) = g[x] + G(T \ {x})
  BY <1>2, SumSplit DEF F, G
<1>6. F(T \ {x}) \in Nat /\ G(T \ {x}) \in Nat
  <2>1. IsFiniteSet(T \ {x})
    BY <1>2, FS_RemoveElement
  <2> QED
    BY <2>1, SumSplit DEF F, G
<1>7. F(T \ {x}) <= G(T \ {x})
  BY <1>2 DEF Fails
<1>8. f[x] \in Nat /\ g[x] \in Nat /\ f[x] <= g[x]
  OBVIOUS
<1>9. F(T) <= G(T)
  BY <1>5, <1>6, <1>7, <1>8
<1> QED
  BY <1>2, <1>9 DEF Fails

LEMMA SumSame ==
  ASSUME NEW f, NEW g, NEW S, IsFiniteSet(S), \A x \in S : f[x] \in Nat /\ f[x] = g[x]
  PROVE  SumFunctionOnSet(f, S) = SumFunctionOnSet(g, S)
<1>1. SumFunctionOnSet(f, S) <= SumFunctionOnSet(g, S)
      /\ SumFunctionOnSet(g, S) <= SumFunctionOnSet(f, S)
  BY SumMonotone
<1>2. SumFunctionOnSet(f, S) \in Nat /\ SumFunctionOnSet(g, S) \in Nat
  BY SumSplit
<1> QED
  BY <1>1, <1>2

(* One summand changes.                                                    *)
LEMMA SumChange ==
  ASSUME NEW f, NEW g, NEW S, IsFiniteSet(S), NEW y \in S,
         \A x \in S : f[x] \in Nat /\ g[x] \in Nat,
         \A x \in S \ {y} : f[x] = g[x]
  PROVE  SumFunctionOnSet(g, S) + f[y] = SumFunctionOnSet(f, S) + g[y]
<1>1. IsFiniteSet(S \ {y})
  BY FS_RemoveElement
<1>2. SumFunctionOnSet(f, S \ {y}) = SumFunctionOnSet(g, S \ {y})
      /\ SumFunctionOnSet(f, S \ {y}) \in Nat
  BY <1>1, SumSame, SumSplit
<1>3. SumFunctionOnSet(f, S) = f[y] + SumFunctionOnSet(f, S \ {y})
      /\ SumFunctionOnSet(g, S) = g[y] + SumFunctionOnSet(g, S \ {y})
  BY SumSplit
<1> QED
  BY <1>2, <1>3
(* Nothing adds up to nothing.                                             *)
LEMMA SumZero ==
  ASSUME NEW f, NEW S, IsFiniteSet(S), \A x \in S : f[x] = 0
  PROVE  SumFunctionOnSet(f, S) = 0
<1> DEFINE Fails == {T \in SUBSET S : SumFunctionOnSet(f, T) # 0}
<1> SUFFICES ASSUME Fails # {}
             PROVE  FALSE
  OBVIOUS
<1>1. Fails \in SUBSET (SUBSET S)
  OBVIOUS
<1> HIDE DEF Fails
<1>2. PICK T \in SUBSET S : IsFiniteSet(T) /\ T \in Fails
                          /\ \A U \in SUBSET T : U # T => U \notin Fails
  BY <1>1, SmallestFailure
<1>3. SumFunctionOnSet(f, T) # 0 /\ T # {}
  BY <1>2, SumEmpty DEF Fails
<1>4. PICK x \in T : SumFunctionOnSet(f, T) = f[x] + SumFunctionOnSet(f, T \ {x})
  BY <1>2, <1>3, SumChosen
<1>5. SumFunctionOnSet(f, T \ {x}) = 0
  <2>1. T \ {x} \in SUBSET T /\ T \ {x} # T /\ T \ {x} \in SUBSET S
    BY <1>4
  <2>2. T \ {x} \notin Fails
    BY <1>2, <2>1
  <2> QED
    BY <2>1, <2>2 DEF Fails
<1> QED
  BY <1>3, <1>4, <1>5
(* Fewer summands add up to no more.                                       *)
LEMMA SumSubset ==
  ASSUME NEW f, NEW T, IsFiniteSet(T), \A x \in T : f[x] \in Nat, NEW S \in SUBSET T
  PROVE  SumFunctionOnSet(f, S) <= SumFunctionOnSet(f, T)
<1> DEFINE Fails == {U \in SUBSET T : \E V \in SUBSET U :
                       ~(SumFunctionOnSet(f, V) <= SumFunctionOnSet(f, U))}
<1> SUFFICES ASSUME Fails # {}
             PROVE  FALSE
  OBVIOUS
<1>1. Fails \in SUBSET (SUBSET T)
  OBVIOUS
<1> HIDE DEF Fails
<1>2. PICK U \in SUBSET T : IsFiniteSet(U) /\ U \in Fails
                          /\ \A W \in SUBSET U : W # U => W \notin Fails
  BY <1>1, SmallestFailure
<1>3. PICK V \in SUBSET U : ~(SumFunctionOnSet(f, V) <= SumFunctionOnSet(f, U))
  BY <1>2 DEF Fails
<1>4. IsFiniteSet(V)
  BY <1>2, FS_Subset
<1>5. /\ SumFunctionOnSet(f, U) \in Nat /\ SumFunctionOnSet(f, V) \in Nat
      /\ \A x \in U : SumFunctionOnSet(f, U) = f[x] + SumFunctionOnSet(f, U \ {x})
  BY <1>2, <1>4, SumSplit
<1>6. V # U
  BY <1>3, <1>5
<1>7. PICK x \in U : x \notin V
  BY <1>6
<1>8. /\ V \in SUBSET (U \ {x}) /\ U \ {x} \in SUBSET U /\ U \ {x} # U
      /\ U \ {x} \in SUBSET T /\ IsFiniteSet(U \ {x})
  BY <1>2, <1>7, FS_RemoveElement
<1>9. U \ {x} \notin Fails
  BY <1>2, <1>8
<1>10. SumFunctionOnSet(f, V) <= SumFunctionOnSet(f, U \ {x})
  BY <1>8, <1>9 DEF Fails
<1>11. SumFunctionOnSet(f, U \ {x}) \in Nat /\ f[x] \in Nat
  BY <1>8, SumSplit
<1> QED
  BY <1>3, <1>5, <1>10, <1>11
=============================================================================
