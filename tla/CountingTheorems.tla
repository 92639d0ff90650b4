-------------------------- MODULE CountingTheorems --------------------------
(***************************************************************************)
(* Counting and adding up, for finite sets of any size: the positions of a  *)
(* concatenation, the least and the greatest element, and the sum of the    *)
(* community modules (SumFunctionOnSet), with which the models add up the    *)
(* hours of privacy_drops and of counters_per_area.  That sum is a recursive *)
(* function over the subsets of a set.  Induction over them is stated with a *)
(* set in place of a predicate, from the fact that the natural numbers are   *)
(* well-founded.                                                             *)
(***************************************************************************)
EXTENDS Integers, Sequences, FiniteSetsExt, FiniteSetTheorems, WellFoundedInduction, TLAPS

(* A nonempty set of natural numbers has a least element. *)
LEMMA NatLeast ==
  ASSUME NEW T, T \subseteq Nat, T # {}
  PROVE  \E x \in T : \A y \in T : x <= y
<1> DEFINE R == {p \in Nat \X Nat : p[1] < p[2]}
<1>1. IsWellFoundedOn(R, Nat)
  BY ONLY NatLessThanWellFounded DEF OpToRel
<1>2. \A x, y \in Nat : x < y => <<x, y>> \in R
  OBVIOUS
<1> HIDE DEF R
<1>3. PICK x \in T : \A y \in T : ~(<<y, x>> \in R)
  BY <1>1, WFMin
<1>4. \A y \in T : ~(y < x)
  BY <1>2, <1>3
<1>5. \A y \in T : y \in Nat /\ x \in Nat
  OBVIOUS
<1>. QED BY <1>4, <1>5

(* The least and the greatest element that Min and Max choose. *)
LEMMA MinIsLeast ==
  ASSUME NEW T, T \subseteq Nat, T # {}
  PROVE  Min(T) \in T /\ \A y \in T : Min(T) <= y
BY NatLeast DEF Min

LEMMA MaxIsGreatest ==
  ASSUME NEW T, T \subseteq Nat, T # {}, NEW n \in Nat, \A y \in T : y <= n
  PROVE  Max(T) \in T /\ \A y \in T : y <= Max(T)
<1> DEFINE U == {n - y : y \in T}
<1>1. U \subseteq Nat /\ U # {}
  <2>1. \A y \in T : n - y \in Nat
    OBVIOUS
  <2>. QED BY <2>1
<1>2. PICK u \in U : \A v \in U : u <= v
  <2> HIDE DEF U
  <2>. QED BY <1>1, NatLeast
<1>3. PICK x \in T : u = n - x
  OBVIOUS
<1>4. \A y \in T : n - x <= n - y /\ x \in Nat /\ y \in Nat
  BY <1>2, <1>3
<1>5. x \in T /\ \A y \in T : x >= y
  BY <1>4
<1>6. /\ Max(T) \in T /\ \A y \in T : Max(T) >= y
  <2> HIDE DEF U
  <2>. QED BY <1>5 DEF Max
<1>7. Max(T) \in Nat /\ \A y \in T : y \in Nat
  BY <1>6
<1>. QED BY <1>6, <1>7

(* Induction over the natural numbers, for a set of them. *)
LEMMA NatSetInduction ==
  ASSUME NEW P, 0 \in P, \A n \in Nat : n \in P => n + 1 \in P
  PROVE  Nat \subseteq P
<1> SUFFICES ASSUME Nat \ P # {} PROVE FALSE
  OBVIOUS
<1>1. PICK x \in Nat \ P : \A y \in Nat \ P : x <= y
  BY NatLeast
<1>2. x # 0 /\ x - 1 \in Nat /\ x = (x - 1) + 1
  BY <1>1
<1>3. x - 1 \in P
  BY <1>1, <1>2
<1>. QED BY <1>1, <1>2, <1>3

-----------------------------------------------------------------------------
(* Positions of a sequence that has been appended to another one. *)

Shift(S, n) == {n + j : j \in S}

LEMMA ShiftCardinality ==
  ASSUME NEW S \in SUBSET Nat, IsFiniteSet(S), NEW n \in Nat
  PROVE  IsFiniteSet(Shift(S, n)) /\ Cardinality(Shift(S, n)) = Cardinality(S)
<1> DEFINE f == [j \in S |-> n + j]
<1>1. f \in [S -> Shift(S, n)]
  BY DEF Shift
<1>2. \A x, y \in S : f[x] = f[y] => x = y
  OBVIOUS
<1>3. \A z \in Shift(S, n) : \E x \in S : f[x] = z
  BY DEF Shift
<1>4. ExistsBijection(S, Shift(S, n))
  <2> HIDE DEF f
  <2>1. f \in Injection(S, Shift(S, n))
    BY <1>1, <1>2 DEF Injection, IsInjective
  <2>2. f \in Surjection(S, Shift(S, n))
    BY <1>1, <1>3 DEF Surjection
  <2>. QED BY <2>1, <2>2 DEF ExistsBijection, Bijection
<1>. QED BY <1>4, FS_Bijection

LEMMA SplitCardinality ==
  ASSUME NEW n \in Nat, NEW m \in Nat, NEW A \in SUBSET (1..n), NEW B \in SUBSET (1..m)
  PROVE  /\ Cardinality(A \cup Shift(B, n)) = Cardinality(A) + Cardinality(B)
         /\ Cardinality(A) \in Nat /\ Cardinality(B) \in Nat
<1>1. IsFiniteSet(1..n) /\ IsFiniteSet(1..m)
  BY FS_Interval
<1>2. IsFiniteSet(A) /\ IsFiniteSet(B) /\ B \in SUBSET Nat
  <2>1. IsFiniteSet(A)
    BY <1>1, FS_Subset
  <2>2. IsFiniteSet(B)
    BY <1>1, FS_Subset
  <2>3. B \in SUBSET Nat
    OBVIOUS
  <2>. QED BY <2>1, <2>2, <2>3
<1>3. IsFiniteSet(Shift(B, n)) /\ Cardinality(Shift(B, n)) = Cardinality(B)
  BY <1>2, ShiftCardinality
<1>4. A \cap Shift(B, n) = {}
  BY DEF Shift
<1>5. Cardinality(A \cap Shift(B, n)) = 0
  BY <1>4, FS_EmptySet
<1>6. Cardinality(A) \in Nat /\ Cardinality(B) \in Nat
  BY <1>2, FS_CardinalityType
<1>7. Cardinality(A \cup Shift(B, n)) = Cardinality(A) + Cardinality(B) - 0
  BY <1>2, <1>3, <1>5, FS_Union
<1>. QED BY <1>6, <1>7

(* The positions of a concatenation are those of the first sequence, then those *)
(* of the second shifted by its length.                                         *)
LEMMA ConcatPositions ==
  ASSUME NEW D, NEW a \in Seq(D), NEW b \in Seq(D)
  PROVE  /\ Len(a) \in Nat /\ Len(b) \in Nat
         /\ DOMAIN a = 1..Len(a) /\ DOMAIN b = 1..Len(b)
         /\ DOMAIN (a \o b) = DOMAIN a \cup Shift(DOMAIN b, Len(a))
         /\ \A i \in DOMAIN a : (a \o b)[i] = a[i]
         /\ \A i \in DOMAIN b : (a \o b)[Len(a) + i] = b[i]
<1>1. /\ Len(a) \in Nat /\ Len(b) \in Nat
      /\ DOMAIN a = 1..Len(a) /\ DOMAIN b = 1..Len(b)
      /\ DOMAIN (a \o b) = 1..(Len(a) + Len(b))
      /\ \A i \in DOMAIN a : (a \o b)[i] = a[i]
      /\ \A i \in DOMAIN b : (a \o b)[Len(a) + i] = b[i]
  OBVIOUS
<1>2. ASSUME NEW i \in 1..(Len(a) + Len(b)), i \notin 1..Len(a)
      PROVE  i \in Shift(1..Len(b), Len(a))
  <2>1. i - Len(a) \in 1..Len(b) /\ i = Len(a) + (i - Len(a))
    BY <1>1, <1>2
  <2>. QED BY <2>1 DEF Shift
<1>3. Shift(1..Len(b), Len(a)) \subseteq 1..(Len(a) + Len(b))
  BY <1>1 DEF Shift
<1>4. 1..Len(a) \subseteq 1..(Len(a) + Len(b))
  BY <1>1
<1>. QED BY <1>1, <1>2, <1>3, <1>4

-----------------------------------------------------------------------------
(* The element of a set that the fold takes next. *)
Pick(s) == CHOOSE x \in s : TRUE

LEMMA PickRemoves ==
  ASSUME NEW s, IsFiniteSet(s), s # {}
  PROVE  /\ Pick(s) \in s /\ IsFiniteSet(s \ {Pick(s)})
         /\ Cardinality(s) \in Nat /\ Cardinality(s) >= 1
         /\ Cardinality(s \ {Pick(s)}) = Cardinality(s) - 1
<1>1. Pick(s) \in s
  BY DEF Pick
<1>2. Cardinality(s) \in Nat
  BY FS_CardinalityType
<1>3. IsFiniteSet(s \ {Pick(s)}) /\ Cardinality(s \ {Pick(s)}) = Cardinality(s) - 1
  BY <1>1, FS_RemoveElement
<1>4. Cardinality(s) # 0
  BY FS_EmptySet
<1>. QED BY <1>1, <1>2, <1>3, <1>4

(* Induction over the subsets of a finite set, for a set of them. *)
LEMMA SubsetInduction ==
  ASSUME NEW S, IsFiniteSet(S), NEW Q, {} \in Q,
         \A s \in SUBSET S : s # {} /\ s \ {Pick(s)} \in Q => s \in Q
  PROVE  SUBSET S \subseteq Q
<1> DEFINE P == {n \in Nat : \A s \in SUBSET S : Cardinality(s) <= n => s \in Q}
<1>f. \A s \in SUBSET S : IsFiniteSet(s) /\ Cardinality(s) \in Nat
  BY FS_Subset, FS_CardinalityType
<1>1. 0 \in P
  <2>1. \A s \in SUBSET S : Cardinality(s) <= 0 => s = {}
    BY <1>f, FS_EmptySet
  <2>. QED BY <2>1
<1>2. ASSUME NEW n \in Nat, n \in P PROVE n + 1 \in P
  <2>1. ASSUME NEW s \in SUBSET S, Cardinality(s) <= n + 1 PROVE s \in Q
    <3>1. CASE s = {}
      BY <3>1
    <3>2. CASE s # {}
      <4>1. Cardinality(s \ {Pick(s)}) <= n /\ s \ {Pick(s)} \in SUBSET S
        BY <1>f, <2>1, <3>2, PickRemoves
      <4>2. s \ {Pick(s)} \in Q
        BY <1>2, <4>1
      <4>. QED BY <3>2, <4>2
    <3>. QED BY <3>1, <3>2
  <2>. QED BY <2>1
<1>3. Nat \subseteq P
  <2> HIDE DEF P
  <2>. QED BY <1>1, <1>2, NatSetInduction
<1>. QED BY <1>3, <1>f

-----------------------------------------------------------------------------
(* One step of the fold, and the functions that satisfy its equation. *)
Body(f, g, s) == IF s = {} THEN 0 ELSE f[Pick(s)] + g[s \ {Pick(s)}]
IsFold(f, g, S) == g = [s \in SUBSET S |-> Body(f, g, s)]

LEMMA FoldExists ==
  ASSUME NEW S, IsFiniteSet(S), NEW f, \A x \in S : f[x] \in Nat
  PROVE  \E g : IsFold(f, g, S)
<1> DEFINE P == {n \in Nat : \E g \in [SUBSET S -> Nat] :
                   \A s \in SUBSET S : Cardinality(s) <= n => g[s] = Body(f, g, s)}
<1>f. \A s \in SUBSET S : IsFiniteSet(s) /\ Cardinality(s) \in Nat
  BY FS_Subset, FS_CardinalityType
<1>1. 0 \in P
  <2> DEFINE g == [s \in SUBSET S |-> 0]
  <2>1. \A s \in SUBSET S : Cardinality(s) <= 0 => s = {}
    BY <1>f, FS_EmptySet
  <2>2. \A s \in SUBSET S : Cardinality(s) <= 0 => g[s] = Body(f, g, s)
    BY <2>1 DEF Body
  <2>3. g \in [SUBSET S -> Nat]
    OBVIOUS
  <2>. QED BY <2>2, <2>3
<1>2. ASSUME NEW n \in Nat, n \in P PROVE n + 1 \in P
  <2>1. PICK g \in [SUBSET S -> Nat] :
               \A s \in SUBSET S : Cardinality(s) <= n => g[s] = Body(f, g, s)
    BY <1>2
  <2> DEFINE h == [s \in SUBSET S |-> IF Cardinality(s) <= n THEN g[s] ELSE Body(f, g, s)]
  <2>2. ASSUME NEW s \in SUBSET S PROVE Body(f, g, s) \in Nat
    <3>1. s # {} => Pick(s) \in S /\ s \ {Pick(s)} \in SUBSET S
      BY <1>f, PickRemoves
    <3>. QED BY <3>1 DEF Body
  <2>3. h \in [SUBSET S -> Nat]
    BY <2>2
  <2>4. ASSUME NEW s \in SUBSET S, Cardinality(s) <= n + 1 PROVE h[s] = Body(f, h, s)
    <3>1. h[s] = Body(f, g, s)
      BY <2>1, <2>4
    <3>2. s # {} => h[s \ {Pick(s)}] = g[s \ {Pick(s)}]
      <4>1. s # {} => Cardinality(s \ {Pick(s)}) <= n /\ s \ {Pick(s)} \in SUBSET S
        BY <1>f, <2>4, PickRemoves
      <4>. QED BY <4>1
    <3>. QED BY <3>1, <3>2 DEF Body
  <2>5. \E k \in [SUBSET S -> Nat] :
          \A s \in SUBSET S : Cardinality(s) <= n + 1 => k[s] = Body(f, k, s)
    <3> HIDE DEF h
    <3>. QED BY <2>3, <2>4
  <2>. QED BY <2>5
<1>3. Nat \subseteq P
  <2> HIDE DEF P
  <2>. QED BY <1>1, <1>2, NatSetInduction
<1>4. Cardinality(S) \in P
  BY <1>3, <1>f
<1>5. PICK g \in [SUBSET S -> Nat] :
             \A s \in SUBSET S : Cardinality(s) <= Cardinality(S) => g[s] = Body(f, g, s)
  BY <1>4
<1>6. \A s \in SUBSET S : g[s] = Body(f, g, s)
  BY <1>5, FS_Subset
<1>. QED BY <1>6 DEF IsFold

(* The function the fold is defined with, and its equation. *)
Iter(f, S) == CHOOSE g : IsFold(f, g, S)

LEMMA IterEquation ==
  ASSUME NEW S, IsFiniteSet(S), NEW f, \A x \in S : f[x] \in Nat
  PROVE  /\ Iter(f, S)[{}] = 0
         /\ \A s \in SUBSET S : s # {} =>
              Iter(f, S)[s] = f[Pick(s)] + Iter(f, S)[s \ {Pick(s)}]
<1>1. IsFold(f, Iter(f, S), S)
  BY FoldExists DEF Iter
<1>2. \A s \in SUBSET S : Iter(f, S)[s] = Body(f, Iter(f, S), s)
  BY <1>1 DEF IsFold
<1>. QED BY <1>2 DEF Body

LEMMA SumIsIter ==
  ASSUME NEW S, NEW f
  PROVE  SumFunctionOnSet(f, S) = Iter(f, S)[S]
BY DEF SumFunctionOnSet, FoldFunctionOnSet, MapThenFoldSet, Iter, IsFold, Body, Pick
(***************************************************************************)
(* The sum of natural numbers is one, it is zero when all of them are, and  *)
(* adding n to one of them adds n to the sum.                               *)
(***************************************************************************)
LEMMA SumType ==
  ASSUME NEW S, IsFiniteSet(S), NEW f, \A x \in S : f[x] \in Nat
  PROVE  /\ SumFunctionOnSet(f, S) \in Nat
         /\ (\A x \in S : f[x] = 0) => SumFunctionOnSet(f, S) = 0
<1> DEFINE g == Iter(f, S)
           Q == {s \in SUBSET S : g[s] \in Nat /\ ((\A x \in S : f[x] = 0) => g[s] = 0)}
<1>0. g[{}] = 0 /\ \A s \in SUBSET S : s # {} => g[s] = f[Pick(s)] + g[s \ {Pick(s)}]
  BY IterEquation
<1> HIDE DEF g
<1>1. {} \in Q
  BY <1>0
<1>2. ASSUME NEW s \in SUBSET S, s # {}, s \ {Pick(s)} \in Q PROVE s \in Q
  <2>1. Pick(s) \in S
    BY <1>2, FS_Subset, PickRemoves
  <2>2. g[s] = f[Pick(s)] + g[s \ {Pick(s)}]
    BY <1>0, <1>2
  <2>3. /\ g[s \ {Pick(s)}] \in Nat /\ f[Pick(s)] \in Nat
        /\ (\A x \in S : f[x] = 0) => g[s \ {Pick(s)}] = 0 /\ f[Pick(s)] = 0
    BY <1>2, <2>1
  <2>. QED BY <2>2, <2>3
<1>3. S \in Q
  <2> HIDE DEF Q
  <2>1. SUBSET S \subseteq Q
    BY <1>1, <1>2, SubsetInduction
  <2>. QED BY <2>1
<1>4. g[S] = SumFunctionOnSet(f, S)
  BY SumIsIter DEF g
<1>. QED BY <1>3, <1>4

LEMMA SumAdd ==
  ASSUME NEW S, IsFiniteSet(S), NEW f \in [S -> Nat], NEW b \in S, NEW n \in Nat
  PROVE  SumFunctionOnSet([f EXCEPT ![b] = @ + n], S) = SumFunctionOnSet(f, S) + n
<1> DEFINE e == [f EXCEPT ![b] = @ + n]
           g == Iter(f, S)
           h == Iter(e, S)
           Q == {s \in SUBSET S : /\ g[s] \in Nat /\ h[s] \in Nat
                                  /\ h[s] = g[s] + (IF b \in s THEN n ELSE 0)}
<1>e. e \in [S -> Nat] /\ \A x \in S : e[x] = f[x] + (IF x = b THEN n ELSE 0)
  OBVIOUS
<1> HIDE DEF e
<1>0. /\ g[{}] = 0 /\ \A s \in SUBSET S : s # {} => g[s] = f[Pick(s)] + g[s \ {Pick(s)}]
      /\ h[{}] = 0 /\ \A s \in SUBSET S : s # {} => h[s] = e[Pick(s)] + h[s \ {Pick(s)}]
  BY <1>e, IterEquation
<1> HIDE DEF g, h
<1>1. {} \in Q
  BY <1>0
<1>2. ASSUME NEW s \in SUBSET S, s # {}, s \ {Pick(s)} \in Q PROVE s \in Q
  <2>1. Pick(s) \in s /\ Pick(s) \in S
    BY <1>2, FS_Subset, PickRemoves
  <2>2. /\ g[s] = f[Pick(s)] + g[s \ {Pick(s)}] /\ h[s] = e[Pick(s)] + h[s \ {Pick(s)}]
    BY <1>0, <1>2
  <2>3. /\ g[s \ {Pick(s)}] \in Nat /\ h[s \ {Pick(s)}] \in Nat /\ f[Pick(s)] \in Nat
        /\ h[s \ {Pick(s)}] = g[s \ {Pick(s)}] + (IF b \in s \ {Pick(s)} THEN n ELSE 0)
        /\ e[Pick(s)] = f[Pick(s)] + (IF Pick(s) = b THEN n ELSE 0)
    BY <1>2, <1>e, <2>1
  <2>. QED BY <2>1, <2>2, <2>3
<1>3. S \in Q
  <2> HIDE DEF Q
  <2>1. SUBSET S \subseteq Q
    BY <1>1, <1>2, SubsetInduction
  <2>. QED BY <2>1
<1>4. g[S] = SumFunctionOnSet(f, S) /\ h[S] = SumFunctionOnSet(e, S)
  BY SumIsIter DEF g, h
<1>. QED BY <1>3, <1>4 DEF e
(***************************************************************************)
(* Counting by key: when each f[k] is at least (at most) the number of the  *)
(* elements of C that have key k, the sum over a set of keys is at least    *)
(* (at most) the number of the elements with a key in the set.              *)
(***************************************************************************)
WithKey(C, key, s) == {i \in C : key[i] \in s}

LEMMA WithKeySplits ==
  ASSUME NEW C, IsFiniteSet(C), NEW key, NEW s, NEW x \in s
  PROVE  /\ Cardinality(WithKey(C, key, s))
               = Cardinality(WithKey(C, key, {x})) + Cardinality(WithKey(C, key, s \ {x}))
         /\ Cardinality(WithKey(C, key, {x})) \in Nat
         /\ Cardinality(WithKey(C, key, s \ {x})) \in Nat
<1> DEFINE A == WithKey(C, key, {x})
           B == WithKey(C, key, s \ {x})
<1>1. IsFiniteSet(A) /\ IsFiniteSet(B)
  BY FS_Subset DEF WithKey
<1>2. WithKey(C, key, s) = A \cup B /\ A \cap B = {}
  BY DEF WithKey
<1> HIDE DEF A, B
<1>3. Cardinality(A) \in Nat /\ Cardinality(B) \in Nat /\ Cardinality(A \cap B) = 0
  BY <1>1, <1>2, FS_CardinalityType, FS_EmptySet
<1>4. Cardinality(A \cup B) = Cardinality(A) + Cardinality(B) - Cardinality(A \cap B)
  BY <1>1, FS_Union
<1>. QED BY <1>2, <1>3, <1>4 DEF A, B

LEMMA SumCounts ==
  ASSUME NEW S, IsFiniteSet(S), NEW f, \A x \in S : f[x] \in Nat,
         NEW C, IsFiniteSet(C), NEW key
  PROVE  /\ (\A x \in S : f[x] >= Cardinality(WithKey(C, key, {x})))
              => SumFunctionOnSet(f, S) >= Cardinality(WithKey(C, key, S))
         /\ (\A x \in S : f[x] <= Cardinality(WithKey(C, key, {x})))
              => SumFunctionOnSet(f, S) <= Cardinality(WithKey(C, key, S))
<1> DEFINE g == Iter(f, S)
           Count(s) == Cardinality(WithKey(C, key, s))
           Q == {s \in SUBSET S :
                   /\ g[s] \in Nat /\ Count(s) \in Nat
                   /\ (\A x \in S : f[x] >= Count({x})) => g[s] >= Count(s)
                   /\ (\A x \in S : f[x] <= Count({x})) => g[s] <= Count(s)}
<1>0. g[{}] = 0 /\ \A s \in SUBSET S : s # {} => g[s] = f[Pick(s)] + g[s \ {Pick(s)}]
  BY IterEquation
<1>c. Count({}) = 0
  BY FS_EmptySet DEF WithKey
<1>s. \A s : \A x \in s : /\ Count(s) = Count({x}) + Count(s \ {x})
                          /\ Count({x}) \in Nat /\ Count(s \ {x}) \in Nat
  BY WithKeySplits
<1> HIDE DEF g, Count
<1>1. {} \in Q
  BY <1>0, <1>c
<1>2. ASSUME NEW s \in SUBSET S, s # {}, s \ {Pick(s)} \in Q PROVE s \in Q
  <2>1. Pick(s) \in s /\ Pick(s) \in S
    BY <1>2, FS_Subset, PickRemoves
  <2>2. /\ g[s] = f[Pick(s)] + g[s \ {Pick(s)}]
        /\ Count(s) = Count({Pick(s)}) + Count(s \ {Pick(s)})
        /\ Count({Pick(s)}) \in Nat /\ f[Pick(s)] \in Nat
    BY <1>0, <1>2, <1>s, <2>1
  <2>3. /\ g[s \ {Pick(s)}] \in Nat /\ Count(s \ {Pick(s)}) \in Nat
        /\ (\A x \in S : f[x] >= Count({x})) => g[s \ {Pick(s)}] >= Count(s \ {Pick(s)})
        /\ (\A x \in S : f[x] <= Count({x})) => g[s \ {Pick(s)}] <= Count(s \ {Pick(s)})
    BY <1>2
  <2>4. g[s] \in Nat /\ Count(s) \in Nat
    BY <2>2, <2>3
  <2>5. (\A x \in S : f[x] >= Count({x})) => g[s] >= Count(s)
    BY <2>1, <2>2, <2>3
  <2>6. (\A x \in S : f[x] <= Count({x})) => g[s] <= Count(s)
    BY <2>1, <2>2, <2>3
  <2>. QED BY <2>4, <2>5, <2>6
<1>3. S \in Q
  <2> HIDE DEF Q
  <2>1. SUBSET S \subseteq Q
    BY <1>1, <1>2, SubsetInduction
  <2>. QED BY <2>1
<1>4. g[S] = SumFunctionOnSet(f, S)
  BY SumIsIter DEF g
<1>. QED BY <1>3, <1>4 DEF Count
=============================================================================
