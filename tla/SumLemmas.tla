----------------------------- MODULE SumLemmas -----------------------------
(***************************************************************************)
(* Sums over finite sets of numbers, as SumFunctionOnSet of the community  *)
(* modules forms them.  It takes the elements out in an order of its own;  *)
(* the lemmas say that the order does not matter.                          *)
(***************************************************************************)
EXTENDS Naturals, Functions, FiniteSets, FiniteSetTheorems, WellFoundedInduction, TLAPS

-----------------------------------------------------------------------------
(* The smallest counterexample, in place of induction. *)

LEMMA Smallest ==
  ASSUME NEW S, S \subseteq Nat, S # {}
  PROVE  \E x \in S : \A y \in S : x <= y
<1>1. \E x \in S : \A y \in S : <<y, x>> \notin OpToRel(<, Nat)
  BY NatLessThanWellFounded, WFMin, Zenon
<1>2. PICK x \in S : \A y \in S : <<y, x>> \notin OpToRel(<, Nat)
  BY <1>1
<1>3. \A y \in S : ~(y < x)
  BY <1>2 DEF OpToRel
<1> QED BY <1>3

\* Of a set of finite sets one has no part that is in it too.
LEMMA SmallestSet ==
  ASSUME NEW C, C # {}, \A R \in C : IsFiniteSet(R)
  PROVE  \E R \in C : \A x \in R : R \ {x} \notin C
<1> DEFINE sizes == {Cardinality(R) : R \in C}
<1>1. sizes \subseteq Nat /\ sizes # {}
  BY FS_CardinalityType
<1>2. PICK n \in sizes : \A k \in sizes : n <= k
  BY <1>1, Smallest
<1>3. PICK R \in C : Cardinality(R) = n
  BY <1>2
<1>4. ASSUME NEW x \in R, R \ {x} \in C PROVE FALSE
  <2>1. Cardinality(R \ {x}) = n - 1 /\ Cardinality(R) \in Nat
    BY <1>3, FS_RemoveElement, FS_CardinalityType
  <2>2. n <= n - 1 /\ n \in Nat
    BY <1>2, <1>3, <1>4, <2>1
  <2> QED BY <2>2
<1> QED BY <1>4

-----------------------------------------------------------------------------
(* The recursion that defines the sum has a solution. *)

Picked(R) == CHOOSE x \in R : TRUE

\* What the recursion makes of R, given g for the smaller sets.
Fold(f, g, R) == IF R = {} THEN 0 ELSE f[Picked(R)] + g[R \ {Picked(R)}]

Folds(f, S, g) == g = [R \in SUBSET S |-> Fold(f, g, R)]

LEMMA SumIsFold ==
  ASSUME NEW f, NEW S
  PROVE  SumFunctionOnSet(f, S) = (CHOOSE g : Folds(f, S, g))[S]
  BY DEF SumFunctionOnSet, FoldFunctionOnSet, MapThenFoldSet, Folds, Fold, Picked

LEMMA PickedIsMember ==
  ASSUME NEW R, R # {}
  PROVE  Picked(R) \in R
  BY DEF Picked

\* g solves the recursion for the sets of at most n elements.
FoldsUpTo(f, S, n, g) ==
  /\ g = [R \in SUBSET S |-> g[R]]
  /\ \A R \in SUBSET S : Cardinality(R) <= n => g[R] = Fold(f, g, R)

LEMMA FoldsGrow ==
  ASSUME NEW f, NEW S, IsFiniteSet(S), NEW n \in Nat, NEW g, FoldsUpTo(f, S, n, g)
  PROVE  FoldsUpTo(f, S, n + 1, [R \in SUBSET S |-> Fold(f, g, R)])
<1> DEFINE h == [R \in SUBSET S |-> Fold(f, g, R)]
<1>1. \A R \in SUBSET S : Cardinality(R) <= n => h[R] = g[R]
  BY DEF FoldsUpTo
<1>2. ASSUME NEW R \in SUBSET S, Cardinality(R) <= n + 1, R # {}
      PROVE  h[R \ {Picked(R)}] = g[R \ {Picked(R)}]
  <2>1. IsFiniteSet(R) /\ Picked(R) \in R
    BY <1>2, FS_Subset, PickedIsMember
  <2>2. Cardinality(R \ {Picked(R)}) = Cardinality(R) - 1 /\ Cardinality(R) \in Nat
    BY <2>1, FS_RemoveElement, FS_CardinalityType
  <2>3. Cardinality(R \ {Picked(R)}) <= n
    BY <1>2, <2>2
  <2>4. R \ {Picked(R)} \in SUBSET S
    OBVIOUS
  <2> QED BY <1>1, <2>3, <2>4
<1>3. ASSUME NEW R \in SUBSET S, Cardinality(R) <= n + 1 PROVE h[R] = Fold(f, h, R)
  BY <1>2, <1>3 DEF Fold
<1> QED BY <1>3 DEF FoldsUpTo

LEMMA FoldsExist ==
  ASSUME NEW f, NEW S, IsFiniteSet(S)
  PROVE  \E g : Folds(f, S, g)
<1> DEFINE fails == {n \in Nat : ~ \E g : FoldsUpTo(f, S, n, g)}
<1>1. fails = {}
  <2> SUFFICES ASSUME fails # {} PROVE FALSE
    OBVIOUS
  <2>1. PICK n \in fails : \A k \in fails : n <= k
    BY Smallest
  <2>2. n # 0
    <3> DEFINE g == [R \in SUBSET S |-> 0]
    <3>1. ASSUME NEW R \in SUBSET S, Cardinality(R) <= 0 PROVE g[R] = Fold(f, g, R)
      <4>1. IsFiniteSet(R)
        BY FS_Subset
      <4>2. Cardinality(R) \in Nat
        BY <4>1, FS_CardinalityType
      <4>3. R = {}
        BY <3>1, <4>1, <4>2, FS_EmptySet
      <4> QED BY <4>3 DEF Fold
    <3>2. FoldsUpTo(f, S, 0, g)
      BY <3>1 DEF FoldsUpTo
    <3> QED BY <2>1, <3>2
  <2>3. n - 1 \in Nat /\ n - 1 \notin fails
    BY <2>1, <2>2
  <2>4. PICK g : FoldsUpTo(f, S, n - 1, g)
    BY <2>3
  <2>5. FoldsUpTo(f, S, (n - 1) + 1, [R \in SUBSET S |-> Fold(f, g, R)])
    BY <2>3, <2>4, FoldsGrow
  <2>6. (n - 1) + 1 = n
    BY <2>1
  <2> QED BY <2>1, <2>5, <2>6
<1>2. Cardinality(S) \in Nat
  BY FS_CardinalityType
<1>3. PICK g : FoldsUpTo(f, S, Cardinality(S), g)
  BY <1>1, <1>2
<1>4. \A R \in SUBSET S : Cardinality(R) <= Cardinality(S)
  BY FS_Subset
<1>5. Folds(f, S, g)
  BY <1>3, <1>4 DEF FoldsUpTo, Folds
<1> QED BY <1>5

LEMMA FoldsAgree ==
  ASSUME NEW f, NEW S, IsFiniteSet(S), NEW g, Folds(f, S, g),
         NEW U \in SUBSET S, NEW h, Folds(f, U, h)
  PROVE  g[U] = h[U]
<1> DEFINE fails == {R \in SUBSET U : g[R] # h[R]}
<1>1. \A R \in fails : IsFiniteSet(R)
  BY FS_Subset
<1>2. ASSUME fails # {} PROVE FALSE
  <2>1. PICK R \in fails : \A x \in R : R \ {x} \notin fails
    BY <1>1, <1>2, SmallestSet
  <2>2. g[R] = Fold(f, g, R) /\ h[R] = Fold(f, h, R)
    BY DEF Folds
  <2>3. R # {}
    BY <2>1, <2>2 DEF Fold
  <2>4. Picked(R) \in R
    BY <2>3, PickedIsMember
  <2>5. g[R \ {Picked(R)}] = h[R \ {Picked(R)}]
    BY <2>1, <2>4
  <2> QED BY <2>1, <2>2, <2>5 DEF Fold
<1> QED BY <1>2

-----------------------------------------------------------------------------
(* The sum of f over S. *)

LEMMA SumSteps ==
  ASSUME NEW f, NEW S, IsFiniteSet(S)
  PROVE  SumFunctionOnSet(f, S) =
           IF S = {} THEN 0 ELSE f[Picked(S)] + SumFunctionOnSet(f, S \ {Picked(S)})
<1> DEFINE g == CHOOSE g : Folds(f, S, g)
           R == S \ {Picked(S)}
           h == CHOOSE h : Folds(f, R, h)
<1>1. Folds(f, S, g)
  BY FoldsExist
<1>2. IsFiniteSet(R)
  BY FS_RemoveElement
<1>3. Folds(f, R, h)
  BY <1>2, FoldsExist
<1>4. g[R] = h[R]
  BY <1>1, <1>3, FoldsAgree
<1>5. SumFunctionOnSet(f, S) = g[S] /\ SumFunctionOnSet(f, R) = h[R]
  BY SumIsFold
<1>6. g[S] = Fold(f, g, S)
  BY <1>1 DEF Folds
<1> QED BY <1>4, <1>5, <1>6 DEF Fold

LEMMA SumOfNone ==
  ASSUME NEW f
  PROVE  SumFunctionOnSet(f, {}) = 0
  BY SumSteps, FS_EmptySet

LEMMA SumType ==
  ASSUME NEW f, NEW S, IsFiniteSet(S), \A x \in S : f[x] \in Nat
  PROVE  SumFunctionOnSet(f, S) \in Nat
<1> DEFINE fails == {R \in SUBSET S : SumFunctionOnSet(f, R) \notin Nat}
<1>1. \A R \in fails : IsFiniteSet(R)
  BY FS_Subset
<1>2. ASSUME fails # {} PROVE FALSE
  <2>1. PICK R \in fails : \A x \in R : R \ {x} \notin fails
    BY <1>1, <1>2, SmallestSet
  <2>2. R # {}
    BY <2>1, SumOfNone
  <2>3. Picked(R) \in R
    BY <2>2, PickedIsMember
  <2>4. SumFunctionOnSet(f, R \ {Picked(R)}) \in Nat
    BY <2>1, <2>3
  <2>5. SumFunctionOnSet(f, R) = f[Picked(R)] + SumFunctionOnSet(f, R \ {Picked(R)})
    BY <1>1, <2>2, SumSteps
  <2>6. f[Picked(R)] \in Nat
    BY <2>3
  <2> QED BY <2>1, <2>4, <2>5, <2>6
<1> QED BY <1>2

\* Any element may be taken out first.
LEMMA SumWithout ==
  ASSUME NEW f, NEW S, IsFiniteSet(S), \A x \in S : f[x] \in Nat, NEW x \in S
  PROVE  SumFunctionOnSet(f, S) = f[x] + SumFunctionOnSet(f, S \ {x})
<1> DEFINE sum(R) == SumFunctionOnSet(f, R)
           fails == {R \in SUBSET S : \E y \in R : sum(R) # f[y] + sum(R \ {y})}
<1>1. \A R \in SUBSET S : IsFiniteSet(R)
  BY FS_Subset
<1>2. \A R \in SUBSET S : sum(R) \in Nat
  BY <1>1, SumType
<1>3. ASSUME fails # {} PROVE FALSE
  <2>1. PICK R \in fails : \A y \in R : R \ {y} \notin fails
    BY <1>1, <1>3, SmallestSet
  <2>2. PICK y \in R : sum(R) # f[y] + sum(R \ {y})
    BY <2>1
  <2> DEFINE p == Picked(R)
  <2>3. p \in R
    BY <2>2, PickedIsMember
  <2>4. sum(R) = f[p] + sum(R \ {p})
    BY <1>1, <2>1, <2>2, SumSteps
  <2>5. p # y
    BY <2>2, <2>4
  <2>6. sum(R \ {p}) = f[y] + sum((R \ {p}) \ {y})
    BY <2>1, <2>3, <2>5
  <2>7. sum(R \ {y}) = f[p] + sum((R \ {y}) \ {p})
    BY <2>1, <2>3, <2>5
  <2>8. (R \ {p}) \ {y} = (R \ {y}) \ {p}
    OBVIOUS
  <2>9. f[p] \in Nat /\ f[y] \in Nat /\ sum((R \ {y}) \ {p}) \in Nat
    BY <1>2, <2>3
  <2> QED BY <2>2, <2>4, <2>6, <2>7, <2>8, <2>9
<1> QED BY <1>3

LEMMA SumAgrees ==
  ASSUME NEW f, NEW g, NEW S, IsFiniteSet(S), \A x \in S : f[x] = g[x]
  PROVE  SumFunctionOnSet(f, S) = SumFunctionOnSet(g, S)
<1> DEFINE fails == {R \in SUBSET S : SumFunctionOnSet(f, R) # SumFunctionOnSet(g, R)}
<1>1. \A R \in fails : IsFiniteSet(R)
  BY FS_Subset
<1>2. ASSUME fails # {} PROVE FALSE
  <2>1. PICK R \in fails : \A x \in R : R \ {x} \notin fails
    BY <1>1, <1>2, SmallestSet
  <2>2. R # {}
    BY <2>1, SumOfNone
  <2>3. Picked(R) \in R
    BY <2>2, PickedIsMember
  <2>4. SumFunctionOnSet(f, R \ {Picked(R)}) = SumFunctionOnSet(g, R \ {Picked(R)})
    BY <2>1, <2>3
  <2>5. /\ SumFunctionOnSet(f, R) = f[Picked(R)] + SumFunctionOnSet(f, R \ {Picked(R)})
        /\ SumFunctionOnSet(g, R) = g[Picked(R)] + SumFunctionOnSet(g, R \ {Picked(R)})
    BY <1>1, <2>2, SumSteps
  <2> QED BY <2>1, <2>3, <2>4, <2>5
<1> QED BY <1>2

\* Nothing but zeros adds up to zero.
LEMMA SumOfZeros ==
  ASSUME NEW f, NEW S, IsFiniteSet(S), \A x \in S : f[x] = 0
  PROVE  SumFunctionOnSet(f, S) = 0
<1> DEFINE fails == {R \in SUBSET S : SumFunctionOnSet(f, R) # 0}
<1>1. \A R \in fails : IsFiniteSet(R)
  BY FS_Subset
<1>2. ASSUME fails # {} PROVE FALSE
  <2>1. PICK R \in fails : \A x \in R : R \ {x} \notin fails
    BY <1>1, <1>2, SmallestSet
  <2>2. R # {}
    BY <2>1, SumOfNone
  <2>3. Picked(R) \in R
    BY <2>2, PickedIsMember
  <2>4. SumFunctionOnSet(f, R) = f[Picked(R)] + SumFunctionOnSet(f, R \ {Picked(R)})
    BY <1>1, <2>1, <2>2, SumSteps
  <2> QED BY <2>1, <2>3, <2>4
<1> QED BY <1>2

\* One number changes: so does the sum, by as much.
LEMMA SumChanges ==
  ASSUME NEW f, NEW g, NEW S, IsFiniteSet(S), NEW x \in S,
         \A y \in S : f[y] \in Nat /\ g[y] \in Nat,
         \A y \in S \ {x} : f[y] = g[y]
  PROVE  SumFunctionOnSet(g, S) + f[x] = SumFunctionOnSet(f, S) + g[x]
<1>1. IsFiniteSet(S \ {x})
  BY FS_RemoveElement
<1>2. SumFunctionOnSet(f, S \ {x}) = SumFunctionOnSet(g, S \ {x})
  BY <1>1, SumAgrees
<1>3. SumFunctionOnSet(f, S \ {x}) \in Nat
  BY <1>1, SumType
<1>4. /\ SumFunctionOnSet(f, S) = f[x] + SumFunctionOnSet(f, S \ {x})
      /\ SumFunctionOnSet(g, S) = g[x] + SumFunctionOnSet(g, S \ {x})
  BY SumWithout
<1> QED BY <1>2, <1>3, <1>4

\* Sums are added number by number.
LEMMA SumOfSums ==
  ASSUME NEW f, NEW g, NEW h, NEW S, IsFiniteSet(S),
         \A x \in S : f[x] \in Nat /\ g[x] \in Nat /\ h[x] = f[x] + g[x]
  PROVE  SumFunctionOnSet(h, S) = SumFunctionOnSet(f, S) + SumFunctionOnSet(g, S)
<1> DEFINE fails == {R \in SUBSET S : SumFunctionOnSet(h, R)
                                      # SumFunctionOnSet(f, R) + SumFunctionOnSet(g, R)}
<1>1. \A R \in SUBSET S : /\ IsFiniteSet(R)
                          /\ SumFunctionOnSet(f, R) \in Nat /\ SumFunctionOnSet(g, R) \in Nat
  <2>1. \A R \in SUBSET S : IsFiniteSet(R)
    BY FS_Subset
  <2> QED BY <2>1, SumType
<1>2. ASSUME fails # {} PROVE FALSE
  <2>1. PICK R \in fails : \A x \in R : R \ {x} \notin fails
    BY <1>1, <1>2, SmallestSet
  <2>2. R # {}
    <3>1. /\ SumFunctionOnSet(f, {}) = 0 /\ SumFunctionOnSet(g, {}) = 0
          /\ SumFunctionOnSet(h, {}) = 0
      BY SumOfNone
    <3>2. {} \notin fails
      BY <3>1
    <3> QED BY <3>2, Zenon
  <2> DEFINE p == Picked(R)
  <2>3. p \in R /\ R \ {p} \in SUBSET S
    BY <2>2, PickedIsMember
  <2>4. SumFunctionOnSet(h, R \ {p})
          = SumFunctionOnSet(f, R \ {p}) + SumFunctionOnSet(g, R \ {p})
    BY <2>1, <2>3
  <2>5. /\ SumFunctionOnSet(f, R) = f[p] + SumFunctionOnSet(f, R \ {p})
        /\ SumFunctionOnSet(g, R) = g[p] + SumFunctionOnSet(g, R \ {p})
        /\ SumFunctionOnSet(h, R) = h[p] + SumFunctionOnSet(h, R \ {p})
    BY <1>1, <2>1, <2>2, SumSteps
  <2>6. /\ SumFunctionOnSet(f, R \ {p}) \in Nat /\ SumFunctionOnSet(g, R \ {p}) \in Nat
        /\ f[p] \in Nat /\ g[p] \in Nat /\ h[p] = f[p] + g[p]
    BY <1>1, <2>3
  <2> HIDE DEF p
  <2> QED BY <2>1, <2>4, <2>5, <2>6
<1> QED BY <1>2

\* Things counted kind by kind add up to all of them.
LEMMA KindsAddUp ==
  ASSUME NEW D, IsFiniteSet(D), NEW M, IsFiniteSet(M), NEW g, \A x \in D : g[x] \in M
  PROVE  SumFunctionOnSet([m \in M |-> Cardinality({x \in D : g[x] = m})], M) = Cardinality(D)
<1> DEFINE of(R) == [m \in M |-> Cardinality({x \in R : g[x] = m})]
           fails == {R \in SUBSET D : SumFunctionOnSet(of(R), M) # Cardinality(R)}
<1>1. \A R \in SUBSET D : IsFiniteSet(R)
  BY FS_Subset
<1>2. \A R \in SUBSET D, m \in M : IsFiniteSet({x \in R : g[x] = m})
  BY FS_Subset
<1>3. \A R \in SUBSET D, m \in M : of(R)[m] \in Nat
  BY <1>2, FS_CardinalityType
<1>4. ASSUME fails # {} PROVE FALSE
  <2>1. PICK R \in fails : \A x \in R : R \ {x} \notin fails
    BY <1>1, <1>4, SmallestSet
  <2>2. R # {}
    <3>1. \A m \in M : of({})[m] = 0
      <4>1. \A m : {x \in {} : g[x] = m} = {}
        OBVIOUS
      <4> QED BY <4>1, FS_EmptySet
    <3>2. SumFunctionOnSet(of({}), M) = 0
      BY <3>1, SumOfZeros
    <3> QED BY <2>1, <3>2, FS_EmptySet
  <2>3. PICK x \in R : TRUE
    BY <2>2
  <2> DEFINE P == R \ {x}
  <2>4. SumFunctionOnSet(of(P), M) = Cardinality(P)
    BY <2>1
  <2>5. Cardinality(P) \in Nat /\ Cardinality(R) = Cardinality(P) + 1
    <3>1. R = P \cup {x} /\ x \notin P /\ IsFiniteSet(P)
      BY <1>1
    <3> QED BY <3>1, FS_AddElement, FS_CardinalityType
  <2>6. g[x] \in M
    OBVIOUS
  <2>7. \A m \in M \ {g[x]} : of(P)[m] = of(R)[m]
    <3>1. ASSUME NEW m \in M, m # g[x]
          PROVE  {y \in P : g[y] = m} = {y \in R : g[y] = m}
      BY <3>1
    <3> QED BY <3>1
  <2>8. of(P)[g[x]] \in Nat /\ of(R)[g[x]] = of(P)[g[x]] + 1
    <3> DEFINE Q == {y \in P : g[y] = g[x]}
    <3>1. {y \in R : g[y] = g[x]} = Q \cup {x} /\ x \notin Q /\ IsFiniteSet(Q)
      BY <1>2
    <3>2. Cardinality(Q \cup {x}) = Cardinality(Q) + 1 /\ Cardinality(Q) \in Nat
      BY <3>1, FS_AddElement, FS_CardinalityType
    <3> QED BY <2>6, <3>1, <3>2
  <2>9. \A m \in M : of(P)[m] \in Nat /\ of(R)[m] \in Nat
    BY <1>3
  <2>10. SumFunctionOnSet(of(R), M) + of(P)[g[x]] = SumFunctionOnSet(of(P), M) + of(R)[g[x]]
    <3> HIDE DEF of, P
    <3> QED BY <2>6, <2>7, <2>9, SumChanges
  <2>11. SumFunctionOnSet(of(R), M) \in Nat
    BY <2>9, SumType
  <2>12. SumFunctionOnSet(of(R), M) # Cardinality(R)
    BY <2>1
  <2> HIDE DEF of, P
  <2> QED BY <2>4, <2>5, <2>8, <2>10, <2>11, <2>12
<1>5. D \notin fails
  BY <1>4
<1> QED BY <1>5
=============================================================================
