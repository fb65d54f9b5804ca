------------------------- MODULE ImportEngineProofs -------------------------
(***************************************************************************)
(* What holds of the import engine for any source, provider and number of  *)
(* calls, crashes and lost answers.  The lists of a call are counted by    *)
(* the recipient track they match: as many fingerprints wait for it as     *)
(* tracks that match it are still to be added (Enough).  The invariants    *)
(* build on one another: the types, the calls that do not overlap (Tidy),  *)
(* what the ledger claims of its playlist (Earned) and of itself (Grown),  *)
(* and, while nothing is lost, the tracks that account for every copy      *)
(* (Orderly).                                                              *)
(***************************************************************************)
EXTENDS ImportEngine, SumLemmas, SequenceTheorems

-----------------------------------------------------------------------------
(* Numbers in order *)

\* f lists s in ascending order.
Lists(f, s) ==
  /\ f \in Bijection(1..Cardinality(s), s)
  /\ \A i, j \in DOMAIN f : i < j => f[i] < f[j]

LEMMA Largest ==
  ASSUME NEW n \in Nat, NEW s \in SUBSET (1..n), s # {}
  PROVE  \E x \in s : \A y \in s : y <= x
<1> DEFINE gaps == {n - x : x \in s}
<1>1. gaps \subseteq Nat /\ gaps # {}
  <2>1. \A x \in s : x \in Nat /\ x <= n
    OBVIOUS
  <2>2. \A x \in s : n - x \in Nat
    BY <2>1
  <2> QED BY <2>2
<1>2. PICK g \in gaps : \A h \in gaps : g <= h
  BY <1>1, Smallest
<1>3. PICK x \in s : g = n - x
  BY <1>2
<1>4. ASSUME NEW y \in s PROVE y <= x
  <2>1. g <= n - y
    BY <1>2
  <2> QED BY <1>3, <2>1
<1> QED BY <1>4

LEMMA ListExists ==
  ASSUME NEW n \in Nat, NEW s \in SUBSET (1..n)
  PROVE  \E f : Lists(f, s)
<1> DEFINE fails == {R \in SUBSET s : ~ \E f : Lists(f, R)}
<1>0. \A x \in s : x \in Nat
  OBVIOUS
<1>1. \A R \in SUBSET s : IsFiniteSet(R)
  <2>1. IsFiniteSet(1..n)
    BY FS_Interval
  <2> QED BY <2>1, FS_Subset
<1>2. ASSUME fails # {} PROVE FALSE
  <2>1. PICK R \in fails : \A x \in R : R \ {x} \notin fails
    BY <1>1, <1>2, SmallestSet
  <2>2. R # {}
    <3>1. Lists(<<>>, {})
      <4>1. 1..Cardinality({}) = {}
        BY FS_EmptySet
      <4>2. <<>> \in [{} -> {}]
        OBVIOUS
      <4>3. <<>> \in Bijection({}, {})
        BY <4>2 DEF Bijection, Injection, Surjection, IsInjective
      <4> QED BY <4>1, <4>2, <4>3 DEF Lists
    <3> QED BY <2>1, <3>1
  <2>3. PICK x \in R : \A y \in R : y <= x
    BY <2>2, Largest
  <2> DEFINE P == R \ {x}
             k == Cardinality(P)
  <2>4. PICK f : Lists(f, P)
    BY <2>1
  <2>5. k \in Nat /\ Cardinality(R) = k + 1
    <3>1. P = R \ {x} /\ R = P \cup {x}
      OBVIOUS
    <3> QED BY <1>1, <3>1, FS_AddElement, FS_CardinalityType
  <2> DEFINE g == [i \in 1..k + 1 |-> IF i = k + 1 THEN x ELSE f[i]]
  <2>6. \A i \in 1..k : f[i] \in P
    BY <2>4 DEF Lists, Bijection, Injection
  <2>7. \A i \in 1..k : f[i] < x
    <3>1. \A i \in 1..k : f[i] \in R /\ f[i] # x /\ f[i] \in Nat
      BY <1>0, <2>6
    <3> QED BY <1>0, <2>3, <3>1
  <2>8. ASSUME NEW i \in 1..k + 1, NEW j \in 1..k + 1, i < j PROVE g[i] < g[j]
    <3>1. i \in 1..k
      BY <2>5, <2>8
    <3>2. CASE j = k + 1
      BY <2>5, <2>7, <3>1, <3>2
    <3>3. CASE j # k + 1
      <4>1. j \in 1..k
        BY <2>5, <3>3
      <4>2. DOMAIN f = 1..k
        BY <2>4 DEF Lists, Bijection, Injection
      <4>3. f[i] < f[j]
        BY <2>4, <2>8, <3>1, <4>1, <4>2 DEF Lists
      <4> QED BY <2>5, <3>1, <4>1, <4>3
    <3> QED BY <3>2, <3>3
  <2>9. g \in [1..k + 1 -> R]
    <3>1. \A i \in 1..k + 1 : i # k + 1 => i \in 1..k
      BY <2>5
    <3> QED BY <2>3, <2>6, <3>1
  <2>10. ASSUME NEW i \in 1..k + 1, NEW j \in 1..k + 1, g[i] = g[j] PROVE i = j
    <3>1. g[i] \in Nat /\ g[j] \in Nat
      BY <1>0, <2>9
    <3>2. \A a, b \in Nat : a = b => ~(a < b) /\ ~(b < a)
      OBVIOUS
    <3>3. ~(g[i] < g[j]) /\ ~(g[j] < g[i])
      BY <2>10, <3>1, <3>2
    <3>4. ~(i < j) /\ ~(j < i)
      BY <2>8, <3>3
    <3> QED BY <2>5, <3>4
  <2>11. ASSUME NEW y \in R PROVE \E i \in 1..k + 1 : g[i] = y
    <3>1. CASE y = x
      BY <2>5, <3>1
    <3>2. CASE y # x
      <4>1. PICK i \in 1..k : f[i] = y
        BY <2>4, <3>2 DEF Lists, Bijection, Surjection
      <4> QED BY <2>5, <4>1
    <3> QED BY <3>1, <3>2
  <2>12. g \in Bijection(1..Cardinality(R), R)
    BY <2>5, <2>9, <2>10, <2>11 DEF Bijection, Injection, Surjection, IsInjective
  <2>13. Lists(g, R)
    BY <2>8, <2>9, <2>12 DEF Lists
  <2> QED BY <2>1, <2>13
<1> QED BY <1>2

\* What InOrder makes of a set of positions.
LEMMA InOrderLists ==
  ASSUME NEW n \in Nat, NEW s \in SUBSET (1..n)
  PROVE  /\ Cardinality(s) \in Nat
         /\ InOrder(s) \in Seq(s) /\ Len(InOrder(s)) = Cardinality(s)
         /\ DOMAIN InOrder(s) = 1..Cardinality(s)
         /\ InOrder(s) \in Bijection(1..Cardinality(s), s)
<1>1. IsFiniteSet(s)
  <2>1. IsFiniteSet(1..n)
    BY FS_Interval
  <2> QED BY <2>1, FS_Subset
<1>2. Cardinality(s) \in Nat
  BY <1>1, FS_CardinalityType
<1>3. PICK f : Lists(f, s)
  BY ListExists
<1>4. InOrder(s) \in Bijection(1..Cardinality(s), s)
  BY <1>3 DEF Lists, InOrder
<1>5. InOrder(s) \in [1..Cardinality(s) -> s]
  BY <1>4 DEF Bijection, Injection
<1>6. InOrder(s) \in Seq(s) /\ Len(InOrder(s)) = Cardinality(s)
  BY <1>2, <1>5, SeqDef, LenProperties
<1> QED BY <1>2, <1>4, <1>5, <1>6

-----------------------------------------------------------------------------
(* Tracks counted by the recipient track they match *)

\* The first n of ts that match m.
Upto(ts, m, n) == {i \in 1..n : Match[ts[i]] = m}

LEMMA UptoIsFinite ==
  ASSUME NEW ts, NEW m, NEW n \in Nat
  PROVE  IsFiniteSet(Upto(ts, m, n)) /\ Cardinality(Upto(ts, m, n)) \in Nat
<1>1. IsFiniteSet(1..n)
  BY FS_Interval
<1>2. Upto(ts, m, n) \in SUBSET (1..n)
  BY DEF Upto
<1> QED BY <1>1, <1>2, FS_Subset, FS_CardinalityType

LEMMA CountIsUpto ==
  ASSUME NEW ts \in Seq(Tracks), NEW m
  PROVE  /\ Positions(ts, m) = Upto(ts, m, Len(ts))
         /\ Positions(ts, m) \in SUBSET (1..Len(ts))
         /\ Count(ts, m) = Cardinality(Upto(ts, m, Len(ts)))
         /\ Count(ts, m) \in Nat
<1>1. Len(ts) \in Nat /\ DOMAIN ts = 1..Len(ts)
  BY LenProperties
<1>2. Positions(ts, m) = Upto(ts, m, Len(ts))
  BY <1>1 DEF Positions, Upto
<1>3. Count(ts, m) = Cardinality(Upto(ts, m, Len(ts)))
  BY <1>2 DEF Count
<1>4. Upto(ts, m, Len(ts)) \in SUBSET (1..Len(ts))
  BY DEF Upto
<1> QED BY <1>1, <1>2, <1>3, <1>4, UptoIsFinite

LEMMA Prefix ==
  ASSUME NEW ts \in Seq(Tracks), NEW n \in 0..Len(ts)
  PROVE  /\ SubSeq(ts, 1, n) \in Seq(Tracks)
         /\ Len(SubSeq(ts, 1, n)) = n
         /\ \A i \in 1..n : SubSeq(ts, 1, n)[i] = ts[i] /\ ts[i] \in Tracks
<1>1. Len(ts) \in Nat
  BY LenProperties
<1>2. \A i \in 1..n : ts[i] \in Tracks
  BY <1>1, ElementOfSeq
<1>3. 1 \in Int /\ n \in Int
  BY <1>1
<1>4. /\ SubSeq(ts, 1, n) \in Seq(Tracks)
      /\ Len(SubSeq(ts, 1, n)) = IF 1 <= n THEN n - 1 + 1 ELSE 0
      /\ \A i \in 1..n - 1 + 1 : SubSeq(ts, 1, n)[i] = ts[1 + i - 1]
  BY <1>2, <1>3, SubSeqProperties
<1>5. n - 1 + 1 = n /\ \A i \in 1..n : 1 + i - 1 = i
  BY <1>1
<1> QED BY <1>1, <1>2, <1>4, <1>5

LEMMA Suffix ==
  ASSUME NEW S, NEW ts \in Seq(S), NEW n \in 0..Len(ts)
  PROVE  /\ SubSeq(ts, n + 1, Len(ts)) \in Seq(S)
         /\ Len(SubSeq(ts, n + 1, Len(ts))) = Len(ts) - n
         /\ \A i \in 1..Len(ts) - n : SubSeq(ts, n + 1, Len(ts))[i] = ts[n + i]
<1>1. Len(ts) \in Nat
  BY LenProperties
<1>2. \A i \in (n + 1)..Len(ts) : ts[i] \in S
  <2>1. \A i \in (n + 1)..Len(ts) : i \in 1..Len(ts)
    BY <1>1
  <2> QED BY <2>1, ElementOfSeq
<1>3. n + 1 \in Int /\ Len(ts) \in Int
  BY <1>1
<1> DEFINE a == n + 1
<1>4. a = n + 1
  OBVIOUS
<1> HIDE DEF a
<1>5. /\ SubSeq(ts, a, Len(ts)) \in Seq(S)
      /\ Len(SubSeq(ts, a, Len(ts))) = IF a <= Len(ts) THEN Len(ts) - a + 1 ELSE 0
      /\ \A i \in 1..Len(ts) - a + 1 : SubSeq(ts, a, Len(ts))[i] = ts[a + i - 1]
  BY <1>2, <1>3, <1>4, SubSeqProperties
<1>6. /\ Len(ts) - a + 1 = Len(ts) - n
      /\ (IF a <= Len(ts) THEN Len(ts) - a + 1 ELSE 0) = Len(ts) - n
      /\ \A i \in 1..Len(ts) - n : a + i - 1 = n + i
  BY <1>1, <1>4
<1> QED BY <1>4, <1>5, <1>6

LEMMA PrefixCount ==
  ASSUME NEW ts \in Seq(Tracks), NEW n \in 0..Len(ts), NEW m
  PROVE  Count(SubSeq(ts, 1, n), m) = Cardinality(Upto(ts, m, n))
<1>1. Count(SubSeq(ts, 1, n), m) = Cardinality(Upto(SubSeq(ts, 1, n), m, n))
  BY Prefix, CountIsUpto
<1>2. Upto(SubSeq(ts, 1, n), m, n) = Upto(ts, m, n)
  BY Prefix DEF Upto
<1> QED BY <1>1, <1>2

\* The k-th track is, of those that match what it matches, the one it is the
\* turn of; every turn comes.
LEMMA Turns ==
  ASSUME NEW ts \in Seq(Tracks), NEW m
  PROVE  /\ \A k \in 1..Len(ts) :
              Match[ts[k]] = m => Count(SubSeq(ts, 1, k), m) \in 1..Count(ts, m)
         /\ \A j \in 1..Count(ts, m) :
              \E k \in 1..Len(ts) : Match[ts[k]] = m /\ Count(SubSeq(ts, 1, k), m) = j
<1> DEFINE P == Positions(ts, m)
           turn == [k \in P |-> Cardinality(Upto(ts, m, k))]
<1>1. Len(ts) \in Nat /\ P \in SUBSET (1..Len(ts)) /\ P = Upto(ts, m, Len(ts))
  BY LenProperties, CountIsUpto
<1>2. IsFiniteSet(P) /\ Cardinality(P) = Count(ts, m) /\ Count(ts, m) \in Nat
  BY <1>1, UptoIsFinite, CountIsUpto
<1>3. \A k \in 1..Len(ts) : Count(SubSeq(ts, 1, k), m) = Cardinality(Upto(ts, m, k))
  <2>1. \A k \in 1..Len(ts) : k \in 0..Len(ts)
    BY <1>1
  <2> QED BY <2>1, PrefixCount
<1>4. \A k \in P : k \in 1..Len(ts) /\ k \in Nat /\ Match[ts[k]] = m
  BY <1>1 DEF Positions
<1>5. ASSUME NEW k \in P PROVE turn[k] \in 1..Count(ts, m)
  <2>1. Upto(ts, m, k) \in SUBSET P
    BY <1>1, <1>4 DEF Upto
  <2>2. Cardinality(Upto(ts, m, k)) <= Count(ts, m) /\ Cardinality(Upto(ts, m, k)) \in Nat
    BY <1>2, <1>4, <2>1, FS_Subset, UptoIsFinite
  <2>3. k \in Upto(ts, m, k)
    BY <1>4 DEF Upto
  <2>4. Cardinality(Upto(ts, m, k)) # 0
    BY <1>4, <2>3, UptoIsFinite, FS_EmptySet
  <2> QED BY <1>2, <2>2, <2>4
<1>6. ASSUME NEW k \in P, NEW l \in P, k < l PROVE turn[k] # turn[l]
  <2>1. Upto(ts, m, k) \in SUBSET Upto(ts, m, l)
    BY <1>4, <1>6 DEF Upto
  <2>2. l \in Upto(ts, m, l) /\ l \notin Upto(ts, m, k)
    BY <1>4, <1>6 DEF Upto
  <2>3. Cardinality(Upto(ts, m, k)) # Cardinality(Upto(ts, m, l))
    BY <1>4, <2>1, <2>2, UptoIsFinite, FS_Subset
  <2> QED BY <2>3
<1>7. turn \in Injection(P, 1..Count(ts, m))
  <2>1. turn \in [P -> 1..Count(ts, m)]
    BY <1>5
  <2>2. ASSUME NEW k \in P, NEW l \in P, turn[k] = turn[l] PROVE k = l
    <3>1. ~(k < l) /\ ~(l < k)
      BY <1>6, <2>2
    <3> QED BY <1>4, <3>1
  <2> QED BY <2>1, <2>2 DEF Injection, IsInjective
<1>8. IsFiniteSet(1..Count(ts, m)) /\ Cardinality(1..Count(ts, m)) = Count(ts, m)
  BY <1>2, FS_Interval
<1>9. turn \in Surjection(P, 1..Count(ts, m))
  BY <1>2, <1>7, <1>8, FS_Injection
<1>10. \A j \in 1..Count(ts, m) : \E k \in P : turn[k] = j
  BY <1>9 DEF Surjection
<1>11. ASSUME NEW k \in 1..Len(ts), Match[ts[k]] = m PROVE k \in P
  BY <1>1, <1>11 DEF Upto
<1> QED BY <1>3, <1>4, <1>5, <1>10, <1>11

LEMMA Taken ==
  ASSUME NEW p \in Nat, NEW f \in Nat, NEW r \in Nat, NEW d, d = p - f, r <= d
  PROVE  r + f <= p
  OBVIOUS

\* What is taken off the front does not count any more.
LEMMA CountSplits ==
  ASSUME NEW ts \in Seq(Tracks), NEW n \in 0..Len(ts), NEW m
  PROVE  /\ Count(SubSeq(ts, 1, n), m) \in Nat
         /\ Count(SubSeq(ts, n + 1, Len(ts)), m) \in Nat
         /\ Count(SubSeq(ts, n + 1, Len(ts)), m) + Count(SubSeq(ts, 1, n), m) <= Count(ts, m)
<1> DEFINE rest == SubSeq(ts, n + 1, Len(ts))
           P == Upto(ts, m, Len(ts))
           F == Upto(ts, m, n)
           R == Upto(rest, m, Len(rest))
           shift == [i \in R |-> n + i]
<1>1. Len(ts) \in Nat /\ n \in Nat /\ n <= Len(ts)
  BY LenProperties
<1>2. /\ rest \in Seq(Tracks) /\ Len(rest) = Len(ts) - n
      /\ \A i \in 1..Len(ts) - n : rest[i] = ts[n + i]
  BY Suffix
<1>3. IsFiniteSet(P) /\ IsFiniteSet(F) /\ F \in SUBSET P
  <2>1. F \in SUBSET P
    BY <1>1 DEF Upto
  <2> QED BY <1>1, <2>1, UptoIsFinite
<1>4. /\ Count(ts, m) = Cardinality(P)
      /\ Count(SubSeq(ts, 1, n), m) = Cardinality(F)
      /\ Count(rest, m) = Cardinality(R)
  BY <1>2, CountIsUpto, PrefixCount
<1>5. \A i \in R : i \in 1..Len(ts) - n /\ n + i \in 1..Len(ts) /\ n + i \notin 1..n
  BY <1>1, <1>2 DEF Upto
<1>6. \A i \in R : n + i \in P \ F
  BY <1>2, <1>5 DEF Upto
<1>7. shift \in Injection(R, P \ F)
  <2>1. shift \in [R -> P \ F]
    BY <1>6
  <2>2. ASSUME NEW i \in R, NEW j \in R, shift[i] = shift[j] PROVE i = j
    BY <1>1, <1>5, <2>2
  <2> QED BY <2>1, <2>2 DEF Injection, IsInjective
<1>8. IsFiniteSet(P \ F) /\ Cardinality(P \ F) = Cardinality(P) - Cardinality(P \cap F)
  BY <1>3, FS_Difference
<1>9. P \cap F = F
  BY <1>3
<1>10. IsFiniteSet(R) /\ Cardinality(R) <= Cardinality(P \ F)
  BY <1>7, <1>8, FS_Injection
<1>11. Cardinality(R) \in Nat /\ Cardinality(P) \in Nat /\ Cardinality(F) \in Nat
  BY <1>3, <1>10, FS_CardinalityType
<1> HIDE DEF rest, P, F, R, shift
<1>12. Cardinality(R) + Cardinality(F) <= Cardinality(P)
  BY <1>8, <1>9, <1>10, <1>11, Taken
<1>13. rest = SubSeq(ts, n + 1, Len(ts))
  BY DEF rest
<1> QED BY <1>4, <1>11, <1>12, <1>13

LEMMA MatchesAreFinite == IsFiniteSet(Matches) /\ IsFiniteSet(Tracks) /\ Cardinality(Tracks) = T
<1> DEFINE f == [t \in Tracks |-> Match[t]]
<1>1. IsFiniteSet(Tracks) /\ Cardinality(Tracks) = T
  BY TracksAssumption, FS_Interval DEF Tracks
<1>2. f \in Surjection(Tracks, Matches)
  BY DEF Matches, Surjection
<1> QED BY <1>1, <1>2, FS_Surjection

\* Every track counts for one recipient track.
LEMMA CountsAddUp ==
  ASSUME NEW ts \in Seq(Tracks)
  PROVE  SumFunctionOnSet([m \in Matches |-> Count(ts, m)], Matches) = Len(ts)
<1> DEFINE D == 1..Len(ts)
           g == [k \in D |-> Match[ts[k]]]
<1>1. Len(ts) \in Nat /\ \A k \in D : ts[k] \in Tracks
  BY LenProperties, ElementOfSeq
<1>2. IsFiniteSet(D) /\ Cardinality(D) = Len(ts)
  <2>1. 1 \in Int /\ Len(ts) \in Int /\ (1 > Len(ts) => Len(ts) = 0) /\ Len(ts) - 1 + 1 = Len(ts)
    BY <1>1
  <2> QED BY <2>1, FS_Interval
<1>3. \A k \in D : g[k] \in Matches
  BY <1>1 DEF Matches
<1>4. SumFunctionOnSet([m \in Matches |-> Cardinality({x \in D : g[x] = m})], Matches) = Len(ts)
  <2> HIDE DEF D, g
  <2> QED BY <1>2, <1>3, MatchesAreFinite, KindsAddUp
<1>5. \A m : {x \in D : g[x] = m} = Upto(ts, m, Len(ts))
  BY DEF Upto
<1>6. \A m : Count(ts, m) = Cardinality({x \in D : g[x] = m})
  BY <1>5, CountIsUpto
<1> QED BY <1>4, <1>6

-----------------------------------------------------------------------------
(* What the helpers of a call return *)

LEMMA FunctionIsSequence ==
  ASSUME NEW S, NEW n \in Nat, NEW f \in [1..n -> S]
  PROVE  f \in Seq(S) /\ Len(f) = n
<1>1. f \in Seq(S)
  BY SeqDef
<1> QED BY <1>1, LenProperties

\* The ledger without repetitions is as long at most and says the same.
LEMMA DistinctSaysTheSame ==
  ASSUME NEW s \in Seq(Fingerprints)
  PROVE  /\ Distinct(s) \in Seq(Fingerprints)
         /\ Len(Distinct(s)) <= Len(s)
         /\ Len(Distinct(s)) \in Nat
         /\ Range(Distinct(s)) = Range(s)
<1> DEFINE F == {i \in DOMAIN s : \A j \in 1..i - 1 : s[j] # s[i]}
           o == InOrder(F)
           n == Cardinality(F)
<1>1. Len(s) \in Nat /\ DOMAIN s = 1..Len(s) /\ \A i \in 1..Len(s) : s[i] \in Fingerprints
  BY LenProperties, ElementOfSeq
<1>2. F \in SUBSET (1..Len(s))
  BY <1>1
<1>3. /\ n \in Nat /\ o \in Seq(F) /\ Len(o) = n /\ DOMAIN o = 1..n
      /\ o \in Bijection(1..n, F)
  <2> HIDE DEF F
  <2> QED BY <1>1, <1>2, InOrderLists
<1>4. \A k \in 1..n : o[k] \in F
  BY <1>3 DEF Bijection, Injection
<1>5. \A i \in F : \E k \in 1..n : o[k] = i
  BY <1>3 DEF Bijection, Surjection
<1>6. Distinct(s) = [k \in 1..n |-> s[o[k]]]
  BY <1>3 DEF Distinct
<1>7. Distinct(s) \in [1..n -> Fingerprints]
  BY <1>1, <1>2, <1>4, <1>6
<1>8. Distinct(s) \in Seq(Fingerprints) /\ Len(Distinct(s)) = n
  <2> HIDE DEF n
  <2> QED BY <1>3, <1>7, FunctionIsSequence
<1>9. n <= Len(s)
  <2>1. IsFiniteSet(1..Len(s)) /\ Cardinality(1..Len(s)) = Len(s)
    <3>1. 1 \in Int /\ Len(s) \in Int /\ (1 > Len(s) => Len(s) = 0) /\ Len(s) - 1 + 1 = Len(s)
      BY <1>1
    <3> QED BY <3>1, FS_Interval
  <2> HIDE DEF F
  <2> QED BY <1>2, <2>1, FS_Subset
<1>10. Range(Distinct(s)) \subseteq Range(s)
  BY <1>1, <1>2, <1>4, <1>6 DEF Range
<1>11. ASSUME NEW x \in Range(s) PROVE x \in Range(Distinct(s))
  <2> DEFINE at == {i \in 1..Len(s) : s[i] = x}
  <2>1. at \subseteq Nat /\ at # {}
    BY <1>1 DEF Range
  <2>2. PICK i \in at : \A j \in at : i <= j
    BY <2>1, Smallest
  <2>3. \A j \in 1..i - 1 : j \in 1..Len(s) /\ ~(i <= j)
    BY <1>1, <2>2
  <2>4. i \in F
    BY <1>1, <2>2, <2>3
  <2>5. PICK k \in 1..n : o[k] = i
    BY <1>5, <2>4
  <2>6. Distinct(s)[k] = x /\ k \in DOMAIN Distinct(s)
    BY <1>6, <2>2, <2>5
  <2> QED BY <2>6 DEF Range
<1> QED BY <1>3, <1>8, <1>9, <1>10, <1>11

LEMMA WorkIsTracks ==
  ASSUME NEW s \in SUBSET Tracks
  PROVE  /\ InOrder(s) \in Seq(Tracks)
         /\ \A i \in 1..Len(InOrder(s)) : InOrder(s)[i] \in s
         /\ \A i, j \in 1..Len(InOrder(s)) : InOrder(s)[i] = InOrder(s)[j] => i = j
<1>1. T \in Nat /\ s \in SUBSET (1..T)
  BY TracksAssumption DEF Tracks
<1>2. /\ InOrder(s) \in Seq(s) /\ Len(InOrder(s)) = Cardinality(s)
      /\ InOrder(s) \in Bijection(1..Cardinality(s), s)
  BY <1>1, InOrderLists
<1>3. \A i, j \in 1..Cardinality(s) : InOrder(s)[i] = InOrder(s)[j] => i = j
  BY <1>2 DEF Bijection, Injection, IsInjective
<1> QED BY <1>2, <1>3, ElementOfSeq, SeqMonotonic

\* The queue of m holds a fingerprint for each of the tracks that match it.
LEMMA QueueOfEach ==
  ASSUME NEW ts \in Seq(Tracks), NEW m \in Matches
  PROVE  /\ FpQueues(ts)[m] \in Seq(Fingerprints)
         /\ Len(FpQueues(ts)[m]) = Count(ts, m)
         /\ \E at \in Injection(1..Count(ts, m), Positions(ts, m)) :
              \A k \in 1..Count(ts, m) : FpQueues(ts)[m][k] = Fp[ts[at[k]]]
<1> DEFINE P == Positions(ts, m)
           o == InOrder(P)
           n == Count(ts, m)
           q == FpQueues(ts)[m]
<1>1. Len(ts) \in Nat /\ \A i \in 1..Len(ts) : ts[i] \in Tracks
  BY LenProperties, ElementOfSeq
<1>2. P \in SUBSET (1..Len(ts)) /\ n = Cardinality(P)
  BY CountIsUpto DEF Count
<1>3. n \in Nat /\ DOMAIN o = 1..n /\ o \in Bijection(1..n, P)
  <2> HIDE DEF P, n
  <2> QED BY <1>1, <1>2, InOrderLists
<1>4. o \in Injection(1..n, P) /\ \A k \in 1..n : o[k] \in P
  BY <1>3 DEF Bijection, Injection
<1>5. q = [k \in 1..n |-> Fp[ts[o[k]]]]
  BY <1>3 DEF FpQueues
<1>6. \A k \in 1..n : Fp[ts[o[k]]] \in Fingerprints
  BY <1>1, <1>2, <1>4 DEF Fingerprints
<1>7. q \in [1..n -> Fingerprints]
  BY <1>5, <1>6
<1>8. q \in Seq(Fingerprints) /\ Len(q) = n
  <2> HIDE DEF q, n
  <2> QED BY <1>3, <1>7, FunctionIsSequence
<1>9. \A k \in 1..n : q[k] = Fp[ts[o[k]]]
  BY <1>5
<1> HIDE DEF o, q
<1> QED BY <1>4, <1>8, <1>9 DEF q

LEMMA QueuesAreSequences ==
  ASSUME NEW ts \in Seq(Tracks)
  PROVE  FpQueues(ts) \in [Matches -> Seq(Fingerprints)]
<1>1. \A m \in Matches : FpQueues(ts)[m] \in Seq(Fingerprints)
  BY QueueOfEach
<1>2. FpQueues(ts) = [m \in Matches |-> FpQueues(ts)[m]]
  BY DEF FpQueues
<1> QED BY <1>1, <1>2

\* What recordAdded appends for the tracks ts, given the queues q.
NewOnes(q, ts) ==
  [k \in DOMAIN ts |-> LET m == Match[ts[k]] IN q[m][Count(SubSeq(ts, 1, k), m)]]

\* They are the fingerprints at the heads of the queues.
LEMMA HeadsOfQueues ==
  ASSUME NEW ts \in Seq(Tracks), NEW q \in [Matches -> Seq(Fingerprints)],
         \A m \in Matches : Count(ts, m) <= Len(q[m])
  PROVE  /\ NewOnes(q, ts) \in Seq(Fingerprints)
         /\ Len(NewOnes(q, ts)) = Len(ts)
         /\ \A x \in Range(NewOnes(q, ts)) :
              \E m \in Matches : \E j \in 1..Count(ts, m) : x = q[m][j]
         /\ \A m \in Matches : \A j \in 1..Count(ts, m) : q[m][j] \in Range(NewOnes(q, ts))
<1> DEFINE f == NewOnes(q, ts)
           turn(k) == Count(SubSeq(ts, 1, k), Match[ts[k]])
<1>1. Len(ts) \in Nat /\ DOMAIN ts = 1..Len(ts) /\ \A i \in 1..Len(ts) : Match[ts[i]] \in Matches
  BY LenProperties, ElementOfSeq DEF Matches
<1>2. f = [k \in 1..Len(ts) |-> q[Match[ts[k]]][turn(k)]]
  BY <1>1 DEF NewOnes
<1>3. \A k \in 1..Len(ts) : turn(k) \in 1..Count(ts, Match[ts[k]])
  BY <1>1, Turns
<1>4. \A m \in Matches : Count(ts, m) \in Nat /\ Len(q[m]) \in Nat /\ q[m] \in Seq(Fingerprints)
  BY CountIsUpto, LenProperties
<1>5. \A m \in Matches : \A j \in 1..Count(ts, m) : q[m][j] \in Fingerprints
  <2>1. \A m \in Matches : \A j \in 1..Count(ts, m) : j \in 1..Len(q[m])
    BY <1>4
  <2> QED BY <1>4, <2>1, ElementOfSeq
<1>6. \A k \in 1..Len(ts) : q[Match[ts[k]]][turn(k)] \in Fingerprints
  BY <1>1, <1>3, <1>5
<1>7. f \in [1..Len(ts) -> Fingerprints]
  <2> HIDE DEF turn
  <2> QED BY <1>2, <1>6
<1>8. f \in Seq(Fingerprints) /\ Len(f) = Len(ts)
  <2> HIDE DEF f
  <2> QED BY <1>1, <1>7, FunctionIsSequence
<1>9. ASSUME NEW x \in Range(f) PROVE \E m \in Matches : \E j \in 1..Count(ts, m) : x = q[m][j]
  <2>1. PICK k \in 1..Len(ts) : x = q[Match[ts[k]]][turn(k)]
    BY <1>2 DEF Range
  <2> HIDE DEF turn
  <2> QED BY <1>1, <1>3, <2>1
<1>10. ASSUME NEW m \in Matches, NEW j \in 1..Count(ts, m) PROVE q[m][j] \in Range(f)
  <2>1. PICK k \in 1..Len(ts) : Match[ts[k]] = m /\ Count(SubSeq(ts, 1, k), m) = j
    BY Turns
  <2>2. f[k] = q[m][j] /\ k \in DOMAIN f
    BY <1>2, <2>1
  <2> QED BY <2>2 DEF Range
<1> QED BY <1>8, <1>9, <1>10

-----------------------------------------------------------------------------
(* Types *)

\* There is a fingerprint waiting for every track that is still to be added.
Enough ==
  \A c \in Callers : \A m \in Matches : Count(todo[c], m) <= Len(pending[c][m])

TypeInv == TypeOK /\ Enough

LEMMA NothingCounts == \A m : Count(<<>>, m) = 0
<1>1. \A m : Positions(<<>>, m) = {}
  BY DEF Positions
<1> QED BY <1>1, FS_EmptySet DEF Count

LEMMA StartsTyped == Init => TypeInv
<1> SUFFICES ASSUME Init PROVE TypeInv
  OBVIOUS
<1>1. TypeOK
  <2>1. <<>> \in Seq(Fingerprints) /\ <<>> \in Seq(Tracks)
    BY EmptySeq
  <2>2. NoPending \in [Matches -> Seq(Fingerprints)]
    BY <2>1 DEF NoPending
  <2>3. 0 \in 0..MaxPlaylists /\ 0 \in 0..MaxCalls /\ 0 \in 0..MaxCrashes /\ 0 \in 0..MaxLost
        /\ 0 \in 0..ChunkSize /\ 0 \in 0..T /\ 0 \in 0..0
    BY SizesAssumption, TracksAssumption
  <2> QED BY <2>1, <2>2, <2>3, ProvidersAssumption DEF Init, TypeOK, Labels
<1>2. Enough
  BY NothingCounts, EmptySeq DEF Init, Enough, NoPending
<1> QED BY <1>1, <1>2 DEF TypeInv

LEMMA DeliveredCopies ==
  ASSUME copies \in [Playlists -> [Matches -> Nat]], NEW c, NEW ts \in Seq(Tracks), Deliver(c, ts)
  PROVE  /\ copies' \in [Playlists -> [Matches -> Nat]]
         /\ \A p \in Playlists, m \in Matches :
              copies'[p][m] = IF p = target[c] THEN copies[p][m] + Count(ts, m) ELSE copies[p][m]
<1>1. \A m : Count(ts, m) \in Nat
  BY CountIsUpto
<1>2. \A p \in Playlists : copies[p] \in [Matches -> Nat]
  OBVIOUS
<1>3. \A p \in Playlists : [m \in Matches |-> copies[p][m] + Count(ts, m)] \in [Matches -> Nat]
  BY <1>1
<1>4. \A p \in Playlists : copies'[p] = IF p = target[c] THEN [m \in Matches |-> copies[p][m] + Count(ts, m)]
                                        ELSE copies[p]
  BY DEF Deliver
<1>5. copies' \in [Playlists -> [Matches -> Nat]]
  BY <1>3, <1>4 DEF Deliver
<1> QED BY <1>4, <1>5

\* The effect of adding and recording the first n tracks.
LEMMA Landed ==
  ASSUME TypeInv, NEW c \in Callers, NEW n \in 0..Len(todo[c]), Land(c, n)
  PROVE  /\ SubSeq(todo[c], 1, n) \in Seq(Tracks)
         /\ Deliver(c, SubSeq(todo[c], 1, n))
         /\ copies' \in [Playlists -> [Matches -> Nat]]
         /\ synced' \in [Callers -> Seq(Fingerprints)]
         /\ \A d \in Callers \ {c} : synced'[d] = synced[d]
         /\ Len(synced'[c]) = Len(synced[c]) + n
         /\ Range(synced'[c]) = Range(synced[c]) \cup Range(NewOnes(pending[c], SubSeq(todo[c], 1, n)))
         /\ todo' \in [Callers -> Seq(Tracks)]
         /\ todo'[c] = SubSeq(todo[c], n + 1, Len(todo[c]))
         /\ \A d \in Callers \ {c} : todo'[d] = todo[d]
         /\ pending' \in [Callers -> [Matches -> Seq(Fingerprints)]]
         /\ \A d \in Callers \ {c} : pending'[d] = pending[d]
         /\ \A m \in Matches :
              /\ Count(SubSeq(todo[c], 1, n), m) \in 0..Len(pending[c][m])
              /\ Len(pending'[c][m]) = Len(pending[c][m]) - Count(SubSeq(todo[c], 1, n), m)
              /\ \A i \in 1..Len(pending'[c][m]) :
                   pending'[c][m][i] = pending[c][m][Count(SubSeq(todo[c], 1, n), m) + i]
         /\ Enough'
<1> DEFINE ts == SubSeq(todo[c], 1, n)
           k(m) == Count(ts, m)
           q == pending[c]
<1>1. /\ todo \in [Callers -> Seq(Tracks)] /\ todo[c] \in Seq(Tracks)
      /\ synced \in [Callers -> Seq(Fingerprints)] /\ synced[c] \in Seq(Fingerprints)
      /\ pending \in [Callers -> [Matches -> Seq(Fingerprints)]]
      /\ q \in [Matches -> Seq(Fingerprints)]
      /\ copies \in [Playlists -> [Matches -> Nat]]
  BY DEF TypeInv, TypeOK
<1>2. ts \in Seq(Tracks) /\ Len(ts) = n
  BY <1>1, Prefix
<1>3. \A m \in Matches :
        /\ k(m) \in Nat /\ Count(todo[c], m) \in Nat
        /\ Count(SubSeq(todo[c], n + 1, Len(todo[c])), m) \in Nat
        /\ Count(SubSeq(todo[c], n + 1, Len(todo[c])), m) + k(m) <= Count(todo[c], m)
  BY <1>1, CountSplits, CountIsUpto
<1>4. \A m \in Matches : Count(todo[c], m) <= Len(q[m]) /\ q[m] \in Seq(Fingerprints) /\ Len(q[m]) \in Nat
  BY <1>1, LenProperties DEF TypeInv, Enough
<1>5. \A m \in Matches : k(m) \in 0..Len(q[m])
  <2> SUFFICES ASSUME NEW m \in Matches PROVE k(m) \in 0..Len(q[m])
    OBVIOUS
  <2> DEFINE r == Count(SubSeq(todo[c], n + 1, Len(todo[c])), m)
             a == Count(todo[c], m)
             l == Len(q[m])
  <2>1. r \in Nat /\ k(m) \in Nat /\ a \in Nat /\ l \in Nat /\ r + k(m) <= a /\ a <= l
    BY <1>3, <1>4
  <2> HIDE DEF r, a, l, k
  <2>2. k(m) \in 0..l
    BY <2>1
  <2> QED BY <2>2 DEF l
<1>6. Deliver(c, ts) /\ Record(c, ts) /\ todo' = [todo EXCEPT ![c] = SubSeq(@, n + 1, Len(@))]
  BY DEF Land
<1>7. copies' \in [Playlists -> [Matches -> Nat]]
  BY <1>1, <1>2, <1>6, DeliveredCopies
<1>8. /\ NewOnes(q, ts) \in Seq(Fingerprints) /\ Len(NewOnes(q, ts)) = n
  <2>1. \A m \in Matches : k(m) <= Len(q[m])
    BY <1>4, <1>5
  <2> HIDE DEF ts
  <2> QED BY <1>1, <1>2, <2>1, HeadsOfQueues
<1>9. synced' = [synced EXCEPT ![c] = synced[c] \o NewOnes(q, ts)]
  BY <1>6 DEF Record, NewOnes
<1>10. /\ synced[c] \o NewOnes(q, ts) \in Seq(Fingerprints)
       /\ Len(synced[c] \o NewOnes(q, ts)) = Len(synced[c]) + n
       /\ Range(synced[c] \o NewOnes(q, ts)) = Range(synced[c]) \cup Range(NewOnes(q, ts))
  <2> DEFINE a == synced[c]
             b == NewOnes(q, ts)
  <2>1. a \in Seq(Fingerprints) /\ b \in Seq(Fingerprints) /\ Len(b) = n
    BY <1>1, <1>8
  <2> HIDE DEF a, b
  <2>2. a \o b \in Seq(Fingerprints) /\ Len(a \o b) = Len(a) + Len(b)
    BY <2>1, ConcatProperties
  <2>3. Range(a \o b) = Range(a) \cup Range(b)
    BY <2>1, RangeConcatenation
  <2> QED BY <2>1, <2>2, <2>3 DEF a, b
<1>11. /\ synced' \in [Callers -> Seq(Fingerprints)]
       /\ synced'[c] = synced[c] \o NewOnes(q, ts)
       /\ \A d \in Callers \ {c} : synced'[d] = synced[d]
  <2> HIDE DEF ts, q
  <2> QED BY <1>1, <1>9, <1>10
<1>12. /\ todo' \in [Callers -> Seq(Tracks)]
       /\ todo'[c] = SubSeq(todo[c], n + 1, Len(todo[c]))
       /\ \A d \in Callers \ {c} : todo'[d] = todo[d]
  BY <1>1, <1>6, Suffix
<1>13. pending' = [pending EXCEPT ![c] = [m \in Matches |-> SubSeq(q[m], k(m) + 1, Len(q[m]))]]
  BY <1>6 DEF Record
<1>14. \A m \in Matches :
         /\ SubSeq(q[m], k(m) + 1, Len(q[m])) \in Seq(Fingerprints)
         /\ Len(SubSeq(q[m], k(m) + 1, Len(q[m]))) = Len(q[m]) - k(m)
         /\ \A i \in 1..Len(q[m]) - k(m) : SubSeq(q[m], k(m) + 1, Len(q[m]))[i] = q[m][k(m) + i]
  <2> HIDE DEF k, q
  <2> QED BY <1>4, <1>5, Suffix
<1>15. /\ pending' \in [Callers -> [Matches -> Seq(Fingerprints)]]
       /\ \A m \in Matches : pending'[c][m] = SubSeq(q[m], k(m) + 1, Len(q[m]))
       /\ \A d \in Callers \ {c} : pending'[d] = pending[d]
  <2> HIDE DEF k, q
  <2> QED BY <1>1, <1>13, <1>14
<1>16. \A m \in Matches :
         /\ Len(pending'[c][m]) = Len(q[m]) - k(m)
         /\ \A i \in 1..Len(pending'[c][m]) : pending'[c][m][i] = q[m][k(m) + i]
  <2> HIDE DEF k, q
  <2> QED BY <1>14, <1>15
<1>17. ASSUME NEW d \in Callers, NEW m \in Matches PROVE Count(todo'[d], m) <= Len(pending'[d][m])
  <2>1. CASE d = c
    <3> DEFINE r == Count(SubSeq(todo[c], n + 1, Len(todo[c])), m)
               a == Count(todo[c], m)
               l == Len(q[m])
    <3>1. /\ r \in Nat /\ k(m) \in Nat /\ a \in Nat /\ l \in Nat /\ r + k(m) <= a /\ a <= l
          /\ Count(todo'[c], m) = r /\ Len(pending'[c][m]) = l - k(m)
      BY <1>3, <1>4, <1>12, <1>16
    <3> HIDE DEF r, a, l, k
    <3>2. r <= l - k(m)
      BY <3>1
    <3> QED BY <2>1, <3>1, <3>2
  <2>2. CASE d # c
    BY <1>12, <1>15, <2>2 DEF TypeInv, Enough
  <2> QED BY <2>1, <2>2
<1>18. Enough'
  BY <1>17 DEF Enough
<1> HIDE DEF k
<1> QED BY <1>2, <1>5, <1>6, <1>7, <1>10, <1>11, <1>12, <1>15, <1>16, <1>18 DEF k

\* The row's counts are those of the list a caller writes.
LEMMA SkippedInRange ==
  ASSUME NEW n \in Nat
  PROVE  (IF n < T THEN T - n ELSE 0) \in 0..T
  BY TracksAssumption

\* How many tracks a caller may take off the front of what it has to do.
LEMMA Portions ==
  ASSUME TypeInv, NEW c \in Callers
  PROVE  /\ Len(todo[c]) \in 0..Len(todo[c])
         /\ ChunkLen(c) \in 0..Len(todo[c]) /\ ChunkLen(c) \in 0..ChunkSize
         /\ todo[c] # <<>> => 1 \in 0..Len(todo[c])
<1>1. todo[c] \in Seq(Tracks)
  BY DEF TypeInv, TypeOK
<1>2. Len(todo[c]) \in Nat /\ (todo[c] # <<>> => Len(todo[c]) # 0)
  BY <1>1, LenProperties, EmptySeq
<1>3. ChunkSize \in Nat
  BY SizesAssumption
<1> QED BY <1>2, <1>3 DEF ChunkLen

\* A request whose answer is lost has added source tracks.
LEMMA LostTracks ==
  ASSUME TypeInv, NEW c \in Callers, LoseAnswer(c)
  PROVE  /\ \E ts \in Seq(Tracks) : Deliver(c, ts)
         /\ pc' = pc \/ Goto(c, "end")
<1>1. todo[c] \in Seq(Tracks) /\ todo[c] # <<>>
  BY DEF TypeInv, TypeOK, LoseAnswer
<1>2. /\ SubSeq(todo[c], 1, 1) \in Seq(Tracks)
      /\ SubSeq(todo[c], 1, ChunkLen(c)) \in Seq(Tracks)
      /\ <<Head(todo[c])>> \in Seq(Tracks)
  BY <1>1, Portions, Prefix, HeadTailProperties
<1>3. CASE provider = "youtube"
  BY <1>2, <1>3 DEF LoseAnswer
<1>4. CASE provider = "tidal"
  BY <1>1, <1>4 DEF LoseAnswer
<1>5. CASE provider = "chunked"
  BY <1>2, <1>5 DEF LoseAnswer
<1> QED BY <1>3, <1>4, <1>5, ProvidersAssumption DEF TypeInv, TypeOK

\* A track is left out.
LEMMA Dropped ==
  ASSUME TypeInv, NEW c \in Callers, todo[c] # <<>>, Drop(c), pending' = pending
  PROVE  /\ todo' \in [Callers -> Seq(Tracks)] /\ Enough'
         /\ todo'[c] = Tail(todo[c]) /\ \A d \in Callers \ {c} : todo'[d] = todo[d]
<1>1. todo \in [Callers -> Seq(Tracks)] /\ todo[c] \in Seq(Tracks)
      /\ pending \in [Callers -> [Matches -> Seq(Fingerprints)]]
  BY DEF TypeInv, TypeOK
<1>2. Tail(todo[c]) = SubSeq(todo[c], 2, Len(todo[c])) /\ Tail(todo[c]) \in Seq(Tracks)
  BY <1>1, TailIsSubSeq, HeadTailProperties
<1>3. todo' = [todo EXCEPT ![c] = Tail(todo[c])]
  BY DEF Drop
<1>4. /\ todo' \in [Callers -> Seq(Tracks)]
      /\ todo'[c] = Tail(todo[c]) /\ \A d \in Callers \ {c} : todo'[d] = todo[d]
  BY <1>1, <1>2, <1>3
<1>5. ASSUME NEW d \in Callers, NEW m \in Matches PROVE Count(todo'[d], m) <= Len(pending'[d][m])
  <2>1. CASE d = c
    <3>1. 1 \in 0..Len(todo[c]) /\ 1 + 1 = 2
      BY Portions
    <3>2. /\ Count(SubSeq(todo[c], 1, 1), m) \in Nat
          /\ Count(SubSeq(todo[c], 1 + 1, Len(todo[c])), m) \in Nat
          /\ Count(SubSeq(todo[c], 1 + 1, Len(todo[c])), m) + Count(SubSeq(todo[c], 1, 1), m)
               <= Count(todo[c], m)
      BY <1>1, <3>1, CountSplits
    <3>3. Count(todo[c], m) <= Len(pending[c][m]) /\ Len(pending[c][m]) \in Nat
          /\ Count(todo[c], m) \in Nat
      BY <1>1, CountIsUpto, LenProperties DEF TypeInv, Enough
    <3> DEFINE r == Count(Tail(todo[c]), m)
               f == Count(SubSeq(todo[c], 1, 1), m)
               a == Count(todo[c], m)
               l == Len(pending[c][m])
    <3>4. r + f <= a /\ a <= l /\ r \in Nat /\ f \in Nat /\ a \in Nat /\ l \in Nat
      BY <1>2, <3>1, <3>2, <3>3
    <3> HIDE DEF r, f, a, l
    <3>5. r <= l
      BY <3>4
    <3>6. Count(todo'[d], m) = r /\ Len(pending'[d][m]) = l
      BY <1>4, <2>1 DEF r, l
    <3> QED BY <3>5, <3>6
  <2>2. CASE d # c
    BY <1>4, <2>2 DEF TypeInv, Enough
  <2> QED BY <2>1, <2>2
<1> QED BY <1>4, <1>5 DEF Enough

\* What a call begins with after reading the row.
LEMMA ReadTypes ==
  ASSUME TypeInv, NEW c \in Callers, ReadImport(c)
  PROVE  /\ synced' \in [Callers -> Seq(Fingerprints)]
         /\ synced'[c] = Distinct(ledger)
         /\ todo' \in [Callers -> Seq(Tracks)]
         /\ todo'[c] = InOrder(Missing(c, Distinct(ledger)))
         /\ pending' \in [Callers -> [Matches -> Seq(Fingerprints)]]
         /\ pending'[c] = FpQueues(InOrder(Missing(c, Distinct(ledger))))
         /\ \A d \in Callers \ {c} :
              synced'[d] = synced[d] /\ todo'[d] = todo[d] /\ pending'[d] = pending[d]
         /\ Enough'
<1> DEFINE known == Distinct(ledger)
           work == InOrder(Missing(c, known))
<1>1. /\ todo \in [Callers -> Seq(Tracks)] /\ synced \in [Callers -> Seq(Fingerprints)]
      /\ pending \in [Callers -> [Matches -> Seq(Fingerprints)]]
      /\ ledger \in Seq(Fingerprints) /\ found[c] \in SUBSET Tracks
  BY DEF TypeInv, TypeOK
<1>2. known \in Seq(Fingerprints)
  BY <1>1, DistinctSaysTheSame
<1>3. Missing(c, known) \in SUBSET Tracks
  BY <1>1 DEF Missing
<1>4. work \in Seq(Tracks)
  BY <1>3, WorkIsTracks
<1>5. FpQueues(work) \in [Matches -> Seq(Fingerprints)]
  BY <1>4, QueuesAreSequences
<1>6. /\ synced' = [synced EXCEPT ![c] = known] /\ todo' = [todo EXCEPT ![c] = work]
      /\ pending' = [pending EXCEPT ![c] = FpQueues(work)]
  BY DEF ReadImport
<1> HIDE DEF known, work
<1>7. /\ synced' \in [Callers -> Seq(Fingerprints)] /\ synced'[c] = known
      /\ todo' \in [Callers -> Seq(Tracks)] /\ todo'[c] = work
      /\ pending' \in [Callers -> [Matches -> Seq(Fingerprints)]] /\ pending'[c] = FpQueues(work)
      /\ \A d \in Callers \ {c} :
           synced'[d] = synced[d] /\ todo'[d] = todo[d] /\ pending'[d] = pending[d]
  BY <1>1, <1>2, <1>4, <1>5, <1>6
<1>8. ASSUME NEW d \in Callers, NEW m \in Matches PROVE Count(todo'[d], m) <= Len(pending'[d][m])
  <2>1. CASE d = c
    <3>1. Len(FpQueues(work)[m]) = Count(work, m) /\ Count(work, m) \in Nat
      BY <1>4, QueueOfEach, CountIsUpto
    <3> QED BY <1>7, <2>1, <3>1
  <2>2. CASE d # c
    BY <1>7, <2>2 DEF TypeInv, Enough
  <2> QED BY <2>1, <2>2
<1> QED BY <1>7, <1>8 DEF Enough, known, work

LEMMA ForgetTypes ==
  ASSUME TypeInv, NEW c \in Callers, Forget(c)
  PROVE  /\ pc' \in [Callers -> Labels] /\ found' \in [Callers -> SUBSET Tracks]
         /\ target' \in [Callers -> 0..made] /\ synced' \in [Callers -> Seq(Fingerprints)]
         /\ todo' \in [Callers -> Seq(Tracks)]
         /\ pending' \in [Callers -> [Matches -> Seq(Fingerprints)]]
         /\ singles' \in [Callers -> 0..ChunkSize]
         /\ Enough'
<1>1. <<>> \in Seq(Fingerprints) /\ <<>> \in Seq(Tracks)
  BY EmptySeq
<1>2. NoPending \in [Matches -> Seq(Fingerprints)]
  BY <1>1 DEF NoPending
<1>3. 0 \in 0..made /\ 0 \in 0..ChunkSize
  BY SizesAssumption DEF TypeInv, TypeOK
<1>4. /\ pc' \in [Callers -> Labels] /\ found' \in [Callers -> SUBSET Tracks]
      /\ target' \in [Callers -> 0..made] /\ synced' \in [Callers -> Seq(Fingerprints)]
      /\ todo' \in [Callers -> Seq(Tracks)]
      /\ pending' \in [Callers -> [Matches -> Seq(Fingerprints)]]
      /\ singles' \in [Callers -> 0..ChunkSize]
  BY <1>1, <1>2, <1>3 DEF Forget, Goto, TypeInv, TypeOK, Labels
<1>5. ASSUME NEW d \in Callers, NEW m \in Matches PROVE Count(todo'[d], m) <= Len(pending'[d][m])
  <2>1. CASE d = c
    <3>1. todo'[d] = <<>> /\ pending'[d][m] = <<>>
      BY <2>1 DEF Forget, TypeInv, TypeOK, NoPending
    <3> QED BY <3>1, NothingCounts, EmptySeq
  <2>2. CASE d # c
    BY <2>2 DEF Forget, TypeInv, TypeOK, Enough
  <2> QED BY <2>1, <2>2
<1> QED BY <1>4, <1>5 DEF Enough

LEMMA StepsKeepTypes ==
  ASSUME TypeInv, NEW c \in Callers, Begin(c) \/ Step(c) \/ Crash(c) \/ LoseAnswer(c)
  PROVE  TypeInv'
<1> USE SizesAssumption
<1>1. \A l \in Labels : [pc EXCEPT ![c] = l] \in [Callers -> Labels]
  BY DEF TypeInv, TypeOK
<1>2. TypeOK /\ Enough
  BY DEF TypeInv
<1>3. CASE Begin(c)
  <2>1. TypeOK'
    BY <1>1, <1>2, <1>3 DEF Begin, TypeOK, Goto, Labels, provVars, rowVars
  <2>2. Enough'
    BY <1>2, <1>3 DEF Begin, Enough
  <2> QED BY <2>1, <2>2 DEF TypeInv
<1>4. CASE ReadImport(c)
  <2>1. target' \in [Callers -> 0..made] /\ pc' \in [Callers -> Labels]
    BY <1>1, <1>2, <1>4 DEF ReadImport, TypeOK, Goto, Labels
  <2> QED BY <1>2, <1>4, <2>1, ReadTypes DEF ReadImport, TypeInv, TypeOK, provVars, rowVars, faults, history
<1>5. CASE CreatePlaylist(c)
  <2>1. /\ made' \in 0..MaxPlaylists /\ target' \in [Callers -> 0..made'] /\ rowPlaylist' \in 0..made'
        /\ pc' \in [Callers -> Labels]
    <3>1. CASE made' = made + 1 /\ made < MaxPlaylists /\ target' = [target EXCEPT ![c] = made + 1]
               /\ Goto(c, "persist")
      <4>1. \A x : x \in 0..made => x \in 0..made'
        BY <1>2, <3>1 DEF TypeOK
      <4>2. made' \in 0..MaxPlaylists /\ made + 1 \in 0..made'
        BY <1>2, <3>1 DEF TypeOK
      <4>3. target' \in [Callers -> 0..made']
        BY <1>2, <3>1, <4>1, <4>2 DEF TypeOK
      <4> QED BY <1>1, <1>2, <1>5, <3>1, <4>1, <4>2, <4>3 DEF CreatePlaylist, TypeOK, Goto, Labels, rowVars
    <3>2. CASE UNCHANGED <<made, target>> /\ Goto(c, "end")
      BY <1>1, <1>2, <1>5, <3>2 DEF CreatePlaylist, TypeOK, Goto, Labels, rowVars
    <3> QED BY <1>5, <3>1, <3>2 DEF CreatePlaylist
  <2> QED BY <1>2, <1>5, <2>1 DEF CreatePlaylist, TypeInv, TypeOK, Enough, rowVars, faults, history
<1>6. CASE PersistPlaylist(c)
  <2>1. 0 \in 0..T /\ pc' \in [Callers -> Labels]
    BY <1>1, <1>6, TracksAssumption DEF PersistPlaylist, Goto, Labels
  <2> QED BY <1>2, <1>6, <2>1 DEF PersistPlaylist, TypeInv, TypeOK, Enough, provVars, callVars
<1>7. ASSUME NEW n \in 0..Len(todo[c]), Land(c, n), pc' \in [Callers -> Labels],
             singles' \in [Callers -> 0..ChunkSize],
             UNCHANGED <<provider, made, rowVars, found, target, calls, faults>>
      PROVE  TypeInv'
  BY <1>2, <1>7, Landed DEF TypeInv, TypeOK, rowVars, faults, history
<1>8. ASSUME todo[c] # <<>>, Drop(c), pc' \in [Callers -> Labels],
             singles' \in [Callers -> 0..ChunkSize],
             UNCHANGED <<provider, made, rowVars, found, target, calls, faults, copies, synced, pending>>
      PROVE  TypeInv'
  BY <1>2, <1>8, Dropped DEF TypeInv, TypeOK, rowVars, faults, history
<1>9. ASSUME pc' \in [Callers -> Labels], singles' \in [Callers -> 0..ChunkSize],
             UNCHANGED <<provider, made, rowVars, found, target, calls, faults, copies, synced,
                         pending, todo>>
      PROVE  TypeInv'
  BY <1>2, <1>9 DEF TypeInv, TypeOK, Enough, rowVars, faults, history
<1>10. pc \in [Callers -> Labels] /\ singles \in [Callers -> 0..ChunkSize]
  BY <1>2 DEF TypeOK
<1>11. CASE InsertVideo(c)
  BY <1>1, <1>7, <1>8, <1>9, <1>10, <1>11, Portions DEF InsertVideo, Adding, Goto, Labels
<1>12. CASE PostTidal(c)
  BY <1>1, <1>7, <1>9, <1>10, <1>12, Portions DEF PostTidal, Goto, Labels
<1>13. CASE PostChunk(c)
  <2>1. [singles EXCEPT ![c] = ChunkLen(c)] \in [Callers -> 0..ChunkSize]
    BY <1>10, Portions
  <2> QED BY <1>7, <1>9, <1>10, <1>13, <2>1, Portions DEF PostChunk
<1>14. CASE PostSingle(c)
  <2>1. [singles EXCEPT ![c] = @ - 1] \in [Callers -> 0..ChunkSize]
    BY <1>10, <1>14 DEF PostSingle
  <2> QED BY <1>7, <1>8, <1>10, <1>14, <2>1, Portions DEF PostSingle, Adding
<1>15. CASE Checkpoint(c) \/ Finish(c)
  <2>1. /\ ledger' \in Seq(Fingerprints) /\ matched' \in Nat /\ skipped' \in 0..T
        /\ rowPlaylist' \in 0..made /\ rowStatus' \in {"none", "pending", "completed"}
    BY <1>2, <1>15, SkippedInRange, LenProperties DEF Checkpoint, Finish, TypeOK
  <2>2. pc' \in [Callers -> Labels]
    BY <1>1, <1>15 DEF Checkpoint, Finish, Goto, Labels
  <2>3. UNCHANGED <<provVars, callVars, calls, faults>>
    BY <1>15 DEF Checkpoint, Finish
  <2> QED BY <1>2, <2>1, <2>2, <2>3 DEF TypeInv, TypeOK, Enough, provVars, callVars, faults, history
<1>16. CASE End(c) \/ Crash(c)
  <2>1. Forget(c) /\ crashes' \in 0..MaxCrashes /\ UNCHANGED <<provVars, rowVars, calls, lost, history>>
    BY <1>2, <1>16 DEF End, Crash, TypeOK, faults
  <2> QED BY <1>2, <2>1, ForgetTypes DEF TypeInv, TypeOK, provVars, rowVars, history
<1>17. CASE LoseAnswer(c)
  <2>1. copies' \in [Playlists -> [Matches -> Nat]]
    <3>1. PICK ts \in Seq(Tracks) : Deliver(c, ts)
      BY <1>17, LostTracks
    <3> QED BY <1>2, <3>1, DeliveredCopies DEF TypeOK
  <2>2. pc' \in [Callers -> Labels]
    BY <1>1, <1>10, <1>17, LostTracks DEF Goto, Labels
  <2>3. lost' \in 0..MaxLost
    <3>1. lost < MaxLost /\ lost' = lost + 1
      BY <1>17 DEF LoseAnswer
    <3> QED BY <1>2, <3>1 DEF TypeOK
  <2> QED BY <1>2, <1>17, <2>1, <2>2, <2>3 DEF LoseAnswer, TypeInv, TypeOK, Enough, rowVars, callVars, history
<1> QED BY <1>3, <1>4, <1>5, <1>6, <1>11, <1>12, <1>13, <1>14, <1>15, <1>16, <1>17 DEF Step

-----------------------------------------------------------------------------
(* What the ledger claims *)

\* A ledger belongs to the row's playlist, which never changes, and a caller
\* adds to that playlist; neither lists more than the playlist received.
Earned ==
  /\ rowPlaylist = 0 => ledger = <<>>
  /\ rowPlaylist # 0 => Len(ledger) <= Held(rowPlaylist)
  /\ \A c \in Callers : pc[c] \in {"create", "persist"} => synced[c] = <<>>
  /\ \A c \in Callers : pc[c] = "persist" => target[c] # 0
  /\ \A c \in Callers : pc[c] \in {"add", "checkpoint"} =>
       /\ target[c] # 0 /\ target[c] = rowPlaylist
       /\ Len(synced[c]) <= Held(rowPlaylist)

EarnedInv == ~replaced => Earned

\* What a playlist holds is a number.
LEMMA HeldIsNumber ==
  ASSUME NEW g \in [Playlists -> [Matches -> Nat]], NEW p \in Playlists
  PROVE  SumFunction(g[p]) \in Nat /\ SumFunction(g[p]) = SumFunctionOnSet(g[p], Matches)
<1>1. g[p] \in [Matches -> Nat] /\ DOMAIN g[p] = Matches
  OBVIOUS
<1> QED BY <1>1, MatchesAreFinite, SumType DEF SumFunction

\* What is delivered is held.
LEMMA DeliveredIsHeld ==
  ASSUME TypeInv, TypeInv', NEW c \in Callers, NEW ts \in Seq(Tracks), Deliver(c, ts),
         NEW p \in Playlists
  PROVE  /\ Held(p) \in Nat /\ Held(p)' \in Nat
         /\ Held(p)' = IF p = target[c] THEN Held(p) + Len(ts) ELSE Held(p)
<1>1. copies[p] \in [Matches -> Nat] /\ DOMAIN copies[p] = Matches
  BY DEF TypeInv, TypeOK
<1>2. copies'[p] \in [Matches -> Nat] /\ DOMAIN copies'[p] = Matches
  BY DEF TypeInv, TypeOK
<1>3. /\ Held(p) = SumFunctionOnSet(copies[p], Matches)
      /\ Held(p)' = SumFunctionOnSet(copies'[p], Matches)
  BY <1>1, <1>2 DEF Held, SumFunction
<1>4. \A m \in Matches : copies'[p][m] = IF p = target[c] THEN copies[p][m] + Count(ts, m)
                                         ELSE copies[p][m]
  BY DeliveredCopies DEF TypeInv, TypeOK
<1>5. Held(p) \in Nat /\ Held(p)' \in Nat
  BY <1>1, <1>2, <1>3, MatchesAreFinite, SumType
<1>6. CASE p # target[c]
  <2>1. \A m \in Matches : copies'[p][m] = copies[p][m]
    BY <1>4, <1>6
  <2> QED BY <1>3, <1>5, <1>6, <2>1, MatchesAreFinite, SumAgrees
<1>7. CASE p = target[c]
  <2> DEFINE n == [m \in Matches |-> Count(ts, m)]
  <2>1. \A m \in Matches : copies[p][m] \in Nat /\ n[m] \in Nat /\ copies'[p][m] = copies[p][m] + n[m]
    BY <1>1, <1>4, <1>7, CountIsUpto
  <2>2. SumFunctionOnSet(n, Matches) = Len(ts)
    BY CountsAddUp
  <2> HIDE DEF n
  <2>3. SumFunctionOnSet(copies'[p], Matches)
          = SumFunctionOnSet(copies[p], Matches) + SumFunctionOnSet(n, Matches)
    BY <2>1, MatchesAreFinite, SumOfSums
  <2> QED BY <1>3, <1>5, <1>7, <2>2, <2>3
<1> QED BY <1>5, <1>6, <1>7

LEMMA StartsEarned == Init => EarnedInv
  BY DEF Init, EarnedInv, Earned

\* One caller moves; the row keeps its playlist, the playlist what it has.
LEMMA OneEarns ==
  ASSUME TypeInv, TypeInv', Earned, NEW c \in Callers,
         \A d \in Callers \ {c} : pc'[d] = pc[d] /\ synced'[d] = synced[d] /\ target'[d] = target[d],
         rowPlaylist' = rowPlaylist, ledger' = ledger,
         rowPlaylist # 0 => Held(rowPlaylist) <= Held(rowPlaylist)',
         pc'[c] \in {"create", "persist"} => synced'[c] = <<>>,
         pc'[c] = "persist" => target'[c] # 0,
         pc'[c] \in {"add", "checkpoint"} =>
           /\ target'[c] # 0 /\ target'[c] = rowPlaylist
           /\ Len(synced'[c]) <= Held(rowPlaylist)'
  PROVE  Earned'
<1>1. /\ \A d \in Callers : Len(synced[d]) \in Nat
      /\ Len(ledger) \in Nat
  BY LenProperties DEF TypeInv, TypeOK
<1>2. rowPlaylist # 0 => rowPlaylist \in Playlists
  BY SizesAssumption DEF TypeInv, TypeOK, Playlists
<1> DEFINE h == Held(rowPlaylist)
           k == Held(rowPlaylist)'
<1>3. rowPlaylist # 0 => h \in Nat /\ k \in Nat /\ h <= k
  <2>1. \A p \in Playlists : SumFunction(copies[p]) \in Nat
    BY HeldIsNumber DEF TypeInv, TypeOK
  <2>2. \A p \in Playlists : SumFunction(copies'[p]) \in Nat
    BY HeldIsNumber DEF TypeInv, TypeOK
  <2> QED BY <1>2, <2>1, <2>2 DEF Held
<1> HIDE DEF h, k
<1>4. rowPlaylist # 0 => Len(ledger) <= k
  BY <1>1, <1>3 DEF Earned, h
<1>5. ASSUME NEW d \in Callers, d # c, pc[d] \in {"add", "checkpoint"} PROVE Len(synced[d]) <= k
  BY <1>1, <1>3, <1>5 DEF Earned, h
<1>6. ASSUME NEW d \in Callers, pc'[d] \in {"add", "checkpoint"}
      PROVE  /\ target'[d] # 0 /\ target'[d] = rowPlaylist'
             /\ Len(synced'[d]) <= k
  <2>1. CASE d = c
    BY <1>6, <2>1 DEF k
  <2>2. CASE d # c
    BY <1>5, <1>6, <2>2 DEF Earned
  <2> QED BY <2>1, <2>2
<1> QED BY <1>4, <1>6 DEF Earned, k

LEMMA LongEnough ==
  ASSUME NEW a \in Nat, NEW h \in Nat, NEW n \in Nat, a <= h
  PROVE  a + n <= h + n /\ h <= h + n /\ a <= h + n
  OBVIOUS

LEMMA StepsKeepEarned ==
  ASSUME TypeInv, TypeInv', EarnedInv, ~replaced', NEW c \in Callers,
         Begin(c) \/ Step(c) \/ Crash(c) \/ LoseAnswer(c)
  PROVE  Earned'
<1>1. ~replaced
  BY DEF Begin, Step, Crash, LoseAnswer, ReadImport, CreatePlaylist, PersistPlaylist, InsertVideo,
     Checkpoint, PostTidal, PostChunk, PostSingle, Finish, End, faults, history
<1>2. Earned
  BY <1>1 DEF EarnedInv
<1>3. /\ pc \in [Callers -> Labels] /\ target \in [Callers -> 0..made]
      /\ synced \in [Callers -> Seq(Fingerprints)] /\ ledger \in Seq(Fingerprints)
      /\ rowPlaylist \in 0..made /\ made \in 0..MaxPlaylists
  BY DEF TypeInv, TypeOK
<1>4. rowPlaylist # 0 => rowPlaylist \in Playlists
  BY <1>3, SizesAssumption DEF Playlists
<1>5. rowPlaylist # 0 => Held(rowPlaylist) \in Nat /\ Held(rowPlaylist)' \in Nat
  <2>1. \A p \in Playlists : SumFunction(copies[p]) \in Nat
    BY HeldIsNumber DEF TypeInv, TypeOK
  <2>2. \A p \in Playlists : SumFunction(copies'[p]) \in Nat
    BY HeldIsNumber DEF TypeInv, TypeOK
  <2>3. \A p \in 0..made' : p # 0 => p \in Playlists
    BY SizesAssumption DEF Playlists, TypeInv, TypeOK
  <2>4. ASSUME rowPlaylist # 0 PROVE rowPlaylist' # 0
    <3>1. ASSUME Checkpoint(c) \/ Finish(c) PROVE rowPlaylist' = rowPlaylist
      BY <1>2, <3>1 DEF Checkpoint, Finish, Earned
    <3>2. ~PersistPlaylist(c)
      BY <2>4 DEF PersistPlaylist
    <3> QED BY <2>4, <3>1, <3>2 DEF Begin, Step, Crash, LoseAnswer, ReadImport, CreatePlaylist, InsertVideo,
        PostTidal, PostChunk, PostSingle, End, rowVars
  <2> QED BY <1>4, <2>1, <2>2, <2>3, <2>4 DEF Held, TypeInv, TypeOK
<1>6. ASSUME UNCHANGED <<copies, rowPlaylist>> PROVE Held(rowPlaylist)' = Held(rowPlaylist)
  BY <1>6 DEF Held
<1>7. \A d \in Callers : Len(synced[d]) \in Nat
  BY <1>3, LenProperties
<1>8. CASE Begin(c)
  <2>1. pc'[c] = "read" /\ \A d \in Callers \ {c} : pc'[d] = pc[d]
    BY <1>3, <1>8 DEF Begin, Goto
  <2> QED BY <1>2, <1>5, <1>6, <1>8, <2>1, OneEarns DEF Begin, provVars, rowVars
<1>9. CASE ReadImport(c)
  <2>1. /\ pc'[c] = (IF rowPlaylist = 0 THEN "create" ELSE "add")
        /\ \A d \in Callers \ {c} : pc'[d] = pc[d]
        /\ target'[c] = rowPlaylist /\ \A d \in Callers \ {c} : target'[d] = target[d]
        /\ rowPlaylist' = rowPlaylist /\ ledger' = ledger /\ copies' = copies
    BY <1>3, <1>9 DEF ReadImport, Goto, rowVars, provVars
  <2>2. /\ synced'[c] = Distinct(ledger) /\ \A d \in Callers \ {c} : synced'[d] = synced[d]
        /\ Len(Distinct(ledger)) <= Len(ledger) /\ Distinct(ledger) \in Seq(Fingerprints)
        /\ Len(Distinct(ledger)) \in Nat
    BY <1>3, <1>9, ReadTypes, DistinctSaysTheSame
  <2>3. rowPlaylist = 0 => Distinct(ledger) = <<>>
    BY <1>2, <2>2, EmptySeq DEF Earned
  <2>4. rowPlaylist # 0 => Len(Distinct(ledger)) <= Held(rowPlaylist)
    <3>1. Len(ledger) \in Nat
      BY <1>3, LenProperties
    <3> QED BY <1>2, <1>5, <2>2, <3>1 DEF Earned
  <2> QED BY <1>2, <1>5, <1>6, <2>1, <2>2, <2>3, <2>4, OneEarns
<1>10. CASE CreatePlaylist(c)
  <2>1. /\ pc'[c] \in {"persist", "end"} /\ \A d \in Callers \ {c} : pc'[d] = pc[d]
        /\ \A d \in Callers \ {c} : target'[d] = target[d]
        /\ synced' = synced /\ synced[c] = <<>>
        /\ rowPlaylist' = rowPlaylist /\ ledger' = ledger /\ copies' = copies
    BY <1>2, <1>3, <1>10 DEF CreatePlaylist, Goto, rowVars, Earned
  <2>2. pc'[c] = "persist" => target'[c] # 0
    BY <1>3, <1>10 DEF CreatePlaylist, Goto
  <2> QED BY <1>2, <1>5, <1>6, <2>1, <2>2, OneEarns
<1>11. CASE PersistPlaylist(c)
  <2>1. /\ rowPlaylist = 0 /\ rowPlaylist' = target[c] /\ target[c] # 0 /\ target' = target
        /\ synced' = synced /\ synced[c] = <<>> /\ ledger' = ledger /\ ledger = <<>>
        /\ pc'[c] = "add" /\ \A d \in Callers \ {c} : pc'[d] = pc[d]
    BY <1>2, <1>3, <1>11 DEF PersistPlaylist, Goto, callVars, Earned
  <2>2. \A d \in Callers : pc[d] \notin {"add", "checkpoint"}
    BY <1>2, <2>1 DEF Earned
  <2>3. Held(rowPlaylist)' \in Nat
    <3>1. target[c] \in Playlists
      BY <1>3, <2>1, SizesAssumption DEF Playlists
    <3>2. copies' \in [Playlists -> [Matches -> Nat]]
      BY DEF TypeInv, TypeOK
    <3> QED BY <2>1, <3>1, <3>2, HeldIsNumber DEF Held
  <2>4. Len(<<>>) <= Held(rowPlaylist)'
    BY <2>3, EmptySeq
  <2>5. \A d \in Callers \ {c} : pc'[d] \notin {"add", "checkpoint"}
    BY <2>1, <2>2
  <2>6. \A d \in Callers : pc'[d] \in {"create", "persist"} => d # c /\ pc[d] \in {"create", "persist"}
    BY <2>1
  <2>7. \A d \in Callers : pc'[d] = "persist" => d # c /\ pc[d] = "persist"
    BY <2>1
  <2> QED BY <1>2, <2>1, <2>4, <2>5, <2>6, <2>7 DEF Earned
\* A delivery to the row's playlist, recorded or not.
<1>12. ASSUME pc[c] = "add", NEW ts \in Seq(Tracks), Deliver(c, ts),
              \A d \in Callers \ {c} : pc'[d] = pc[d] /\ synced'[d] = synced[d],
              rowPlaylist' = rowPlaylist, ledger' = ledger, target' = target,
              pc'[c] \in {"add", "checkpoint", "end"},
              Len(synced'[c]) = Len(synced[c]) \/ Len(synced'[c]) = Len(synced[c]) + Len(ts)
       PROVE  Earned'
  <2>1. /\ target[c] = rowPlaylist /\ rowPlaylist # 0 /\ rowPlaylist \in Playlists
        /\ Len(synced[c]) <= Held(rowPlaylist)
    BY <1>2, <1>4, <1>12 DEF Earned
  <2>2. Held(rowPlaylist)' = Held(rowPlaylist) + Len(ts)
    <3>1. \A p \in Playlists : SumFunction(copies'[p]) = IF p = target[c] THEN Held(p) + Len(ts) ELSE Held(p)
      BY <1>12, DeliveredIsHeld DEF Held
    <3> QED BY <1>12, <2>1, <3>1 DEF Held
  <2>3. Len(ts) \in Nat
    BY LenProperties
  <2>4. Held(rowPlaylist) <= Held(rowPlaylist)' /\ Len(synced'[c]) <= Held(rowPlaylist)'
    BY <1>5, <1>7, <1>12, <2>1, <2>2, <2>3, LongEnough
  <2> QED BY <1>2, <1>12, <2>1, <2>4, OneEarns
<1>13. ASSUME pc[c] = "add", NEW n \in 0..Len(todo[c]), Land(c, n), pc' = pc,
              rowPlaylist' = rowPlaylist, ledger' = ledger, target' = target
       PROVE  Earned'
  <2> DEFINE ts == SubSeq(todo[c], 1, n)
  <2>1. Len(ts) = n
    BY <1>13, Prefix DEF TypeInv, TypeOK
  <2>2. /\ ts \in Seq(Tracks) /\ Deliver(c, ts)
        /\ \A d \in Callers \ {c} : synced'[d] = synced[d]
        /\ Len(synced'[c]) = Len(synced[c]) + n
    BY <1>13, Landed
  <2> HIDE DEF ts
  <2> QED BY <1>12, <1>13, <2>1, <2>2
<1>14. ASSUME pc[c] = "add", pc' = pc \/ Goto(c, "checkpoint") \/ Goto(c, "end"),
              UNCHANGED <<copies, rowPlaylist, ledger, target, synced>>
       PROVE  Earned'
  <2>1. pc'[c] \in {"add", "checkpoint", "end"} /\ \A d \in Callers \ {c} : pc'[d] = pc[d]
    BY <1>3, <1>14 DEF Goto
  <2>2. target[c] # 0 /\ target[c] = rowPlaylist /\ Len(synced[c]) <= Held(rowPlaylist)
    BY <1>2, <1>14 DEF Earned
  <2> QED BY <1>2, <1>5, <1>6, <1>14, <2>1, <2>2, OneEarns
<1>15. CASE InsertVideo(c)
  BY <1>13, <1>14, <1>15, Portions DEF InsertVideo, Adding, rowVars
<1>16. CASE PostTidal(c)
  BY <1>13, <1>14, <1>16, Portions DEF PostTidal, Adding, rowVars
<1>17. CASE PostChunk(c)
  BY <1>13, <1>14, <1>17, Portions DEF PostChunk, Adding, rowVars
<1>18. CASE PostSingle(c)
  BY <1>13, <1>14, <1>18, Portions DEF PostSingle, Adding, rowVars
<1>19. CASE Checkpoint(c) \/ Finish(c)
  <2>1. /\ target[c] = rowPlaylist /\ rowPlaylist # 0 /\ Len(synced[c]) <= Held(rowPlaylist)
        /\ rowPlaylist' = rowPlaylist /\ ledger' = synced[c]
        /\ UNCHANGED <<copies, target, synced>>
        /\ pc'[c] = "end" /\ \A d \in Callers \ {c} : pc'[d] = pc[d]
    BY <1>2, <1>3, <1>19 DEF Checkpoint, Finish, Earned, Goto, callVars, provVars
  <2>2. Held(rowPlaylist)' = Held(rowPlaylist)
    BY <2>1 DEF Held
  <2> QED BY <1>2, <2>1, <2>2 DEF Earned
<1>20. CASE End(c) \/ Crash(c)
  <2>1. /\ pc'[c] = "idle" /\ UNCHANGED <<copies, rowPlaylist, ledger>>
        /\ \A d \in Callers \ {c} : pc'[d] = pc[d] /\ synced'[d] = synced[d] /\ target'[d] = target[d]
    BY <1>3, <1>20 DEF End, Crash, Forget, Goto, provVars, rowVars
  <2> QED BY <1>2, <1>5, <1>6, <2>1, OneEarns
<1>21. CASE LoseAnswer(c)
  <2>1. PICK ts \in Seq(Tracks) : Deliver(c, ts)
    BY <1>21, LostTracks
  <2>2. pc' = pc \/ Goto(c, "end")
    BY <1>21, LostTracks
  <2>3. pc[c] = "add" /\ UNCHANGED <<rowVars, callVars>>
    BY <1>21 DEF LoseAnswer
  <2>4. pc'[c] \in {"add", "checkpoint", "end"} /\ \A d \in Callers \ {c} : pc'[d] = pc[d]
    BY <1>3, <2>2, <2>3 DEF Goto
  <2> QED BY <1>12, <2>1, <2>3, <2>4 DEF rowVars, callVars
<1> QED BY <1>8, <1>9, <1>10, <1>11, <1>15, <1>16, <1>17, <1>18, <1>19, <1>20, <1>21 DEF Step

-----------------------------------------------------------------------------
(* Calls that do not overlap *)

\* The variables the proof is about are functions of what they say.
Shape ==
  /\ provider \in {"youtube", "tidal", "chunked"}
  /\ pc \in [Callers -> Labels]
  /\ target = [c \in Callers |-> target[c]]
  /\ copies = [p \in Playlists |-> copies[p]]

AtWork(c) == pc[c] # "idle"

\* A caller that has no overlapping one beside it works on the row's playlist,
\* or the row has none and the caller is about to store the one it makes.
Placed(c) ==
  /\ pc[c] \in {"create", "persist"} => rowPlaylist = 0
  /\ pc[c] \in {"add", "checkpoint"} => target[c] = rowPlaylist

Orphans == \A p \in Playlists, m \in Matches : p # rowPlaylist => copies[p][m] = 0

Tidy ==
  /\ \A c, d \in Callers : AtWork(c) /\ AtWork(d) => c = d
  /\ \A c \in Callers : Placed(c)
  /\ Orphans

EngineInv == Shape /\ (~overlapped => Tidy)

-----------------------------------------------------------------------------
LEMMA StartsTidy == Init => EngineInv
  BY ProvidersAssumption DEF Init, EngineInv, Shape, Labels, Tidy, AtWork, Placed, Orphans

\* One caller moves, the others are idle: what is left to show is about it.
LEMMA OneMoves ==
  ASSUME NEW c \in Callers, Shape', \A d \in Callers \ {c} : pc'[d] = "idle", Placed(c)', Orphans'
  PROVE  Tidy'
<1>1. \A d \in Callers : AtWork(d)' => d = c
  BY DEF AtWork
<1>2. \A d \in Callers : Placed(d)'
  BY DEF Placed
<1> QED BY <1>1, <1>2 DEF Tidy

\* A caller that is at work is the only one.
LEMMA OthersAreIdle ==
  ASSUME EngineInv, ~overlapped, NEW c \in Callers, AtWork(c)
  PROVE  \A d \in Callers \ {c} : pc[d] = "idle"
  BY DEF EngineInv, Tidy, AtWork

\* What is delivered goes to the playlist of the caller.
LEMMA Delivered ==
  ASSUME EngineInv, ~overlapped, NEW c \in Callers, pc[c] = "add", NEW ts,
         Deliver(c, ts), rowPlaylist' = rowPlaylist
  PROVE  /\ copies' = [p \in Playlists |-> copies'[p]]
         /\ Orphans'
<1>1. target[c] = rowPlaylist
  BY DEF EngineInv, Tidy, Placed
<1>2. \A p \in Playlists : p # rowPlaylist => copies'[p] = copies[p]
  BY <1>1 DEF EngineInv, Shape, Deliver
<1>3. Orphans'
  BY <1>2 DEF EngineInv, Tidy, Orphans
<1>4. copies' = [p \in Playlists |-> copies'[p]]
  BY DEF EngineInv, Shape, Deliver
<1> QED BY <1>3, <1>4

\* Playlists keep their shape whatever is delivered.
LEMMA DeliveredShape ==
  ASSUME Shape, NEW c, NEW ts, Deliver(c, ts)
  PROVE  copies' = [p \in Playlists |-> copies'[p]]
  BY DEF Shape, Deliver

-----------------------------------------------------------------------------
\* Whoever lost the answer, its tracks were delivered.
LEMMA LostAnswer ==
  ASSUME Shape, NEW c, LoseAnswer(c)
  PROVE  (\E ts : Deliver(c, ts)) /\ (pc' = pc \/ Goto(c, "end"))
<1>1. CASE provider = "youtube"
  BY <1>1 DEF LoseAnswer
<1>2. CASE provider = "tidal"
  BY <1>2 DEF LoseAnswer
<1>3. CASE provider = "chunked"
  BY <1>3 DEF LoseAnswer
<1> QED BY <1>1, <1>2, <1>3 DEF Shape

LEMMA StepsKeepShape ==
  ASSUME Shape, NEW c \in Callers, Begin(c) \/ Step(c) \/ Crash(c) \/ LoseAnswer(c)
  PROVE  Shape'
<1>1. \A l \in Labels : [pc EXCEPT ![c] = l] \in [Callers -> Labels]
  BY DEF Shape
<1>2. \A x : LET f == [target EXCEPT ![c] = x] IN f = [d \in Callers |-> f[d]]
  BY DEF Shape
<1>3. CASE Begin(c)
  BY <1>1, <1>3 DEF Begin, Shape, Goto, Labels, provVars
<1>4. CASE ReadImport(c)
  BY <1>1, <1>2, <1>4 DEF ReadImport, Shape, Goto, Labels, provVars
<1>5. CASE CreatePlaylist(c)
  BY <1>1, <1>2, <1>5 DEF CreatePlaylist, Shape, Goto, Labels
<1>6. CASE PersistPlaylist(c)
  BY <1>1, <1>6 DEF PersistPlaylist, Shape, Goto, Labels, provVars, callVars
<1>7. CASE InsertVideo(c)
  <2>1. pc' = pc \/ Goto(c, "checkpoint")
    BY <1>7 DEF InsertVideo
  <2>2. copies' = copies \/ \E ts : Deliver(c, ts)
    BY <1>7 DEF InsertVideo, Land
  <2> QED BY <1>1, <1>7, <2>1, <2>2, DeliveredShape DEF InsertVideo, Shape, Goto, Labels
<1>8. CASE Checkpoint(c)
  BY <1>1, <1>8 DEF Checkpoint, Shape, Goto, Labels, provVars, callVars
<1>9. CASE PostTidal(c)
  <2>1. pc' = pc \/ Goto(c, "end")
    BY <1>9 DEF PostTidal
  <2>2. copies' = copies \/ \E ts : Deliver(c, ts)
    BY <1>9 DEF PostTidal, Land
  <2> QED BY <1>1, <1>9, <2>1, <2>2, DeliveredShape DEF PostTidal, Shape, Goto, Labels
<1>10. CASE PostChunk(c)
  <2>1. copies' = copies \/ \E ts : Deliver(c, ts)
    BY <1>10 DEF PostChunk, Land
  <2> QED BY <1>10, <2>1, DeliveredShape DEF PostChunk, Shape
<1>11. CASE PostSingle(c)
  <2>1. copies' = copies \/ \E ts : Deliver(c, ts)
    BY <1>11 DEF PostSingle, Land
  <2> QED BY <1>11, <2>1, DeliveredShape DEF PostSingle, Shape
<1>12. CASE Finish(c)
  BY <1>1, <1>12 DEF Finish, Shape, Goto, Labels, provVars, callVars
<1>13. CASE End(c) \/ Crash(c)
  BY <1>1, <1>2, <1>13 DEF End, Crash, Forget, Shape, Goto, Labels, provVars
<1>14. CASE LoseAnswer(c)
  <2>1. (\E ts : Deliver(c, ts)) /\ (pc' = pc \/ Goto(c, "end"))
    BY <1>14, LostAnswer
  <2> QED BY <1>1, <1>14, <2>1, DeliveredShape DEF LoseAnswer, Shape, Goto, Labels, callVars
<1> QED BY <1>3, <1>4, <1>5, <1>6, <1>7, <1>8, <1>9, <1>10, <1>11, <1>12, <1>13, <1>14 DEF Step

\* While the calls do not overlap: the one under way stores the playlist it
\* makes before it adds to it, and adds to no other.
LEMMA StepsKeepTidy ==
  ASSUME EngineInv, Shape', NEW c \in Callers, ~overlapped',
         Begin(c) \/ Step(c) \/ Crash(c) \/ LoseAnswer(c)
  PROVE  Tidy'
<1>1. ~overlapped
  BY DEF Begin, Step, Crash, LoseAnswer, ReadImport, CreatePlaylist, PersistPlaylist, InsertVideo,
     Checkpoint, PostTidal, PostChunk, PostSingle, Finish, End, faults, history
<1>2. Tidy /\ Shape
  BY <1>1 DEF EngineInv
<1>3. CASE Begin(c)
  <2>1. \A d \in Callers \ {c} : pc[d] = "idle"
    BY <1>3 DEF Begin
  <2>2. /\ \A d \in Callers \ {c} : pc'[d] = "idle"
        /\ pc'[c] = "read"
    BY <1>2, <1>3, <2>1 DEF Begin, Goto, Shape
  <2>3. Orphans'
    BY <1>2, <1>3 DEF Begin, Tidy, Orphans, provVars, rowVars
  <2> QED BY <2>2, <2>3, OneMoves DEF Placed
<1>4. ASSUME AtWork(c), NEW l \in Labels, pc' = [pc EXCEPT ![c] = l]
      PROVE  pc'[c] = l /\ \A d \in Callers \ {c} : pc'[d] = "idle"
  BY <1>1, <1>2, <1>4, OthersAreIdle DEF Shape
<1>5. CASE ReadImport(c)
  <2>1. target'[c] = rowPlaylist
    BY <1>2, <1>5 DEF ReadImport, Shape
  <2>2. Orphans'
    BY <1>2, <1>5 DEF ReadImport, Tidy, Orphans, provVars, rowVars
  <2>3. pc' = [pc EXCEPT ![c] = IF rowPlaylist = 0 THEN "create" ELSE "add"]
    BY <1>5 DEF ReadImport, Goto
  <2>4. AtWork(c) /\ rowPlaylist' = rowPlaylist
    BY <1>5 DEF ReadImport, AtWork, rowVars
  <2>5. /\ pc'[c] = (IF rowPlaylist = 0 THEN "create" ELSE "add")
        /\ \A d \in Callers \ {c} : pc'[d] = "idle"
    BY <1>4, <2>3, <2>4 DEF Labels
  <2> QED BY <2>1, <2>2, <2>4, <2>5, OneMoves DEF Placed
<1>6. CASE CreatePlaylist(c)
  <2>1. AtWork(c) /\ rowPlaylist = 0 /\ rowPlaylist' = rowPlaylist
    BY <1>2, <1>6 DEF CreatePlaylist, AtWork, Tidy, Placed, rowVars
  <2>2. Orphans'
    BY <1>2, <1>6 DEF CreatePlaylist, Tidy, Orphans, rowVars
  <2>3. \E l \in {"persist", "end"} : pc' = [pc EXCEPT ![c] = l]
    BY <1>6 DEF CreatePlaylist, Goto
  <2>4. /\ pc'[c] \in {"persist", "end"}
        /\ \A d \in Callers \ {c} : pc'[d] = "idle"
    BY <1>4, <2>1, <2>3 DEF Labels
  <2> QED BY <2>1, <2>2, <2>4, OneMoves DEF Placed
<1>7. CASE PersistPlaylist(c)
  <2>1. AtWork(c) /\ rowPlaylist = 0 /\ target' = target /\ rowPlaylist' = target[c]
    BY <1>2, <1>7 DEF PersistPlaylist, AtWork, Tidy, Placed, callVars
  <2>2. \A p \in Playlists : p # rowPlaylist
    BY <2>1, SizesAssumption DEF Playlists
  <2>3. Orphans'
    BY <1>2, <1>7, <2>2 DEF PersistPlaylist, Tidy, Orphans, provVars
  <2>4. pc'[c] = "add" /\ \A d \in Callers \ {c} : pc'[d] = "idle"
    BY <1>4, <1>7, <2>1 DEF PersistPlaylist, Goto, Labels
  <2> QED BY <2>1, <2>3, <2>4, OneMoves DEF Placed
<1>8. ASSUME pc[c] = "add", rowPlaylist' = rowPlaylist, target' = target,
             copies' = copies \/ (\E ts : Deliver(c, ts)),
             pc' = pc \/ (\E l \in {"checkpoint", "end"} : Goto(c, l))
      PROVE  Tidy'
  <2>1. Orphans'
    <3>1. CASE copies' = copies
      BY <1>2, <1>8, <3>1 DEF Tidy, Orphans
    <3>2. CASE \E ts : Deliver(c, ts)
      BY <1>1, <1>8, <3>2, Delivered
    <3> QED BY <1>8, <3>1, <3>2
  <2>2. AtWork(c) /\ target[c] = rowPlaylist
    BY <1>2, <1>8 DEF AtWork, Tidy, Placed
  <2>3. /\ pc'[c] \in {"add", "checkpoint", "end"}
        /\ \A d \in Callers \ {c} : pc'[d] = "idle"
    <3>1. CASE pc' = pc
      BY <1>1, <1>8, <2>2, <3>1, OthersAreIdle
    <3>2. CASE \E l \in {"checkpoint", "end"} : Goto(c, l)
      BY <1>4, <2>2, <3>2 DEF Goto, Labels
    <3> QED BY <1>8, <3>1, <3>2
  <2> QED BY <1>8, <2>1, <2>2, <2>3, OneMoves DEF Placed
<1>9. CASE InsertVideo(c)
  BY <1>8, <1>9 DEF InsertVideo, Adding, Land, rowVars
<1>10. CASE PostTidal(c)
  BY <1>8, <1>10 DEF PostTidal, Adding, Land, rowVars
<1>11. CASE PostChunk(c)
  BY <1>8, <1>11 DEF PostChunk, Adding, Land, rowVars
<1>12. CASE PostSingle(c)
  BY <1>8, <1>12 DEF PostSingle, Adding, Land, rowVars
<1>13. CASE LoseAnswer(c)
  <2>1. (\E ts : Deliver(c, ts)) /\ (pc' = pc \/ Goto(c, "end"))
    BY <1>2, <1>13, LostAnswer
  <2> QED BY <1>8, <1>13, <2>1 DEF LoseAnswer, rowVars, callVars
<1>14. CASE Checkpoint(c) \/ Finish(c)
  <2>1. AtWork(c) /\ target[c] = rowPlaylist
    BY <1>2, <1>14 DEF Checkpoint, Finish, AtWork, Tidy, Placed
  <2>2. rowPlaylist' = rowPlaylist
    BY <1>14, <2>1 DEF Checkpoint, Finish
  <2>3. Orphans'
    BY <1>2, <1>14, <2>2 DEF Checkpoint, Finish, Tidy, Orphans, provVars
  <2>4. pc'[c] = "end" /\ \A d \in Callers \ {c} : pc'[d] = "idle"
    BY <1>4, <1>14, <2>1 DEF Checkpoint, Finish, Goto, Labels
  <2> QED BY <2>3, <2>4, OneMoves DEF Placed
<1>15. CASE End(c) \/ Crash(c)
  <2>1. AtWork(c)
    BY <1>15 DEF End, Crash, AtWork
  <2>2. Orphans'
    BY <1>2, <1>15 DEF End, Crash, Tidy, Orphans, provVars, rowVars
  <2>3. pc'[c] = "idle" /\ \A d \in Callers \ {c} : pc'[d] = "idle"
    BY <1>4, <1>15, <2>1 DEF End, Crash, Forget, Goto, Labels
  <2> QED BY <2>2, <2>3, OneMoves DEF Placed
<1> QED BY <1>3, <1>5, <1>6, <1>7, <1>9, <1>10, <1>11, <1>12, <1>13, <1>14, <1>15 DEF Step

-----------------------------------------------------------------------------
(* The ledger, while calls do not overlap *)

\* Callers that have read the row.
HasRead(c) == pc[c] \in {"create", "persist", "add", "checkpoint"}

\* Nobody's playlist was replaced, and the ledger a caller is going to write
\* says everything that the row's says.
Grown ==
  /\ ~replaced
  /\ \A c \in Callers : HasRead(c) => Range(ledger) \subseteq Range(synced[c])

GrownInv == ~overlapped => Grown

LEMMA StepsKeepGrown ==
  ASSUME TypeInv, EngineInv, GrownInv, ~overlapped', NEW c \in Callers,
         Begin(c) \/ Step(c) \/ Crash(c) \/ LoseAnswer(c)
  PROVE  /\ Grown'
         /\ Range(ledger) \subseteq Range(ledger')
<1>1. ~overlapped
  BY DEF Begin, Step, Crash, LoseAnswer, ReadImport, CreatePlaylist, PersistPlaylist, InsertVideo,
     Checkpoint, PostTidal, PostChunk, PostSingle, Finish, End, faults, history
<1>2. Tidy /\ Grown
  BY <1>1 DEF EngineInv, GrownInv
<1>3. /\ pc \in [Callers -> Labels] /\ synced \in [Callers -> Seq(Fingerprints)]
      /\ ledger \in Seq(Fingerprints)
  BY DEF TypeInv, TypeOK
<1>4. ASSUME AtWork(c), NEW l \in Labels, Goto(c, l)
      PROVE  pc'[c] = l /\ \A d \in Callers \ {c} : pc'[d] = "idle"
  BY <1>1, <1>3, <1>4, OthersAreIdle DEF Goto
<1>5. ASSUME replaced' = replaced, ledger' = ledger, \A d \in Callers \ {c} : pc'[d] = "idle",
             HasRead(c)' => Range(ledger) \subseteq Range(synced'[c])
      PROVE  Grown' /\ Range(ledger) \subseteq Range(ledger')
  BY <1>2, <1>5 DEF Grown, HasRead
<1>6. CASE Begin(c)
  <2>1. \A d \in Callers \ {c} : pc[d] = "idle"
    BY <1>6 DEF Begin
  <2>2. pc'[c] = "read" /\ \A d \in Callers \ {c} : pc'[d] = "idle"
    BY <1>3, <1>6, <2>1 DEF Begin, Goto
  <2> QED BY <1>5, <1>6, <2>2 DEF Begin, rowVars, HasRead
<1>7. CASE ReadImport(c)
  <2>1. \A d \in Callers \ {c} : pc'[d] = "idle"
    BY <1>4, <1>7 DEF ReadImport, AtWork, Labels
  <2>2. Range(synced'[c]) = Range(ledger)
    BY <1>3, <1>7, ReadTypes, DistinctSaysTheSame
  <2> QED BY <1>5, <1>7, <2>1, <2>2 DEF ReadImport, rowVars, faults, history
<1>8. CASE CreatePlaylist(c)
  <2>1. \A d \in Callers \ {c} : pc'[d] = "idle"
    BY <1>4, <1>8 DEF CreatePlaylist, AtWork, Labels
  <2> QED BY <1>2, <1>5, <1>8, <2>1 DEF CreatePlaylist, rowVars, faults, history, Grown, HasRead
<1>9. CASE PersistPlaylist(c)
  <2>1. \A d \in Callers \ {c} : pc'[d] = "idle"
    BY <1>4, <1>9 DEF PersistPlaylist, AtWork, Labels
  <2>2. rowPlaylist = 0
    BY <1>2, <1>9 DEF PersistPlaylist, Tidy, Placed
  <2> QED BY <1>2, <1>5, <1>9, <2>1, <2>2 DEF PersistPlaylist, callVars, Grown, HasRead
<1>10. ASSUME pc[c] = "add", pc' = pc \/ Goto(c, "checkpoint") \/ Goto(c, "end"),
              replaced' = replaced, ledger' = ledger,
              synced' = synced \/ (\E n \in 0..Len(todo[c]) : Land(c, n))
       PROVE  Grown' /\ Range(ledger) \subseteq Range(ledger')
  <2>1. AtWork(c)
    BY <1>10 DEF AtWork
  <2>2. \A d \in Callers \ {c} : pc[d] = "idle"
    BY <1>1, <2>1, OthersAreIdle
  <2>3. \A d \in Callers \ {c} : pc'[d] = "idle"
    BY <1>4, <1>10, <2>1, <2>2 DEF Labels
  <2>4. Range(ledger) \subseteq Range(synced[c])
    BY <1>2, <1>10 DEF Grown, HasRead
  <2>5. Range(synced[c]) \subseteq Range(synced'[c])
    BY <1>10, Landed
  <2> QED BY <1>5, <1>10, <2>3, <2>4, <2>5
<1>11. CASE InsertVideo(c)
  BY <1>10, <1>11, Portions DEF InsertVideo, Adding, rowVars, faults, history
<1>12. CASE PostTidal(c)
  BY <1>10, <1>12, Portions DEF PostTidal, Adding, rowVars, faults, history
<1>13. CASE PostChunk(c)
  BY <1>10, <1>13, Portions DEF PostChunk, Adding, rowVars, faults, history
<1>14. CASE PostSingle(c)
  BY <1>10, <1>14, Portions DEF PostSingle, Adding, rowVars, faults, history
<1>15. CASE Checkpoint(c) \/ Finish(c)
  <2>1. HasRead(c) /\ AtWork(c)
    BY <1>15 DEF Checkpoint, Finish, HasRead, AtWork
  <2>2. pc'[c] = "end" /\ \A d \in Callers \ {c} : pc'[d] = "idle"
    BY <1>4, <1>15, <2>1 DEF Checkpoint, Finish, Labels
  <2>3. ledger' = synced[c] /\ replaced' = replaced
    BY <1>15 DEF Checkpoint, Finish, faults, history
  <2> QED BY <1>2, <2>1, <2>2, <2>3 DEF Grown, HasRead
<1>16. CASE End(c) \/ Crash(c)
  <2>1. pc'[c] = "idle" /\ \A d \in Callers \ {c} : pc'[d] = "idle"
    BY <1>4, <1>16 DEF End, Crash, Forget, AtWork, Labels
  <2> QED BY <1>5, <1>16, <2>1 DEF End, Crash, rowVars, faults, history, HasRead
<1>17. CASE LoseAnswer(c)
  <2>1. pc' = pc \/ Goto(c, "end")
    BY <1>17, LostTracks
  <2> QED BY <1>10, <1>17, <2>1 DEF LoseAnswer, rowVars, callVars, history
<1> QED BY <1>6, <1>7, <1>8, <1>9, <1>11, <1>12, <1>13, <1>14, <1>15, <1>16, <1>17 DEF Step

-----------------------------------------------------------------------------
(* Copies and the tracks they are accounted for with *)

Distinctive == \A t, u \in Tracks : Fp[t] = Fp[u] => t = u

TracksOf(m) == {t \in Tracks : Match[t] = m}

\* The tracks that match m and that a ledger s says are synced.
Known(m, s) == {t \in TracksOf(m) : Fp[t] \in Range(s)}

\* The tracks A account for n copies: for all of them where no two tracks
\* have the same fingerprint, and A holds no other.
Backs(A, n) == n <= Cardinality(A) /\ (Distinctive => n = Cardinality(A))

\* The n copies of m are accounted for by tracks that s says are synced, and
\* the fingerprints q waiting for m are those of other tracks.
Accounted(m, n, s, q) ==
  \E A \in SUBSET TracksOf(m) :
    /\ Backs(A, n)
    /\ \A t \in A : Fp[t] \in Range(s)
    /\ Distinctive => A = Known(m, s)
    /\ \E f \in Injection(1..Len(q), TracksOf(m) \ A) : \A k \in 1..Len(q) : q[k] = Fp[f[k]]

LEMMA TracksAreFinite ==
  ASSUME NEW m, NEW A \in SUBSET TracksOf(m)
  PROVE  IsFiniteSet(A) /\ Cardinality(A) \in Nat
<1>1. A \in SUBSET Tracks
  BY DEF TracksOf
<1> QED BY <1>1, MatchesAreFinite, FS_Subset, FS_CardinalityType

LEMMA MoreBack ==
  ASSUME NEW a \in Nat, NEW b \in Nat, NEW n \in Nat, n <= a, a <= b
  PROVE  n <= b
  OBVIOUS

LEMMA MoreOfBoth ==
  ASSUME NEW a \in Nat, NEW n \in Nat, NEW k \in Nat, n <= a
  PROVE  n + k <= a + k
  OBVIOUS

\* What is accounted for is so by all that is said to be synced.
LEMMA AccountedIsKnown ==
  ASSUME NEW m, NEW n \in Nat, NEW s, NEW q, Accounted(m, n, s, q)
  PROVE  Backs(Known(m, s), n)
<1>1. PICK A \in SUBSET TracksOf(m) :
        /\ Backs(A, n)
        /\ \A t \in A : Fp[t] \in Range(s)
        /\ Distinctive => A = Known(m, s)
  BY DEF Accounted
<1>2. A \in SUBSET Known(m, s) /\ Known(m, s) \in SUBSET TracksOf(m)
  BY <1>1 DEF Known
<1>3. /\ Cardinality(A) \in Nat /\ Cardinality(Known(m, s)) \in Nat
      /\ Cardinality(A) <= Cardinality(Known(m, s))
  BY <1>2, TracksAreFinite, FS_Subset
<1>4. n <= Cardinality(Known(m, s))
  BY <1>1, <1>3, MoreBack DEF Backs
<1> QED BY <1>1, <1>4 DEF Backs

\* k copies more, for the first k of the queue.
LEMMA AccountedGrows ==
  ASSUME NEW m, NEW n \in Nat, NEW s, NEW r, NEW q \in Seq(Fingerprints), NEW p \in Seq(Fingerprints),
         NEW k \in 0..Len(q), Accounted(m, n, s, q),
         Len(p) = Len(q) - k, \A i \in 1..Len(p) : p[i] = q[k + i],
         Range(s) \subseteq Range(r), \A j \in 1..k : q[j] \in Range(r),
         Distinctive => \A t \in TracksOf(m) :
           Fp[t] \in Range(r) => Fp[t] \in Range(s) \/ \E j \in 1..k : Fp[t] = q[j]
  PROVE  Accounted(m, n + k, r, p)
<1>1. PICK A \in SUBSET TracksOf(m) :
        /\ Backs(A, n)
        /\ \A t \in A : Fp[t] \in Range(s)
        /\ Distinctive => A = Known(m, s)
        /\ \E f \in Injection(1..Len(q), TracksOf(m) \ A) : \A i \in 1..Len(q) : q[i] = Fp[f[i]]
  BY DEF Accounted
<1>2. PICK f \in Injection(1..Len(q), TracksOf(m) \ A) : \A i \in 1..Len(q) : q[i] = Fp[f[i]]
  BY <1>1
<1>3. Len(q) \in Nat /\ k \in Nat /\ k <= Len(q) /\ Len(p) \in Nat
  BY LenProperties
<1>4. /\ \A i \in 1..Len(q) : f[i] \in TracksOf(m) \ A
      /\ \A i, j \in 1..Len(q) : f[i] = f[j] => i = j
  BY <1>2 DEF Injection, IsInjective
<1>5. \A i \in 1..k : i \in 1..Len(q)
  BY <1>3
<1>6. \A i \in 1..Len(p) : k + i \in 1..Len(q) /\ k + i \notin 1..k
  BY <1>3
<1> DEFINE I == {f[i] : i \in 1..k}
           g == [i \in 1..k |-> f[i]]
           h == [i \in 1..Len(p) |-> f[k + i]]
           B == A \cup I
<1>7. IsFiniteSet(I) /\ Cardinality(I) = k
  <2>1. g \in Bijection(1..k, I)
    BY <1>4, <1>5 DEF Bijection, Injection, Surjection, IsInjective
  <2>2. IsFiniteSet(1..k) /\ Cardinality(1..k) = k
    <3>1. 1 \in Int /\ k \in Int /\ (1 > k => k = 0) /\ k - 1 + 1 = k
      BY <1>3
    <3> QED BY <3>1, FS_Interval
  <2>3. ExistsBijection(1..k, I)
    BY <2>1 DEF ExistsBijection
  <2> QED BY <2>2, <2>3, FS_Bijection
<1>8. I \cap A = {} /\ B \in SUBSET TracksOf(m)
  BY <1>4, <1>5
<1>9. Backs(B, n + k)
  <2>1. IsFiniteSet(A) /\ Cardinality(A) \in Nat
    BY TracksAreFinite
  <2>2. Cardinality(B) = Cardinality(A) + k
    <3>1. Cardinality(B) = Cardinality(A) + Cardinality(I) - Cardinality(A \cap I)
      <4> HIDE DEF I
      <4> QED BY <1>7, <2>1, FS_Union
    <3>2. A \cap I = {}
      BY <1>8
    <3>3. Cardinality(A \cap I) = 0
      BY <3>2, FS_EmptySet
    <3> HIDE DEF I, B
    <3> QED BY <1>3, <1>7, <2>1, <3>1, <3>3
  <2> HIDE DEF B
  <2> QED BY <1>1, <1>3, <2>1, <2>2, MoreOfBoth DEF Backs
<1>10. \A t \in B : Fp[t] \in Range(r)
  <2>1. \A i \in 1..k : Fp[f[i]] \in Range(r)
    BY <1>2, <1>5
  <2> QED BY <1>1, <2>1
<1>11. ASSUME Distinctive PROVE B = Known(m, r)
  <2>1. B \subseteq Known(m, r)
    BY <1>8, <1>10 DEF Known
  <2>2. ASSUME NEW t \in Known(m, r) PROVE t \in B
    <3>1. t \in TracksOf(m) /\ Fp[t] \in Range(r)
      BY <2>2 DEF Known
    <3>2. CASE Fp[t] \in Range(s)
      BY <1>1, <1>11, <3>1, <3>2 DEF Known
    <3>3. CASE \E j \in 1..k : Fp[t] = q[j]
      <4>1. PICK j \in 1..k : Fp[t] = Fp[f[j]]
        BY <1>2, <1>5, <3>3
      <4>2. t = f[j]
        BY <1>4, <1>5, <1>11, <3>1, <4>1 DEF Distinctive, TracksOf
      <4> QED BY <4>2
    <3> QED BY <1>11, <3>1, <3>2, <3>3
  <2> QED BY <2>1, <2>2
<1>12. h \in Injection(1..Len(p), TracksOf(m) \ B)
  <2>1. ASSUME NEW i \in 1..Len(p) PROVE f[k + i] \in TracksOf(m) \ B
    <3>1. f[k + i] \notin I
      BY <1>4, <1>5, <1>6
    <3> QED BY <1>4, <1>6, <3>1
  <2>2. ASSUME NEW i \in 1..Len(p), NEW j \in 1..Len(p), f[k + i] = f[k + j] PROVE i = j
    <3>1. k + i = k + j
      BY <1>4, <1>6, <2>2
    <3> QED BY <1>3, <3>1
  <2> HIDE DEF B
  <2> QED BY <2>1, <2>2 DEF Injection, IsInjective
<1>13. \A i \in 1..Len(p) : p[i] = Fp[h[i]]
  BY <1>2, <1>6
<1> HIDE DEF B, h
<1> QED BY <1>8, <1>9, <1>10, <1>11, <1>12, <1>13 DEF Accounted

\* What is waiting after the row has been read.
LEMMA AccountedAtFirst ==
  ASSUME NEW c \in Callers, found[c] \in SUBSET Tracks, NEW m \in Matches, NEW n \in Nat, NEW s,
         Backs(Known(m, s), n)
  PROVE  Accounted(m, n, s, FpQueues(InOrder(Missing(c, s)))[m])
<1> DEFINE work == InOrder(Missing(c, s))
           q == FpQueues(work)[m]
           A == Known(m, s)
<1>1. Missing(c, s) \in SUBSET Tracks
  BY DEF Missing
<1>2. /\ work \in Seq(Tracks)
      /\ \A i \in 1..Len(work) : work[i] \in Missing(c, s)
      /\ \A i, j \in 1..Len(work) : work[i] = work[j] => i = j
  BY <1>1, WorkIsTracks
<1>3. Positions(work, m) \in SUBSET (1..Len(work)) /\ \A i \in Positions(work, m) : Match[work[i]] = m
  BY <1>2, CountIsUpto DEF Positions
<1>4. Len(q) = Count(work, m)
  <2> HIDE DEF work
  <2> QED BY <1>2, QueueOfEach
<1>5. PICK at \in Injection(1..Count(work, m), Positions(work, m)) :
        \A k \in 1..Count(work, m) : q[k] = Fp[work[at[k]]]
  <2> HIDE DEF work
  <2> QED BY <1>2, QueueOfEach
<1>6. /\ \A k \in 1..Len(q) : at[k] \in Positions(work, m)
      /\ \A k, l \in 1..Len(q) : at[k] = at[l] => k = l
  <2> HIDE DEF q
  <2> QED BY <1>4, <1>5 DEF Injection, IsInjective
<1> DEFINE f == [k \in 1..Len(q) |-> work[at[k]]]
<1>7. \A k \in 1..Len(q) : work[at[k]] \in TracksOf(m) \ A
  <2>1. \A t \in Missing(c, s) : t \in Tracks /\ Fp[t] \notin Range(s)
    BY <1>1 DEF Missing
  <2> HIDE DEF work, q
  <2> QED BY <1>2, <1>3, <1>6, <2>1 DEF TracksOf, Known
<1>8. \A k, l \in 1..Len(q) : work[at[k]] = work[at[l]] => k = l
  <2> HIDE DEF work, q
  <2> QED BY <1>2, <1>3, <1>6
<1>9. f \in Injection(1..Len(q), TracksOf(m) \ A)
  <2> HIDE DEF work, q, A
  <2> QED BY <1>7, <1>8 DEF Injection, IsInjective
<1>10. \A k \in 1..Len(q) : q[k] = Fp[f[k]]
  <2> HIDE DEF work, q
  <2> QED BY <1>4, <1>5
<1>11. A \in SUBSET TracksOf(m) /\ \A t \in A : Fp[t] \in Range(s)
  BY DEF Known
<1> HIDE DEF work, q, f
<1> QED BY <1>9, <1>10, <1>11 DEF Accounted, q, work

-----------------------------------------------------------------------------
(* As long as nothing is lost *)

\* What the row's playlist holds of m.
Got(m) == IF rowPlaylist = 0 THEN 0 ELSE copies[rowPlaylist][m]

\* The row's ledger accounts for what its playlist holds.
Settled == \A m \in Matches : Backs(Known(m, ledger), Got(m))

\* Where the playlist may hold more than the row's ledger says.
Ahead(c) == pc[c] = "checkpoint" \/ (pc[c] = "add" /\ (provider = "tidal" => todo[c] = <<>>))

\* The ledger a caller is going to write does.
Queued(c) == \A m \in Matches : Accounted(m, Got(m), synced[c], pending[c][m])

OnePlace ==
  /\ made \in {0, 1}
  /\ \A c \in Callers : pc[c] = "create" => made = 0
  /\ \A c \in Callers : pc[c] = "persist" => made = 1 /\ target[c] = 1
  /\ (\A c \in Callers : pc[c] # "persist") => rowPlaylist = made

Orderly ==
  /\ OnePlace
  /\ (\A c \in Callers : ~Ahead(c)) => Settled
  /\ \A c \in Callers : HasRead(c) => Queued(c)

CalmInv == Calm => Orderly

EngineInvs == TypeInv /\ EngineInv /\ EarnedInv /\ GrownInv

LEMMA GotIsNumber ==
  ASSUME TypeInv, NEW m \in Matches
  PROVE  Got(m) \in Nat
<1>1. rowPlaylist # 0 => rowPlaylist \in Playlists
  BY SizesAssumption DEF TypeInv, TypeOK, Playlists
<1> QED BY <1>1 DEF Got, TypeInv, TypeOK

LEMMA StartsOrderly == Init => CalmInv
<1> SUFFICES ASSUME Init PROVE Orderly
  BY DEF CalmInv
<1>1. OnePlace
  BY DEF Init, OnePlace
<1>2. Settled
  <2> SUFFICES ASSUME NEW m \in Matches PROVE Backs(Known(m, ledger), Got(m))
    BY DEF Settled
  <2>1. Got(m) = 0
    BY DEF Init, Got
  <2>2. Known(m, ledger) = {}
    BY DEF Init, Known, Range
  <2> QED BY <2>1, <2>2, FS_EmptySet DEF Backs
<1>3. \A c \in Callers : ~HasRead(c)
  BY DEF Init, HasRead
<1> QED BY <1>1, <1>2, <1>3 DEF Orderly

\* A caller that has read the settled row.
LEMMA ReadQueues ==
  ASSUME TypeInv, NEW c \in Callers, ReadImport(c), Settled
  PROVE  Queued(c)'
<1>1. found[c] \in SUBSET Tracks /\ ledger \in Seq(Fingerprints)
  BY DEF TypeInv, TypeOK
<1>2. synced'[c] = Distinct(ledger) /\ pending'[c] = FpQueues(InOrder(Missing(c, Distinct(ledger))))
  BY ReadTypes
<1>3. Range(Distinct(ledger)) = Range(ledger)
  BY <1>1, DistinctSaysTheSame
<1>4. UNCHANGED <<rowPlaylist, copies>>
  BY DEF ReadImport, rowVars, provVars
<1> SUFFICES ASSUME NEW m \in Matches
             PROVE  Accounted(m, Got(m)', synced'[c], pending'[c][m])
  BY DEF Queued
<1>5. Got(m)' = Got(m) /\ Got(m) \in Nat
  BY <1>4, GotIsNumber DEF Got
<1>6. Backs(Known(m, Distinct(ledger)), Got(m))
  BY <1>3 DEF Settled, Known
<1> QED BY <1>1, <1>2, <1>5, <1>6, AccountedAtFirst

\* Tracks landed and were recorded.
LEMMA LandedQueues ==
  ASSUME TypeInv, NEW c \in Callers, NEW n \in 0..Len(todo[c]), Land(c, n), Queued(c),
         target[c] = rowPlaylist, rowPlaylist # 0, rowPlaylist' = rowPlaylist
  PROVE  Queued(c)'
<1> DEFINE ts == SubSeq(todo[c], 1, n)
           q == pending[c]
           k(m) == Count(ts, m)
<1>1. /\ ts \in Seq(Tracks) /\ Deliver(c, ts)
      /\ synced' \in [Callers -> Seq(Fingerprints)]
      /\ pending' \in [Callers -> [Matches -> Seq(Fingerprints)]]
      /\ Range(synced'[c]) = Range(synced[c]) \cup Range(NewOnes(q, ts))
      /\ \A m \in Matches :
           /\ k(m) \in 0..Len(q[m])
           /\ Len(pending'[c][m]) = Len(q[m]) - k(m)
           /\ \A i \in 1..Len(pending'[c][m]) : pending'[c][m][i] = q[m][k(m) + i]
  BY Landed
<1>2. /\ copies \in [Playlists -> [Matches -> Nat]] /\ q \in [Matches -> Seq(Fingerprints)]
  BY DEF TypeInv, TypeOK
<1>3. \A m \in Matches : k(m) <= Len(q[m]) /\ k(m) \in Nat
  <2>1. \A m \in Matches : Len(q[m]) \in Nat
    BY <1>2, LenProperties
  <2> HIDE DEF k, q
  <2> QED BY <1>1, <2>1
<1> HIDE DEF ts
<1>4. /\ \A x \in Range(NewOnes(q, ts)) : \E l \in Matches : \E j \in 1..k(l) : x = q[l][j]
      /\ \A l \in Matches : \A j \in 1..k(l) : q[l][j] \in Range(NewOnes(q, ts))
  <2> HIDE DEF q
  <2> QED BY <1>1, <1>2, <1>3, HeadsOfQueues
<1> SUFFICES ASSUME NEW m \in Matches
             PROVE  Accounted(m, Got(m)', synced'[c], pending'[c][m])
  BY DEF Queued
<1>5. Got(m) \in Nat /\ Got(m)' = Got(m) + k(m)
  <2>1. rowPlaylist \in Playlists
    BY SizesAssumption DEF TypeInv, TypeOK, Playlists
  <2>2. copies'[rowPlaylist][m] = copies[rowPlaylist][m] + k(m)
    BY <1>1, <1>2, <2>1, DeliveredCopies
  <2> QED BY <2>2, GotIsNumber DEF Got
<1>6. ASSUME Distinctive, NEW t \in TracksOf(m), Fp[t] \in Range(synced'[c])
      PROVE  Fp[t] \in Range(synced[c]) \/ \E j \in 1..k(m) : Fp[t] = q[m][j]
  <2> SUFFICES ASSUME Fp[t] \in Range(NewOnes(q, ts)) PROVE \E j \in 1..k(m) : Fp[t] = q[m][j]
    BY <1>1, <1>6
  <2>1. PICK l \in Matches : \E j \in 1..k(l) : Fp[t] = q[l][j]
    BY <1>4
  <2>2. PICK j \in 1..k(l) : Fp[t] = q[l][j]
    BY <2>1
  <2>3. PICK A \in SUBSET TracksOf(l) :
          \E f \in Injection(1..Len(q[l]), TracksOf(l) \ A) : \A i \in 1..Len(q[l]) : q[l][i] = Fp[f[i]]
    BY DEF Queued, Accounted
  <2>4. PICK f \in Injection(1..Len(q[l]), TracksOf(l) \ A) : \A i \in 1..Len(q[l]) : q[l][i] = Fp[f[i]]
    BY <2>3
  <2>5. j \in 1..Len(q[l])
    <3>1. Len(q[l]) \in Nat
      BY <1>2, LenProperties
    <3> HIDE DEF k, q
    <3> QED BY <1>3, <3>1
  <2>6. Fp[t] = Fp[f[j]] /\ f[j] \in TracksOf(l)
    BY <2>2, <2>4, <2>5 DEF Injection
  <2>7. t = f[j]
    BY <1>6, <2>6 DEF Distinctive, TracksOf
  <2>8. l = m
    BY <2>6, <2>7 DEF TracksOf
  <2> QED BY <2>2, <2>8
<1>7. Accounted(m, Got(m), synced[c], q[m])
  BY DEF Queued
<1>8. /\ q[m] \in Seq(Fingerprints) /\ pending'[c][m] \in Seq(Fingerprints)
      /\ Range(synced[c]) \subseteq Range(synced'[c])
      /\ \A j \in 1..k(m) : q[m][j] \in Range(synced'[c])
  BY <1>1, <1>2, <1>4
<1> DEFINE a == Got(m)
           s == synced[c]
           r == synced'[c]
           o == q[m]
           p == pending'[c][m]
           b == k(m)
<1>9. /\ a \in Nat /\ o \in Seq(Fingerprints) /\ p \in Seq(Fingerprints) /\ b \in 0..Len(o)
      /\ Accounted(m, a, s, o) /\ Len(p) = Len(o) - b /\ \A i \in 1..Len(p) : p[i] = o[b + i]
      /\ Range(s) \subseteq Range(r) /\ \A j \in 1..b : o[j] \in Range(r)
      /\ Distinctive => \A t \in TracksOf(m) :
           Fp[t] \in Range(r) => Fp[t] \in Range(s) \/ \E j \in 1..b : Fp[t] = o[j]
  BY <1>1, <1>5, <1>6, <1>7, <1>8
<1>10. Got(m)' = a + b
  BY <1>5
<1> HIDE DEF a, s, r, o, p, b, k, q
<1>11. Accounted(m, a + b, r, p)
  BY <1>9, AccountedGrows
<1> QED BY <1>10, <1>11 DEF r, p

\* One caller moves, the others are idle: what is left to show is about it.
LEMMA OneInOrder ==
  ASSUME NEW c \in Callers, \A d \in Callers \ {c} : pc'[d] = "idle", made' \in {0, 1},
         pc'[c] = "create" => made' = 0,
         pc'[c] = "persist" => made' = 1 /\ target'[c] = 1,
         pc'[c] # "persist" => rowPlaylist' = made',
         ~Ahead(c)' => Settled', HasRead(c)' => Queued(c)'
  PROVE  Orderly'
<1>1. OnePlace'
  BY DEF OnePlace
<1>2. (\A d \in Callers : ~Ahead(d)') => Settled'
  OBVIOUS
<1>3. ASSUME NEW d \in Callers, HasRead(d)' PROVE Queued(d)'
  <2>1. d = c
    BY <1>3 DEF HasRead
  <2> QED BY <1>3, <2>1
<1> QED BY <1>1, <1>2, <1>3 DEF Orderly

\* A track left out keeps the fingerprint waiting, which does no harm.
LEMMA StepsKeepOrderly ==
  ASSUME EngineInvs, Orderly, Calm', NEW c \in Callers,
         Begin(c) \/ Step(c) \/ Crash(c) \/ LoseAnswer(c)
  PROVE  Orderly'
<1>1. crashes' = 0 /\ lost' = 0 /\ ~overlapped'
  BY DEF Calm
<1>2. crashes \in Nat /\ lost \in Nat
  BY SizesAssumption DEF EngineInvs, TypeInv, TypeOK
<1>3. ~overlapped
  BY <1>1 DEF Begin, Step, Crash, LoseAnswer, ReadImport, CreatePlaylist, PersistPlaylist, InsertVideo,
     Checkpoint, PostTidal, PostChunk, PostSingle, Finish, End, faults, history
<1>4. Begin(c) \/ Step(c)
  <2>1. ~Crash(c)
    BY <1>1, <1>2 DEF Crash
  <2>2. ~LoseAnswer(c)
    <3>1. LoseAnswer(c) => lost' = lost + 1
      BY DEF LoseAnswer
    <3> QED BY <1>1, <1>2, <3>1
  <2> QED BY <2>1, <2>2
<1>5. TypeInv /\ EngineInv /\ Tidy /\ Grown /\ Earned /\ OnePlace
  BY <1>3 DEF EngineInvs, EngineInv, GrownInv, EarnedInv, Grown, Orderly
<1>6. /\ pc \in [Callers -> Labels] /\ target \in [Callers -> 0..made]
      /\ todo \in [Callers -> Seq(Tracks)]
  BY <1>5 DEF TypeInv, TypeOK
<1>7. ASSUME AtWork(c), NEW l \in Labels, Goto(c, l)
      PROVE  pc'[c] = l /\ \A d \in Callers \ {c} : pc'[d] = "idle"
  BY <1>3, <1>5, <1>6, <1>7, OthersAreIdle DEF Goto
<1>8. AtWork(c) => \A d \in Callers \ {c} : pc[d] = "idle"
  BY <1>3, <1>5, OthersAreIdle
<1>9. ASSUME UNCHANGED <<copies, rowPlaylist, ledger>> PROVE Settled' <=> Settled
  BY <1>9 DEF Settled, Got
<1>10. ASSUME UNCHANGED <<copies, rowPlaylist>>, synced'[c] = synced[c], pending'[c] = pending[c]
       PROVE  Queued(c)' <=> Queued(c)
  BY <1>10 DEF Queued, Got
<1>11. CASE Begin(c)
  <2>1. \A d \in Callers : pc[d] = "idle"
    BY <1>1, <1>11 DEF Begin
  <2>2. pc'[c] = "read" /\ \A d \in Callers \ {c} : pc'[d] = "idle"
    BY <1>6, <1>11, <2>1 DEF Begin, Goto
  <2>3. \A d \in Callers : ~Ahead(d) /\ pc[d] # "persist"
    BY <2>1 DEF Ahead
  <2>4. UNCHANGED <<copies, rowPlaylist, ledger, made>>
    BY <1>11 DEF Begin, provVars, rowVars
  <2> QED BY <1>5, <1>9, <2>2, <2>3, <2>4, OneInOrder DEF Orderly, OnePlace, HasRead
<1>12. CASE ReadImport(c)
  <2>1. AtWork(c) /\ pc[c] = "read"
    BY <1>12 DEF ReadImport, AtWork
  <2>2. \A d \in Callers : ~Ahead(d) /\ pc[d] # "persist"
    BY <1>8, <2>1 DEF Ahead
  <2>3. /\ pc'[c] = (IF rowPlaylist = 0 THEN "create" ELSE "add")
        /\ \A d \in Callers \ {c} : pc'[d] = "idle"
    <3>1. Goto(c, IF rowPlaylist = 0 THEN "create" ELSE "add")
      BY <1>12 DEF ReadImport
    <3> QED BY <1>7, <2>1, <3>1 DEF Labels
  <2>4. Settled /\ rowPlaylist = made
    BY <2>2 DEF Orderly, OnePlace
  <2>5. UNCHANGED <<copies, rowPlaylist, ledger, made>>
    BY <1>12 DEF ReadImport, provVars, rowVars
  <2>6. Queued(c)'
    BY <1>5, <1>12, <2>4, ReadQueues
  <2> QED BY <1>5, <1>9, <2>3, <2>4, <2>5, <2>6, OneInOrder DEF OnePlace
<1>13. CASE CreatePlaylist(c)
  <2>1. AtWork(c) /\ pc[c] = "create" /\ HasRead(c)
    BY <1>13 DEF CreatePlaylist, AtWork, HasRead
  <2>2. \A d \in Callers : ~Ahead(d) /\ pc[d] # "persist"
    BY <1>8, <2>1 DEF Ahead
  <2>3. Settled /\ Queued(c) /\ rowPlaylist = made /\ made = 0
    BY <2>1, <2>2 DEF Orderly, OnePlace
  <2>4. UNCHANGED <<copies, rowPlaylist, ledger, synced, pending>>
    BY <1>13 DEF CreatePlaylist, rowVars
  <2>5. CASE made' = made + 1 /\ target' = [target EXCEPT ![c] = made + 1] /\ Goto(c, "persist")
    <3>1. pc'[c] = "persist" /\ \A d \in Callers \ {c} : pc'[d] = "idle"
      BY <1>7, <2>1, <2>5 DEF Labels
    <3>2. made' = 1 /\ target'[c] = 1
      BY <1>6, <2>3, <2>5
    <3> QED BY <1>9, <1>10, <2>3, <2>4, <3>1, <3>2, OneInOrder
  <2>6. CASE Goto(c, "end") /\ UNCHANGED <<made, target>>
    <3>1. pc'[c] = "end" /\ \A d \in Callers \ {c} : pc'[d] = "idle"
      BY <1>7, <2>1, <2>6 DEF Labels
    <3> QED BY <1>9, <2>3, <2>4, <2>6, <3>1, OneInOrder DEF HasRead
  <2> QED BY <1>13, <2>5, <2>6 DEF CreatePlaylist
<1>14. CASE PersistPlaylist(c)
  <2>1. AtWork(c) /\ pc[c] = "persist" /\ HasRead(c)
    BY <1>14 DEF PersistPlaylist, AtWork, HasRead
  <2>2. \A d \in Callers : ~Ahead(d)
    BY <1>8, <2>1 DEF Ahead
  <2>3. /\ Settled /\ Queued(c) /\ made = 1 /\ target[c] = 1 /\ rowPlaylist = 0
    BY <1>5, <2>1, <2>2 DEF Orderly, OnePlace, Tidy, Placed
  <2>4. /\ UNCHANGED <<copies, ledger, synced, pending, made>> /\ rowPlaylist' = 1
    BY <1>14, <2>3 DEF PersistPlaylist, provVars, callVars
  <2>5. \A m \in Matches : Got(m)' = Got(m)
    <3>1. 1 \in Playlists
      BY <1>5, <2>3, SizesAssumption DEF TypeInv, TypeOK, Playlists
    <3>2. \A m \in Matches : copies[1][m] = 0
      BY <1>5, <2>3, <3>1 DEF Tidy, Orphans
    <3> QED BY <2>3, <2>4, <3>2 DEF Got
  <2>6. Settled' /\ Queued(c)'
    BY <2>3, <2>4, <2>5 DEF Settled, Queued
  <2>7. pc'[c] = "add" /\ \A d \in Callers \ {c} : pc'[d] = "idle"
    BY <1>7, <1>14, <2>1 DEF PersistPlaylist, Labels
  <2> QED BY <2>3, <2>4, <2>6, <2>7, OneInOrder
\* A caller that adds has the row's playlist; what it has done so far is in
\* what it will write.
<1>15. ASSUME pc[c] = "add"
       PROVE  /\ AtWork(c) /\ HasRead(c) /\ Queued(c) /\ made \in {0, 1} /\ rowPlaylist = made
              /\ target[c] = rowPlaylist /\ rowPlaylist # 0
  <2>1. AtWork(c) /\ HasRead(c)
    BY <1>15 DEF AtWork, HasRead
  <2>2. \A d \in Callers : pc[d] # "persist"
    BY <1>8, <1>15, <2>1
  <2> QED BY <1>5, <1>15, <2>1, <2>2 DEF Orderly, OnePlace, Earned
<1>16. ASSUME pc[c] = "add", NEW n \in 0..Len(todo[c]), Land(c, n), pc' = pc,
              provider = "tidal" => todo'[c] = <<>>,
              UNCHANGED <<provider, made, rowVars, target>>
       PROVE  Orderly'
  <2>1. Queued(c)'
    BY <1>5, <1>15, <1>16, LandedQueues DEF rowVars
  <2>2. Ahead(c)'
    BY <1>16 DEF Ahead
  <2> QED BY <1>8, <1>15, <1>16, <2>1, <2>2, OneInOrder DEF rowVars
<1>17. ASSUME pc[c] = "add", provider # "tidal", UNCHANGED <<provider, made, rowVars, copies, synced, pending>>,
              pc' = pc \/ Goto(c, "checkpoint")
       PROVE  Orderly'
  <2>1. pc'[c] \in {"add", "checkpoint"} /\ \A d \in Callers \ {c} : pc'[d] = "idle"
    BY <1>7, <1>8, <1>15, <1>17 DEF Labels
  <2>2. Queued(c)'
    BY <1>10, <1>15, <1>17 DEF rowVars
  <2>3. Ahead(c)'
    BY <1>17, <2>1 DEF Ahead
  <2> QED BY <1>15, <1>17, <2>1, <2>2, <2>3, OneInOrder DEF rowVars
<1>18. CASE InsertVideo(c)
  BY <1>16, <1>17, <1>18, Portions, <1>5 DEF InsertVideo, Adding
<1>19. CASE PostTidal(c)
  <2>1. pc[c] = "add" /\ provider = "tidal" /\ todo[c] # <<>>
    BY <1>19 DEF PostTidal, Adding
  <2>2. CASE Land(c, Len(todo[c])) /\ UNCHANGED pc
    <3>1. Len(todo[c]) \in 0..Len(todo[c])
      BY <1>5, Portions
    <3>2. /\ todo'[c] = SubSeq(todo[c], Len(todo[c]) + 1, Len(todo[c]))
      BY <1>5, <2>2, <3>1, Landed
    <3>3. todo'[c] = <<>>
      <4>1. Len(todo[c]) + 1 \in Int /\ Len(todo[c]) \in Int /\ Len(todo[c]) < Len(todo[c]) + 1
        BY <3>1
      <4> QED BY <3>2, <4>1, SubSeqEmpty
    <3> QED BY <1>16, <1>19, <2>1, <2>2, <3>1, <3>3 DEF PostTidal
  <2>3. CASE Goto(c, "end") /\ UNCHANGED <<copies, synced, pending, todo>>
    <3>1. pc'[c] = "end" /\ \A d \in Callers \ {c} : pc'[d] = "idle"
      BY <1>7, <1>15, <2>1, <2>3 DEF Labels
    <3>2. Settled
      <4>1. \A d \in Callers : ~Ahead(d)
        BY <1>8, <1>15, <2>1 DEF Ahead
      <4> QED BY <4>1 DEF Orderly
    <3>3. UNCHANGED <<copies, rowPlaylist, ledger, made>>
      BY <1>19, <2>3 DEF PostTidal, rowVars
    <3> QED BY <1>9, <1>15, <2>1, <3>1, <3>2, <3>3, OneInOrder DEF HasRead
  <2> QED BY <1>19, <2>2, <2>3 DEF PostTidal
<1>20. CASE PostChunk(c)
  BY <1>16, <1>17, <1>20, <1>5, Portions DEF PostChunk, Adding
<1>21. CASE PostSingle(c)
  BY <1>16, <1>17, <1>21, <1>5, Portions DEF PostSingle, Adding
<1>22. CASE Checkpoint(c) \/ Finish(c)
  <2>1. AtWork(c) /\ HasRead(c) /\ pc[c] \in {"add", "checkpoint"}
    BY <1>22 DEF Checkpoint, Finish, AtWork, HasRead
  <2>2. \A d \in Callers : pc[d] # "persist"
    BY <1>8, <2>1
  <2>3. Queued(c) /\ made \in {0, 1} /\ rowPlaylist = made /\ target[c] = rowPlaylist
    BY <1>5, <2>1, <2>2 DEF Orderly, OnePlace, Earned
  <2>4. UNCHANGED <<copies, made>> /\ rowPlaylist' = rowPlaylist /\ ledger' = synced[c]
    BY <1>22, <2>3 DEF Checkpoint, Finish, provVars
  <2>5. Settled'
    <3> SUFFICES ASSUME NEW m \in Matches PROVE Backs(Known(m, ledger'), Got(m)')
      BY DEF Settled
    <3>1. Accounted(m, Got(m), synced[c], pending[c][m]) /\ Got(m) \in Nat /\ Got(m)' = Got(m)
      BY <1>5, <2>3, <2>4, GotIsNumber DEF Queued, Got
    <3> QED BY <2>4, <3>1, AccountedIsKnown
  <2>6. pc'[c] = "end" /\ \A d \in Callers \ {c} : pc'[d] = "idle"
    BY <1>7, <1>22, <2>1 DEF Checkpoint, Finish, Labels
  <2> QED BY <2>3, <2>4, <2>5, <2>6, OneInOrder DEF HasRead
<1>23. CASE End(c)
  <2>1. AtWork(c) /\ pc[c] = "end"
    BY <1>23 DEF End, AtWork
  <2>2. \A d \in Callers : ~Ahead(d) /\ pc[d] # "persist"
    BY <1>8, <2>1 DEF Ahead
  <2>3. pc'[c] = "idle" /\ \A d \in Callers \ {c} : pc'[d] = "idle"
    BY <1>7, <1>23, <2>1 DEF End, Forget, Labels
  <2>4. UNCHANGED <<copies, rowPlaylist, ledger, made>>
    BY <1>23 DEF End, provVars, rowVars
  <2>5. Settled /\ rowPlaylist = made /\ made \in {0, 1}
    BY <2>2 DEF Orderly, OnePlace
  <2> QED BY <1>9, <2>3, <2>4, <2>5, OneInOrder DEF HasRead
<1> QED BY <1>4, <1>11, <1>12, <1>13, <1>14, <1>18, <1>19, <1>20, <1>21, <1>22, <1>23 DEF Step

-----------------------------------------------------------------------------
(* Theorems *)

\* All that is known of every state.
LEMMA EngineHolds == Spec => [](EngineInvs /\ CalmInv)
<1>1. Init => EngineInvs /\ CalmInv
  BY StartsTyped, StartsTidy, StartsEarned, StartsOrderly DEF EngineInvs, Init, GrownInv, Grown, HasRead
<1>2. EngineInvs /\ CalmInv /\ [Next]_vars => EngineInvs' /\ CalmInv'
  <2> SUFFICES ASSUME EngineInvs, CalmInv, [Next]_vars PROVE EngineInvs' /\ CalmInv'
    OBVIOUS
  <2>1. CASE UNCHANGED vars
    <3>1. TypeInv'
      BY <2>1 DEF vars, provVars, rowVars, callVars, faults, history, EngineInvs, TypeInv, TypeOK, Enough
    <3>2. EngineInv'
      BY <2>1 DEF vars, provVars, rowVars, callVars, faults, history, EngineInvs, EngineInv, Shape, Tidy,
         AtWork, Placed, Orphans
    <3>3. EarnedInv' /\ GrownInv'
      BY <2>1 DEF vars, provVars, rowVars, callVars, faults, history, EngineInvs, EarnedInv, Earned, Held,
         GrownInv, Grown, HasRead
    <3>4. CalmInv'
      BY <2>1 DEF vars, provVars, rowVars, callVars, faults, history, CalmInv, Calm, Orderly, OnePlace,
         Ahead, Settled, Queued, HasRead, Got
    <3> QED BY <3>1, <3>2, <3>3, <3>4 DEF EngineInvs
  <2>2. ASSUME NEW c \in Callers, Begin(c) \/ Step(c) \/ Crash(c) \/ LoseAnswer(c)
        PROVE  EngineInvs' /\ CalmInv'
    <3>1. TypeInv' /\ Shape'
      BY <2>2, StepsKeepTypes, StepsKeepShape DEF EngineInvs, EngineInv
    <3>2. EngineInv'
      BY <2>2, <3>1, StepsKeepTidy DEF EngineInvs, EngineInv
    <3>3. EarnedInv' /\ GrownInv'
      BY <2>2, <3>1, StepsKeepEarned, StepsKeepGrown DEF EngineInvs, EarnedInv, GrownInv
    <3>4. ASSUME Calm' PROVE Orderly'
      <4>1. ASSUME Crash(c) \/ LoseAnswer(c) PROVE FALSE
        <5>1. crashes \in Nat /\ lost \in Nat /\ crashes' = 0 /\ lost' = 0
          BY <3>4, SizesAssumption DEF EngineInvs, TypeInv, TypeOK, Calm
        <5>2. crashes' = crashes + 1 \/ lost' = lost + 1
          <6>1. Crash(c) => crashes' = crashes + 1
            BY DEF Crash
          <6>2. LoseAnswer(c) => lost' = lost + 1
            BY DEF LoseAnswer
          <6> QED BY <4>1, <6>1, <6>2
        <5> QED BY <5>1, <5>2
      <4>2. Begin(c) \/ Step(c)
        BY <2>2, <4>1
      <4>3. Calm
        <5>1. crashes' = crashes /\ lost' = lost /\ (overlapped => overlapped')
          <6>1. Begin(c) => crashes' = crashes /\ lost' = lost /\ (overlapped => overlapped')
            BY DEF Begin, faults, history
          <6>2. ReadImport(c) => crashes' = crashes /\ lost' = lost /\ (overlapped => overlapped')
            BY DEF ReadImport, faults, history
          <6>3. CreatePlaylist(c) => crashes' = crashes /\ lost' = lost /\ (overlapped => overlapped')
            BY DEF CreatePlaylist, faults, history
          <6>4. PersistPlaylist(c) => crashes' = crashes /\ lost' = lost /\ (overlapped => overlapped')
            BY DEF PersistPlaylist, faults, history
          <6>5. InsertVideo(c) => crashes' = crashes /\ lost' = lost /\ (overlapped => overlapped')
            BY DEF InsertVideo, faults, history
          <6>6. Checkpoint(c) => crashes' = crashes /\ lost' = lost /\ (overlapped => overlapped')
            BY DEF Checkpoint, faults, history
          <6>7. PostTidal(c) => crashes' = crashes /\ lost' = lost /\ (overlapped => overlapped')
            BY DEF PostTidal, faults, history
          <6>8. PostChunk(c) => crashes' = crashes /\ lost' = lost /\ (overlapped => overlapped')
            BY DEF PostChunk, faults, history
          <6>9. PostSingle(c) => crashes' = crashes /\ lost' = lost /\ (overlapped => overlapped')
            BY DEF PostSingle, faults, history
          <6>10. Finish(c) => crashes' = crashes /\ lost' = lost /\ (overlapped => overlapped')
            BY DEF Finish, faults, history
          <6>11. End(c) => crashes' = crashes /\ lost' = lost /\ (overlapped => overlapped')
            BY DEF End, faults, history
          <6> QED BY <4>2, <6>1, <6>2, <6>3, <6>4, <6>5, <6>6, <6>7, <6>8, <6>9, <6>10, <6>11 DEF Step
        <5> QED BY <3>4, <5>1 DEF Calm
      <4> QED BY <2>2, <3>4, <4>3, StepsKeepOrderly DEF CalmInv
    <3> QED BY <3>1, <3>2, <3>3, <3>4 DEF EngineInvs, CalmInv
  <2> QED BY <2>1, <2>2 DEF Next
<1> QED BY <1>1, <1>2, PTL DEF Spec

\* Every variable keeps its type; what a caller takes from the queues of
\* fingerprints is there.
THEOREM EngineTyped == Spec => []TypeOK
<1>1. EngineInvs /\ CalmInv => TypeOK
  BY DEF EngineInvs, TypeInv
<1> QED BY <1>1, EngineHolds, PTL

\* However often a call fails and is repeated, one playlist is made and no
\* track is added more often than the source asks for it, as long as no
\* process dies, no answer is lost and calls do not overlap.
THEOREM RetriesAddNothingTwice == Spec => []RetriesTopUp
<1>1. EngineInvs /\ CalmInv => RetriesTopUp
  <2> SUFFICES ASSUME EngineInvs, CalmInv, Calm PROVE made <= 1 /\ NeverTwice
    BY DEF RetriesTopUp
  <2>1. TypeInv /\ Tidy /\ Orderly
    BY DEF EngineInvs, EngineInv, CalmInv, Calm
  <2>2. made <= 1
    BY <2>1 DEF Orderly, OnePlace
  <2>3. ASSUME NEW m \in Matches PROVE Got(m) <= Cardinality(TracksOf(m)) /\ Got(m) \in Nat
    <3>1. \E A \in SUBSET TracksOf(m) : Got(m) <= Cardinality(A)
      <4>1. CASE \E c \in Callers : Ahead(c)
        <5>1. PICK c \in Callers : Ahead(c)
          BY <4>1
        <5>2. Accounted(m, Got(m), synced[c], pending[c][m])
          BY <2>1, <5>1 DEF Ahead, HasRead, Orderly, Queued
        <5> QED BY <5>2 DEF Accounted, Backs
      <4>2. CASE \A c \in Callers : ~Ahead(c)
        <5>1. Known(m, ledger) \in SUBSET TracksOf(m)
          BY DEF Known
        <5> QED BY <2>1, <4>2, <5>1 DEF Orderly, Settled, Backs
      <4> QED BY <4>1, <4>2
    <3>2. PICK A \in SUBSET TracksOf(m) : Got(m) <= Cardinality(A)
      BY <3>1
    <3>3. TracksOf(m) \in SUBSET TracksOf(m)
      OBVIOUS
    <3>4. /\ Cardinality(A) \in Nat /\ Cardinality(TracksOf(m)) \in Nat
          /\ Cardinality(A) <= Cardinality(TracksOf(m))
      BY <3>3, TracksAreFinite, FS_Subset
    <3> QED BY <2>1, <3>2, <3>4, GotIsNumber, MoreBack
  <2>4. ASSUME NEW p \in Playlists, NEW m \in Matches PROVE copies[p][m] <= Wanted(m)
    <3>1. Wanted(m) = Cardinality(TracksOf(m)) /\ Wanted(m) \in Nat
      <4>1. TracksOf(m) \in SUBSET TracksOf(m)
        OBVIOUS
      <4> QED BY <4>1, TracksAreFinite DEF Wanted, TracksOf
    <3>2. CASE p = rowPlaylist
      <4>1. p # 0
        BY SizesAssumption DEF Playlists
      <4> QED BY <2>3, <3>1, <3>2, <4>1 DEF Got
    <3>3. CASE p # rowPlaylist
      <4>1. copies[p][m] = 0
        BY <2>1, <3>3 DEF Tidy, Orphans
      <4> QED BY <3>1, <4>1
    <3> QED BY <3>2, <3>3
  <2> QED BY <2>2, <2>4 DEF NeverTwice
<1> QED BY <1>1, EngineHolds, PTL

\* Between calls the ledger is the whole truth about a source without twins,
\* as long as no process dies, no answer is lost and calls do not overlap.
THEOREM LedgerIsWhole == Spec => []NothingForgotten
<1>1. EngineInvs /\ CalmInv => NothingForgotten
  <2> SUFFICES ASSUME EngineInvs, CalmInv, AtRest, Calm, rowPlaylist # 0, Cardinality(Fingerprints) = T,
                      NEW m \in Matches
               PROVE  Cardinality({t \in Tracks : Match[t] = m /\ Fp[t] \in Range(ledger)})
                        = copies[rowPlaylist][m]
    BY DEF NothingForgotten
  <2>1. Distinctive
    <3> DEFINE f == [t \in Tracks |-> Fp[t]]
    <3>1. f \in Surjection(Tracks, Fingerprints)
      BY DEF Surjection, Fingerprints
    <3>2. f \in Injection(Tracks, Fingerprints)
      BY <3>1, MatchesAreFinite, FS_SurjSameCardinalityImpliesInj
    <3> QED BY <3>2 DEF Injection, IsInjective, Distinctive
  <2>2. \A c \in Callers : ~Ahead(c)
    BY DEF AtRest, Ahead
  <2>3. Backs(Known(m, ledger), Got(m))
    BY <2>2 DEF CalmInv, Orderly, Settled
  <2>4. Known(m, ledger) = {t \in Tracks : Match[t] = m /\ Fp[t] \in Range(ledger)}
    BY DEF Known, TracksOf
  <2> QED BY <2>1, <2>3, <2>4 DEF Backs, Got
<1> QED BY <1>1, EngineHolds, PTL

\* A playlist the row does not name is empty, however many calls fail, crash
\* or lose an answer, as long as they do not overlap: the playlist is stored
\* before the first track is added.
THEOREM NoOrphanHasTracks == Spec => []OrphansAreEmpty
<1>1. EngineInvs /\ CalmInv => OrphansAreEmpty
  BY DEF EngineInvs, EngineInv, Tidy, Orphans, OrphansAreEmpty
<1> QED BY <1>1, EngineHolds, PTL

\* An import never claims more than the playlist it names received, whatever
\* calls overlap, unless one of them replaced the playlist.
THEOREM NothingMadeUp == Spec => []LedgerIsEarned
<1>1. EngineInvs /\ CalmInv => LedgerIsEarned
  <2> SUFFICES ASSUME EngineInvs, ~replaced
               PROVE  Len(ledger) <= (IF rowPlaylist = 0 THEN 0 ELSE Held(rowPlaylist))
    BY DEF LedgerIsEarned
  <2>1. Earned
    BY DEF EngineInvs, EarnedInv
  <2>2. Len(<<>>) = 0
    BY EmptySeq
  <2> QED BY <2>1, <2>2 DEF Earned
<1> QED BY <1>1, EngineHolds, PTL

\* What is recorded as synced stays recorded, whatever fails, crashes or loses
\* its answer, as long as calls do not overlap.
THEOREM NothingUnrecorded == Spec => LedgerOnlyGrows
<1>1. EngineInvs /\ CalmInv /\ [Next]_vars
        => [~overlapped => Range(ledger) \subseteq Range(ledger')]_ledger
  <2> SUFFICES ASSUME EngineInvs, [Next]_vars, ~overlapped, ledger' # ledger
               PROVE  Range(ledger) \subseteq Range(ledger')
    OBVIOUS
  <2>1. PICK c \in Callers : Begin(c) \/ Step(c) \/ Crash(c) \/ LoseAnswer(c)
    BY DEF Next, vars, rowVars
  <2>2. ~Begin(c)
    BY DEF Begin, rowVars
  <2>3. ~overlapped'
    BY <2>1, <2>2 DEF Step, Crash, LoseAnswer, ReadImport, CreatePlaylist, PersistPlaylist,
       InsertVideo, Checkpoint, PostTidal, PostChunk, PostSingle, Finish, End, faults, history
  <2> QED BY <2>1, <2>3, StepsKeepGrown DEF EngineInvs
<1> QED BY <1>1, EngineHolds, PTL DEF Spec, LedgerOnlyGrows
=============================================================================
