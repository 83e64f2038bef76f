------------------------------- MODULE Rankings -------------------------------
(***************************************************************************)
(* Facts about the ranks in a finite set under a strict order: what the    *)
(* sorted lists of the code that are cut after k elements (rank_datasets,  *)
(* prune_backups) have in common.                                          *)
(***************************************************************************)
EXTENDS FiniteSetTheorems, FunctionTheorems, TLAPS

\* before is a set of pairs: <<e, d>> says that e comes before d.
StrictlyOrders(before, S) ==
  /\ \A d \in S : <<d, d>> \notin before
  /\ \A c, d, e \in S : <<c, d>> \in before /\ <<d, e>> \in before => <<c, e>> \in before
  /\ \A d, e \in S : d = e \/ <<d, e>> \in before \/ <<e, d>> \in before

Ahead(S, before, d) == {e \in S : <<e, d>> \in before}
Rank(S, before) == [d \in S |-> Cardinality(Ahead(S, before, d))]
First(S, before, k) == {d \in S : Cardinality(Ahead(S, before, d)) < k}

(* Who comes later has more ahead.                                          *)
LEMMA LaterRanksHigher ==
  ASSUME NEW S, IsFiniteSet(S), NEW before, StrictlyOrders(before, S),
         NEW c \in S, NEW d \in S, <<c, d>> \in before
  PROVE  Cardinality(Ahead(S, before, c)) < Cardinality(Ahead(S, before, d))
  <1> DEFINE C == Ahead(S, before, c)
             D == Ahead(S, before, d)
  <1>1. C \subseteq D /\ c \in D /\ c \notin C
    BY DEF StrictlyOrders, Ahead
  <1>2. D \subseteq S
    BY DEF Ahead
  <1>3. IsFiniteSet(D) /\ IsFiniteSet(C)
    BY <1>1, <1>2, FS_Subset
  <1>4. Cardinality(C) <= Cardinality(D) /\ Cardinality(C) # Cardinality(D)
    BY <1>1, <1>3, FS_Subset
  <1>5. Cardinality(C) \in Nat /\ Cardinality(D) \in Nat
    BY <1>3, FS_CardinalityType
  <1>6. QED
    BY <1>4, <1>5

(* Every rank is taken once.                                                *)
LEMMA RanksAreTakenOnce ==
  ASSUME NEW S, IsFiniteSet(S), NEW before, StrictlyOrders(before, S)
  PROVE  Rank(S, before) \in Bijection(S, 0..(Cardinality(S) - 1))
  <1> DEFINE n == Cardinality(S)
             F == Rank(S, before)
             places == 0..(n - 1)
  <1>1. n \in Nat
    BY FS_CardinalityType
  <1>2. ASSUME NEW d \in S PROVE F[d] \in places
    <2> DEFINE D == Ahead(S, before, d)
    <2>1. D \subseteq S /\ d \notin D
      BY DEF StrictlyOrders, Ahead
    <2>2. IsFiniteSet(D) /\ Cardinality(D) <= n /\ Cardinality(D) # n
      BY <2>1, FS_Subset
    <2>3. Cardinality(D) \in Nat
      BY <2>2, FS_CardinalityType
    <2>4. F[d] = Cardinality(D)
      BY DEF Rank
    <2>5. QED
      BY <1>1, <2>2, <2>3, <2>4
  <1>3. F \in [S -> places]
    BY <1>2 DEF Rank
  <1>4. ASSUME NEW c \in S, NEW d \in S, F[c] = F[d] PROVE c = d
    <2>1. F[c] = Cardinality(Ahead(S, before, c)) /\ F[d] = Cardinality(Ahead(S, before, d))
      BY DEF Rank
    <2>2. F[c] \in places /\ F[d] \in places
      BY <1>2
    <2>3. ~(F[c] < F[d]) /\ ~(F[d] < F[c])
      BY <1>4, <2>2
    <2>4. <<c, d>> \notin before /\ <<d, c>> \notin before
      BY <2>1, <2>3, LaterRanksHigher
    <2>5. QED
      BY <2>4 DEF StrictlyOrders
  <1>5. F \in Injection(S, places)
    BY <1>3, <1>4, Fun_IsInj
  <1>6. IsFiniteSet(places) /\ Cardinality(places) = n
    BY <1>1, FS_Interval
  <1>7. F \in Surjection(S, places)
    BY <1>5, <1>6, FS_Injection
  <1>8. QED
    BY <1>5, <1>7 DEF Bijection

(* What a bijection is.                                                     *)
LEMMA BijectionMeans ==
  ASSUME NEW S, NEW T, NEW F \in Bijection(S, T)
  PROVE  /\ F \in [S -> T]
         /\ \A c, d \in S : F[c] = F[d] => c = d
         /\ \A t \in T : \E d \in S : F[d] = t
  <1>1. F \in Injection(S, T) /\ F \in Surjection(S, T)
    BY DEF Bijection
  <1>2. F \in [S -> T]
    BY <1>1, Fun_InjectionProperties
  <1>3. \A c, d \in S : F[c] = F[d] => c = d
    BY <1>1, Fun_InjectionProperties, Zenon
  <1>4. \A t \in T : \E d \in S : F[d] = t
    BY <1>1, Fun_SurjectionProperties, Zenon
  <1>5. QED
    BY <1>2, <1>3, <1>4

(* The first k are k elements, or all there are.                            *)
LEMMA FirstAreAsMany ==
  ASSUME NEW S, IsFiniteSet(S), NEW before, StrictlyOrders(before, S), NEW k \in Nat
  PROVE  /\ IsFiniteSet(First(S, before, k))
         /\ Cardinality(First(S, before, k)) = IF k < Cardinality(S) THEN k ELSE Cardinality(S)
  <1> DEFINE n == Cardinality(S)
             F == Rank(S, before)
             T == First(S, before, k)
  <1>1. n \in Nat
    BY FS_CardinalityType
  <1>2. F \in Bijection(S, 0..(n - 1))
    BY RanksAreTakenOnce
  <1>3. /\ F \in [S -> 0..(n - 1)]
        /\ \A c, d \in S : F[c] = F[d] => c = d
        /\ \A i \in 0..(n - 1) : \E d \in S : F[d] = i
    <2> DEFINE places == 0..(n - 1)
    <2> HIDE DEF F, places
    <2>1. F \in Bijection(S, places)
      BY <1>2 DEF places
    <2>2. /\ F \in [S -> places]
          /\ \A c, d \in S : F[c] = F[d] => c = d
          /\ \A i \in places : \E d \in S : F[d] = i
      BY <2>1, BijectionMeans
    <2>3. QED
      BY <2>2 DEF places
  <1>4. T = {d \in S : F[d] < k}
    BY DEF First, Rank
  <1>5. CASE k < n
    <2> DEFINE G == [d \in T |-> F[d]]
               places == 0..(k - 1)
    <2> HIDE DEF F, T
    <2>1. \A d \in T : F[d] \in places
      BY <1>3, <1>4
    <2>2. G \in [T -> places]
      BY <2>1
    <2>3. \A c, d \in T : G[c] = G[d] => c = d
      BY <1>3, <1>4
    <2>4. ASSUME NEW i \in places PROVE \E d \in T : G[d] = i
      <3>1. i \in 0..(n - 1) /\ i < k
        BY <1>1, <1>5
      <3>2. PICK d \in S : F[d] = i
        BY <1>3, <3>1
      <3>3. d \in T
        BY <1>4, <3>1, <3>2
      <3>4. QED
        BY <3>2, <3>3
    <2>5. G \in Injection(T, places) /\ G \in Surjection(T, places)
      BY <2>2, <2>3, <2>4, Fun_IsInj, Fun_IsSurj
    <2>6. ExistsBijection(T, places)
      BY <2>5 DEF Bijection, ExistsBijection
    <2>7. ExistsBijection(places, T)
      BY <2>6, Fun_ExistsBijSymmetric
    <2>8. IsFiniteSet(places) /\ Cardinality(places) = k
      BY FS_Interval
    <2>9. IsFiniteSet(T) /\ Cardinality(T) = k
      BY <2>7, <2>8, FS_Bijection
    <2>10. QED
      BY <1>5, <2>9 DEF T
  <1>6. CASE ~(k < n)
    <2>1. T = S
      BY <1>1, <1>3, <1>4, <1>6
    <2>2. QED
      BY <1>6, <2>1
  <1>7. QED
    BY <1>5, <1>6

(* Some element comes before all others.                                    *)
LEMMA SomeoneIsFirst ==
  ASSUME NEW S, IsFiniteSet(S), S # {}, NEW before, StrictlyOrders(before, S)
  PROVE  \E d \in S : \A e \in S : e = d \/ <<d, e>> \in before
  <1> DEFINE T == First(S, before, 1)
  <1>1. Cardinality(S) \in Nat /\ Cardinality(S) # 0
    BY FS_CardinalityType, FS_EmptySet
  <1>2. Cardinality(T) = 1
    BY <1>1, FirstAreAsMany
  <1>3. PICK d \in T : TRUE
    BY <1>2, FS_EmptySet
  <1>4. d \in S /\ Cardinality(Ahead(S, before, d)) < 1
    BY <1>3 DEF First
  <1>5. Ahead(S, before, d) = {}
    <2>1. Ahead(S, before, d) \subseteq S
      BY DEF Ahead
    <2>2. IsFiniteSet(Ahead(S, before, d))
      BY <2>1, FS_Subset
    <2>3. Cardinality(Ahead(S, before, d)) = 0
      BY <1>4, <2>2, FS_CardinalityType
    <2>4. QED
      BY <2>2, <2>3, FS_EmptySet
  <1>6. \A e \in S : e = d \/ <<d, e>> \in before
    BY <1>4, <1>5 DEF Ahead, StrictlyOrders
  <1>7. QED
    BY <1>4, <1>6

(* The values of a function on a finite set are finitely many.              *)
LEMMA ValuesAreFinite ==
  ASSUME NEW S, IsFiniteSet(S), NEW f
  PROVE  IsFiniteSet({f[x] : x \in S})
  <1> DEFINE T == {f[x] : x \in S}
             g == [x \in S |-> f[x]]
  <1>1. g \in [S -> T] /\ \A t \in T : \E x \in S : g[x] = t
    OBVIOUS
  <1> HIDE DEF g, T
  <1>2. g \in Surjection(S, T)
    BY <1>1, Fun_IsSurj
  <1>3. IsFiniteSet(T)
    BY <1>2, FS_Surjection
  <1>4. QED
    BY <1>3 DEF T

=============================================================================
