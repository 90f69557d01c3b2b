-------------------------- MODULE SelectionsProofs --------------------------
(***************************************************************************)
(* Lemmas about data that the proofs of the components share: induction    *)
(* over numbers and finite sets, what Selections and the library operators *)
(* on sequences and sets that the models use return, folds and sums among  *)
(* them.                                                                   *)
(*                                                                         *)
(* The induction theorems of the library take the predicate as a           *)
(* parameter, which cannot be instantiated here.  These take the set of    *)
(* the numbers, or sets, that satisfy it.                                  *)
(***************************************************************************)
EXTENDS Selections, FiniteSetTheorems, TLAPS

-----------------------------------------------------------------------------
(* Induction.                                                              *)

(* Every set of numbers that is not empty has a least one.                 *)
LEMMA LeastNumber ==
  ASSUME NEW S \in SUBSET Nat, S # {}
  PROVE  \E least \in S : \A n \in S : least <= n
  <1> DEFINE less == OpToRel(<, Nat)
  <1>1. \A m, n \in Nat : <<m, n>> \in less <=> m < n
    BY SMT DEF OpToRel
  <1>2. IsWellFoundedOn(less, Nat)
    BY NatLessThanWellFounded, Zenon
  <1> HIDE DEF less
  <1>3. PICK least \in S : \A n \in S : <<n, least>> \notin less
    BY <1>2, WFMin
  <1>4. \A n \in S : ~(n < least)
    BY <1>1, <1>3
  <1>5. QED
    BY <1>4

(* A set with 0 and the successor of each of its numbers has all of them.  *)
LEMMA NumberInduction ==
  ASSUME NEW S, 0 \in S, \A n \in Nat : n \in S => n + 1 \in S
  PROVE  \A n \in Nat : n \in S
  <1> SUFFICES ASSUME Nat \ S # {} PROVE FALSE
    OBVIOUS
  <1>1. PICK least \in Nat \ S : \A m \in Nat \ S : least <= m
    BY LeastNumber
  <1>2. least # 0 /\ least - 1 \in Nat /\ (least - 1) + 1 = least
    BY <1>1
  <1>3. least - 1 \in S
    BY <1>1, <1>2
  <1>4. QED
    BY <1>1, <1>2, <1>3

(* The same for the numbers up to k.                                       *)
LEMMA BoundedInduction ==
  ASSUME NEW k \in Nat, NEW S, 0 \in S, \A n \in 0..(k - 1) : n \in S => n + 1 \in S
  PROVE  \A n \in 0..k : n \in S
  <1> DEFINE T == {n \in Nat : n <= k => n \in S}
  <1>1. 0 \in T /\ \A n \in Nat : n \in T => n + 1 \in T
    OBVIOUS
  <1> HIDE DEF T
  <1>2. \A n \in Nat : n \in T
    BY <1>1, NumberInduction
  <1>3. QED
    BY <1>2 DEF T

(* A finite set is built from the empty one by adding its elements.        *)
LEMMA FiniteInduction ==
  ASSUME NEW S, IsFiniteSet(S), NEW F, {} \in F,
         \A T \in SUBSET S : \A x \in S \ T : T \in F => T \cup {x} \in F
  PROVE  S \in F
  <1>1. PICK f \in Bijection(1..Cardinality(S), S) : TRUE
    BY FS_CardinalityType DEF ExistsBijection
  <1>2. Cardinality(S) \in Nat
    BY FS_CardinalityType
  <1>3. /\ f \in [1..Cardinality(S) -> S]
        /\ \A i, j \in 1..Cardinality(S) : f[i] = f[j] => i = j
        /\ \A x \in S : \E i \in 1..Cardinality(S) : f[i] = x
    BY <1>1 DEF Bijection, Injection, Surjection, IsInjective
  <1> DEFINE size == Cardinality(S)
             part == [k \in 0..size |-> {f[i] : i \in 1..k}]
             K == {k \in 0..size : part[k] \in F}
  <1>4. part[0] = {} /\ part[size] = S /\ size \in Nat
    BY <1>2, <1>3
  <1>5. ASSUME NEW k \in 0..(size - 1)
        PROVE  /\ k + 1 \in 0..size /\ part[k + 1] = part[k] \cup {f[k + 1]}
               /\ part[k] \in SUBSET S /\ f[k + 1] \in S \ part[k]
    BY <1>2, <1>3
  <1> HIDE DEF size, part
  <1>6. \A k \in 0..size : k \in K
    <2>1. 0 \in K
      <3>1. 0 \in 0..size /\ part[0] \in F
        BY <1>4
      <3>2. QED
        BY <3>1
    <2>2. \A k \in 0..(size - 1) : k \in K => k + 1 \in K
      BY <1>5
    <2> HIDE DEF K
    <2>3. QED
      BY <1>4, <2>1, <2>2, BoundedInduction
  <1>7. QED
    BY <1>4, <1>6

-----------------------------------------------------------------------------
(* Sorting.                                                                *)

StrictOrder(S, R) ==
    /\ \A x \in S : <<x, x>> \notin R
    /\ \A x, y, z \in S : <<x, y>> \in R /\ <<y, z>> \in R => <<x, z>> \in R
    /\ \A x, y \in S : x # y => <<x, y>> \in R \/ <<y, x>> \in R

(* A sequence with each element of a finite set once.                      *)
Enumerates(s, S) ==
    /\ Cardinality(S) \in Nat /\ s \in [1..Cardinality(S) -> S]
    /\ \A m, n \in DOMAIN s : s[m] = s[n] => m = n
    /\ \A x \in S : \E n \in DOMAIN s : s[n] = x

(* Of two elements, the earlier has the lower rank; no rank is left out.   *)
LEMMA Ranks ==
  ASSUME NEW S, IsFiniteSet(S), NEW R, StrictOrder(S, R)
  PROVE  /\ \A x \in S : Rank(S, R, x) \in 0..(Cardinality(S) - 1)
         /\ \A x, y \in S : <<x, y>> \in R => Rank(S, R, x) < Rank(S, R, y)
         /\ \A n \in 0..(Cardinality(S) - 1) : \E x \in S : Rank(S, R, x) = n
  <1> DEFINE size == Cardinality(S)
             before == [x \in S |-> {y \in S : <<y, x>> \in R}]
             rank == [x \in S |-> Rank(S, R, x)]
  <1>1. size \in Nat
    BY FS_CardinalityType
  <1>2. \A x \in S : rank[x] = Cardinality(before[x])
    BY DEF Rank
  <1>3. \A x \in S : before[x] \in SUBSET S /\ x \notin before[x]
    BY DEF StrictOrder
  <1>4. \A x, y \in S : <<x, y>> \in R => before[x] \in SUBSET before[y] /\ x \in before[y]
    BY DEF StrictOrder
  <1> HIDE DEF before, rank, size
  <1>5. ASSUME NEW T, IsFiniteSet(T), NEW U \in SUBSET T, U # T
        PROVE  Cardinality(U) \in Nat /\ Cardinality(T) \in Nat /\ Cardinality(U) < Cardinality(T)
    <2>1. IsFiniteSet(U) /\ Cardinality(U) <= Cardinality(T) /\ Cardinality(T) # Cardinality(U)
      BY <1>5, FS_Subset
    <2>2. QED
      BY <1>5, <2>1, FS_CardinalityType
  <1>6. ASSUME NEW x \in S PROVE rank[x] \in 0..(size - 1) /\ IsFiniteSet(before[x])
    <2>1. before[x] \in SUBSET S /\ before[x] # S
      BY <1>3
    <2>2. Cardinality(before[x]) \in Nat /\ Cardinality(before[x]) < size
      BY <1>5, <2>1 DEF size
    <2>3. QED
      BY <1>1, <1>2, <2>1, <2>2, FS_Subset
  <1>7. ASSUME NEW x \in S, NEW y \in S, <<x, y>> \in R PROVE rank[x] < rank[y]
    <2>1. before[x] \in SUBSET before[y] /\ before[x] # before[y]
      BY <1>3, <1>4, <1>7
    <2>2. QED
      BY <1>2, <1>5, <1>6, <2>1
  <1>8. \A x, y \in S : rank[x] = rank[y] => x = y
    <2> SUFFICES ASSUME NEW x \in S, NEW y \in S, x # y PROVE rank[x] # rank[y]
      BY Zenon
    <2>1. <<x, y>> \in R \/ <<y, x>> \in R
      BY DEF StrictOrder
    <2>2. rank[x] \in Int /\ rank[y] \in Int
      BY <1>1, <1>6
    <2>3. QED
      BY <1>7, <2>1, <2>2
  <1>9. rank \in Injection(S, 0..(size - 1))
    BY <1>6, <1>8 DEF rank, Injection, IsInjective
  <1>10. IsFiniteSet(0..(size - 1)) /\ Cardinality(0..(size - 1)) = size
    BY <1>1, FS_Interval
  <1>11. rank \in Surjection(S, 0..(size - 1))
    BY <1>9, <1>10, FS_Injection DEF size
  <1>12. \A n \in 0..(size - 1) : \E x \in S : rank[x] = n
    BY <1>11 DEF Surjection
  <1>13. QED
    BY <1>6, <1>7, <1>12 DEF rank, size

(* Sorting gives each element once, in the order.                          *)
LEMMA SortedFacts ==
  ASSUME NEW S, IsFiniteSet(S), NEW R, StrictOrder(S, R)
  PROVE  /\ Enumerates(Sorted(S, R), S)
         /\ \A m, n \in 1..Cardinality(S) :
              m < n <=> <<Sorted(S, R)[m], Sorted(S, R)[n]>> \in R
  <1> DEFINE size == Cardinality(S)
             at == [n \in 1..size |-> CHOOSE x \in S : Rank(S, R, x) = n - 1]
             rank == [x \in S |-> Rank(S, R, x)]
  <1>1. size \in Nat
    BY FS_CardinalityType
  <1>2. /\ \A x \in S : rank[x] \in 0..(size - 1)
        /\ \A x, y \in S : <<x, y>> \in R => rank[x] < rank[y]
        /\ \A n \in 0..(size - 1) : \E x \in S : rank[x] = n
    BY Ranks
  <1>3. at = [n \in 1..size |-> CHOOSE x \in S : rank[x] = n - 1]
    OBVIOUS
  <1>4. Sorted(S, R) = SubSeq(at, 1, size)
    BY DEF Sorted
  <1> HIDE DEF size, at, rank
  <1>5. \A n \in 1..size : at[n] \in S /\ rank[at[n]] = n - 1
    <2> SUFFICES ASSUME NEW n \in 1..size PROVE at[n] \in S /\ rank[at[n]] = n - 1
      OBVIOUS
    <2>1. n - 1 \in 0..(size - 1)
      BY <1>1
    <2>2. \E x \in S : rank[x] = n - 1
      BY <1>2, <2>1
    <2>3. at[n] = CHOOSE x \in S : rank[x] = n - 1
      BY <1>3
    <2>4. QED
      BY <2>2, <2>3
  <1>6. Sorted(S, R) = at /\ at \in [1..size -> S]
    <2>1. at \in Seq(S) /\ Len(at) = size /\ at \in [1..size -> S]
      BY <1>1, <1>3, <1>5
    <2>2. QED
      BY <1>1, <1>4, <2>1
  <1>7. ASSUME NEW m \in 1..size, NEW n \in 1..size
        PROVE  /\ at[m] = at[n] => m = n
               /\ m < n <=> <<at[m], at[n]>> \in R
    <2>1. at[m] \in S /\ at[n] \in S /\ rank[at[m]] = m - 1 /\ rank[at[n]] = n - 1
      BY <1>5
    <2>2. at[m] = at[n] => m = n
      BY <1>1, <2>1
    <2>3. <<at[m], at[n]>> \in R => m < n
      BY <1>1, <1>2, <2>1
    <2>4. <<at[n], at[m]>> \in R => n < m
      BY <1>1, <1>2, <2>1
    <2>5. m < n => at[m] # at[n]
      BY <1>1, <2>1
    <2>6. m < n => <<at[m], at[n]>> \in R
      BY <1>1, <2>1, <2>4, <2>5 DEF StrictOrder
    <2>7. QED
      BY <2>2, <2>3, <2>6
  <1>8. ASSUME NEW x \in S PROVE \E n \in 1..size : at[n] = x
    <2>1. rank[x] + 1 \in 1..size
      BY <1>1, <1>2
    <2>2. rank[at[rank[x] + 1]] = rank[x] /\ at[rank[x] + 1] \in S
      BY <1>1, <1>2, <1>5, <2>1
    <2>3. at[rank[x] + 1] = x
      <3> DEFINE y == at[rank[x] + 1]
      <3> HIDE DEF y
      <3>1. y \in S /\ rank[y] = rank[x] /\ rank[x] \in Int
        BY <1>1, <1>2, <2>2 DEF y
      <3>2. <<x, y>> \notin R /\ <<y, x>> \notin R
        BY <1>2, <3>1
      <3>3. QED
        BY <3>1, <3>2 DEF StrictOrder, y
    <2>4. QED
      BY <2>1, <2>3
  <1>9. QED
    BY <1>1, <1>6, <1>7, <1>8 DEF Enumerates, size

(* A set of numbers, from the least on.                                    *)
LEMMA AscendingFacts ==
  ASSUME NEW P \in SUBSET Int, IsFiniteSet(P)
  PROVE  /\ Enumerates(Ascending[P], P)
         /\ \A m, n \in 1..Cardinality(P) : m < n <=> Ascending[P][m] < Ascending[P][n]
  <1> DEFINE less == {p \in P \X P : p[1] < p[2]}
  <1>1. \A x, y \in P : <<x, y>> \in less <=> x < y
    OBVIOUS
  <1>2. Ascending[P] = Sorted(P, less)
    BY DEF Ascending
  <1> HIDE DEF less
  <1>3. StrictOrder(P, less)
    BY <1>1 DEF StrictOrder
  <1>4. /\ Enumerates(Ascending[P], P)
        /\ \A m, n \in 1..Cardinality(P) : m < n <=> <<Ascending[P][m], Ascending[P][n]>> \in less
    BY <1>2, <1>3, SortedFacts
  <1>5. \A m \in 1..Cardinality(P) : Ascending[P][m] \in P
    BY <1>4 DEF Enumerates
  <1>6. QED
    BY <1>1, <1>4, <1>5

(* The n-th number has n - 1 smaller ones; one with c smaller ones comes   *)
(* next.                                                                   *)
LEMMA AscendingRanks ==
  ASSUME NEW P \in SUBSET Int, IsFiniteSet(P), NEW x \in P
  PROVE  /\ Cardinality({y \in P : y < x}) + 1 \in 1..Cardinality(P)
         /\ Ascending[P][Cardinality({y \in P : y < x}) + 1] = x
  <1> DEFINE size == Cardinality(P)
             at == Ascending[P]
             Below(n) == {y \in P : y < at[n]}
  <1>1. /\ size \in Nat /\ at \in [1..size -> P] /\ \E n \in 1..size : at[n] = x
        /\ \A m, n \in 1..size : m < n <=> at[m] < at[n]
        /\ \A y \in P : \E n \in 1..size : at[n] = y
        /\ \A m, n \in 1..size : at[m] = at[n] => m = n
    BY AscendingFacts DEF Enumerates
  <1> HIDE DEF at, size
  <1>2. PICK n \in 1..size : at[n] = x
    BY <1>1
  <1>3. [m \in 1..(n - 1) |-> at[m]] \in Bijection(1..(n - 1), Below(n))
    <2> DEFINE f == [m \in 1..(n - 1) |-> at[m]]
    <2>1. \A m \in 1..(n - 1) : m \in 1..size /\ f[m] = at[m] /\ f[m] \in Below(n)
      BY <1>1
    <2>2. \A m, k \in 1..(n - 1) : f[m] = f[k] => m = k
      BY <1>1, <2>1
    <2>3. ASSUME NEW y \in Below(n) PROVE \E m \in 1..(n - 1) : f[m] = y
      <3>1. PICK m \in 1..size : at[m] = y
        BY <1>1
      <3>2. m < n
        BY <1>1, <3>1
      <3>3. m \in 1..(n - 1)
        BY <1>1, <3>2
      <3>4. QED
        BY <2>1, <3>1, <3>3
    <2>4. f \in [1..(n - 1) -> Below(n)]
      BY <2>1
    <2> HIDE DEF f
    <2>5. f \in Injection(1..(n - 1), Below(n)) /\ f \in Surjection(1..(n - 1), Below(n))
      BY <2>2, <2>3, <2>4 DEF Injection, Surjection, IsInjective
    <2>6. QED
      BY <2>5 DEF Bijection, f
  <1>4. Cardinality(Below(n)) = n - 1
    <2>1. n - 1 \in Nat
      BY <1>1
    <2>2. ExistsBijection(1..(n - 1), Below(n))
      BY <1>3, Zenon DEF ExistsBijection
    <2>3. QED
      BY <2>1, <2>2, FS_CountingElements
  <1>5. Cardinality({y \in P : y < x}) + 1 = n
    BY <1>1, <1>2, <1>4
  <1>6. QED
    BY <1>2, <1>5 DEF at, size

(* A set that occurs in another one, moved by k and with the other numbers *)
(* below or above it, is sorted there as it is alone.                      *)
LEMMA Segments ==
  ASSUME NEW P \in SUBSET Int, IsFiniteSet(P), NEW Q \in SUBSET Int, IsFiniteSet(Q), NEW k \in Int,
         NEW low \in SUBSET P, \A x \in Q : x + k \in P \ low,
         \A y \in low : \A x \in Q : y < x + k,
         \A y \in P \ low : y - k \notin Q => \A x \in Q : x + k < y
  PROVE  /\ Cardinality(low) \in Nat /\ Cardinality(low) + Cardinality(Q) <= Cardinality(P)
         /\ \A n \in 1..Cardinality(Q) :
              Ascending[P][Cardinality(low) + n] = Ascending[Q][n] + k
  <1> DEFINE c == Cardinality(low)
  <1>1. IsFiniteSet(low) /\ c \in Nat /\ Cardinality(P) \in Nat /\ Cardinality(Q) \in Nat
    BY FS_Subset, FS_CardinalityType
  <1>2. ASSUME NEW R \in SUBSET Q, NEW X \in SUBSET P,
               X = low \cup {x + k : x \in R}
        PROVE  Cardinality(X) = c + Cardinality(R) /\ Cardinality(R) \in Nat
    <2> DEFINE moved == {x + k : x \in R}
               f == [x \in R |-> x + k]
    <2>1. f \in Bijection(R, moved)
      <3>1. \A x, y \in R : f[x] = f[y] => x = y
        OBVIOUS
      <3>2. \A y \in moved : \E x \in R : f[x] = y
        OBVIOUS
      <3>3. f \in [R -> moved]
        OBVIOUS
      <3> HIDE DEF f, moved
      <3>4. QED
        BY <3>1, <3>2, <3>3 DEF Bijection, Injection, Surjection, IsInjective
    <2>2. IsFiniteSet(R)
      BY FS_Subset
    <2>3. IsFiniteSet(moved) /\ Cardinality(moved) = Cardinality(R)
      BY <2>1, <2>2, FS_Bijection DEF ExistsBijection
    <2>4. low \cap moved = {}
      OBVIOUS
    <2> HIDE DEF moved
    <2>5. Cardinality(low \cup moved) = c + Cardinality(moved) - Cardinality({})
      BY <1>1, <2>3, <2>4, FS_Union
    <2>6. QED
      BY <1>1, <1>2, <2>2, <2>3, <2>5, FS_EmptySet, FS_CardinalityType DEF moved
  <1>3. c + Cardinality(Q) <= Cardinality(P)
    <2> DEFINE X == low \cup {x + k : x \in Q}
    <2>1. X \in SUBSET P
      OBVIOUS
    <2>2. Cardinality(X) = c + Cardinality(Q)
      BY <1>2, <2>1
    <2> HIDE DEF X
    <2>3. QED
      BY <2>1, <2>2, FS_Subset
  <1>4. ASSUME NEW n \in 1..Cardinality(Q) PROVE Ascending[P][c + n] = Ascending[Q][n] + k
    <2> DEFINE x == Ascending[Q][n]
               R == {z \in Q : z < x}
               X == {z \in P : z < x + k}
    <2>1. x \in Q /\ \A m \in 1..Cardinality(Q) : Ascending[Q][m] = x => m = n
      BY AscendingFacts DEF Enumerates
    <2>2. Cardinality(R) + 1 = n
      BY <2>1, AscendingRanks
    <2> HIDE DEF x
    <2>3. X = low \cup {z + k : z \in R}
      <3>1. ASSUME NEW y \in P, y < x + k, y \notin low PROVE y - k \in R
        BY <2>1, <3>1
      <3>2. \A y \in X : y \in low \/ \E z \in R : y = z + k
        BY <3>1
      <3>3. \A y \in low : y \in X
        BY <2>1
      <3>4. \A z \in R : z + k \in X
        BY <2>1
      <3>5. QED
        BY <3>2, <3>3, <3>4
    <2>4. Cardinality(X) = c + Cardinality(R) /\ Cardinality(R) \in Nat
      <3>1. R \in SUBSET Q /\ X \in SUBSET P
        OBVIOUS
      <3> HIDE DEF R, X
      <3>2. QED
        BY <1>2, <2>3, <3>1 DEF R
    <2>5. Ascending[P][Cardinality(X) + 1] = x + k
      BY <2>1, AscendingRanks
    <2>6. Cardinality(X) + 1 = c + n
      BY <1>1, <2>2, <2>4
    <2>7. QED
      BY <2>5, <2>6 DEF x
  <1>5. QED
    BY <1>1, <1>3, <1>4

-----------------------------------------------------------------------------
(* Selecting.                                                              *)

(* What is picked is at the places, in their order.                        *)
LEMMA PickedFacts ==
  ASSUME NEW s, NEW P \in SUBSET Int, IsFiniteSet(P)
  PROVE  /\ Cardinality(P) \in Nat
         /\ Picked(s, P) = [n \in 1..Cardinality(P) |-> s[Ascending[P][n]]]
         /\ ToSet(Picked(s, P)) = {s[i] : i \in P}
         /\ (\A i, j \in P : s[i] = s[j] => i = j) => IsInjective(Picked(s, P))
         /\ \A X : (\A i \in P : s[i] \in X) => Picked(s, P) \in Seq(X)
  <1> DEFINE at == Ascending[P]
             size == Cardinality(P)
  <1>1. /\ size \in Nat /\ at \in [1..size -> P]
        /\ \A m, n \in 1..size : at[m] = at[n] => m = n
        /\ \A i \in P : \E n \in 1..size : at[n] = i
    <2>1. Enumerates(at, P)
      BY AscendingFacts
    <2>2. QED
      BY <2>1 DEF Enumerates
  <1>2. Picked(s, P) = [n \in DOMAIN at |-> s[at[n]]]
    BY DEF Picked
  <1> HIDE DEF at, size
  <1>3. Picked(s, P) = [n \in 1..size |-> s[at[n]]]
    BY <1>1, <1>2
  <1> DEFINE r == Picked(s, P)
  <1>4. /\ r = [n \in 1..size |-> r[n]] /\ DOMAIN r = 1..size
        /\ \A n \in 1..size : at[n] \in P /\ r[n] = s[at[n]]
    BY <1>1, <1>3
  <1> HIDE DEF r
  <1>5. ToSet(r) = {s[i] : i \in P}
    <2>1. \A i \in P : \E n \in DOMAIN r : r[n] = s[i]
      BY <1>1, <1>4
    <2>2. \A n \in DOMAIN r : \E i \in P : r[n] = s[i]
      BY <1>4
    <2>3. ToSet(r) = {r[n] : n \in DOMAIN r}
      BY DEF ToSet
    <2>4. QED
      BY <2>1, <2>2, <2>3
  <1>6. ASSUME \A i, j \in P : s[i] = s[j] => i = j PROVE IsInjective(r)
    <2>1. \A m, n \in 1..size : r[m] = r[n] => m = n
      BY <1>1, <1>4, <1>6
    <2>2. QED
      BY <1>4, <2>1 DEF IsInjective
  <1>7. ASSUME NEW X, \A i \in P : s[i] \in X PROVE r \in Seq(X)
    <2>1. \A n \in 1..size : r[n] \in X
      BY <1>4, <1>7
    <2>2. QED
      BY <1>1, <1>4, <2>1
  <1>8. QED
    BY <1>1, <1>3, <1>5, <1>6, <1>7 DEF at, size, r

(* The places of a sequence are finitely many numbers.                     *)
LEMMA Places ==
  ASSUME NEW n \in Nat, NEW P \in SUBSET (1..n)
  PROVE  P \in SUBSET Int /\ IsFiniteSet(P)
  <1>1. IsFiniteSet(1..n)
    BY FS_Interval
  <1>2. IsFiniteSet(P)
    BY <1>1, FS_Subset
  <1>3. QED
    BY <1>2

(* What Picked leaves: DOMAIN s is a set of numbers.                       *)
LEMMA PickedFromSeq ==
  ASSUME NEW X, NEW s \in Seq(X), NEW P \in SUBSET DOMAIN s, NEW Y, \A i \in P : s[i] \in Y
  PROVE  Picked(s, P) \in Seq(Y)
  <1>1. P \in SUBSET (1..Len(s)) /\ Len(s) \in Nat
    OBVIOUS
  <1>2. P \in SUBSET Int /\ IsFiniteSet(P)
    BY <1>1, Places
  <1>3. QED
    BY <1>2, PickedFacts

(* Distinct leaves each element once.                                      *)
LEMMA DistinctFacts ==
  ASSUME NEW X, NEW s \in Seq(X)
  PROVE  /\ Distinct(s) \in Seq(X) /\ IsInjective(Distinct(s))
         /\ ToSet(Distinct(s)) = ToSet(s)
  <1>1. Firsts(s) \in SUBSET (1..Len(s)) /\ Len(s) \in Nat
    BY DEF Firsts
  <1>2. Firsts(s) \in SUBSET Int /\ IsFiniteSet(Firsts(s))
    BY <1>1, Places
  <1>3. \A i, j \in Firsts(s) : s[i] = s[j] => i = j
    BY DEF Firsts
  <1>4. {s[i] : i \in Firsts(s)} = ToSet(s)
    <2>1. ASSUME NEW k \in DOMAIN s PROVE \E i \in Firsts(s) : s[i] = s[k]
      <3> DEFINE same == {i \in DOMAIN s : s[i] = s[k]}
      <3>1. same \in SUBSET Nat /\ k \in same
        BY <1>1
      <3>2. PICK i \in same : \A j \in same : i <= j
        BY <3>1, LeastNumber
      <3>3. i \in Firsts(s)
        BY <3>1, <3>2 DEF Firsts
      <3>4. QED
        BY <3>3
    <2>2. QED
      BY <1>1, <2>1 DEF ToSet
  <1>5. \A i \in Firsts(s) : s[i] \in X
    BY <1>1
  <1>6. QED
    BY <1>2, <1>3, <1>4, <1>5, PickedFacts DEF Distinct

(* SetToSeq gives each element of a finite set once.                       *)
LEMMA SetToSeqFacts ==
  ASSUME NEW S, IsFiniteSet(S)
  PROVE  /\ SetToSeq(S) \in [1..Cardinality(S) -> S] /\ Cardinality(S) \in Nat
         /\ SetToSeq(S) \in Seq(S) /\ IsInjective(SetToSeq(S)) /\ ToSet(SetToSeq(S)) = S
  <1> DEFINE size == Cardinality(S)
  <1>1. size \in Nat /\ \E f \in [1..size -> S] : IsInjective(f)
    BY FS_CardinalityType DEF ExistsBijection, Bijection, Injection
  <1>2. SetToSeq(S) = CHOOSE f \in [1..size -> S] : IsInjective(f)
    BY DEF SetToSeq
  <1>3. SetToSeq(S) \in [1..size -> S] /\ IsInjective(SetToSeq(S))
    BY <1>1, <1>2
  <1>4. SetToSeq(S) \in Injection(1..size, S)
    BY <1>3 DEF Injection
  <1>5. IsFiniteSet(1..size) /\ Cardinality(1..size) = size
    BY <1>1, FS_Interval
  <1>6. SetToSeq(S) \in Surjection(1..size, S)
    BY <1>4, <1>5, FS_Injection
  <1>7. ToSet(SetToSeq(S)) = S
    BY <1>3, <1>6 DEF ToSet, Surjection
  <1>8. QED
    BY <1>1, <1>3, <1>7

-----------------------------------------------------------------------------
(* Concatenation.                                                          *)

(* A concatenation has the elements of both.                               *)
LEMMA ConcatFacts ==
  ASSUME NEW X, NEW s \in Seq(X), NEW t \in Seq(X)
  PROVE  /\ s \o t \in Seq(X)
         /\ ToSet(s \o t) = ToSet(s) \cup ToSet(t)
         /\ IsInjective(s) /\ IsInjective(t) /\ ToSet(s) \cap ToSet(t) = {}
              => IsInjective(s \o t)
  <1> DEFINE u == s \o t
  <1>1. /\ u \in Seq(X) /\ Len(u) = Len(s) + Len(t) /\ Len(s) \in Nat /\ Len(t) \in Nat
        /\ DOMAIN s = 1..Len(s) /\ DOMAIN t = 1..Len(t) /\ DOMAIN u = 1..Len(u)
        /\ \A i \in 1..Len(u) : u[i] = IF i <= Len(s) THEN s[i] ELSE t[i - Len(s)]
    OBVIOUS
  <1> HIDE DEF u
  <1>2. ASSUME NEW i \in DOMAIN s PROVE i \in DOMAIN u /\ u[i] = s[i]
    BY <1>1
  <1>3. ASSUME NEW i \in DOMAIN t PROVE i + Len(s) \in DOMAIN u /\ u[i + Len(s)] = t[i]
    <2>1. i + Len(s) \in DOMAIN u /\ ~(i + Len(s) <= Len(s)) /\ (i + Len(s)) - Len(s) = i
      BY <1>1
    <2>2. QED
      BY <1>1, <2>1
  <1>4. ASSUME NEW i \in DOMAIN u
        PROVE  \/ i \in DOMAIN s /\ u[i] = s[i]
               \/ i - Len(s) \in DOMAIN t /\ u[i] = t[i - Len(s)]
    BY <1>1
  <1>5. ToSet(u) = ToSet(s) \cup ToSet(t)
    BY <1>2, <1>3, <1>4 DEF ToSet
  <1>6. ASSUME IsInjective(s), IsInjective(t), ToSet(s) \cap ToSet(t) = {}
        PROVE  IsInjective(u)
    <2>1. ASSUME NEW i \in DOMAIN u, NEW j \in DOMAIN u, u[i] = u[j] PROVE i = j
      <3>1. CASE i \in DOMAIN s /\ u[i] = s[i] /\ j \in DOMAIN s /\ u[j] = s[j]
        BY <1>6, <2>1, <3>1 DEF IsInjective
      <3>2. CASE /\ i - Len(s) \in DOMAIN t /\ u[i] = t[i - Len(s)]
                 /\ j - Len(s) \in DOMAIN t /\ u[j] = t[j - Len(s)]
        <4>1. i - Len(s) = j - Len(s)
          BY <1>6, <2>1, <3>2 DEF IsInjective
        <4>2. QED
          BY <1>1, <4>1
      <3>3. \A k \in DOMAIN s : \A l \in DOMAIN t : s[k] # t[l]
        BY <1>6 DEF ToSet
      <3>4. QED
        BY <1>4, <2>1, <3>1, <3>2, <3>3
    <2>2. QED
      BY <2>1 DEF IsInjective
  <1>7. QED
    BY <1>1, <1>5, <1>6 DEF u

(* FlattenSeq concatenates one sequence after the other: its prefixes are  *)
(* the function the library defines by recursion.                          *)
Concatenations(s, n, h) == h = [i \in 1..n |-> IF i = 1 THEN s[i] ELSE h[i - 1] \o s[i]]

(* The concatenations of the first sequences exist.                        *)
LEMMA ConcatenationsExist ==
  ASSUME NEW s, NEW n \in Nat
  PROVE  \E h : Concatenations(s, n, h)
  <1> DEFINE K == {k \in Nat : \E h : Concatenations(s, k, h)}
  <1>1. 0 \in K
    <2>1. Concatenations(s, 0, [i \in 1..0 |-> s[i]])
      BY DEF Concatenations
    <2>2. QED
      BY <2>1
  <1>2. ASSUME NEW k \in Nat, k \in K PROVE k + 1 \in K
    <2>1. PICK h : Concatenations(s, k, h)
      BY <1>2
    <2> DEFINE g == [i \in 1..(k + 1) |->
                       IF i = k + 1 THEN IF i = 1 THEN s[i] ELSE h[i - 1] \o s[i] ELSE h[i]]
    <2>2. \A i \in 1..k : h[i] = IF i = 1 THEN s[i] ELSE h[i - 1] \o s[i]
      BY <2>1 DEF Concatenations
    <2>3. ASSUME NEW i \in 1..(k + 1)
          PROVE  g[i] = IF i = 1 THEN s[i] ELSE g[i - 1] \o s[i]
      <3>1. i # 1 => g[i - 1] = h[i - 1]
        OBVIOUS
      <3>2. CASE i = k + 1
        BY <3>1, <3>2
      <3>3. CASE i # k + 1
        BY <2>2, <3>1, <3>3
      <3>4. QED
        BY <3>2, <3>3
    <2>4. g = [i \in 1..(k + 1) |-> g[i]]
      OBVIOUS
    <2> HIDE DEF g
    <2>5. Concatenations(s, k + 1, g)
      BY <2>3, <2>4 DEF Concatenations
    <2>6. QED
      BY <2>5
  <1> HIDE DEF K
  <1>3. n \in K
    BY <1>1, <1>2, NumberInduction
  <1>4. QED
    BY <1>3 DEF K

(* FlattenSeq has the elements of all, each once if they are apart.        *)
LEMMA FlattenFacts ==
  ASSUME NEW X, NEW s \in Seq(Seq(X))
  PROVE  /\ FlattenSeq(s) \in Seq(X)
         /\ ToSet(FlattenSeq(s)) = UNION {ToSet(s[i]) : i \in DOMAIN s}
         /\ /\ \A i \in DOMAIN s : IsInjective(s[i])
            /\ \A i, j \in DOMAIN s : i # j => ToSet(s[i]) \cap ToSet(s[j]) = {}
            => IsInjective(FlattenSeq(s))
  <1> DEFINE n == Len(s)
             h == CHOOSE f : f = [i \in 1..n |-> IF i = 1 THEN s[i] ELSE f[i - 1] \o s[i]]
             Apart == /\ \A i \in DOMAIN s : IsInjective(s[i])
                      /\ \A i, j \in DOMAIN s : i # j => ToSet(s[i]) \cap ToSet(s[j]) = {}
             Good(i) == /\ h[i] \in Seq(X)
                        /\ ToSet(h[i]) = UNION {ToSet(s[j]) : j \in 1..i}
                        /\ Apart => IsInjective(h[i])
             K == {i \in 0..n : i = 0 \/ Good(i)}
  <1>1. n \in Nat /\ DOMAIN s = 1..n /\ \A i \in 1..n : s[i] \in Seq(X)
    OBVIOUS
  <1>2. FlattenSeq(s) = IF n = 0 THEN s ELSE h[n]
    BY Zenon DEF FlattenSeq
  <1>3. \A i \in 1..n : h[i] = IF i = 1 THEN s[i] ELSE h[i - 1] \o s[i]
    <2>1. \E f : Concatenations(s, n, f)
      BY <1>1, ConcatenationsExist
    <2>2. h = [i \in 1..n |-> IF i = 1 THEN s[i] ELSE h[i - 1] \o s[i]]
      BY <2>1, Zenon DEF Concatenations
    <2> HIDE DEF h
    <2>3. QED
      BY <2>2
  <1> HIDE DEF h, n, Apart
  <1>4. ASSUME NEW i \in 0..(n - 1), i \in K PROVE i + 1 \in K
    <2>1. i + 1 \in 1..n /\ s[i + 1] \in Seq(X) /\ (i + 1) - 1 = i
      BY <1>1
    <2>2. CASE i = 0
      <3>1. h[i + 1] = s[i + 1] /\ 1..(i + 1) = {i + 1}
        BY <1>3, <2>1, <2>2
      <3>2. UNION {ToSet(s[j]) : j \in {i + 1}} = ToSet(s[i + 1])
        OBVIOUS
      <3>3. Apart => IsInjective(s[i + 1])
        BY <1>1, <2>1 DEF Apart
      <3>4. QED
        BY <1>1, <2>1, <3>1, <3>2, <3>3
    <2>3. CASE i # 0
      <3>1. h[i + 1] = h[i] \o s[i + 1]
        <4>1. i + 1 # 1
          BY <1>1, <2>3
        <4>2. h[i + 1] = h[(i + 1) - 1] \o s[i + 1]
          BY <1>3, <2>1, <4>1
        <4>3. QED
          BY <2>1, <4>2
      <3>2. Good(i)
        BY <1>4, <2>3
      <3>3. h[i + 1] \in Seq(X) /\ ToSet(h[i + 1]) = ToSet(h[i]) \cup ToSet(s[i + 1])
        BY <2>1, <3>1, <3>2, ConcatFacts
      <3>4. UNION {ToSet(s[j]) : j \in 1..(i + 1)}
              = (UNION {ToSet(s[j]) : j \in 1..i}) \cup ToSet(s[i + 1])
        <4>1. 1..(i + 1) = (1..i) \cup {i + 1}
          OBVIOUS
        <4>2. QED
          BY <4>1
      <3>5. ASSUME Apart PROVE IsInjective(h[i + 1])
        <4>1. ToSet(h[i]) \cap ToSet(s[i + 1]) = {}
          <5>1. \A j \in 1..i : j \in DOMAIN s /\ j # i + 1
            BY <1>1
          <5>2. \A j \in 1..i : ToSet(s[j]) \cap ToSet(s[i + 1]) = {}
            BY <1>1, <2>1, <3>5, <5>1 DEF Apart
          <5>3. QED
            BY <3>2, <5>2
        <4>2. IsInjective(s[i + 1]) /\ IsInjective(h[i])
          BY <1>1, <2>1, <3>2, <3>5 DEF Apart
        <4>3. QED
          BY <2>1, <3>1, <3>2, <4>1, <4>2, ConcatFacts
      <3>6. Good(i + 1)
        BY <3>2, <3>3, <3>4, <3>5
      <3>7. QED
        BY <1>1, <2>1, <3>6
    <2>4. QED
      BY <2>2, <2>3
  <1>5. n \in K
    <2>1. 0 \in K
      BY <1>1
    <2> HIDE DEF K
    <2>2. \A i \in 0..(n - 1) : i \in K => i + 1 \in K
      BY <1>4
    <2>3. n \in 0..n
      BY <1>1
    <2>4. QED
      BY <1>1, <2>1, <2>2, <2>3, BoundedInduction
  <1>6. CASE n = 0
    <2>1. FlattenSeq(s) = <<>> /\ DOMAIN s = {} /\ s = <<>>
      BY <1>1, <1>2, <1>6 DEF n
    <2>2. QED
      BY <2>1 DEF ToSet, IsInjective
  <1>7. CASE n # 0
    BY <1>1, <1>2, <1>5, <1>7 DEF Apart
  <1>8. QED
    BY <1>6, <1>7

-----------------------------------------------------------------------------
(* Folds over sets, which the library defines by recursion over subsets.   *)

(* A property of the subsets of a finite set that each has if a smaller one *)
(* has it.                                                                 *)
LEMMA SizeInduction ==
  ASSUME NEW S, IsFiniteSet(S), NEW F, {} \in F,
         \A T \in SUBSET S : T # {} => \E x \in T : T \ {x} \in F => T \in F
  PROVE  \A T \in SUBSET S : T \in F
  <1> DEFINE K == {n \in Nat : \A T \in SUBSET S : Cardinality(T) = n => T \in F}
  <1>1. \A T \in SUBSET S : /\ IsFiniteSet(T) /\ Cardinality(T) \in Nat
                            /\ Cardinality(T) = 0 => T = {}
    BY FS_Subset, FS_CardinalityType, FS_EmptySet
  <1>1a. Cardinality({}) = 0
    BY FS_EmptySet
  <1>2. 0 \in K
    BY <1>1
  <1>3. ASSUME NEW n \in Nat, n \in K PROVE n + 1 \in K
    <2> SUFFICES ASSUME NEW T \in SUBSET S, Cardinality(T) = n + 1 PROVE T \in F
      OBVIOUS
    <2>1. T # {}
      <3>1. n + 1 # 0
        OBVIOUS
      <3>2. QED
        BY <1>1a, <3>1, Zenon
    <2>2. PICK x \in T : T \ {x} \in F => T \in F
      BY <2>1
    <2>3. Cardinality(T \ {x}) = n
      BY <1>1, FS_RemoveElement
    <2>4. QED
      BY <1>3, <2>2, <2>3
  <1> HIDE DEF K
  <1>4. \A n \in Nat : n \in K
    BY <1>2, <1>3, NumberInduction
  <1>5. QED
    BY <1>1, <1>4 DEF K

(* Two functions that are computed the same way agree.                     *)
LEMMA FoldAgrees ==
  ASSUME NEW S, IsFiniteSet(S), NEW f, NEW h, f[{}] = h[{}],
         \A T \in SUBSET S : T # {} => \E x \in T : f[T \ {x}] = h[T \ {x}] => f[T] = h[T]
  PROVE  f[S] = h[S]
  <1> DEFINE F == {T \in SUBSET S : f[T] = h[T]}
  <1>1. {} \in F
    OBVIOUS
  <1>2. ASSUME NEW T \in SUBSET S, T # {} PROVE \E x \in T : T \ {x} \in F => T \in F
    <2>1. PICK x \in T : f[T \ {x}] = h[T \ {x}] => f[T] = h[T]
      BY <1>2
    <2>2. T \ {x} \in F => T \in F
      BY <2>1
    <2>3. QED
      BY <2>2
  <1> HIDE DEF F
  <1>3. \A T \in SUBSET S : T \in F
    BY <1>1, <1>2, SizeInduction, Zenon
  <1>4. QED
    BY <1>3 DEF F

(* A fold of values of V that takes the elements as pick says is one of V. *)
Picks(S, pick) == \A T \in SUBSET S : T # {} => pick[T] \in T
Folds(S, pick, base, op, g) ==
    \A T \in SUBSET S : g[T] = IF T = {} THEN base ELSE op[<<pick[T], g[T \ {pick[T]}]>>]

(* Such a fold exists for every choice of elements.                        *)
LEMMA FoldExists ==
  ASSUME NEW S, IsFiniteSet(S), NEW pick, Picks(S, pick),
         NEW V, NEW base \in V, NEW op \in [S \X V -> V]
  PROVE  \E g \in [SUBSET S -> V] : Folds(S, pick, base, op, g)
  <1> DEFINE Upto(n, g) == \A T \in SUBSET S : Cardinality(T) <= n =>
                             g[T] = IF T = {} THEN base ELSE op[<<pick[T], g[T \ {pick[T]}]>>]
             K == {n \in Nat : \E g \in [SUBSET S -> V] : Upto(n, g)}
  <1>1. \A T \in SUBSET S : /\ IsFiniteSet(T) /\ Cardinality(T) \in Nat
                            /\ Cardinality(T) = 0 <=> T = {}
                            /\ Cardinality(T) <= Cardinality(S)
    BY FS_Subset, FS_CardinalityType, FS_EmptySet
  <1>2. \A T \in SUBSET S : T # {} => pick[T] \in T
    BY DEF Picks
  <1>3. \A T \in SUBSET S : T # {} => Cardinality(T \ {pick[T]}) = Cardinality(T) - 1
    BY <1>1, <1>2, FS_RemoveElement
  <1>4. 0 \in K
    <2>1. Upto(0, [T \in SUBSET S |-> base])
      BY <1>1
    <2>2. QED
      BY <2>1
  <1>5. ASSUME NEW n \in Nat, n \in K PROVE n + 1 \in K
    <2>1. PICK g \in [SUBSET S -> V] : Upto(n, g)
      BY <1>5
    <2> DEFINE G == [T \in SUBSET S |-> IF Cardinality(T) = n + 1
                                        THEN op[<<pick[T], g[T \ {pick[T]}]>>] ELSE g[T]]
    <2>2. \A T \in SUBSET S : Cardinality(T) = n + 1 =>
            T # {} /\ op[<<pick[T], g[T \ {pick[T]}]>>] \in V
      BY <1>1, <1>2
    <2>3. G \in [SUBSET S -> V]
      BY <2>2
    <2>4. \A T \in SUBSET S : G[T] = IF Cardinality(T) = n + 1
                                     THEN op[<<pick[T], g[T \ {pick[T]}]>>] ELSE g[T]
      OBVIOUS
    <2> HIDE DEF G
    <2>5. ASSUME NEW T \in SUBSET S, Cardinality(T) <= n + 1
          PROVE  G[T] = IF T = {} THEN base ELSE op[<<pick[T], G[T \ {pick[T]}]>>]
      <3>1. T # {} => /\ T \ {pick[T]} \in SUBSET S
                      /\ Cardinality(T \ {pick[T]}) # n + 1
        BY <1>1, <1>3, <2>5
      <3>2. T # {} => G[T \ {pick[T]}] = g[T \ {pick[T]}]
        BY <2>4, <3>1
      <3>3. CASE Cardinality(T) = n + 1
        BY <2>2, <2>4, <3>2, <3>3
      <3>4. CASE Cardinality(T) # n + 1
        <4>1. Cardinality(T) <= n
          BY <1>1, <2>5, <3>4
        <4>2. G[T] = g[T]
          BY <2>4, <3>4
        <4>3. QED
          BY <2>1, <3>2, <4>1, <4>2
      <3>5. QED
        BY <3>3, <3>4
    <2>6. Upto(n + 1, G)
      BY <2>5
    <2> HIDE DEF Upto
    <2>7. QED
      BY <2>3, <2>6
  <1>6. Cardinality(S) \in K
    <2> HIDE DEF K
    <2>1. QED
      BY <1>1, <1>4, <1>5, NumberInduction
  <1>7. PICK g \in [SUBSET S -> V] : Upto(Cardinality(S), g)
    BY <1>6
  <1>8. Folds(S, pick, base, op, g)
    BY <1>1, <1>7 DEF Folds
  <1>9. QED
    BY <1>8

(* The totals of a function over its domain.                               *)
Total(f) == MapThenSumSet(LAMBDA x : f[x], DOMAIN f)

(* The rows with a key: one more if a row with it is added.                *)
Group(rows, key, k) == {r \in rows : key[r] = k}

(* A row counts in the group of its key.                                   *)
LEMMA GroupGrows ==
  ASSUME NEW T, IsFiniteSet(T), NEW key, NEW x \in T, NEW k
  PROVE  /\ Cardinality(Group(T, key, k)) \in Nat
         /\ Cardinality(Group(T, key, k)) =
              Cardinality(Group(T \ {x}, key, k)) + (IF k = key[x] THEN 1 ELSE 0)
  <1>1. IsFiniteSet(T \ {x})
    BY FS_RemoveElement
  <1>2. Group(T, key, k) \in SUBSET T /\ Group(T \ {x}, key, k) \in SUBSET (T \ {x})
    BY DEF Group
  <1>3. IsFiniteSet(Group(T, key, k)) /\ IsFiniteSet(Group(T \ {x}, key, k))
    BY <1>1, <1>2, FS_Subset
  <1>4. Cardinality(Group(T, key, k)) \in Nat /\ Cardinality(Group(T \ {x}, key, k)) \in Nat
    BY <1>3, FS_CardinalityType
  <1>5. CASE k = key[x]
    <2>1. Group(T \ {x}, key, k) = Group(T, key, k) \ {x} /\ x \in Group(T, key, k)
      BY <1>5 DEF Group
    <2>2. Cardinality(Group(T \ {x}, key, k)) = Cardinality(Group(T, key, k)) - 1
      BY <1>3, <2>1, FS_RemoveElement
    <2>3. QED
      BY <1>4, <1>5, <2>2
  <1>6. CASE k # key[x]
    <2>1. Group(T \ {x}, key, k) = Group(T, key, k)
      BY <1>6 DEF Group
    <2>2. QED
      BY <1>4, <1>6, <2>1
  <1>7. QED
    BY <1>5, <1>6

(* The sizes of the groups add up to that of the set.                      *)
LEMMA TotalOfGroups ==
  ASSUME NEW S, IsFiniteSet(S), NEW key, NEW f, DOMAIN f = {key[y] : y \in S},
         \A k \in DOMAIN f : f[k] = Cardinality(Group(S, key, k))
  PROVE  Total(f) = Cardinality(S)
  <1> DEFINE D == DOMAIN f
             within(K) == {y \in S : key[y] \in K}
             h == [K \in SUBSET D |-> Cardinality(within(K))]
             pick(K) == CHOOSE k \in K : TRUE
             iter == CHOOSE g : g = [K \in SUBSET D |->
                        IF K = {} THEN 0
                        ELSE LET x == CHOOSE k \in K : TRUE IN f[x] + g[K \ {x}]]
  <1>1. Total(f) = iter[D]
    BY Zenon DEF Total, MapThenSumSet, MapThenFoldSet
  <1>2. IsFiniteSet(D)
    <2>1. [y \in S |-> key[y]] \in Surjection(S, D)
      BY DEF Surjection
    <2>2. QED
      BY <2>1, FS_Surjection
  <1>3. \A K \in SUBSET D : K # {} => pick(K) \in K
    OBVIOUS
  <1>4. ASSUME NEW K \in SUBSET D, NEW x \in K
        PROVE  h[K] = f[x] + h[K \ {x}]
    <2>1. /\ within(K) = within(K \ {x}) \cup Group(S, key, x)
          /\ within(K \ {x}) \cap Group(S, key, x) = {}
      BY DEF Group
    <2>2. within(K \ {x}) \in SUBSET S /\ Group(S, key, x) \in SUBSET S
      BY DEF Group
    <2>3. f[x] = Cardinality(Group(S, key, x))
      OBVIOUS
    <2>4. h[K] = Cardinality(within(K)) /\ h[K \ {x}] = Cardinality(within(K \ {x}))
      OBVIOUS
    <2> HIDE DEF h, within
    <2>5. IsFiniteSet(within(K \ {x})) /\ IsFiniteSet(Group(S, key, x))
      BY <2>2, FS_Subset
    <2>6. Cardinality(within(K)) = Cardinality(within(K \ {x})) + Cardinality(Group(S, key, x))
                                   - Cardinality({})
      <3>1. Cardinality(within(K \ {x}) \cup Group(S, key, x)) =
              Cardinality(within(K \ {x})) + Cardinality(Group(S, key, x))
              - Cardinality(within(K \ {x}) \cap Group(S, key, x))
        BY <2>5, FS_Union
      <3>2. QED
        BY <2>1, <3>1, Zenon
    <2>7. /\ Cardinality(within(K \ {x})) \in Nat /\ Cardinality(Group(S, key, x)) \in Nat
          /\ Cardinality({}) = 0
      BY <2>5, FS_CardinalityType, FS_EmptySet
    <2>8. QED
      BY <2>3, <2>4, <2>6, <2>7
  <1>5. h = [K \in SUBSET D |-> h[K]] /\ h[{}] = 0 /\ h[D] = Cardinality(S)
    <2>1. within({}) = {} /\ within(D) = S
      OBVIOUS
    <2>2. h[{}] = Cardinality(within({})) /\ h[D] = Cardinality(within(D))
      OBVIOUS
    <2>3. Cardinality({}) = 0
      BY FS_EmptySet
    <2>4. h = [K \in SUBSET D |-> h[K]]
      OBVIOUS
    <2> HIDE DEF h, within
    <2>5. QED
      BY <2>1, <2>2, <2>3, <2>4
  <1> HIDE DEF h, pick, D
  <1>6. h = [K \in SUBSET D |-> IF K = {} THEN 0 ELSE f[pick(K)] + h[K \ {pick(K)}]]
    <2>1. \A K \in SUBSET D : h[K] = IF K = {} THEN 0 ELSE f[pick(K)] + h[K \ {pick(K)}]
      BY <1>3, <1>4, <1>5
    <2>2. QED
      BY <1>5, <2>1
  <1>7. iter = [K \in SUBSET D |-> IF K = {} THEN 0 ELSE f[pick(K)] + iter[K \ {pick(K)}]]
    BY <1>6, ZenonT(30) DEF pick
  <1> HIDE DEF iter
  <1>8. iter[{}] = h[{}]
    BY <1>5, <1>7
  <1>9. \A K \in SUBSET D : K # {} => \E x \in K : iter[K \ {x}] = h[K \ {x}] => iter[K] = h[K]
    <2>1. \A K \in SUBSET D : K # {} => /\ iter[K] = f[pick(K)] + iter[K \ {pick(K)}]
                                        /\ h[K] = f[pick(K)] + h[K \ {pick(K)}]
      BY <1>6, <1>7
    <2>2. QED
      BY <1>3, <2>1, Zenon
  <1>10. iter[D] = h[D]
    BY <1>2, <1>8, <1>9, FoldAgrees
  <1>11. QED
    BY <1>1, <1>5, <1>10

-----------------------------------------------------------------------------
(* Sums, and folds from the left.                                          *)

(* Where the order does not matter, a fold may take any element first.     *)
Unordered(V, plus) ==
    /\ plus \in [V \X V -> V]
    /\ \A a, b \in V : plus[<<a, b>>] = plus[<<b, a>>]
    /\ \A a, b, c \in V : plus[<<a, plus[<<b, c>>]>>] = plus[<<plus[<<a, b>>], c>>]

Sums(S, plus, base, f, h) ==
    /\ h[{}] = base
    /\ \A T \in SUBSET S : \A x \in T : h[T] = plus[<<f[x], h[T \ {x}]>>]

(* Whatever order a fold takes, it is a sum.                               *)
LEMMA SumsExist ==
  ASSUME NEW S, IsFiniteSet(S), NEW V, NEW plus, Unordered(V, plus), NEW base \in V,
         NEW f \in [S -> V]
  PROVE  \E h \in [SUBSET S -> V] : Sums(S, plus, base, f, h)
  <1> DEFINE pick == [T \in SUBSET S |-> CHOOSE y \in T : TRUE]
             op == [p \in S \X V |-> plus[<<f[p[1]], p[2]>>]]
  <1>1. plus \in [V \X V -> V]
    BY DEF Unordered
  <1>2. op \in [S \X V -> V] /\ \A x \in S : \A v \in V : op[<<x, v>>] = plus[<<f[x], v>>]
    BY <1>1
  <1>3. \A T \in SUBSET S : T # {} => pick[T] \in T
    OBVIOUS
  <1> HIDE DEF pick, op
  <1>4. PICK h \in [SUBSET S -> V] : Folds(S, pick, base, op, h)
    BY <1>2, <1>3, FoldExists DEF Picks
  <1>5. h[{}] = base
    BY <1>4 DEF Folds
  <1>6. \A T \in SUBSET S : h[T] \in V
    BY <1>4
  <1>7. ASSUME NEW T \in SUBSET S, T # {} PROVE h[T] = plus[<<f[pick[T]], h[T \ {pick[T]}]>>]
    <2>1. h[T] = op[<<pick[T], h[T \ {pick[T]}]>>]
      BY <1>4, <1>7 DEF Folds
    <2>2. pick[T] \in S /\ h[T \ {pick[T]}] \in V
      BY <1>3, <1>6, <1>7
    <2>3. QED
      BY <1>2, <2>1, <2>2
  <1> DEFINE Splits(T) == \A x \in T : h[T] = plus[<<f[x], h[T \ {x}]>>]
             K == {n \in Nat : \A T \in SUBSET S : Cardinality(T) = n => Splits(T)}
  <1>8. \A T \in SUBSET S : /\ IsFiniteSet(T) /\ Cardinality(T) \in Nat
                            /\ Cardinality(T) = 0 => T = {}
    BY FS_Subset, FS_CardinalityType, FS_EmptySet
  <1>9. \A T \in SUBSET S : \A x \in T : Cardinality(T \ {x}) = Cardinality(T) - 1
    BY <1>8, FS_RemoveElement
  <1>10. 0 \in K
    BY <1>8
  <1>11. ASSUME NEW n \in Nat, n \in K PROVE n + 1 \in K
    <2> SUFFICES ASSUME NEW T \in SUBSET S, Cardinality(T) = n + 1, NEW x \in T
                 PROVE  h[T] = plus[<<f[x], h[T \ {x}]>>]
      OBVIOUS
    <2> DEFINE p == pick[T]
               R == T \ {x, p}
    <2>1. p \in T /\ h[T] = plus[<<f[p], h[T \ {p}]>>]
      BY <1>3, <1>7
    <2>2. CASE x = p
      BY <2>1, <2>2
    <2>3. CASE x # p
      <3>1. /\ x \in T \ {p} /\ p \in T \ {x}
            /\ (T \ {p}) \ {x} = R /\ (T \ {x}) \ {p} = R
        BY <2>1, <2>3
      <3>2. Cardinality(T \ {p}) = n /\ Cardinality(T \ {x}) = n
        BY <1>9, <2>1
      <3>3. Splits(T \ {p}) /\ Splits(T \ {x})
        BY <1>11, <3>2
      <3>4. h[T \ {p}] = plus[<<f[x], h[R]>>] /\ h[T \ {x}] = plus[<<f[p], h[R]>>]
        BY <3>1, <3>3
      <3>5. f[x] \in V /\ f[p] \in V /\ h[R] \in V
        BY <1>6, <2>1
      <3> HIDE DEF p, R
      <3>6. /\ plus[<<f[p], plus[<<f[x], h[R]>>]>>] = plus[<<plus[<<f[p], f[x]>>], h[R]>>]
            /\ plus[<<f[x], plus[<<f[p], h[R]>>]>>] = plus[<<plus[<<f[x], f[p]>>], h[R]>>]
            /\ plus[<<f[p], f[x]>>] = plus[<<f[x], f[p]>>]
        BY <3>5 DEF Unordered
      <3>7. QED
        BY <2>1, <3>4, <3>6
    <2>4. QED
      BY <2>2, <2>3
  <1> HIDE DEF K, Splits
  <1>12. \A n \in Nat : n \in K
    BY <1>10, <1>11, NumberInduction
  <1>13. \A T \in SUBSET S : Splits(T)
    BY <1>8, <1>12 DEF K
  <1>14. Sums(S, plus, base, f, h)
    BY <1>5, <1>13 DEF Splits, Sums
  <1>15. QED
    BY <1>14

(* A sum over an image is the sum over the elements.                       *)
LEMMA SumOfImage ==
  ASSUME NEW A, IsFiniteSet(A), NEW S, NEW g \in [A -> S], \A a, b \in A : g[a] = g[b] => a = b,
         NEW plus, NEW base, NEW f, NEW h, Sums(S, plus, base, f, h),
         NEW e, NEW k, Sums(A, plus, base, e, k), \A a \in A : e[a] = f[g[a]]
  PROVE  k[A] = h[{g[a] : a \in A}]
  <1> DEFINE image(B) == {g[a] : a \in B}
             H == [B \in SUBSET A |-> h[image(B)]]
  <1>1. \A B \in SUBSET A : image(B) \in SUBSET S /\ H[B] = h[image(B)]
    OBVIOUS
  <1>2. image({}) = {} /\ H[A] = h[{g[a] : a \in A}]
    OBVIOUS
  <1>3. ASSUME NEW B \in SUBSET A, NEW a \in B
        PROVE  image(B \ {a}) = image(B) \ {g[a]} /\ g[a] \in image(B)
    OBVIOUS
  <1> HIDE DEF image, H
  <1>4. k[{}] = H[{}]
    BY <1>1, <1>2 DEF Sums
  <1>5. ASSUME NEW B \in SUBSET A, B # {} PROVE \E a \in B : k[B \ {a}] = H[B \ {a}] => k[B] = H[B]
    <2>1. PICK a \in B : TRUE
      BY <1>5
    <2>2. k[B] = plus[<<e[a], k[B \ {a}]>>] /\ e[a] = f[g[a]]
      BY <2>1 DEF Sums
    <2>3. h[image(B)] = plus[<<f[g[a]], h[image(B \ {a})]>>]
      <3>1. image(B) \in SUBSET S /\ g[a] \in image(B) /\ image(B \ {a}) = image(B) \ {g[a]}
        BY <1>1, <1>3, <2>1
      <3>2. \A T \in SUBSET S : \A x \in T : h[T] = plus[<<f[x], h[T \ {x}]>>]
        BY DEF Sums
      <3>3. h[image(B)] = plus[<<f[g[a]], h[image(B) \ {g[a]}]>>]
        BY <3>1, <3>2
      <3>4. QED
        BY <3>1, <3>3
    <2>4. H[B] = h[image(B)] /\ H[B \ {a}] = h[image(B \ {a})]
      BY <1>1
    <2>5. QED
      BY <2>1, <2>2, <2>3, <2>4
  <1>6. k[A] = H[A]
    <2>1. \A B \in SUBSET A : B # {} =>
            \E a \in B : k[B \ {a}] = H[B \ {a}] => k[B] = H[B]
      BY <1>5
    <2>2. QED
      BY <1>4, <2>1, FoldAgrees, ZenonT(90)
  <1>7. QED
    BY <1>2, <1>6

(* The largest of some places.                                             *)
LEMMA MaxFacts ==
  ASSUME NEW n \in Nat, NEW T \in SUBSET (1..n), T # {}
  PROVE  Max(T) \in T /\ \A y \in T : y <= Max(T)
  <1> DEFINE gaps == {n - x : x \in T}
  <1>1. gaps \in SUBSET Nat /\ gaps # {} /\ \A x \in T : n - x \in gaps /\ x \in Int
    <2>1. \A x \in T : n - x \in Nat /\ x \in Int
      OBVIOUS
    <2>2. QED
      BY <2>1
  <1>2. \A g \in gaps : \E x \in T : g = n - x
    OBVIOUS
  <1> HIDE DEF gaps
  <1>3. PICK least \in gaps : \A g \in gaps : least <= g
    BY <1>1, LeastNumber
  <1>4. PICK x \in T : least = n - x
    BY <1>2
  <1>5. \A y \in T : x >= y
    BY <1>1, <1>3, <1>4
  <1>6. Max(T) \in T /\ \A y \in T : Max(T) >= y
    BY <1>5, Zenon DEF Max
  <1>7. QED
    BY <1>1, <1>6

(* The last place of the first i places is i.                              *)
LEMMA LastPlace ==
  ASSUME NEW i \in Nat, i # 0
  PROVE  1..i # {} /\ Max(1..i) = i /\ (1..i) \ {i} = 1..(i - 1)
  <1>1. 1..i \in SUBSET (1..i) /\ i \in 1..i /\ (1..i) \ {i} = 1..(i - 1)
    OBVIOUS
  <1>2. Max(1..i) \in 1..i /\ i <= Max(1..i)
    BY <1>1, MaxFacts
  <1>3. QED
    BY <1>1, <1>2

(* A fold from the left takes the last place last.                         *)
IsLeftFold(n, base, op, h) ==
    h = [T \in SUBSET (1..n) |-> IF T = {} THEN base ELSE op[<<Max(T), h[T \ {Max(T)}]>>]]

(* Such a fold exists; of values of V, it is one of V.                     *)
LEMMA LeftFolds ==
  ASSUME NEW n \in Nat, NEW V, NEW base \in V, NEW op \in [(1..n) \X V -> V]
  PROVE  \E h \in [SUBSET (1..n) -> V] : IsLeftFold(n, base, op, h)
  <1> DEFINE last == [T \in SUBSET (1..n) |-> Max(T)]
  <1>1. \A T \in SUBSET (1..n) : last[T] = Max(T)
    OBVIOUS
  <1> HIDE DEF last
  <1>2. Picks(1..n, last)
    BY <1>1, MaxFacts DEF Picks
  <1>3. IsFiniteSet(1..n)
    BY FS_Interval
  <1>4. PICK h \in [SUBSET (1..n) -> V] : Folds(1..n, last, base, op, h)
    BY <1>2, <1>3, FoldExists
  <1>5. \A T \in SUBSET (1..n) :
          h[T] = IF T = {} THEN base ELSE op[<<Max(T), h[T \ {Max(T)}]>>]
    BY <1>1, <1>4 DEF Folds
  <1>6. h = [T \in SUBSET (1..n) |-> h[T]]
    BY <1>4
  <1>7. IsLeftFold(n, base, op, h)
    BY <1>5, <1>6 DEF IsLeftFold
  <1>8. QED
    BY <1>4, <1>7

-----------------------------------------------------------------------------
(* Images and ascending sequences.                                         *)

(* An injective image is as large as the set.                              *)
LEMMA ImageSize ==
  ASSUME NEW A, IsFiniteSet(A), NEW g, \A a, b \in A : g[a] = g[b] => a = b
  PROVE  /\ IsFiniteSet({g[a] : a \in A})
         /\ Cardinality({g[a] : a \in A}) = Cardinality(A)
  <1> DEFINE B == {g[a] : a \in A}
             f == [a \in A |-> g[a]]
  <1>1. f \in [A -> B] /\ (\A a \in A : f[a] = g[a]) /\ \A y \in B : \E a \in A : f[a] = y
    OBVIOUS
  <1> HIDE DEF f, B
  <1>2. \A a, b \in A : f[a] = f[b] => a = b
    BY <1>1
  <1>3. f \in Injection(A, B)
    BY <1>1, <1>2 DEF Injection, IsInjective
  <1>4. f \in Surjection(A, B)
    BY <1>1 DEF Surjection
  <1>5. ExistsBijection(A, B)
    BY <1>3, <1>4 DEF Bijection, ExistsBijection
  <1>6. IsFiniteSet(B) /\ Cardinality(B) = Cardinality(A)
    BY <1>5, FS_Bijection
  <1>7. QED
    BY <1>6 DEF B

(* Strictly ascending sequences of numbers.                                *)
Ascends(s, n) == s \in [1..n -> Int] /\ \A i, j \in 1..n : i < j => s[i] < s[j]

(* The elements of s after the first a, up to the b-th.                    *)
Span(s, a, b) == {s[i] : i \in (a + 1)..b}

(* Places and elements come in the same order, none twice.                 *)
LEMMA AscendsFacts ==
  ASSUME NEW n \in Nat, NEW s, Ascends(s, n)
  PROVE  /\ \A i, j \in 1..n : s[i] = s[j] => i = j
         /\ \A i, j \in 1..n : s[i] < s[j] => i < j
         /\ \A i, j \in 1..n : s[i] <= s[j] <=> i <= j
         /\ \A a \in 0..n, b \in 0..n : a <= b => Cardinality(Span(s, a, b)) = b - a
  <1>1. \A i, j \in 1..n : s[i] \in Int /\ (i < j => s[i] < s[j])
    BY DEF Ascends
  <1>2. /\ \A i, j \in 1..n : s[i] = s[j] => i = j
        /\ \A i, j \in 1..n : s[i] < s[j] => i < j
        /\ \A i, j \in 1..n : s[i] <= s[j] <=> i <= j
    <2> SUFFICES ASSUME NEW i \in 1..n, NEW j \in 1..n
                 PROVE  /\ s[i] = s[j] => i = j
                        /\ s[i] < s[j] => i < j
                        /\ s[i] <= s[j] <=> i <= j
      OBVIOUS
    <2>1. /\ s[i] \in Int /\ s[j] \in Int /\ i \in Int /\ j \in Int
          /\ (i < j => s[i] < s[j]) /\ (j < i => s[j] < s[i])
      BY <1>1
    <2>2. QED
      BY <2>1
  <1>3. ASSUME NEW a \in 0..n, NEW b \in 0..n, a <= b
        PROVE  Cardinality(Span(s, a, b)) = b - a
    <2> DEFINE A == (a + 1)..b
    <2>1. IsFiniteSet(A) /\ Cardinality(A) = b - a
      <3>1. a + 1 \in Int /\ b \in Int /\ (a + 1 > b => b - a = 0) /\ b - (a + 1) + 1 = b - a
        BY <1>3
      <3>2. /\ IsFiniteSet((a + 1)..b)
            /\ Cardinality((a + 1)..b) = IF a + 1 > b THEN 0 ELSE b - (a + 1) + 1
        BY <3>1, FS_Interval
      <3>3. QED
        BY <3>1, <3>2
    <2>2. \A i \in A : i \in 1..n
      OBVIOUS
    <2> HIDE DEF A
    <2>3. \A i, j \in A : s[i] = s[j] => i = j
      BY <1>2, <2>2
    <2>4. Cardinality({s[i] : i \in A}) = Cardinality(A)
      BY <2>1, <2>3, ImageSize
    <2>5. QED
      BY <2>1, <2>4 DEF A, Span
  <1>4. QED
    BY <1>2, <1>3

(* A number above all others may be appended.                              *)
LEMMA AppendAscends ==
  ASSUME NEW s \in Seq(Int), Ascends(s, Len(s)), NEW x \in Int, \A y \in ToSet(s) : y < x
  PROVE  /\ Append(s, x) \in Seq(Int) /\ Ascends(Append(s, x), Len(Append(s, x)))
         /\ ToSet(Append(s, x)) = ToSet(s) \cup {x}
  <1> DEFINE n == Len(s)
             t == Append(s, x)
  <1>1. /\ n \in Nat /\ DOMAIN s = 1..n /\ DOMAIN t = 1..(n + 1) /\ Len(t) = n + 1
        /\ t \in Seq(Int) /\ t[n + 1] = x /\ t \in [1..(n + 1) -> Int]
        /\ \A i \in 1..n : t[i] = s[i]
    <2>1. n \in Nat /\ DOMAIN s = 1..n /\ t \in Seq(Int) /\ Len(t) = n + 1 /\ t[n + 1] = x
      OBVIOUS
    <2>2. \A i \in 1..n : t[i] = s[i]
      OBVIOUS
    <2> HIDE DEF t
    <2>3. DOMAIN t = 1..(n + 1) /\ t \in [1..(n + 1) -> Int]
      BY <2>1
    <2>4. QED
      BY <2>1, <2>2, <2>3
  <1>2. \A i \in 1..n : s[i] < x
    BY <1>1 DEF ToSet
  <1>3. \A i, j \in 1..n : i < j => s[i] < s[j]
    BY DEF Ascends
  <1> HIDE DEF n, t
  <1>4. \A i \in 1..(n + 1) : i # n + 1 => i \in 1..n
    BY <1>1
  <1>5. ASSUME NEW i \in 1..(n + 1), NEW j \in 1..(n + 1), i < j PROVE t[i] < t[j]
    <2>1. i \in 1..n
      BY <1>1, <1>5
    <2>2. CASE j = n + 1
      BY <1>1, <1>2, <2>1, <2>2
    <2>3. CASE j # n + 1
      BY <1>1, <1>3, <1>4, <1>5, <2>1, <2>3
    <2>4. QED
      BY <2>2, <2>3
  <1>6. Ascends(t, Len(t))
    BY <1>1, <1>5 DEF Ascends
  <1>7. ToSet(t) = {s[i] : i \in 1..n} \cup {x}
    BY <1>1, <1>4 DEF ToSet
  <1>8. ToSet(s) = {s[i] : i \in 1..n}
    BY <1>1 DEF ToSet
  <1>9. QED
    BY <1>1, <1>6, <1>7, <1>8 DEF t

(* An element more at the end, one less at the beginning.                  *)
LEMMA AppendTo ==
  ASSUME NEW n \in Nat, NEW g
  PROVE  Append([j \in 1..n |-> g[j]], g[n + 1]) = [j \in 1..(n + 1) |-> g[j]]
  <1> DEFINE X == {g[j] : j \in 1..(n + 1)}
             s == [j \in 1..n |-> g[j]]
  <1>1. s \in Seq(X) /\ Len(s) = n /\ g[n + 1] \in X /\ \A j \in 1..n : s[j] = g[j]
    OBVIOUS
  <1> HIDE DEF X, s
  <1>2. DOMAIN Append(s, g[n + 1]) = 1..(n + 1)
    BY <1>1
  <1>3. \A j \in 1..(n + 1) : Append(s, g[n + 1])[j] = g[j]
    BY <1>1
  <1>4. Append(s, g[n + 1]) = [j \in 1..(n + 1) |-> Append(s, g[n + 1])[j]]
    BY <1>1, <1>2
  <1>5. Append(s, g[n + 1]) = [j \in 1..(n + 1) |-> g[j]]
    BY <1>3, <1>4
  <1>6. QED
    BY <1>5 DEF s

(* And one less at the beginning.                                          *)
LEMMA TailOf ==
  ASSUME NEW n \in Nat, NEW g
  PROVE  /\ Tail([j \in 1..(n + 1) |-> g[j]]) = [j \in 1..n |-> g[j + 1]]
         /\ Len([j \in 1..(n + 1) |-> g[j]]) = n + 1
  <1> DEFINE X == {g[j] : j \in 1..(n + 1)}
             s == [j \in 1..(n + 1) |-> g[j]]
  <1>1. s \in Seq(X) /\ Len(s) = n + 1 /\ \A j \in 1..(n + 1) : s[j] = g[j]
    OBVIOUS
  <1> HIDE DEF X, s
  <1>2. Tail(s) \in Seq(X) /\ Len(Tail(s)) = n
    BY <1>1
  <1>3. \A j \in 1..n : Tail(s)[j] = g[j + 1]
    BY <1>1
  <1>4. Tail(s) = [j \in 1..n |-> Tail(s)[j]]
    <2> DEFINE t == Tail(s)
    <2>1. t \in Seq(X) /\ Len(t) = n
      BY <1>2
    <2> HIDE DEF t
    <2>2. t = [j \in 1..n |-> t[j]]
      BY <2>1
    <2>3. QED
      BY <2>2 DEF t
  <1>5. QED
    BY <1>1, <1>3, <1>4 DEF s

=============================================================================
