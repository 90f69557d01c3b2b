-------------------------- MODULE CollectorProofs --------------------------
(***************************************************************************)
(* Proofs about Collector, for any subreddits, posts, comments and texts,  *)
(* any concurrency and any number of retries.                              *)
(*                                                                         *)
(* KeptAreMatched needs that what matches the title or the body matches    *)
(* the whole text: the first part is about Search.                         *)
(*                                                                         *)
(* UpstreamLoad is about the requests that are sent.  A request that       *)
(* sleeps before its next attempt is not sent but keeps its slot, and may  *)
(* be sent again without asking for one: IInv counts both.                 *)
(*                                                                         *)
(* BatchIsSound is about the end of collect.  Until then what the upstream *)
(* has answered with is in the posts and in the answers of the requests,   *)
(* which are about the subreddits, or the posts, in order: Data.           *)
(***************************************************************************)
EXTENDS Collector, SelectionsProofs, FiniteSetTheorems, TLAPS

-----------------------------------------------------------------------------
(* Which texts match.                                                      *)

(* The places of a window k + 1..r of a text that are kept, when those in  *)
(* words are not blank.                                                    *)
KeptIn(words, k, r) ==
    {i \in (k + 1)..r : i \in words \/ (i - 1 \in words /\ i > k + 1 /\ \E j \in i..r : j \in words)}

(* The places of a text that simplify_text keeps.                          *)
Words(t) == {i \in DOMAIN t : t[i] # Blank}
KeptAt(t) == KeptIn(Words(t), 0, Len(t))

(* A simplified text has the places that are kept, in order.               *)
LEMMA SimplifyFacts ==
  ASSUME NEW t \in Seq(Symbols)
  PROVE  /\ KeptAt(t) \in SUBSET (1..Len(t))
         /\ KeptAt(t) \in SUBSET Int /\ IsFiniteSet(KeptAt(t)) /\ Cardinality(KeptAt(t)) \in Nat
         /\ Simplify(t) = [i \in 1..Cardinality(KeptAt(t)) |-> Simple[t[Ascending[KeptAt(t)][i]]]]
         /\ Simplify(t) \in Seq(Symbols) /\ Len(Simplify(t)) = Cardinality(KeptAt(t))
  <1> DEFINE at == Ascending[KeptAt(t)]
             size == Cardinality(KeptAt(t))
  <1>1. KeptAt(t) \in SUBSET (1..Len(t)) /\ Len(t) \in Nat
    BY DEF KeptAt, KeptIn
  <1>2. KeptAt(t) \in SUBSET Int /\ IsFiniteSet(KeptAt(t))
    BY <1>1, Places
  <1>3. size \in Nat /\ at \in [1..size -> KeptAt(t)]
    BY <1>2, AscendingFacts DEF Enumerates
  <1>4. Simplify(t) = [i \in DOMAIN at |-> Simple[t[at[i]]]]
    <2> DEFINE Stays(i) == \/ t[i] # Blank
                           \/ i > 1 /\ t[i - 1] # Blank /\ \E j \in i..Len(t) : t[j] # Blank
    <2>1. \A i : i \in KeptAt(t) <=> i \in {j \in DOMAIN t : Stays(j)}
      BY <1>1 DEF KeptAt, KeptIn, Words
    <2>2. KeptAt(t) = {j \in DOMAIN t : Stays(j)}
      BY <2>1
    <2>3. QED
      BY <2>2 DEF Simplify
  <1> HIDE DEF at, size
  <1>5. Simplify(t) = [i \in 1..size |-> Simple[t[at[i]]]]
    BY <1>3, <1>4
  <1>6. \A i \in 1..size : Simple[t[at[i]]] \in Symbols
    <2>1. \A i \in 1..size : at[i] \in 1..Len(t)
      BY <1>1, <1>3
    <2>2. \A i \in 1..size : t[at[i]] \in Symbols
      BY <2>1
    <2>3. QED
      BY <2>2, SearchAssumption
  <1>7. Simplify(t) \in Seq(Symbols) /\ Len(Simplify(t)) = size
    BY <1>3, <1>5, <1>6
  <1>8. QED
    BY <1>1, <1>2, <1>3, <1>5, <1>7 DEF at, size

(* u occurs in v between blanks or the ends.                               *)
Within(u, v) ==
    \E c \in Nat :
      /\ c + Len(u) <= Len(v) /\ \A i \in 1..Len(u) : v[c + i] = u[i]
      /\ c = 0 \/ v[c] = Blank
      /\ c + Len(u) = Len(v) \/ v[c + Len(u) + 1] = Blank

(* In a window between blanks the places are kept that are kept in the     *)
(* text, but for blanks after the last word.                               *)
LEMMA WindowKeeps ==
  ASSUME NEW n \in Nat, NEW r \in 0..n, NEW k \in 0..r, NEW words \in SUBSET (1..n),
         k \notin words, r + 1 \notin words
  PROVE  /\ KeptIn(words, k, r) \subseteq KeptIn(words, 0, n)
         /\ \A y \in KeptIn(words, 0, n) \ KeptIn(words, k, r) :
              y <= k \/ \A x \in KeptIn(words, k, r) : x < y
  <1> DEFINE P == KeptIn(words, 0, n)
             W == KeptIn(words, k, r)
  <1>1. \A i \in 1..n : i \in P <=>
          i \in words \/ (i - 1 \in words /\ i > 1 /\ \E j \in i..n : j \in words)
    BY DEF KeptIn
  <1>2. \A i \in (k + 1)..r : i \in W <=>
          i \in words \/ (i - 1 \in words /\ i > k + 1 /\ \E j \in i..r : j \in words)
    BY DEF KeptIn
  <1>3. P \in SUBSET (1..n) /\ W \in SUBSET ((k + 1)..r)
    BY DEF KeptIn
  <1> HIDE DEF P, W
  <1>4. ASSUME NEW x \in W PROVE x \in P
    <2>1. x \in 1..n /\ x \in (k + 1)..r
      BY <1>3
    <2>2. QED
      BY <1>1, <1>2, <2>1
  <1>5. ASSUME NEW y \in P, y \notin W, y > k, NEW x \in W PROVE x < y
    <2>1. y \in 1..n /\ x \in (k + 1)..r
      BY <1>3
    <2>2. CASE y > r
      BY <2>1, <2>2
    <2>3. CASE y <= r
      <3>1. y \in (k + 1)..r /\ y \notin words
        BY <1>2, <1>5, <2>1, <2>3
      <3>2. y - 1 \in words
        BY <1>1, <2>1, <3>1
      <3>3. y > k + 1
        BY <3>1, <3>2
      <3>4. \A j \in y..r : j \notin words
        BY <1>2, <1>5, <3>1, <3>2, <3>3
      <3>5. x \in words \/ \E j \in x..r : j \in words
        BY <1>2, <2>1
      <3>6. \E j \in (k + 1)..r : j >= x /\ j \in words
        BY <2>1, <3>5
      <3>7. QED
        BY <2>1, <3>1, <3>4, <3>6
    <2>4. QED
      BY <2>1, <2>2, <2>3
  <1>6. QED
    BY <1>3, <1>4, <1>5 DEF P, W

(* What is kept next to a window that has a word is a blank.               *)
LEMMA WindowEnds ==
  ASSUME NEW n \in Nat, NEW r \in 0..n, NEW k \in 0..r, NEW words \in SUBSET (1..n),
         k \notin words, r + 1 \notin words,
         NEW q \in KeptIn(words, 0, n), NEW x \in KeptIn(words, k, r)
  PROVE  /\ q <= k /\ (\A z \in KeptIn(words, 0, n) : ~(q < z /\ z < x)) => q \notin words
         /\ /\ \A z \in KeptIn(words, k, r) : z <= x /\ z < q
            /\ \A z \in KeptIn(words, 0, n) : ~(x < z /\ z < q)
            => q \notin words
  <1> DEFINE P == KeptIn(words, 0, n)
             W == KeptIn(words, k, r)
  <1>1. \A i \in 1..n : i \in P <=>
          i \in words \/ (i - 1 \in words /\ i > 1 /\ \E j \in i..n : j \in words)
    BY DEF KeptIn
  <1>2. \A i \in (k + 1)..r : i \in W <=>
          i \in words \/ (i - 1 \in words /\ i > k + 1 /\ \E j \in i..r : j \in words)
    BY DEF KeptIn
  <1>3. q \in 1..n /\ x \in (k + 1)..r
    BY DEF KeptIn
  <1> HIDE DEF P, W
  <1>4. ASSUME q <= k, \A z \in P : ~(q < z /\ z < x), q \in words PROVE FALSE
    <2>1. q < k /\ q + 1 \in 1..n /\ (q + 1) - 1 = q /\ q + 1 > 1 /\ q < q + 1 /\ q + 1 < x
      BY <1>3, <1>4
    <2>2. q + 1 \notin P
      BY <1>4, <2>1
    <2>3. x \in W
      BY DEF W
    <2>4. \E j \in x..r : j \in words
      BY <1>2, <1>3, <2>3
    <2>5. \E j \in (q + 1)..n : j \in words
      BY <1>3, <2>1, <2>4
    <2>6. QED
      BY <1>1, <1>4, <2>1, <2>2, <2>5
  <1>5. ASSUME \A z \in W : z <= x /\ z < q, \A z \in P : ~(x < z /\ z < q), q \in words
        PROVE  FALSE
    <2>0. x \in W
      BY DEF W
    <2>1. \A j \in (k + 1)..r : j \in words => j <= x
      BY <1>2, <1>5
    <2>2. x \in words
      BY <1>2, <1>3, <2>0, <2>1
    <2>3. x < q /\ x + 1 \in 1..n /\ (x + 1) - 1 = x /\ x + 1 > 1 /\ x < x + 1
      BY <1>3, <1>5, <2>0
    <2>4. x + 1 \notin words
      <3>1. CASE x = r
        BY <3>1
      <3>2. CASE x # r
        <4>1. x + 1 \in (k + 1)..r /\ ~(x + 1 <= x)
          BY <1>3, <3>2
        <4>2. QED
          BY <2>1, <4>1
      <3>3. QED
        BY <3>1, <3>2
    <2>5. x + 1 < q
      BY <1>3, <1>5, <2>3, <2>4
    <2>6. x + 1 \notin P
      BY <1>5, <2>3, <2>5
    <2>7. q \in (x + 1)..n
      BY <1>3, <2>5
    <2>8. QED
      BY <1>1, <1>5, <2>2, <2>3, <2>6, <2>7
  <1>6. QED
    BY <1>4, <1>5 DEF P, W

(* A window of a text is kept as a text of its own.                        *)
LEMMA WindowMoves ==
  ASSUME NEW n \in Nat, NEW k \in Nat, NEW A \in SUBSET (1..n), NEW B,
         \A i \in 1..n : i \in A <=> i + k \in B, NEW x \in Int
  PROVE  x \in KeptIn(A, 0, n) <=> x + k \in KeptIn(B, k, k + n)
  <1>1. x \in KeptIn(A, 0, n) <=>
          x \in 1..n /\ (x \in A \/ (x - 1 \in A /\ x > 1 /\ \E j \in x..n : j \in A))
    BY DEF KeptIn
  <1>2. x + k \in KeptIn(B, k, k + n) <=>
          /\ x + k \in (k + 1)..(k + n)
          /\ x + k \in B \/ ((x + k) - 1 \in B /\ x + k > k + 1 /\ \E j \in (x + k)..(k + n) : j \in B)
    BY DEF KeptIn
  <1>3. x \in 1..n <=> x + k \in (k + 1)..(k + n)
    OBVIOUS
  <1>4. ASSUME x \in 1..n, x > 1 PROVE x - 1 \in A <=> (x + k) - 1 \in B
    <2>1. x - 1 \in 1..n /\ (x - 1) + k = (x + k) - 1
      BY <1>4
    <2>2. QED
      BY <2>1
  <1>5. ASSUME x \in 1..n
        PROVE  (\E j \in x..n : j \in A) <=> (\E j \in (x + k)..(k + n) : j \in B)
    <2>1. ASSUME NEW j \in x..n, j \in A PROVE j + k \in (x + k)..(k + n) /\ j + k \in B
      BY <1>5, <2>1
    <2>2. ASSUME NEW j \in (x + k)..(k + n), j \in B PROVE j - k \in x..n /\ j - k \in A
      <3>1. j - k \in 1..n /\ (j - k) + k = j /\ j - k \in x..n
        BY <1>5
      <3>2. QED
        BY <2>2, <3>1
    <2>3. QED
      BY <2>1, <2>2
  <1>6. QED
    BY <1>1, <1>2, <1>3, <1>4, <1>5

(* Sorted numbers have no other of them between two neighbours.            *)
LEMMA Neighbours ==
  ASSUME NEW P \in SUBSET Int, IsFiniteSet(P), NEW i \in Nat, NEW j \in 1..Cardinality(P),
         i \in 1..Cardinality(P), j = i + 1
  PROVE  /\ Ascending[P][i] \in P /\ Ascending[P][j] \in P /\ Ascending[P][i] < Ascending[P][j]
         /\ \A z \in P : ~(Ascending[P][i] < z /\ z < Ascending[P][j])
  <1> DEFINE p == Ascending[P]
             size == Cardinality(P)
  <1>1. /\ size \in Nat /\ p \in [1..size -> P]
        /\ \A z \in P : \E m \in 1..size : p[m] = z
        /\ \A m, n \in 1..size : m < n <=> p[m] < p[n]
    BY AscendingFacts DEF Enumerates
  <1> HIDE DEF p, size
  <1>2. i \in 1..size /\ j \in 1..size
    BY DEF size
  <1>3. p[i] < p[j] /\ p[i] \in P /\ p[j] \in P
    BY <1>1, <1>2
  <1>4. ASSUME NEW z \in P, p[i] < z, z < p[j] PROVE FALSE
    <2>1. PICK m \in 1..size : p[m] = z
      BY <1>1
    <2>2. i < m /\ m < j
      BY <1>1, <1>2, <1>4, <2>1
    <2>3. QED
      BY <1>1, <1>2, <2>1, <2>2
  <1>5. QED
    BY <1>3, <1>4 DEF p

(* Between blanks, a text is simplified as it is alone.                    *)
LEMMA SimplifiedWithin ==
  ASSUME NEW a \in Seq(Symbols), NEW t \in Seq(Symbols), Within(a, t), Simplify(a) # <<>>
  PROVE  Within(Simplify(a), Simplify(t))
  <1>1. PICK k \in Nat :
          /\ k + Len(a) <= Len(t) /\ \A i \in 1..Len(a) : t[k + i] = a[i]
          /\ k = 0 \/ t[k] = Blank
          /\ k + Len(a) = Len(t) \/ t[k + Len(a) + 1] = Blank
    BY DEF Within
  <1> DEFINE P == KeptAt(t)
             Q == KeptAt(a)
             r == k + Len(a)
             W == KeptIn(Words(t), k, r)
             low == {z \in P : z <= k}
             m == Cardinality(Q)
             c == Cardinality(low)
             p == Ascending[P]
             q == Ascending[Q]
  <1>2. Len(a) \in Nat /\ Len(t) \in Nat /\ r \in 0..Len(t) /\ k \in 0..r
    BY <1>1
  <1>3. Words(t) \in SUBSET (1..Len(t)) /\ Words(a) \in SUBSET (1..Len(a))
    BY DEF Words
  <1>4. k \notin Words(t) /\ r + 1 \notin Words(t)
    BY <1>1, <1>2, <1>3 DEF Words
  <1>5. \A i \in 1..Len(a) : i \in Words(a) <=> i + k \in Words(t)
    <2> SUFFICES ASSUME NEW i \in 1..Len(a) PROVE i \in Words(a) <=> i + k \in Words(t)
      OBVIOUS
    <2>1. k + i \in 1..Len(t) /\ k + i = i + k /\ t[k + i] = a[i]
      BY <1>1, <1>2
    <2>2. QED
      BY <2>1 DEF Words
  <1>6. P \in SUBSET (1..Len(t)) /\ P \in SUBSET Int /\ IsFiniteSet(P) /\ Cardinality(P) \in Nat
    BY SimplifyFacts
  <1>7. Q \in SUBSET (1..Len(a)) /\ Q \in SUBSET Int /\ IsFiniteSet(Q) /\ m \in Nat
    BY SimplifyFacts
  <1>8. \A x \in Int : x \in Q <=> x + k \in W
    BY <1>2, <1>3, <1>5, WindowMoves DEF KeptAt
  <1>9. /\ W \subseteq P
        /\ \A y \in P \ W : y <= k \/ \A x \in W : x < y
    BY <1>2, <1>3, <1>4, WindowKeeps DEF KeptAt
  <1>10. \A y \in P, x \in W :
           /\ y <= k /\ (\A z \in P : ~(y < z /\ z < x)) => t[y] = Blank
           /\ (\A z \in W : z <= x /\ z < y) /\ (\A z \in P : ~(x < z /\ z < y)) => t[y] = Blank
    <2> SUFFICES ASSUME NEW y \in P, NEW x \in W
                 PROVE  /\ y <= k /\ (\A z \in P : ~(y < z /\ z < x)) => y \notin Words(t)
                        /\ (\A z \in W : z <= x /\ z < y) /\ (\A z \in P : ~(x < z /\ z < y))
                             => y \notin Words(t)
      BY <1>6 DEF Words
    <2> DEFINE words == Words(t)
               n == Len(t)
    <2>1. /\ n \in Nat /\ r \in 0..n /\ k \in 0..r /\ words \in SUBSET (1..n)
          /\ k \notin words /\ r + 1 \notin words
          /\ P = KeptIn(words, 0, n) /\ W = KeptIn(words, k, r)
      BY <1>2, <1>3, <1>4 DEF KeptAt
    <2> HIDE DEF words, n, r, P, W
    <2>2. y \in KeptIn(words, 0, n) /\ x \in KeptIn(words, k, r)
      BY <2>1
    <2>3. /\ y <= k /\ (\A z \in KeptIn(words, 0, n) : ~(y < z /\ z < x)) => y \notin words
          /\ /\ \A z \in KeptIn(words, k, r) : z <= x /\ z < y
             /\ \A z \in KeptIn(words, 0, n) : ~(x < z /\ z < y)
             => y \notin words
      BY <2>1, <2>2, WindowEnds
    <2>4. QED
      BY <2>1, <2>3 DEF words
  <1>11. W \subseteq (k + 1)..r
    BY DEF KeptIn
  <1>12. /\ Simplify(t) = [i \in 1..Cardinality(P) |-> Simple[t[p[i]]]]
         /\ Len(Simplify(t)) = Cardinality(P)
         /\ Simplify(a) = [i \in 1..m |-> Simple[a[q[i]]]] /\ Len(Simplify(a)) = m
    BY SimplifyFacts
  <1>0. /\ k \in Nat /\ m \in Nat /\ Cardinality(P) \in Nat /\ Len(a) \in Nat
        /\ (\A z \in P : z \in Int) /\ (\A z \in Q : z \in Int) /\ (\A z \in W : z \in Int)
    BY <1>2, <1>6, <1>7, <1>11
  <1> HIDE DEF P, Q, r, W
  <1>13. /\ low \in SUBSET P /\ \A x \in Q : x + k \in P \ low
         /\ \A y \in low : \A x \in Q : y < x + k
         /\ \A y \in P \ low : y - k \notin Q => \A x \in Q : x + k < y
    <2>1. \A x \in Q : x \in Int /\ x + k \in W /\ x + k \in P /\ x + k > k
      BY <1>2, <1>7, <1>8, <1>9, <1>11
    <2>2. \A y \in P : y \in Int /\ y - k \in Int /\ (y - k) + k = y
      BY <1>6
    <2>3. ASSUME NEW y \in P, y > k, y - k \notin Q, NEW x \in Q PROVE x + k < y
      <3>1. y - k \in Int /\ (y - k) + k = y
        BY <2>2
      <3>2. y \notin W
        BY <1>8, <2>3, <3>1
      <3>3. QED
        BY <1>0, <1>9, <2>1, <2>3, <3>2
    <2>4. /\ \A y \in low : y \in P /\ y \in Int /\ y <= k
          /\ \A y \in P : y \notin low => y > k
      BY <1>0
    <2>5. /\ low \in SUBSET P /\ \A x \in Q : x + k \in P \ low
          /\ \A y \in low : \A x \in Q : y < x + k
      BY <1>0, <2>1, <2>4
    <2> HIDE DEF low
    <2>6. QED
      BY <2>3, <2>4, <2>5
  <1> HIDE DEF low
  <1>14. /\ c \in Nat /\ c + m <= Cardinality(P)
         /\ \A n \in 1..m : p[c + n] = q[n] + k
    <2>1. k \in Int
      BY <1>0
    <2>2. /\ Cardinality(low) \in Nat /\ Cardinality(low) + Cardinality(Q) <= Cardinality(P)
          /\ \A n \in 1..Cardinality(Q) :
               Ascending[P][Cardinality(low) + n] = Ascending[Q][n] + k
      BY <2>1, <1>6, <1>7, <1>13, Segments
    <2>3. QED
      BY <2>2
  <1>15. /\ q \in [1..m -> Q] /\ \A x \in Q : \E i \in 1..m : q[i] = x
         /\ \A i, j \in 1..m : i < j <=> q[i] < q[j]
    BY <1>7, AscendingFacts DEF Enumerates
  <1>16. /\ p \in [1..Cardinality(P) -> P]
         /\ \A i, j \in 1..Cardinality(P) : i < j <=> p[i] < p[j]
    BY <1>6, AscendingFacts DEF Enumerates
  <1>17. \A i \in 1..Cardinality(P), j \in 1..Cardinality(P) : j = i + 1 =>
           /\ p[i] \in P /\ p[j] \in P /\ p[i] < p[j] /\ \A z \in P : ~(p[i] < z /\ z < p[j])
    BY <1>6, Neighbours
  <1> HIDE DEF p, q, m, c
  <1>18. \A i \in 1..m : Simplify(t)[c + i] = Simplify(a)[i]
    <2> SUFFICES ASSUME NEW i \in 1..m PROVE Simplify(t)[c + i] = Simplify(a)[i]
      OBVIOUS
    <2>1. c + i \in 1..Cardinality(P)
      BY <1>0, <1>14
    <2>2. p[c + i] = q[i] + k /\ q[i] \in Q
      BY <1>14, <1>15
    <2>3. q[i] \in 1..Len(a)
      BY <1>7, <2>2
    <2>4. q[i] + k = k + q[i]
      BY <1>0, <2>2
    <2>5. t[p[c + i]] = a[q[i]]
      BY <1>1, <2>2, <2>3, <2>4
    <2>6. QED
      BY <1>12, <2>1, <2>5
  <1>19. m # 0
    BY <1>12
  <1>20. \A i \in 1..Cardinality(P) : t[p[i]] = Blank => Simplify(t)[i] = Blank
    BY <1>12, SearchAssumption
  <1>21. c = 0 \/ Simplify(t)[c] = Blank
    <2> SUFFICES ASSUME c # 0 PROVE t[p[c]] = Blank /\ c \in 1..Cardinality(P)
      BY <1>20
    <2>1. c \in 1..Cardinality(P) /\ 1 \in 1..m /\ c + 1 \in 1..Cardinality(P)
      BY <1>6, <1>7, <1>14, <1>19
    <2>2. p[c + 1] \in W
      <3>1. p[c + 1] = q[1] + k /\ q[1] \in Q
        BY <1>14, <1>15, <2>1
      <3>2. QED
        BY <1>0, <1>8, <3>1
    <2>3. p[c] \in P /\ p[c] < p[c + 1] /\ \A z \in P : ~(p[c] < z /\ z < p[c + 1])
      BY <1>17, <2>1
    <2>4. p[c] <= k
      <3> SUFFICES ASSUME p[c] > k PROVE FALSE
        BY <1>0, <2>3
      <3>1. p[c] \notin W
        <4> SUFFICES ASSUME p[c] \in W PROVE FALSE
          OBVIOUS
        <4>0. p[c] \in Int
          BY <1>0, <2>3
        <4>1. p[c] - k \in Int /\ (p[c] - k) + k = p[c]
          BY <1>0, <4>0
        <4>2. PICK i \in 1..m : q[i] = p[c] - k
          BY <1>8, <1>15, <4>1
        <4>3. c + i \in 1..Cardinality(P) /\ p[c + i] = p[c] /\ c < c + i
          BY <1>0, <1>14, <4>1, <4>2
        <4>4. p[c] < p[c + i]
          BY <1>16, <2>1, <4>3
        <4>5. QED
          BY <4>0, <4>3, <4>4
      <3>3. p[c + 1] \in Int /\ p[c] \in Int
        BY <1>0, <2>2, <2>3
      <3>2. p[c + 1] < p[c]
        <4>1. ~(p[c] <= k)
          BY <1>0, <3>3
        <4>2. QED
          BY <1>9, <2>2, <2>3, <3>1, <4>1
      <3>4. QED
        BY <2>3, <3>2, <3>3
    <2>5. QED
      BY <1>10, <2>1, <2>2, <2>3, <2>4
  <1>22. c + m = Cardinality(P) \/ Simplify(t)[c + m + 1] = Blank
    <2> DEFINE e == c + m
    <2> SUFFICES ASSUME e # Cardinality(P) PROVE t[p[e + 1]] = Blank /\ e + 1 \in 1..Cardinality(P)
      BY <1>20
    <2>1. e \in 1..Cardinality(P) /\ e + 1 \in 1..Cardinality(P) /\ m \in 1..m
      BY <1>6, <1>7, <1>14, <1>19
    <2>2. p[e] = q[m] + k /\ q[m] \in Q /\ q[m] \in Int /\ p[e] \in W
      <3>1. p[e] = q[m] + k /\ q[m] \in Q
        BY <1>14, <1>15, <2>1
      <3>2. QED
        BY <1>0, <1>8, <3>1
    <2> HIDE DEF e
    <2>3. /\ p[e] \in P /\ p[e + 1] \in P /\ p[e] < p[e + 1]
          /\ \A z \in P : ~(p[e] < z /\ z < p[e + 1])
      BY <1>17, <2>1
    <2>4. ASSUME NEW z \in W PROVE z <= p[e]
      <3>1. z \in Int /\ z - k \in Int /\ (z - k) + k = z
        BY <1>2, <1>11
      <3>2. PICK i \in 1..m : q[i] = z - k
        BY <1>8, <1>15, <3>1
      <3>3. i = m \/ i < m
        BY <1>0, <3>2
      <3>4. q[i] = q[m] \/ q[i] < q[m]
        BY <1>15, <2>1, <3>3
      <3>5. q[i] \in Int
        BY <3>1, <3>2
      <3>6. q[i] + k <= q[m] + k
        BY <1>0, <2>2, <3>4, <3>5
      <3>7. QED
        BY <2>2, <3>1, <3>2, <3>6
    <2>5. \A z \in W : z <= p[e] /\ z < p[e + 1]
      <3>1. p[e] \in Int /\ p[e + 1] \in Int /\ \A z \in W : z \in Int
        BY <1>0, <2>3
      <3>2. QED
        BY <2>3, <2>4, <3>1
    <2>6. QED
      BY <1>10, <2>1, <2>2, <2>3, <2>5
  <1>23. QED
    BY <1>12, <1>14, <1>18, <1>21, <1>22 DEF Within

(* The runs of a text that stands in another between blanks are runs of    *)
(* the other, and so are its words.                                        *)
LEMMA RunsWithin ==
  ASSUME NEW u \in Seq(Symbols), NEW v \in Seq(Symbols), Within(u, v)
  PROVE  /\ Subsequences(u) \subseteq Subsequences(v)
         /\ Pieces(u, Letters) \subseteq Pieces(v, Letters)
  <1>1. PICK c \in Nat :
          /\ c + Len(u) <= Len(v) /\ \A i \in 1..Len(u) : v[c + i] = u[i]
          /\ c = 0 \/ v[c] = Blank
          /\ c + Len(u) = Len(v) \/ v[c + Len(u) + 1] = Blank
    BY DEF Within
  <1>2. Len(u) \in Nat /\ Len(v) \in Nat
    OBVIOUS
  <1>3. ASSUME NEW i \in 1..Len(u), NEW j \in 1..Len(u)
        PROVE  /\ c + i \in 1..Len(v) /\ c + j \in 1..Len(v)
               /\ SubSeq(u, i, j) = SubSeq(v, c + i, c + j)
    <2>1. c + i \in 1..Len(v) /\ c + j \in 1..Len(v)
      BY <1>1, <1>2
    <2>2. 1..((1 + j) - i) = 1..((1 + (c + j)) - (c + i))
      OBVIOUS
    <2>3. ASSUME NEW x \in 1..((1 + j) - i) PROVE u[(x + i) - 1] = v[(x + (c + i)) - 1]
      <3>1. (x + i) - 1 \in 1..Len(u) /\ (x + (c + i)) - 1 = c + ((x + i) - 1)
        BY <1>2
      <3>2. QED
        BY <1>1, <3>1
    <2>4. /\ SubSeq(u, i, j) = [x \in 1..((1 + j) - i) |-> u[(x + i) - 1]]
          /\ SubSeq(v, c + i, c + j) =
               [x \in 1..((1 + (c + j)) - (c + i)) |-> v[(x + (c + i)) - 1]]
      BY <2>1
    <2>5. QED
      BY <2>1, <2>2, <2>3, <2>4
  <1>4. Subsequences(u) \subseteq Subsequences(v)
    BY <1>3 DEF Subsequences
  <1>5. ASSUME NEW i \in 1..Len(u), NEW j \in 1..Len(u), i <= j,
               \A k \in i..j : u[k] \in Letters,
               i = 1 \/ u[i - 1] \notin Letters, j = Len(u) \/ u[j + 1] \notin Letters
        PROVE  SubSeq(u, i, j) \in Pieces(v, Letters)
    <2>1. c + i <= c + j /\ c + i \in 1..Len(v) /\ c + j \in 1..Len(v)
      BY <1>3, <1>5
    <2>2. ASSUME NEW k \in (c + i)..(c + j) PROVE v[k] \in Letters
      <3>1. k - c \in i..j /\ k - c \in 1..Len(u) /\ c + (k - c) = k
        BY <1>2
      <3>2. QED
        BY <1>1, <1>5, <3>1
    <2>3. c + i = 1 \/ v[(c + i) - 1] \notin Letters
      <3>1. CASE i = 1
        <4>1. (c + i) - 1 = c /\ (c = 0 => c + i = 1)
          BY <3>1
        <4>2. QED
          BY <1>1, <4>1, SearchAssumption
      <3>2. CASE i # 1
        <4>1. i - 1 \in 1..Len(u) /\ (c + i) - 1 = c + (i - 1)
          BY <1>2, <3>2
        <4>2. QED
          BY <1>1, <1>5, <3>2, <4>1
      <3>3. QED
        BY <3>1, <3>2
    <2>4. c + j = Len(v) \/ v[(c + j) + 1] \notin Letters
      <3>1. CASE j = Len(u)
        BY <1>1, <3>1, SearchAssumption
      <3>2. CASE j # Len(u)
        <4>1. j + 1 \in 1..Len(u) /\ (c + j) + 1 = c + (j + 1)
          BY <1>2, <3>2
        <4>2. QED
          BY <1>1, <1>5, <3>2, <4>1
      <3>3. QED
        BY <3>1, <3>2
    <2> DEFINE w == <<c + i, c + j>>
    <2>5. w \in (1..Len(v)) \X (1..Len(v)) /\ w[1] = c + i /\ w[2] = c + j
      BY <2>1
    <2> HIDE DEF w
    <2>6. w \in {p \in (1..Len(v)) \X (1..Len(v)) :
                   /\ p[1] <= p[2] /\ \A k \in p[1]..p[2] : v[k] \in Letters
                   /\ p[1] = 1 \/ v[p[1] - 1] \notin Letters
                   /\ p[2] = Len(v) \/ v[p[2] + 1] \notin Letters}
      BY <2>1, <2>2, <2>3, <2>4, <2>5
    <2>7. SubSeq(v, w[1], w[2]) \in Pieces(v, Letters)
      BY <2>6 DEF Pieces
    <2>8. QED
      BY <1>3, <2>5, <2>7
  <1>6. Pieces(u, Letters) \subseteq Pieces(v, Letters)
    <2> SUFFICES ASSUME NEW piece \in Pieces(u, Letters) PROVE piece \in Pieces(v, Letters)
      OBVIOUS
    <2>1. PICK q \in (1..Len(u)) \X (1..Len(u)) :
            /\ q[1] <= q[2] /\ \A k \in q[1]..q[2] : u[k] \in Letters
            /\ q[1] = 1 \/ u[q[1] - 1] \notin Letters
            /\ q[2] = Len(u) \/ u[q[2] + 1] \notin Letters
            /\ piece = SubSeq(u, q[1], q[2])
      BY DEF Pieces
    <2>2. q[1] \in 1..Len(u) /\ q[2] \in 1..Len(u)
      OBVIOUS
    <2>3. QED
      BY <1>5, <2>1, <2>2
  <1>7. QED
    BY <1>4, <1>6

(* What matches a part of a text between blanks matches the text.          *)
LEMMA PartMatches ==
  ASSUME NEW a \in Seq(Symbols), NEW t \in Seq(Symbols), Within(a, t), NEW term, Matches(a, term)
  PROVE  Matches(t, term)
  <1> DEFINE u == Simplify(a)
             v == Simplify(t)
  <1>1. u # <<>> /\ u \in Seq(Symbols) /\ v \in Seq(Symbols)
    BY SimplifyFacts DEF Matches
  <1>2. Within(u, v)
    BY <1>1, SimplifiedWithin
  <1>3. Len(u) # 0 /\ Len(u) \in Nat
    BY <1>1
  <1>4. v # <<>>
    BY <1>1, <1>2, <1>3 DEF Within
  <1>5. Subsequences(u) \subseteq Subsequences(v) /\ Pieces(u, Letters) \subseteq Pieces(v, Letters)
    BY <1>1, <1>2, RunsWithin
  <1>6. QED
    BY <1>4, <1>5 DEF Matches, HasPhrase, HasTokens

(* A text stands in itself.                                                *)
LEMMA Reflexive ==
  ASSUME NEW t \in Seq(Symbols)
  PROVE  Within(t, t)
  <1> SUFFICES \E c \in Nat :
                 /\ c + Len(t) <= Len(t) /\ \A i \in 1..Len(t) : t[c + i] = t[i]
                 /\ c = 0 \/ t[c] = Blank
                 /\ c + Len(t) = Len(t) \/ t[c + Len(t) + 1] = Blank
    BY DEF Within
  <1> WITNESS 0 \in Nat
  <1>1. QED
    OBVIOUS

(* A document without a title or a body matches by the other.              *)
LEMMA EmptyMatchesNothing ==
  ASSUME NEW term
  PROVE  ~Matches(<<>>, term)
  <1> DEFINE t == <<>>
  <1>1. t \in Seq(Symbols) /\ Len(t) = 0
    OBVIOUS
  <1> HIDE DEF t
  <1>2. KeptAt(t) = {}
    <2>1. KeptAt(t) \in SUBSET (1..Len(t))
      BY <1>1, SimplifyFacts
    <2>2. \A i : i \notin 1..Len(t)
      BY <1>1
    <2>3. QED
      BY <2>1, <2>2
  <1>3. Cardinality(KeptAt(t)) = 0
    BY <1>2, FS_EmptySet
  <1>4. Simplify(t) \in Seq(Symbols) /\ Len(Simplify(t)) = Cardinality(KeptAt(t))
    BY <1>1, SimplifyFacts
  <1>5. Simplify(t) = <<>>
    BY <1>3, <1>4
  <1>6. QED
    BY <1>5 DEF Matches, t

(* The title and the body stand in the text of the document between blanks *)
(* or ends.                                                                *)
LEMMA FullTextFacts ==
  ASSUME NEW title \in Seq(Symbols), NEW body \in Seq(Symbols)
  PROVE  /\ FullText(title, body) \in Seq(Symbols)
         /\ title # <<>> => Within(title, FullText(title, body))
         /\ body # <<>> => Within(body, FullText(title, body))
  <1> DEFINE full == FullText(title, body)
  <1>1. Blank \in Symbols
    BY SearchAssumption
  <1>2. CASE title = <<>>
    <2>1. full = body
      BY <1>2 DEF FullText
    <2>2. Within(body, body)
      BY Reflexive
    <2>3. QED
      BY <1>2, <2>1, <2>2
  <1>3. CASE title # <<>> /\ body = <<>>
    <2>1. full = title
      BY <1>3 DEF FullText
    <2>2. Within(title, title)
      BY Reflexive
    <2>3. QED
      BY <1>3, <2>1, <2>2
  <1>4. CASE title # <<>> /\ body # <<>>
    <2> DEFINE n == Len(title)
               c == Len(title) + 1
    <2>1. full = (title \o <<Blank>>) \o body
      BY <1>4 DEF FullText
    <2>2. title \o <<Blank>> \in Seq(Symbols) /\ Len(title \o <<Blank>>) = c
      BY <1>1
    <2>3. n \in Nat /\ c \in Nat /\ Len(body) \in Nat
      OBVIOUS
    <2>4. full \in Seq(Symbols) /\ Len(full) = c + Len(body)
      BY <2>1, <2>2
    <2>5. \A i \in 1..n : full[i] = title[i]
      BY <1>1, <2>1, <2>2
    <2>6. full[c] = Blank
      BY <1>1, <2>1, <2>2
    <2>7. \A i \in 1..Len(body) : full[c + i] = body[i]
      BY <1>1, <2>1, <2>2
    <2> HIDE DEF full
    <2>8. Within(title, full)
      <3> SUFFICES \E k \in Nat :
                     /\ k + Len(title) <= Len(full) /\ \A i \in 1..Len(title) : full[k + i] = title[i]
                     /\ k = 0 \/ full[k] = Blank
                     /\ k + Len(title) = Len(full) \/ full[k + Len(title) + 1] = Blank
        BY DEF Within
      <3>1. /\ 0 + Len(title) <= Len(full) /\ 0 + Len(title) + 1 = c
            /\ \A i \in 1..Len(title) : 0 + i = i
        BY <2>3, <2>4
      <3>2. \A i \in 1..Len(title) : full[0 + i] = title[i]
        BY <2>5, <3>1
      <3>3. full[0 + Len(title) + 1] = Blank
        BY <2>6, <3>1
      <3> WITNESS 0 \in Nat
      <3>4. QED
        BY <3>1, <3>2, <3>3
    <2>9. Within(body, full)
      <3> HIDE DEF c
      <3>1. c + Len(body) <= Len(full) /\ c + Len(body) = Len(full)
        BY <2>3, <2>4
      <3>2. QED
        BY <2>3, <2>6, <2>7, <3>1 DEF Within
    <2>10. QED
      BY <2>4, <2>8, <2>9 DEF full
  <1>5. QED
    BY <1>2, <1>3, <1>4

(* What is a candidate for its title or its body matches as a document.    *)
THEOREM CandidatesMatch == Candidates \subseteq Matching
  <1> SUFFICES ASSUME NEW x \in Sources,
                      (x \in Posts /\ Matches(Title[x], Term)) \/ Matches(Body[x], Term)
               PROVE  Matches(DocumentText(x), Term)
    BY DEF Candidates, Matching
  <1>1. Body[x] \in Seq(Symbols) /\ (x \in Posts => Title[x] \in Seq(Symbols))
    BY ConstantsAssumption
  <1>2. CASE x \notin Posts
    BY <1>2 DEF DocumentText
  <1>3. CASE x \in Posts
    <2>1. DocumentText(x) = FullText(Title[x], Body[x])
      BY <1>3 DEF DocumentText
    <2>2. PICK part \in {Title[x], Body[x]} : Matches(part, Term)
      BY <1>3
    <2>3. part \in Seq(Symbols) /\ part # <<>>
      BY <1>1, <1>3, <2>2, EmptyMatchesNothing
    <2>4. DocumentText(x) \in Seq(Symbols) /\ Within(part, DocumentText(x))
      BY <1>1, <1>3, <2>1, <2>2, <2>3, FullTextFacts
    <2>5. QED
      BY <2>2, <2>3, <2>4, PartMatches
  <1>4. QED
    BY <1>2, <1>3

-----------------------------------------------------------------------------
(* Slots and the client.                                                   *)

Held == {i \in DOMAIN task : task[i].state \in {"sending", "backoff"}}
Sending == {i \in DOMAIN task : At(i, "sending")}

(* A task is a record of the four fields of Request.                       *)
Records ==
    /\ task = [i \in DOMAIN task |-> task[i]]
    /\ \A i \in DOMAIN task :
         task[i] = [about |-> task[i].about, state |-> task[i].state,
                    attempt |-> task[i].attempt, payload |-> task[i].payload]

(* Every slot is free or held by a request that is sent or sleeps.         *)
Slots ==
    /\ free \in Nat /\ IsFiniteSet(Held)
    /\ free + Cardinality(Held) <= Concurrency

(* Nothing is sent once the client is closed.                              *)
Closed ==
    /\ ~open => Sending = {}
    /\ phase \in {"done", "failed", "matched"} => ~open

IInv == Records /\ Slots /\ Closed

-----------------------------------------------------------------------------
LEMMA Adding ==
  ASSUME NEW S, IsFiniteSet(S), NEW i, i \notin S
  PROVE  IsFiniteSet(S \cup {i}) /\ Cardinality(S \cup {i}) = Cardinality(S) + 1
  <1>1. IsFiniteSet(S \cup {i}) /\ Cardinality(S \cup {i}) =
          IF i \in S THEN Cardinality(S) ELSE Cardinality(S) + 1
    BY FS_AddElement, Zenon
  <1>2. QED
    BY <1>1

LEMMA Removing ==
  ASSUME NEW S, IsFiniteSet(S), NEW i \in S
  PROVE  IsFiniteSet(S \ {i}) /\ Cardinality(S \ {i}) = Cardinality(S) - 1
  <1>1. IsFiniteSet(S \ {i}) /\ Cardinality(S \ {i}) =
          IF i \in S THEN Cardinality(S) - 1 ELSE Cardinality(S)
    BY FS_RemoveElement, Zenon
  <1>2. QED
    BY <1>1

(* A task changes its state, and perhaps its attempts and payload.         *)
LEMMA Moves ==
  ASSUME NEW i \in DOMAIN task,
         task' = [j \in DOMAIN task |-> task'[j]],
         \A j \in DOMAIN task : j # i => task'[j] = task[j]
  PROVE  /\ task'[i].state \in {"sending", "backoff"} => Held' = Held \cup {i}
         /\ task'[i].state \notin {"sending", "backoff"} => Held' = Held \ {i}
         /\ task'[i].state = "sending" => Sending' = Sending \cup {i}
         /\ task'[i].state # "sending" => Sending' = Sending \ {i}
  <1>1. DOMAIN task' = DOMAIN task
    OBVIOUS
  <1>2. QED
    BY <1>1 DEF Held, Sending, At

(* Task i gets state s and the others stay.                                *)
Moved(i, s) ==
    /\ Records' /\ task' = [j \in DOMAIN task |-> task'[j]]
    /\ \A j \in DOMAIN task : j # i => task'[j] = task[j]
    /\ task'[i].state = s

LEMMA Setting ==
  ASSUME Records, NEW i \in DOMAIN task, NEW s, Set(i, s)
  PROVE  Moved(i, s)
  <1> DEFINE new == [about |-> task[i].about, state |-> s,
                     attempt |-> task[i].attempt, payload |-> task[i].payload]
  <1>1. task[i] = [about |-> task[i].about, state |-> task[i].state,
                   attempt |-> task[i].attempt, payload |-> task[i].payload]
    BY DEF Records
  <1>2. [task[i] EXCEPT !.state = s] = new
    BY <1>1
  <1>3. task' = [task EXCEPT ![i] = new]
    BY <1>2 DEF Set
  <1>4. QED
    BY <1>3 DEF Moved, Records

LEMMA SettingTwo ==
  ASSUME Records, NEW i \in DOMAIN task, NEW s, NEW x,
         \/ task' = [task EXCEPT ![i].state = s, ![i].attempt = x]
         \/ task' = [task EXCEPT ![i].state = s, ![i].payload = x]
  PROVE  Moved(i, s)
  <1> DEFINE one == [about |-> task[i].about, state |-> s,
                     attempt |-> x, payload |-> task[i].payload]
             two == [about |-> task[i].about, state |-> s,
                     attempt |-> task[i].attempt, payload |-> x]
  <1>1. task[i] = [about |-> task[i].about, state |-> task[i].state,
                   attempt |-> task[i].attempt, payload |-> task[i].payload]
    BY DEF Records
  <1>2. CASE task' = [task EXCEPT ![i].state = s, ![i].attempt = x]
    <2>1. task' = [j \in DOMAIN task |-> IF j = i THEN one ELSE task[j]]
      BY <1>1, <1>2
    <2>2. QED
      BY <2>1 DEF Moved, Records
  <1>3. CASE task' = [task EXCEPT ![i].state = s, ![i].payload = x]
    <2>1. task' = [j \in DOMAIN task |-> IF j = i THEN two ELSE task[j]]
      BY <1>1, <1>3
    <2>2. QED
      BY <2>1 DEF Moved, Records
  <1>4. QED
    BY <1>2, <1>3

(* What the steps of a task do to it.                                      *)
LEMMA TaskMoves ==
  ASSUME Records, NEW i \in DOMAIN task, TaskStep(i)
  PROVE  /\ UNCHANGED <<phase, open>>
         /\ LET was == task[i].state
            IN \/ was = "queued" /\ Moved(i, "sending") /\ open /\ free > 0 /\ free' = free - 1
               \/ was = "queued" /\ Moved(i, "raised") /\ ~open /\ free' = free
               \/ /\ was = "sending" /\ free' = free + 1
                  /\ \E s \in {"answered", "skipped", "raised"} : Moved(i, s)
               \/ was = "sending" /\ Moved(i, "backoff") /\ free' = free
               \/ was = "backoff" /\ Moved(i, "sending") /\ open /\ free' = free
               \/ was = "backoff" /\ Moved(i, "raised") /\ ~open /\ free' = free + 1
  <1> USE DEF At
  <1>1. CASE Acquire(i)
    BY <1>1, Setting DEF Acquire
  <1>2. CASE Answer(i)
    <2>1. PICK x : task' = [task EXCEPT ![i].state = "answered", ![i].payload = x]
      BY <1>2 DEF Answer
    <2>2. Moved(i, "answered")
      BY <2>1, SettingTwo
    <2>3. task[i].state = "sending" /\ free' = free + 1 /\ UNCHANGED <<phase, open>>
      BY <1>2 DEF Answer
    <2>4. QED
      BY <2>2, <2>3
  <1>3. CASE Retry(i)
    <2>1. Moved(i, "backoff")
      BY <1>3, SettingTwo DEF Retry
    <2>2. QED
      BY <1>3, <2>1 DEF Retry
  <1>4. CASE Skip(i)
    BY <1>4, Setting DEF Skip
  <1>5. CASE Raise(i)
    BY <1>5, Setting DEF Raise
  <1>6. CASE Wake(i)
    BY <1>6, Setting DEF Wake
  <1>7. QED
    BY <1>1, <1>2, <1>3, <1>4, <1>5, <1>6 DEF TaskStep

(* A slot is taken by the first attempt, kept over the sleeps and given    *)
(* back at the end.                                                        *)
LEMMA TaskKeeps ==
  ASSUME IInv, NEW i \in DOMAIN task, TaskStep(i)
  PROVE  IInv'
  <1> USE DEF IInv, Slots, Closed
  <1>1. Records' /\ open' = open /\ phase' = phase
    BY TaskMoves DEF Moved
  <1>2. i \in Held <=> task[i].state \in {"sending", "backoff"}
    BY DEF Held
  <1>3. Cardinality(Held) \in Nat /\ free \in Nat /\ IsFiniteSet(Held)
    BY FS_CardinalityType
  <1>4. ASSUME NEW s, Moved(i, s)
        PROVE  /\ s \in {"sending", "backoff"} => Held' = Held \cup {i}
               /\ s \notin {"sending", "backoff"} => Held' = Held \ {i}
               /\ s # "sending" => Sending' = Sending \ {i}
    BY <1>4, Moves DEF Moved
  <1>5. Slots' /\ (~open' => Sending' = {})
    <2>1. CASE task[i].state = "queued" /\ Moved(i, "sending") /\ open /\ free > 0 /\ free' = free - 1
      <3>1. Held' = Held \cup {i} /\ i \notin Held
        BY <1>2, <1>4, <2>1
      <3>2. IsFiniteSet(Held') /\ Cardinality(Held') = Cardinality(Held) + 1
        BY <1>3, <3>1, Adding
      <3>3. QED
        BY <1>3, <2>1, <3>2, <1>1, ConstantsAssumption
    <2>2. CASE task[i].state = "queued" /\ Moved(i, "raised") /\ ~open /\ free' = free
      <3>1. Held' = Held /\ Sending' = {}
        BY <1>2, <1>4, <2>2
      <3>2. QED
        BY <1>3, <2>2, <3>1
    <2>3. CASE /\ task[i].state = "sending" /\ free' = free + 1
               /\ \E s \in {"answered", "skipped", "raised"} : Moved(i, s)
      <3>1. Held' = Held \ {i} /\ Sending' = Sending \ {i} /\ i \in Held
        BY <1>2, <1>4, <2>3
      <3>2. IsFiniteSet(Held') /\ Cardinality(Held') = Cardinality(Held) - 1
        BY <1>3, <3>1, Removing
      <3>3. QED
        BY <1>1, <1>3, <2>3, <3>1, <3>2, ConstantsAssumption
    <2>4. CASE task[i].state = "sending" /\ Moved(i, "backoff") /\ free' = free
      <3>1. Held' = Held /\ Sending' = Sending \ {i}
        BY <1>2, <1>4, <2>4
      <3>2. QED
        BY <1>3, <2>4, <1>1, <3>1
    <2>5. CASE task[i].state = "backoff" /\ Moved(i, "sending") /\ open /\ free' = free
      <3>1. Held' = Held
        BY <1>2, <1>4, <2>5
      <3>2. QED
        BY <1>3, <2>5, <1>1, <3>1
    <2>6. CASE task[i].state = "backoff" /\ Moved(i, "raised") /\ ~open /\ free' = free + 1
      <3>1. Held' = Held \ {i} /\ i \in Held /\ Sending' = {}
        BY <1>2, <1>4, <2>6
      <3>2. IsFiniteSet(Held') /\ Cardinality(Held') = Cardinality(Held) - 1
        BY <1>3, <3>1, Removing
      <3>3. QED
        BY <1>1, <1>3, <2>6, <3>1, <3>2, ConstantsAssumption
    <2>7. QED
      BY <2>1, <2>2, <2>3, <2>4, <2>5, <2>6, TaskMoves
  <1>6. QED
    BY <1>1, <1>5

-----------------------------------------------------------------------------
(* New requests hold no slot.                                              *)
LEMMA NewRequests ==
  ASSUME NEW xs, task' = Requests(xs)
  PROVE  Records' /\ Held' = {} /\ Sending' = {}
  BY DEF Requests, Request, Records, Held, Sending, At

LEMMA CollectKeeps ==
  ASSUME IInv, CollectStep
  PROVE  IInv'
  <1> USE DEF IInv, Slots, Closed
  <1>0. Cardinality(Held) \in Nat /\ IsFiniteSet(Held)
    BY FS_CardinalityType
  <1>1. CASE Begin
    <2>1. Records' /\ Held' = {} /\ Sending' = {}
      BY <1>1, NewRequests DEF Begin
    <2>2. QED
      BY <1>1, <2>1, FS_EmptySet, ConstantsAssumption DEF Begin
  <1>2. CASE PostsCollected
    <2>1. Records' /\ Held' = {} /\ Sending' = {}
      BY <1>2, NewRequests DEF PostsCollected
    <2>2. QED
      BY <1>0, <1>2, <2>1, FS_EmptySet, ConstantsAssumption DEF PostsCollected
  <1>3. CASE CommentsCollected
    <2>1. Held' = Held /\ Records' /\ Sending' = {}
      BY <1>3 DEF CommentsCollected, Held, Sending, Records, At, GatherEnds
    <2>2. QED
      BY <1>0, <1>3, <2>1 DEF CommentsCollected
  <1>4. CASE CollectRaises
    <2>1. Held' = Held /\ Records' /\ Sending' = Sending
      BY <1>4 DEF CollectRaises, Held, Sending, Records, At
    <2>2. QED
      BY <1>0, <1>4, <2>1 DEF CollectRaises
  <1>5. CASE Close
    <2>1. Records' /\ Sending' = {} /\ Held' = Held \ Sending
      <3>1. /\ DOMAIN task' = DOMAIN task
            /\ \A i \in DOMAIN task :
                 task'[i] = IF At(i, "sending") THEN [task[i] EXCEPT !.state = "raised"] ELSE task[i]
        BY <1>5 DEF Close
      <3>2. \A i \in DOMAIN task : At(i, "sending") =>
              task'[i] = [about |-> task[i].about, state |-> "raised",
                          attempt |-> task[i].attempt, payload |-> task[i].payload]
        BY <3>1 DEF Records
      <3>3. task' = [i \in DOMAIN task' |-> task'[i]]
        BY <1>5 DEF Close
      <3>4. QED
        BY <3>1, <3>2, <3>3 DEF Records, Held, Sending, At
    <2>2. Sending \in SUBSET Held
      BY DEF Sending, Held, At
    <2>3. Cardinality(Held \ Sending) = Cardinality(Held) - Cardinality(Sending)
      <3>1. Cardinality(Held \ Sending) = Cardinality(Held) - Cardinality(Held \cap Sending)
        BY <1>0, FS_Difference, Zenon
      <3>2. Held \cap Sending = Sending
        BY <2>2
      <3>3. QED
        BY <3>1, <3>2
    <2>4. free' = free + Cardinality(Sending)
      BY <1>5 DEF Close, Sending
    <2>5. QED
      BY <1>0, <1>5, <2>1, <2>2, <2>3, <2>4, FS_CardinalityType, FS_Subset, ConstantsAssumption
         DEF Close
  <1>6. CASE Keep
    <2>1. Held' = Held /\ Records' /\ Sending' = Sending
      BY <1>6 DEF Keep, Held, Sending, Records, At
    <2>2. QED
      BY <1>0, <1>6, <2>1 DEF Keep
  <1>7. QED
    BY <1>1, <1>2, <1>3, <1>4, <1>5, <1>6 DEF CollectStep

-----------------------------------------------------------------------------
(* The slots.                                                              *)

LEMMA Invariant == Spec => []IInv
  <1>1. Init => IInv
    <2> SUFFICES ASSUME Init PROVE IInv
      OBVIOUS
    <2>1. Held = {} /\ Sending = {} /\ Records
      BY DEF Init, Held, Sending, Records, At
    <2>2. QED
      BY <2>1, FS_EmptySet, ConstantsAssumption DEF Init, IInv, Slots, Closed
  <1>2. IInv /\ [Next]_vars => IInv'
    <2> SUFFICES ASSUME IInv, [Next]_vars PROVE IInv'
      OBVIOUS
    <2>1. CASE CollectStep
      BY <2>1, CollectKeeps
    <2>2. ASSUME NEW i \in DOMAIN task, TaskStep(i) PROVE IInv'
      BY <2>2, TaskKeeps
    <2>3. CASE UNCHANGED vars
      BY <2>3 DEF vars, IInv, Records, Slots, Closed, Held, Sending, At
    <2>4. QED
      BY <2>1, <2>2, <2>3 DEF Next
  <1>3. QED
    BY <1>1, <1>2, PTL DEF Spec

(* At no time are more requests sent than ARCTIC_SHIFT_CONCURRENCY allows, *)
(* and none when collect is over.                                          *)
THEOREM UpstreamIsSpared == Spec => []UpstreamLoad
  <1>1. IInv => UpstreamLoad
    <2> SUFFICES ASSUME IInv PROVE UpstreamLoad
      OBVIOUS
    <2> USE DEF IInv, Slots, Closed
    <2>1. Sending \in SUBSET Held
      BY DEF Sending, Held, At
    <2>2. Cardinality(Held) \in Nat /\ IsFiniteSet(Held) /\ free \in Nat
      BY FS_CardinalityType
    <2>3. Cardinality(Sending) <= Cardinality(Held) /\ IsFiniteSet(Sending)
      BY <2>1, <2>2, FS_Subset
    <2>4. Cardinality(Sending) \in Nat
      BY <2>3, FS_CardinalityType
    <2>5. Cardinality(Sending) <= Concurrency
      BY <2>2, <2>3, <2>4, ConstantsAssumption
    <2>6. QED
      BY <2>5 DEF UpstreamLoad, Sending
  <1>2. QED
    BY <1>1, Invariant, PTL

-----------------------------------------------------------------------------
(* What is collected and kept.                                             *)

(* What the requests of the present phase have been answered with.         *)
Answered == UNION {ToSet(task[i].payload) \cap Sources : i \in DOMAIN task}

(* A request has a payload when it is answered: one of those there are.    *)
RequestTypes ==
    \A i \in DOMAIN task :
      /\ task[i].about \in Names \cup Posts /\ task[i].attempt \in 0..MaxRetries
      /\ task[i].state \in {"queued", "sending", "backoff"} \cup Over
      /\ task[i].state = "answered" => task[i].payload \in Payloads(task[i].about)
      /\ task[i].state # "answered" => task[i].payload = <<>>

BatchTypes ==
    /\ phase \in Phase /\ open \in BOOLEAN /\ served \subseteq Sources
    /\ names \in Seq(Names) /\ IsInjective(names)
    /\ posts \in Seq(Posts) /\ IsInjective(posts)
    /\ comments \in Seq([comment : Comments, post : Posts])
    /\ kept \in Seq(Sources) /\ matched \in Seq(Sources)

(* The requests are about the subreddits, or the posts, in order.          *)
About(xs) == DOMAIN task = DOMAIN xs /\ \A i \in DOMAIN task : task[i].about = xs[i]

(* What the upstream has answered with is in the answers, or collected.    *)
Stages ==
    /\ phase = "idle" => task = <<>> /\ served = {}
    /\ phase = "posts" => About(names) /\ served = Answered
    /\ phase = "comments" => About(posts) /\ served = ToSet(posts) \cup Answered
    /\ BatchIsSound /\ KeptAreMatched

Data == RequestTypes /\ BatchTypes /\ Stages

-----------------------------------------------------------------------------
(* Sequences of elements in a set.                                         *)
LEMMA Elements ==
  ASSUME NEW X, NEW s \in Seq(X)
  PROVE  ToSet(s) \subseteq X /\ DOMAIN s = 1..Len(s) /\ Len(s) \in Nat
         /\ \A i \in DOMAIN s : s[i] \in X /\ s[i] \in ToSet(s)
  BY DEF ToSet

(* No request, no item.                                                    *)
LEMMA EmptySequence == ToSet(<<>>) = {} /\ IsInjective(<<>>)
  BY DEF ToSet, IsInjective

(* What Select keeps of s: the elements in S, and those that are not v.    *)
Chosen(s, S) == Select(s, LAMBDA x : x \in S)
Dropped(s, v) == Select(s, LAMBDA x : x # v)

(* The elements that pass stay, each as often as it was.                   *)
LEMMA SelectedFacts ==
  ASSUME NEW X, NEW s \in Seq(X), NEW S
  PROVE  /\ Chosen(s, S) \in Seq(X)
         /\ ToSet(Chosen(s, S)) = ToSet(s) \cap S
         /\ IsInjective(s) => IsInjective(Chosen(s, S))
  <1> DEFINE P == {i \in DOMAIN s : s[i] \in S}
  <1>1. DOMAIN s = 1..Len(s) /\ Len(s) \in Nat
    OBVIOUS
  <1>2. P \in SUBSET (1..Len(s))
    BY <1>1
  <1>3. P \in SUBSET Int /\ IsFiniteSet(P)
    BY <1>1, <1>2, Places
  <1>4. Chosen(s, S) = Picked(s, P)
    BY DEF Select, Chosen
  <1>5. (\A i \in P : s[i] \in X) /\ {s[i] : i \in P} = ToSet(s) \cap S
    BY <1>1 DEF ToSet
  <1>6. IsInjective(s) => \A i, j \in P : s[i] = s[j] => i = j
    BY <1>2 DEF IsInjective
  <1> HIDE DEF P
  <1>7. QED
    BY <1>3, <1>4, <1>5, <1>6, PickedFacts

(* And so do the elements that differ from v.                              *)
LEMMA DroppedFacts ==
  ASSUME NEW X, NEW s \in Seq(X), NEW v
  PROVE  /\ Dropped(s, v) \in Seq(X \ {v})
         /\ ToSet(Dropped(s, v)) = ToSet(s) \ {v}
         /\ IsInjective(s) => IsInjective(Dropped(s, v))
  <1> DEFINE P == {i \in DOMAIN s : s[i] # v}
  <1>1. DOMAIN s = 1..Len(s) /\ Len(s) \in Nat
    OBVIOUS
  <1>2. P \in SUBSET (1..Len(s))
    BY <1>1
  <1>3. P \in SUBSET Int /\ IsFiniteSet(P)
    BY <1>1, <1>2, Places
  <1>4. Dropped(s, v) = Picked(s, P)
    BY DEF Select, Dropped
  <1>5. (\A i \in P : s[i] \in X \ {v}) /\ {s[i] : i \in P} = ToSet(s) \ {v}
    BY <1>1 DEF ToSet
  <1>6. IsInjective(s) => \A i, j \in P : s[i] = s[j] => i = j
    BY <1>2 DEF IsInjective
  <1> HIDE DEF P
  <1>7. QED
    BY <1>3, <1>4, <1>5, <1>6, PickedFacts

(* Answers about a subreddit are posts, about a post comments, and no two  *)
(* have anything in common.                                                *)
LEMMA FoundFacts ==
  /\ \A x : Found(x) \subseteq Sources /\ IsFiniteSet(Found(x))
  /\ \A x \in Names : Found(x) \subseteq Posts
  /\ \A x \in Posts : Found(x) \subseteq Comments /\ \A c \in Found(x) : PostOf[c] = x
  /\ \A x, y \in Names \cup Posts : x # y => Found(x) \cap Found(y) = {}
  <1>1. \A x : Found(x) \subseteq Sources
    BY DEF Found, Sources
  <1>2. ASSUME NEW x PROVE IsFiniteSet(Found(x))
    BY <1>1, ConstantsAssumption, FS_Subset
  <1>3. \A c \in Comments : PostOf[c] \in Posts
    BY ConstantsAssumption
  <1>4. \A p \in Posts : SubredditOf[p] \in Names
    BY ConstantsAssumption
  <1>5. Names \cap Posts = {} /\ Posts \cap Comments = {}
    BY ConstantsAssumption
  <1>6. QED
    BY <1>1, <1>2, <1>3, <1>4, <1>5 DEF Found

(* An answer has each post or comment once, and perhaps an item that is of *)
(* no use.                                                                 *)
LEMMA PayloadFacts ==
  ASSUME NEW x, NEW p \in Payloads(x)
  PROVE  /\ p \in Seq(Found(x) \cup {NoId, Malformed}) /\ IsInjective(p)
         /\ ToSet(p) \subseteq Found(x) \cup {NoId, Malformed}
  <1> DEFINE X == Found(x) \cup {NoId, Malformed}
  <1>1. Found(x) \subseteq Sources /\ IsFiniteSet(Found(x))
    BY FoundFacts
  <1>2. NoId \notin Found(x) /\ Malformed \notin Found(x)
    BY <1>1, ConstantsAssumption
  <1>3. ASSUME NEW S \in SUBSET Found(x), NEW f \in SetToSeqs(S)
        PROVE  f \in Seq(X) /\ IsInjective(f) /\ ToSet(f) \subseteq Found(x)
    <2>1. IsFiniteSet(S)
      BY <1>1, FS_Subset
    <2>2. Cardinality(S) \in Nat
      BY <2>1, FS_CardinalityType
    <2>3. f \in [1..Cardinality(S) -> S] /\ \A i, j \in 1..Cardinality(S) : i # j => f[i] # f[j]
      BY DEF SetToSeqs
    <2>4. f \in Seq(S) /\ IsInjective(f)
      BY <2>2, <2>3 DEF IsInjective
    <2>5. ToSet(f) \subseteq S
      BY <2>3 DEF ToSet
    <2>6. QED
      BY <2>4, <2>5
  <1>4. \A y \in {NoId, Malformed} :
          <<y>> \in Seq(X) /\ IsInjective(<<y>>) /\ ToSet(<<y>>) = {y}
    BY DEF IsInjective, ToSet
  <1>5. ASSUME NEW all \in SetToSeqs(Found(x))
        PROVE  all \in Seq(X) /\ IsInjective(all) /\ ToSet(all) \subseteq Found(x)
    BY <1>3
  <1> HIDE DEF X
  <1>6. ASSUME NEW all \in SetToSeqs(Found(x))
        PROVE  <<NoId>> \o all \in Seq(X) /\ IsInjective(<<NoId>> \o all)
    <2> DEFINE one == <<NoId>>
    <2>1. one \in Seq(X) /\ IsInjective(one) /\ ToSet(one) = {NoId}
      BY <1>4
    <2>2. all \in Seq(X) /\ IsInjective(all) /\ ToSet(all) \subseteq Found(x)
      BY <1>5
    <2> HIDE DEF one
    <2>3. one \o all \in Seq(X) /\ IsInjective(one \o all)
      BY <1>2, <2>1, <2>2, ConcatFacts
    <2>4. QED
      BY <2>3 DEF one
  <1>7. ASSUME NEW all \in SetToSeqs(Found(x))
        PROVE  all \o <<Malformed>> \in Seq(X) /\ IsInjective(all \o <<Malformed>>)
    <2> DEFINE one == <<Malformed>>
    <2>1. one \in Seq(X) /\ IsInjective(one) /\ ToSet(one) = {Malformed}
      BY <1>4
    <2>2. all \in Seq(X) /\ IsInjective(all) /\ ToSet(all) \subseteq Found(x)
      BY <1>5
    <2> HIDE DEF one
    <2>3. all \o one \in Seq(X) /\ IsInjective(all \o one)
      BY <1>2, <2>1, <2>2, ConcatFacts
    <2>4. QED
      BY <2>3 DEF one
  <1>8. p \in Seq(X) /\ IsInjective(p)
    <2>1. CASE p \in UNION {SetToSeqs(S) : S \in SUBSET Found(x)}
      BY <1>3, <2>1 DEF X
    <2>2. CASE p \in {<<NoId>> \o all : all \in SetToSeqs(Found(x))}
      BY <1>6, <2>2
    <2>3. CASE p \in {all \o <<Malformed>> : all \in SetToSeqs(Found(x))}
      BY <1>7, <2>3
    <2>4. QED
      BY <2>1, <2>2, <2>3 DEF Payloads
  <1>9. ToSet(p) \subseteq X
    BY <1>8, Elements
  <1>10. QED
    BY <1>8, <1>9 DEF X

(* The fields of request i after a step.                                   *)
Becomes(i, s, n, p) ==
    /\ task'[i].about = task[i].about /\ task'[i].state = s
    /\ task'[i].attempt = n /\ task'[i].payload = p

(* A step sets the state of a request, and perhaps its attempts or its     *)
(* payload.                                                                *)
LEMMA BecomesByState ==
  ASSUME Records, NEW i \in DOMAIN task, NEW s, Set(i, s)
  PROVE  Becomes(i, s, task[i].attempt, task[i].payload)
  BY DEF Records, Set, Becomes

LEMMA BecomesByAttempt ==
  ASSUME Records, NEW i \in DOMAIN task, NEW s, NEW n,
         task' = [task EXCEPT ![i].state = s, ![i].attempt = n]
  PROVE  Becomes(i, s, n, task[i].payload)
  <1>1. task[i] = [about |-> task[i].about, state |-> task[i].state,
                   attempt |-> task[i].attempt, payload |-> task[i].payload]
    BY DEF Records
  <1>2. task'[i].about = task[i].about /\ task'[i].state = s
    BY <1>1
  <1>3. task'[i].attempt = n /\ task'[i].payload = task[i].payload
    BY <1>1
  <1>4. QED
    BY <1>2, <1>3 DEF Becomes

LEMMA BecomesByPayload ==
  ASSUME Records, NEW i \in DOMAIN task, NEW s, NEW p,
         task' = [task EXCEPT ![i].state = s, ![i].payload = p]
  PROVE  Becomes(i, s, task[i].attempt, p)
  <1>1. task[i] = [about |-> task[i].about, state |-> task[i].state,
                   attempt |-> task[i].attempt, payload |-> task[i].payload]
    BY DEF Records
  <1>2. task'[i].about = task[i].about /\ task'[i].state = s
    BY <1>1
  <1>3. task'[i].attempt = task[i].attempt /\ task'[i].payload = p
    BY <1>1
  <1>4. QED
    BY <1>2, <1>3 DEF Becomes

(* An answer fills the payload of its request and what is served; no other *)
(* step of a request touches either, and none changes what it is about.    *)
LEMMA TaskFields ==
  ASSUME Records, RequestTypes, NEW i \in DOMAIN task, TaskStep(i)
  PROVE  /\ UNCHANGED <<phase, open, names, posts, comments, kept, matched>>
         /\ RequestTypes' /\ DOMAIN task' = DOMAIN task
         /\ \A j \in DOMAIN task : task'[j].about = task[j].about
         /\ \A j \in DOMAIN task : j # i => task'[j] = task[j]
         /\ \/ served' = served /\ task'[i].payload = task[i].payload
            \/ /\ task[i].state = "sending" /\ task[i].payload = <<>>
               /\ served' = served \cup (ToSet(task'[i].payload) \cap Sources)
  <1> DEFINE was == task[i]
             is == task'[i]
  <1>1. /\ was.about \in Names \cup Posts /\ was.attempt \in 0..MaxRetries
        /\ was.state = "answered" => was.payload \in Payloads(was.about)
        /\ was.state # "answered" => was.payload = <<>>
    BY DEF RequestTypes
  <1>2. DOMAIN task' = DOMAIN task /\ \A j \in DOMAIN task : j # i => task'[j] = task[j]
    BY TaskMoves DEF Moved
  <1>3. UNCHANGED <<phase, open, names, posts, comments, kept, matched>>
    BY DEF TaskStep, Acquire, Answer, Retry, Skip, Raise, Wake, batch, kept_
  <1>4. \/ /\ was.state # "answered" /\ served' = served
           /\ \E s \in {"sending", "skipped", "raised"} : Becomes(i, s, was.attempt, was.payload)
        \/ /\ was.state = "sending" /\ served' = served /\ was.attempt < MaxRetries
           /\ Becomes(i, "backoff", was.attempt + 1, was.payload)
        \/ /\ was.state = "sending"
           /\ \E p \in Payloads(was.about) :
                /\ Becomes(i, "answered", was.attempt, p)
                /\ served' = served \cup (ToSet(p) \cap Sources)
    <2> USE DEF At
    <2>1. CASE Acquire(i)
      BY <2>1, BecomesByState DEF Acquire
    <2>2. CASE Answer(i)
      <3>1. PICK p \in Payloads(was.about) :
              /\ task' = [task EXCEPT ![i].state = "answered", ![i].payload = p]
              /\ served' = served \cup (ToSet(p) \cap Sources)
        BY <2>2 DEF Answer
      <3>2. Becomes(i, "answered", was.attempt, p)
        BY <3>1, BecomesByPayload
      <3>3. was.state = "sending"
        BY <2>2 DEF Answer
      <3>4. QED
        BY <3>1, <3>2, <3>3
    <2>3. CASE Retry(i)
      <3>1. Becomes(i, "backoff", was.attempt + 1, was.payload)
        BY <2>3, BecomesByAttempt DEF Retry
      <3>2. QED
        BY <2>3, <3>1 DEF Retry
    <2>4. CASE Skip(i)
      BY <2>4, BecomesByState DEF Skip
    <2>5. CASE Raise(i)
      BY <2>5, BecomesByState DEF Raise
    <2>6. CASE Wake(i)
      BY <2>6, BecomesByState DEF Wake
    <2>7. QED
      BY <2>1, <2>2, <2>3, <2>4, <2>5, <2>6 DEF TaskStep
  <1>5. MaxRetries \in Nat
    BY ConstantsAssumption
  <1>6. /\ is.about = was.about /\ is.attempt \in 0..MaxRetries
        /\ is.state \in {"queued", "sending", "backoff"} \cup Over
        /\ is.state = "answered" => is.payload \in Payloads(is.about)
        /\ is.state # "answered" => is.payload = <<>>
    BY <1>1, <1>4, <1>5 DEF Over, Becomes
  <1>7. \/ served' = served /\ is.payload = was.payload
        \/ /\ was.state = "sending" /\ was.payload = <<>>
           /\ served' = served \cup (ToSet(is.payload) \cap Sources)
    BY <1>1, <1>4 DEF Becomes
  <1>8. \A j \in DOMAIN task : task'[j].about = task[j].about
    BY <1>2, <1>6
  <1>9. RequestTypes'
    <2> SUFFICES ASSUME NEW j \in DOMAIN task
                 PROVE  /\ task'[j].about \in Names \cup Posts /\ task'[j].attempt \in 0..MaxRetries
                        /\ task'[j].state \in {"queued", "sending", "backoff"} \cup Over
                        /\ task'[j].state = "answered" => task'[j].payload \in Payloads(task'[j].about)
                        /\ task'[j].state # "answered" => task'[j].payload = <<>>
      BY <1>2 DEF RequestTypes
    <2>1. CASE j = i
      BY <1>1, <1>6, <2>1
    <2>2. CASE j # i
      BY <1>2, <2>2 DEF RequestTypes
    <2>3. QED
      BY <2>1, <2>2
  <1>10. QED
    BY <1>2, <1>3, <1>7, <1>8, <1>9

(* A step of a request leaves the rest of the run alone, and what is       *)
(* served is still what the answers hold.                                  *)
LEMMA TaskKeepsData ==
  ASSUME IInv, Data, NEW i \in DOMAIN task, TaskStep(i)
  PROVE  Data'
  <1> USE DEF Data
  <1>1. Records
    BY DEF IInv
  <1>2. /\ UNCHANGED <<phase, open, names, posts, comments, kept, matched>>
        /\ RequestTypes' /\ DOMAIN task' = DOMAIN task
        /\ \A j \in DOMAIN task : task'[j].about = task[j].about
        /\ \A j \in DOMAIN task : j # i => task'[j] = task[j]
    BY <1>1, TaskFields
  <1>3. \/ served' = served /\ task'[i].payload = task[i].payload
        \/ /\ task[i].state = "sending" /\ task[i].payload = <<>>
           /\ served' = served \cup (ToSet(task'[i].payload) \cap Sources)
    BY <1>1, TaskFields
  <1>4. BatchTypes'
    BY <1>2, <1>3 DEF BatchTypes
  <1>5. \/ served' = served /\ Answered' = Answered
        \/ \E X : served' = served \cup X /\ Answered' = Answered \cup X
    <2>1. CASE served' = served /\ task'[i].payload = task[i].payload
      <3>1. \A j \in DOMAIN task : task'[j].payload = task[j].payload
        BY <1>2, <2>1
      <3>2. QED
        BY <1>2, <2>1, <3>1 DEF Answered
    <2>2. CASE /\ task[i].payload = <<>>
               /\ served' = served \cup (ToSet(task'[i].payload) \cap Sources)
      <3> DEFINE X == ToSet(task'[i].payload) \cap Sources
      <3>1. \A x : x \in Answered' <=> \E j \in DOMAIN task : x \in ToSet(task'[j].payload) \cap Sources
        BY <1>2 DEF Answered
      <3>2. \A x : x \in Answered <=> \E j \in DOMAIN task : x \in ToSet(task[j].payload) \cap Sources
        BY DEF Answered
      <3>3. ToSet(task[i].payload) = {}
        BY <2>2, EmptySequence
      <3>4. Answered' = Answered \cup X
        BY <1>2, <3>1, <3>2, <3>3
      <3>5. QED
        BY <2>2, <3>4
    <2>3. QED
      BY <1>3, <2>1, <2>2
  <1>6. \A xs : About(xs) => (DOMAIN task' = DOMAIN xs /\ \A j \in DOMAIN task' : task'[j].about = xs[j])
    BY <1>2 DEF About
  <1>7. phase = "done" => served' = served
    <2>1. task[i].state = "sending" => i \in Sending
      BY DEF Sending, At
    <2>2. QED
      BY <1>3, <2>1 DEF IInv, Closed
  <1>8. phase # "idle"
    BY DEF Stages
  <1>9. Stages'
    <2>1. ASSUME phase = "posts" PROVE About(names)' /\ served' = Answered'
      <3>1. About(names)'
        BY <1>2, <1>6, <2>1 DEF Stages, About
      <3>2. QED
        BY <1>2, <1>5, <2>1, <3>1 DEF Stages
    <2>2. ASSUME phase = "comments" PROVE About(posts)' /\ served' = (ToSet(posts) \cup Answered)'
      <3>1. About(posts)'
        BY <1>2, <1>6, <2>2 DEF Stages, About
      <3>2. QED
        BY <1>2, <1>5, <2>2, <3>1 DEF Stages
    <2>3. BatchIsSound'
      BY <1>2, <1>7 DEF Stages, BatchIsSound
    <2>4. KeptAreMatched'
      BY <1>2 DEF Stages, KeptAreMatched
    <2>5. QED
      BY <1>2, <1>8, <2>1, <2>2, <2>3, <2>4 DEF Stages
  <1>10. QED
    BY <1>2, <1>4, <1>9

(* New requests have no answer.                                            *)
LEMMA NewRequestTypes ==
  ASSUME NEW X \in SUBSET (Names \cup Posts), NEW xs \in Seq(X), task' = Requests(xs)
  PROVE  /\ RequestTypes' /\ Answered' = {}
         /\ DOMAIN task' = DOMAIN xs /\ \A i \in DOMAIN xs : task'[i].about = xs[i]
  <1>1. DOMAIN task' = DOMAIN xs /\ \A i \in DOMAIN xs : task'[i] = Request(xs[i])
    BY DEF Requests
  <1>2. \A i \in DOMAIN xs : xs[i] \in X
    BY Elements
  <1>3. MaxRetries \in Nat
    BY ConstantsAssumption
  <1>4. \A i \in DOMAIN xs :
          /\ task'[i].about = xs[i] /\ task'[i].state = "queued"
          /\ task'[i].attempt = 0 /\ task'[i].payload = <<>>
    BY <1>1 DEF Request
  <1>5. RequestTypes'
    BY <1>1, <1>2, <1>3, <1>4 DEF RequestTypes
  <1>6. Answered' = {}
    BY <1>1, <1>4, EmptySequence DEF Answered
  <1>7. QED
    BY <1>1, <1>4, <1>5, <1>6

(* The names of a run are normalized names, each once.                     *)
LEMMA NormalNamesFacts ==
  ASSUME NEW raws \in Seq(RawNames)
  PROVE  NormalNames(raws) \in Seq(Names) /\ IsInjective(NormalNames(raws))
  <1> DEFINE s == [i \in DOMAIN raws |-> NormalName[raws[i]]]
             kinds == Names \cup {"none"}
             chosen == Dropped(s, "none")
  <1>1. DOMAIN raws = 1..Len(raws) /\ Len(raws) \in Nat /\ \A i \in DOMAIN raws : raws[i] \in RawNames
    OBVIOUS
  <1>2. \A i \in DOMAIN raws : NormalName[raws[i]] \in kinds
    BY <1>1, ConstantsAssumption
  <1>3. s \in Seq(kinds)
    BY <1>1, <1>2
  <1> HIDE DEF s
  <1>4. chosen \in Seq(kinds \ {"none"})
    BY <1>3, DroppedFacts
  <1>5. kinds \ {"none"} = Names
    BY ConstantsAssumption
  <1>6. NormalNames(raws) = Distinct(chosen)
    BY DEF NormalNames, Dropped, s
  <1> HIDE DEF chosen, kinds
  <1>7. QED
    BY <1>4, <1>5, <1>6, DistinctFacts

(* What is used of an answer without a malformed item: what was served.    *)
LEMMA UsefulItems ==
  ASSUME NEW x, NEW p, p = <<>> \/ p \in Payloads(x), Malformed \notin ToSet(p)
  PROVE  /\ Items(p) \in Seq(Found(x)) /\ IsInjective(Items(p))
         /\ ToSet(Items(p)) = ToSet(p) \cap Sources
  <1> DEFINE X == Found(x) \cup {NoId, Malformed}
  <1>1. p \in Seq(X) /\ IsInjective(p) /\ ToSet(p) \subseteq X
    <2>1. CASE p = <<>>
      BY <2>1, EmptySequence
    <2>2. CASE p \in Payloads(x)
      BY <2>2, PayloadFacts
    <2>3. QED
      BY <2>1, <2>2
  <1>2. Items(p) = Dropped(p, NoId)
    BY DEF Items, Dropped
  <1>3. ToSet(Items(p)) = ToSet(p) \ {NoId} /\ IsInjective(Items(p)) /\ Items(p) \in Seq(X \ {NoId})
    <2> HIDE DEF X
    <2>1. IsInjective(p) => IsInjective(Dropped(p, NoId))
      BY <1>1, DroppedFacts
    <2>2. Dropped(p, NoId) \in Seq(X \ {NoId}) /\ ToSet(Dropped(p, NoId)) = ToSet(p) \ {NoId}
      BY <1>1, DroppedFacts
    <2>3. QED
      BY <1>1, <1>2, <2>1, <2>2
  <1>4. Found(x) \subseteq Sources /\ Sources \cap {NoId, Malformed} = {}
    BY FoundFacts, ConstantsAssumption
  <1>5. ToSet(Items(p)) = ToSet(p) \cap Sources /\ ToSet(Items(p)) \subseteq Found(x)
    BY <1>1, <1>3, <1>4
  <1>6. Items(p) \in Seq(Found(x))
    BY <1>3, <1>5, Elements
  <1>7. QED
    BY <1>3, <1>5, <1>6

(* What gather returns, by the subreddits or posts xs it was about.        *)
LEMMA GatheredFacts ==
  ASSUME RequestTypes, ~MalformedAnswer, NEW X, NEW xs \in Seq(X), About(xs)
  PROVE  /\ DOMAIN Gathered = DOMAIN xs /\ DOMAIN task = DOMAIN xs
         /\ \A i \in DOMAIN xs :
              /\ Items(Gathered[i]) \in Seq(Found(xs[i])) /\ IsInjective(Items(Gathered[i]))
              /\ ToSet(Items(Gathered[i])) = ToSet(task[i].payload) \cap Sources
              /\ ToSet(Items(Gathered[i])) \subseteq Found(xs[i])
         /\ Answered = UNION {ToSet(Items(Gathered[i])) : i \in DOMAIN xs}
  <1>1. DOMAIN task = DOMAIN xs /\ \A i \in DOMAIN xs : task[i].about = xs[i]
    BY DEF About
  <1>2. DOMAIN Gathered = DOMAIN xs /\ \A i \in DOMAIN xs : Gathered[i] = task[i].payload
    BY <1>1 DEF Gathered
  <1>3. ASSUME NEW i \in DOMAIN xs
        PROVE  /\ Items(Gathered[i]) \in Seq(Found(xs[i])) /\ IsInjective(Items(Gathered[i]))
               /\ ToSet(Items(Gathered[i])) = ToSet(task[i].payload) \cap Sources
               /\ ToSet(Items(Gathered[i])) \subseteq Found(xs[i])
    <2> DEFINE p == Gathered[i]
               x == xs[i]
    <2>1. (p = <<>> \/ p \in Payloads(x)) /\ Malformed \notin ToSet(p) /\ p = task[i].payload
      BY <1>1, <1>2 DEF RequestTypes, MalformedAnswer
    <2> HIDE DEF p, x
    <2>2. /\ Items(p) \in Seq(Found(x)) /\ IsInjective(Items(p))
          /\ ToSet(Items(p)) = ToSet(p) \cap Sources
      BY <2>1, UsefulItems
    <2>3. ToSet(Items(p)) \subseteq Found(x)
      BY <2>2, Elements
    <2>4. QED
      BY <2>1, <2>2, <2>3 DEF p, x
  <1>4. Answered = UNION {ToSet(Items(Gathered[i])) : i \in DOMAIN xs}
    BY <1>1, <1>3 DEF Answered
  <1>5. QED
    BY <1>1, <1>2, <1>3, <1>4

(* The run begins with a request per subreddit.                            *)
LEMMA BeginKeepsData ==
  ASSUME Data, Begin
  PROVE  Data'
  <1> USE DEF Data
  <1>1. phase = "idle" /\ phase' = "posts" /\ open' = TRUE /\ task' = Requests(names')
        /\ UNCHANGED <<posts, comments, served, kept, matched>>
    BY DEF Begin, kept_
  <1>2. PICK S \in SUBSET RawNames : names' = NormalNames(SetToSeq(S))
    BY DEF Begin
  <1>3. names' \in Seq(Names) /\ IsInjective(names')
    <2>1. IsFiniteSet(S)
      BY ConstantsAssumption, FS_Subset
    <2>2. SetToSeq(S) \in Seq(RawNames)
      BY <2>1, SetToSeqFacts
    <2>3. QED
      BY <1>2, <2>2, NormalNamesFacts
  <1>4. /\ RequestTypes' /\ Answered' = {}
        /\ DOMAIN task' = DOMAIN names' /\ \A i \in DOMAIN names' : task'[i].about = names'[i]
    <2> DEFINE xs == names'
    <2>1. xs \in Seq(Names) /\ task' = Requests(xs) /\ Names \in SUBSET (Names \cup Posts)
      BY <1>1, <1>3
    <2> HIDE DEF xs
    <2>2. /\ RequestTypes' /\ Answered' = {}
          /\ DOMAIN task' = DOMAIN xs /\ \A i \in DOMAIN xs : task'[i].about = xs[i]
      BY <2>1, NewRequestTypes
    <2>3. QED
      BY <2>2 DEF xs
  <1>5. BatchTypes'
    BY <1>1, <1>3 DEF BatchTypes, Phase
  <1>6. served' = {}
    BY <1>1 DEF Stages
  <1>7. Stages'
    BY <1>1, <1>4, <1>6 DEF Stages, About, BatchIsSound, KeptAreMatched
  <1>8. QED
    BY <1>4, <1>5, <1>7

(* The posts of all subreddits, each once, are what has been served.       *)
LEMMA PostsKeepData ==
  ASSUME Data, PostsCollected
  PROVE  Data'
  <1> USE DEF Data
  <1> DEFINE s == [i \in DOMAIN Gathered |-> Items(Gathered[i])]
  <1>1. /\ phase = "posts" /\ phase' = "comments" /\ ~MalformedAnswer
        /\ posts' = FlattenSeq(s) /\ task' = Requests(posts')
        /\ UNCHANGED <<names, open, comments, served, kept, matched>>
    BY DEF PostsCollected, kept_
  <1>2. names \in Seq(Names) /\ IsInjective(names) /\ About(names) /\ served = Answered /\ RequestTypes
    BY <1>1 DEF BatchTypes, Stages
  <1>3. /\ DOMAIN Gathered = DOMAIN names
        /\ \A i \in DOMAIN names :
              /\ Items(Gathered[i]) \in Seq(Found(names[i])) /\ IsInjective(Items(Gathered[i]))
              /\ ToSet(Items(Gathered[i])) \subseteq Found(names[i])
        /\ Answered = UNION {ToSet(Items(Gathered[i])) : i \in DOMAIN names}
    BY <1>1, <1>2, GatheredFacts
  <1>4. /\ DOMAIN s = DOMAIN names
        /\ \A i \in DOMAIN names :
              /\ s[i] \in Seq(Found(names[i])) /\ IsInjective(s[i])
              /\ ToSet(s[i]) \subseteq Found(names[i])
        /\ Answered = UNION {ToSet(s[i]) : i \in DOMAIN s}
    BY <1>3
  <1>5. DOMAIN names = 1..Len(names) /\ Len(names) \in Nat /\ \A i \in DOMAIN names : names[i] \in Names
    BY <1>2, Elements
  <1>6. s = [i \in 1..Len(names) |-> s[i]]
    BY <1>4, <1>5
  <1> HIDE DEF s
  <1>7. \A i \in DOMAIN s : s[i] \in Seq(Posts)
    BY <1>4, <1>5, FoundFacts
  <1>8. s \in Seq(Seq(Posts))
    BY <1>4, <1>5, <1>6, <1>7
  <1>9. \A i, j \in DOMAIN s : i # j => ToSet(s[i]) \cap ToSet(s[j]) = {}
    <2> SUFFICES ASSUME NEW i \in DOMAIN s, NEW j \in DOMAIN s, i # j
                 PROVE  ToSet(s[i]) \cap ToSet(s[j]) = {}
      OBVIOUS
    <2>1. names[i] # names[j] /\ names[i] \in Names /\ names[j] \in Names
      BY <1>2, <1>4, <1>5 DEF IsInjective
    <2>2. Found(names[i]) \cap Found(names[j]) = {}
      BY <2>1, FoundFacts
    <2>3. QED
      BY <1>4, <2>2
  <1>10. posts' \in Seq(Posts) /\ IsInjective(posts') /\ ToSet(posts') = served
    BY <1>1, <1>2, <1>4, <1>8, <1>9, FlattenFacts
  <1>11. /\ RequestTypes' /\ Answered' = {}
         /\ DOMAIN task' = DOMAIN posts' /\ \A i \in DOMAIN posts' : task'[i].about = posts'[i]
    <2> DEFINE xs == posts'
    <2>1. xs \in Seq(Posts) /\ task' = Requests(xs) /\ Posts \in SUBSET (Names \cup Posts)
      BY <1>1, <1>10
    <2> HIDE DEF xs
    <2>2. /\ RequestTypes' /\ Answered' = {}
          /\ DOMAIN task' = DOMAIN xs /\ \A i \in DOMAIN xs : task'[i].about = xs[i]
      BY <2>1, NewRequestTypes
    <2>3. QED
      BY <2>2 DEF xs
  <1>12. BatchTypes'
    BY <1>1, <1>10 DEF BatchTypes, Phase
  <1>13. Stages'
    BY <1>1, <1>10, <1>11 DEF Stages, About, BatchIsSound, KeptAreMatched
  <1>14. QED
    BY <1>11, <1>12, <1>13

(* The comments of all posts, each once and under its post.                *)
LEMMA CommentsKeepData ==
  ASSUME Data, CommentsCollected
  PROVE  Data'
  <1> USE DEF Data
  <1> DEFINE Rows == [comment : Comments, post : Posts]
             row == [i \in DOMAIN Gathered |->
                      [k \in DOMAIN Items(Gathered[i]) |->
                         [comment |-> Items(Gathered[i])[k], post |-> posts[i]]]]
             item == [i \in DOMAIN Gathered |-> Items(Gathered[i])]
  <1>1. /\ phase = "comments" /\ phase' = "done" /\ ~MalformedAnswer
        /\ comments' = FlattenSeq(row) /\ open' = FALSE
        /\ UNCHANGED <<names, task, posts, served, kept, matched>>
    BY DEF CommentsCollected, kept_
  <1>2. /\ posts \in Seq(Posts) /\ IsInjective(posts) /\ About(posts)
        /\ served = ToSet(posts) \cup Answered /\ RequestTypes
    BY <1>1 DEF BatchTypes, Stages
  <1>3. /\ DOMAIN Gathered = DOMAIN posts
        /\ \A i \in DOMAIN posts :
              /\ Items(Gathered[i]) \in Seq(Found(posts[i])) /\ IsInjective(Items(Gathered[i]))
              /\ ToSet(Items(Gathered[i])) \subseteq Found(posts[i])
        /\ Answered = UNION {ToSet(Items(Gathered[i])) : i \in DOMAIN posts}
    BY <1>1, <1>2, GatheredFacts
  <1>4. DOMAIN posts = 1..Len(posts) /\ Len(posts) \in Nat /\ \A i \in DOMAIN posts : posts[i] \in Posts
    BY <1>2, Elements
  <1>5. /\ DOMAIN item = DOMAIN posts /\ DOMAIN row = DOMAIN posts
        /\ \A i \in DOMAIN posts :
             /\ item[i] \in Seq(Found(posts[i])) /\ IsInjective(item[i])
             /\ ToSet(item[i]) \subseteq Found(posts[i])
             /\ row[i] = [k \in DOMAIN item[i] |-> [comment |-> item[i][k], post |-> posts[i]]]
        /\ Answered = UNION {ToSet(item[i]) : i \in DOMAIN posts}
        /\ row = [i \in 1..Len(posts) |-> row[i]]
    BY <1>3, <1>4
  <1>0. \A c \in Comments, q \in Posts : [comment |-> c, post |-> q] \in Rows
    OBVIOUS
  <1> HIDE DEF row, item, Rows
  <1>6. ASSUME NEW i \in DOMAIN posts
        PROVE  /\ row[i] \in Seq(Rows) /\ IsInjective(row[i])
               /\ \A r : r \in ToSet(row[i]) <=>
                    \E x \in ToSet(item[i]) : r = [comment |-> x, post |-> posts[i]]
               /\ \A r \in ToSet(row[i]) :
                    /\ r.post = posts[i] /\ r.comment \in ToSet(item[i])
                    /\ r.comment \in Comments /\ PostOf[r.comment] = posts[i]
    <2> DEFINE f == item[i]
               g == row[i]
               p == posts[i]
    <2>1. /\ f \in Seq(Found(p)) /\ IsInjective(f) /\ ToSet(f) \subseteq Found(p) /\ p \in Posts
          /\ g = [k \in DOMAIN f |-> [comment |-> f[k], post |-> p]]
      BY <1>4, <1>5
    <2> HIDE DEF f, g, p
    <2>2. Found(p) \subseteq Comments /\ \A c \in Found(p) : PostOf[c] = p
      BY <2>1, FoundFacts
    <2>3. /\ DOMAIN f = 1..Len(f) /\ Len(f) \in Nat
          /\ \A k \in DOMAIN f : f[k] \in Comments /\ f[k] \in ToSet(f)
      BY <2>1, <2>2, Elements
    <2>4. DOMAIN g = DOMAIN f /\ \A k \in DOMAIN f : g[k] = [comment |-> f[k], post |-> p]
      BY <2>1
    <2>5. \A k \in DOMAIN f : g[k] \in Rows
      BY <1>0, <2>1, <2>3, <2>4
    <2>6. g \in Seq(Rows)
      <3>1. g = [k \in 1..Len(f) |-> g[k]]
        BY <2>1, <2>3
      <3>2. QED
        BY <2>3, <2>5, <3>1
    <2>7. \A k \in DOMAIN f : g[k].comment = f[k]
      BY <2>4
    <2>8. IsInjective(g)
      BY <2>1, <2>4, <2>7 DEF IsInjective
    <2>9. \A r : r \in ToSet(g) <=> \E x \in ToSet(f) : r = [comment |-> x, post |-> p]
      BY <2>4 DEF ToSet
    <2>10. \A r \in ToSet(g) :
             /\ r.post = p /\ r.comment \in ToSet(f)
             /\ r.comment \in Comments /\ PostOf[r.comment] = p
      BY <2>1, <2>2, <2>9
    <2>11. QED
      BY <2>6, <2>8, <2>9, <2>10 DEF f, g, p
  <1>7. row \in Seq(Seq(Rows))
    <2>1. \A i \in 1..Len(posts) : row[i] \in Seq(Rows)
      BY <1>4, <1>6
    <2>2. QED
      BY <1>4, <1>5, <2>1
  <1>8. \A i, j \in DOMAIN row : i # j => ToSet(row[i]) \cap ToSet(row[j]) = {}
    <2> SUFFICES ASSUME NEW i \in DOMAIN posts, NEW j \in DOMAIN posts, i # j,
                        NEW r \in ToSet(row[i]), r \in ToSet(row[j])
                 PROVE  FALSE
      BY <1>5
    <2>1. r.post = posts[i] /\ r.post = posts[j]
      BY <1>6
    <2>2. QED
      BY <1>2, <2>1 DEF IsInjective
  <1>9. /\ comments' \in Seq(Rows) /\ IsInjective(comments')
        /\ ToSet(comments') = UNION {ToSet(row[i]) : i \in DOMAIN posts}
    <2>1. /\ \A i \in DOMAIN row : IsInjective(row[i])
          /\ DOMAIN row = DOMAIN posts
      BY <1>5, <1>6
    <2>2. /\ FlattenSeq(row) \in Seq(Rows) /\ IsInjective(FlattenSeq(row))
          /\ ToSet(FlattenSeq(row)) = UNION {ToSet(row[i]) : i \in DOMAIN row}
      BY <1>7, <1>8, <2>1, FlattenFacts
    <2>3. QED
      BY <1>1, <2>1, <2>2
  <1>10. \A k \in DOMAIN comments' : comments'[k].post = PostOf[comments'[k].comment]
    <2> SUFFICES ASSUME NEW k \in DOMAIN comments'
                 PROVE  comments'[k].post = PostOf[comments'[k].comment]
      OBVIOUS
    <2>1. comments'[k] \in ToSet(comments')
      BY <1>9, Elements
    <2>2. PICK i \in DOMAIN posts : comments'[k] \in ToSet(row[i])
      BY <1>9, <2>1
    <2>3. QED
      BY <1>6, <2>2
  <1>11. {comments'[k].comment : k \in DOMAIN comments'} = Answered
    <2>1. ASSUME NEW x PROVE (\E k \in DOMAIN comments' : x = comments'[k].comment) <=> x \in Answered
      <3>1. ASSUME NEW k \in DOMAIN comments' PROVE comments'[k].comment \in Answered
        <4>1. comments'[k] \in ToSet(comments')
          BY <1>9, Elements
        <4>2. PICK i \in DOMAIN posts : comments'[k] \in ToSet(row[i])
          BY <1>9, <4>1
        <4>3. comments'[k].comment \in ToSet(item[i])
          BY <1>6, <4>2
        <4>4. QED
          BY <1>5, <4>3
      <3>2. ASSUME x \in Answered PROVE \E k \in DOMAIN comments' : x = comments'[k].comment
        <4>1. PICK i \in DOMAIN posts : x \in ToSet(item[i])
          BY <1>5, <3>2
        <4>2. [comment |-> x, post |-> posts[i]] \in ToSet(row[i])
          BY <1>6, <4>1
        <4>3. [comment |-> x, post |-> posts[i]] \in ToSet(comments')
          BY <1>9, <4>2
        <4>4. PICK k \in DOMAIN comments' : comments'[k] = [comment |-> x, post |-> posts[i]]
          BY <4>3 DEF ToSet
        <4>5. QED
          BY <4>4
      <3>3. QED
        BY <3>1, <3>2
    <2>2. QED
      BY <2>1
  <1>12. BatchIsSound'
    BY <1>1, <1>2, <1>9, <1>10, <1>11 DEF BatchIsSound
  <1>13. RequestTypes'
    BY <1>1 DEF RequestTypes
  <1>14. BatchTypes'
    BY <1>1, <1>9 DEF BatchTypes, Phase, Rows
  <1>15. Stages'
    BY <1>1, <1>12 DEF Stages, KeptAreMatched
  <1>16. QED
    BY <1>13, <1>14, <1>15

(* What does not touch the collected data keeps it.                        *)
LEMMA RaisesKeepsData ==
  ASSUME Data, CollectRaises
  PROVE  Data'
  <1> USE DEF Data
  <1>1. /\ phase' = "closing"
        /\ UNCHANGED <<names, task, open, posts, comments, served, kept, matched>>
    BY DEF CollectRaises, batch, kept_
  <1>2. RequestTypes' /\ BatchTypes' /\ Stages'
    BY <1>1 DEF RequestTypes, BatchTypes, Phase, Stages, BatchIsSound, KeptAreMatched
  <1>3. QED
    BY <1>2

(* Closing the client fails the requests that are sent, which have no      *)
(* payload.                                                                *)
LEMMA CloseKeepsData ==
  ASSUME Records, Data, Close
  PROVE  Data'
  <1> USE DEF Data
  <1>1. /\ phase' = "failed" /\ open' = FALSE
        /\ UNCHANGED <<names, posts, comments, served, kept, matched>>
    BY DEF Close, batch, kept_
  <1>2. /\ DOMAIN task' = DOMAIN task
        /\ \A i \in DOMAIN task :
             task'[i] = IF At(i, "sending") THEN [task[i] EXCEPT !.state = "raised"] ELSE task[i]
    BY DEF Close
  <1>3. ASSUME NEW i \in DOMAIN task
        PROVE  /\ task'[i].about \in Names \cup Posts /\ task'[i].attempt \in 0..MaxRetries
               /\ task'[i].state \in {"queued", "sending", "backoff"} \cup Over
               /\ task'[i].state = "answered" => task'[i].payload \in Payloads(task'[i].about)
               /\ task'[i].state # "answered" => task'[i].payload = <<>>
    <2>1. CASE task[i].state = "sending"
      <3>1. task'[i] = [task[i] EXCEPT !.state = "raised"]
        BY <1>2, <2>1 DEF At
      <3>2. /\ task'[i].about = task[i].about /\ task'[i].attempt = task[i].attempt
            /\ task'[i].payload = task[i].payload /\ task'[i].state = "raised"
        BY <3>1 DEF Records
      <3>3. QED
        BY <2>1, <3>2 DEF RequestTypes, Over
    <2>2. CASE task[i].state # "sending"
      BY <1>2, <2>2 DEF At, RequestTypes
    <2>3. QED
      BY <2>1, <2>2
  <1>4. RequestTypes'
    BY <1>2, <1>3 DEF RequestTypes
  <1>5. BatchTypes' /\ Stages'
    BY <1>1 DEF BatchTypes, Phase, Stages, BatchIsSound, KeptAreMatched
  <1>6. QED
    BY <1>4, <1>5

(* What is kept are candidates, each once, and they all match: the rows    *)
(* that are there already and those that are added are the documents.      *)
LEMMA KeepKeepsData ==
  ASSUME Data, Keep
  PROVE  Data'
  <1> USE DEF Data
  <1> DEFINE told == [i \in DOMAIN comments |-> comments[i].comment]
             texts == posts \o told
  <1>1. /\ phase = "done" /\ phase' = "matched"
        /\ UNCHANGED <<names, task, open, posts, comments, served>>
    BY DEF Keep, batch
  <1>0. PICK S \in SUBSET (ToSet(texts) \cap Candidates) :
          \E already \in {{}, S} :
            /\ kept' = Select(texts, LAMBDA x : x \in S)
            /\ matched' = SetToSeq(already) \o NewMatches(kept', already)
    BY Zenon DEF Keep
  <1>2. PICK already \in {{}, S} :
          /\ kept' = Select(texts, LAMBDA x : x \in S)
          /\ matched' = SetToSeq(already) \o NewMatches(kept', already)
    BY <1>0
  <1>3. /\ posts \in Seq(Posts) /\ IsInjective(posts) /\ IsInjective(comments)
        /\ comments \in Seq([comment : Comments, post : Posts])
        /\ \A k \in DOMAIN comments : comments[k].post = PostOf[comments[k].comment]
    BY <1>1 DEF BatchTypes, Stages, BatchIsSound
  <1>4. told \in Seq(Comments) /\ IsInjective(told)
    <2>1. DOMAIN comments = 1..Len(comments) /\ Len(comments) \in Nat
      BY <1>3
    <2>2. \A k \in DOMAIN comments :
            /\ comments[k] \in [comment : Comments, post : Posts]
            /\ comments[k] = [comment |-> comments[k].comment, post |-> comments[k].post]
            /\ comments[k].comment \in Comments
      <3> DEFINE Rows == [comment : Comments, post : Posts]
      <3>1. \A r \in Rows : r = [comment |-> r.comment, post |-> r.post] /\ r.comment \in Comments
        OBVIOUS
      <3>2. comments \in Seq(Rows)
        BY <1>3
      <3> HIDE DEF Rows
      <3>3. \A k \in DOMAIN comments : comments[k] \in Rows
        BY <3>2, Elements
      <3>4. QED
        BY <3>1, <3>3 DEF Rows
    <2>3. \A i, j \in DOMAIN comments : comments[i].comment = comments[j].comment => i = j
      BY <1>3, <2>2 DEF IsInjective
    <2>4. told \in Seq(Comments)
      BY <2>1, <2>2
    <2>5. IsInjective(told)
      BY <2>3 DEF IsInjective
    <2>6. QED
      BY <2>4, <2>5
  <1> HIDE DEF told
  <1>5. texts \in Seq(Sources) /\ IsInjective(texts)
    <2>1. posts \in Seq(Sources) /\ told \in Seq(Sources)
      BY <1>3, <1>4 DEF Sources
    <2>2. ToSet(posts) \cap ToSet(told) = {}
      BY <1>3, <1>4, Elements, ConstantsAssumption
    <2>3. QED
      BY <1>3, <1>4, <2>1, <2>2, ConcatFacts
  <1> HIDE DEF texts
  <1>6. kept' \in Seq(Sources) /\ IsInjective(kept') /\ ToSet(kept') = S
    <2>1. kept' = Chosen(texts, S)
      BY <1>2 DEF Chosen
    <2>2. kept' \in Seq(Sources) /\ ToSet(kept') = ToSet(texts) \cap S
      BY <1>5, <2>1, SelectedFacts
    <2>3. IsInjective(texts) => IsInjective(Chosen(texts, S))
      BY <1>5, SelectedFacts
    <2>4. QED
      BY <1>5, <2>1, <2>2, <2>3
  <1>7. S \subseteq Matching /\ S \subseteq Sources /\ IsFiniteSet(S)
    <2>1. S \subseteq Candidates /\ Candidates \subseteq Sources
      BY DEF Candidates
    <2>2. IsFiniteSet(S)
      BY <2>1, ConstantsAssumption, FS_Subset
    <2>3. QED
      BY <2>1, <2>2, CandidatesMatch
  <1> DEFINE docs == kept'
             rows == Chosen(docs, Matching \ already)
             before == SetToSeq(already)
  <1>8. matched' = before \o rows
    BY <1>2 DEF NewMatches, Chosen
  <1>9. docs \in Seq(Sources) /\ IsInjective(docs) /\ ToSet(docs) = S
    BY <1>6
  <1> HIDE DEF docs
  <1>10. rows \in Seq(Sources) /\ ToSet(rows) = S \cap (Matching \ already)
    BY <1>9, SelectedFacts
  <1>11. IsInjective(rows)
    <2>1. IsInjective(docs) => IsInjective(rows)
      BY <1>9, SelectedFacts
    <2>2. QED
      BY <1>9, <2>1
  <1>12. already \subseteq S /\ IsFiniteSet(already) /\ (already = {} \/ already = S)
    BY <1>7, FS_EmptySet
  <1>13. before \in Seq(Sources) /\ IsInjective(before) /\ ToSet(before) = already
    <2>1. before \in Seq(already) /\ IsInjective(before) /\ ToSet(before) = already
      BY <1>12, SetToSeqFacts
    <2>2. QED
      BY <1>7, <1>12, <2>1
  <1> HIDE DEF rows, before
  <1>14. matched' \in Seq(Sources) /\ IsInjective(matched') /\ ToSet(matched') = S
    <2>1. ToSet(before) \cap ToSet(rows) = {}
      BY <1>10, <1>13
    <2>2. ToSet(before) \cup ToSet(rows) = S
      BY <1>7, <1>10, <1>12, <1>13
    <2>3. QED
      BY <1>8, <1>10, <1>11, <1>13, <2>1, <2>2, ConcatFacts
  <1>15. RequestTypes'
    BY <1>1 DEF RequestTypes
  <1>16. BatchTypes'
    BY <1>1, <1>6, <1>14 DEF BatchTypes, Phase
  <1>17. Stages'
    BY <1>1, <1>6, <1>14 DEF Stages, BatchIsSound, KeptAreMatched
  <1>18. QED
    BY <1>15, <1>16, <1>17

-----------------------------------------------------------------------------
(* Data holds throughout.                                                  *)
LEMMA DataInvariant == Spec => []Data
  <1>1. Init => Data
    <2> SUFFICES ASSUME Init PROVE Data
      OBVIOUS
    <2>1. <<>> \in Seq(Names) /\ <<>> \in Seq(Posts) /\ <<>> \in Seq(Sources) /\ DOMAIN <<>> = {}
          /\ <<>> \in Seq([comment : Comments, post : Posts]) /\ IsInjective(<<>>)
      BY EmptySequence
    <2>2. RequestTypes
      BY <2>1 DEF Init, RequestTypes
    <2>3. BatchTypes
      BY <2>1 DEF Init, BatchTypes, Phase
    <2>4. Stages
      BY DEF Init, Stages, BatchIsSound, KeptAreMatched
    <2>5. QED
      BY <2>2, <2>3, <2>4 DEF Data
  <1>2. IInv /\ Data /\ [Next]_vars => Data'
    <2> SUFFICES ASSUME IInv, Data, [Next]_vars PROVE Data'
      OBVIOUS
    <2>1. CASE Begin
      BY <2>1, BeginKeepsData
    <2>2. CASE PostsCollected
      BY <2>2, PostsKeepData
    <2>3. CASE CommentsCollected
      BY <2>3, CommentsKeepData
    <2>4. CASE CollectRaises
      BY <2>4, RaisesKeepsData
    <2>5. CASE Close
      BY <2>5, CloseKeepsData DEF IInv
    <2>6. CASE Keep
      BY <2>6, KeepKeepsData
    <2>7. ASSUME NEW i \in DOMAIN task, TaskStep(i) PROVE Data'
      BY <2>7, TaskKeepsData
    <2>8. CASE UNCHANGED vars
      BY <2>8 DEF vars, Data, RequestTypes, BatchTypes, Stages, About, Answered, BatchIsSound,
                  KeptAreMatched
    <2>9. QED
      BY <2>1, <2>2, <2>3, <2>4, <2>5, <2>6, <2>7, <2>8 DEF Next, CollectStep
  <1>3. QED
    BY <1>1, <1>2, Invariant, PTL DEF Spec

(* The variables have their types and the free slots are between none and  *)
(* all of them (ArcticShiftCollector).                                     *)
THEOREM TypeCorrect == Spec => []TypeOK
  <1>1. IInv /\ Data => TypeOK
    <2> SUFFICES ASSUME IInv, Data PROVE TypeOK
      OBVIOUS
    <2>1. BatchTypes /\ RequestTypes
      BY DEF Data
    <2>2. free \in 0..Concurrency
      <3>1. free \in Nat /\ Cardinality(Held) \in Nat /\ free + Cardinality(Held) <= Concurrency
        BY FS_CardinalityType DEF IInv, Slots
      <3>2. QED
        BY <3>1, ConstantsAssumption
    <2>3. /\ ToSet(names) \subseteq Names /\ ToSet(posts) \subseteq Posts
          /\ ToSet(comments) \subseteq [comment : Comments, post : Posts]
          /\ ToSet(kept) \subseteq Sources /\ ToSet(matched) \subseteq Sources
      BY <2>1, Elements DEF BatchTypes
    <2>4. QED
      BY <2>1, <2>2, <2>3 DEF BatchTypes, RequestTypes, TypeOK
  <1>2. QED
    BY <1>1, Invariant, DataInvariant, PTL

(* collect returns what the upstream answered with, each post and comment  *)
(* once and each comment under its post, however the answers came.         *)
THEOREM BatchIsComplete == Spec => []BatchIsSound
  <1>1. Data => BatchIsSound
    BY DEF Data, Stages
  <1>2. QED
    BY <1>1, DataInvariant, PTL

(* Every document of the run has one match row: the text of a document     *)
(* matches whatever its title or its body matched (match_and_persist_batch,*)
(* match_text).                                                            *)
THEOREM DocumentsMatch == Spec => []KeptAreMatched
  <1>1. Data => KeptAreMatched
    BY DEF Data, Stages
  <1>2. QED
    BY <1>1, DataInvariant, PTL

=============================================================================
