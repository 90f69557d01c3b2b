----------------------------- MODULE Selections -----------------------------
(***************************************************************************)
(* Sorting a set and selecting from a sequence, by ranks: an element comes *)
(* n-th when n - 1 others come before it.  The proofs need these: the      *)
(* provers have no definition of SelectSeq and SortSeq, which TLC has in   *)
(* Java (SelectionsProofs).                                                *)
(***************************************************************************)
EXTENDS SequencesExt, Integers

(* The pairs of R say which of two elements of S comes first.              *)
Rank(S, R, x) == Cardinality({y \in S : <<y, x>> \in R})
Sorted(S, R) ==
    LET at == [n \in 1..Cardinality(S) |-> CHOOSE x \in S : Rank(S, R, x) = n - 1]
    IN  SubSeq(at, 1, Cardinality(S))
Ascending[P \in SUBSET Int] == Sorted(P, {p \in P \X P : p[1] < p[2]})

(* The elements of s at the places P, those that pass a test, and each     *)
(* element where it occurs first.                                          *)
Picked(s, P) == LET at == Ascending[P] IN [n \in DOMAIN at |-> s[at[n]]]
Select(s, Test(_)) == Picked(s, {i \in DOMAIN s : Test(s[i])})
Firsts(s) == {i \in DOMAIN s : \A j \in DOMAIN s : j < i => s[j] # s[i]}
Distinct(s) == Picked(s, Firsts(s))

=============================================================================
