----------------------------- MODULE MCQueryApi -----------------------------
(* Instances of QueryApi for TLC. *)
EXTENDS QueryApi

(* Two spellings of one term; two scopes, one of them sent in two forms.   *)
OneTerm == [t \in RawTerms |-> "pizza"]
TwoScopes == [s \in RawScopes |-> IF s = "hu" THEN "food-hu" ELSE "food-en"]
=============================================================================
