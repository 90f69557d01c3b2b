---------------------------- MODULE MCCollector ----------------------------
(* An instance of Collector for TLC. *)
EXTENDS Collector

(* "r/Food", "food" and " " typed, and another subreddit.                  *)
Normalized == [r \in RawNames |->
    IF r = "cook" THEN "cook" ELSE IF r = "blank" THEN "none" ELSE "food"]

OfSubreddit == [p \in Posts |-> IF p = "p3" THEN "cook" ELSE "food"]
OfPost == [c \in Comments |-> IF c = "c1" THEN "p2" ELSE "p3"]

(* Letters a, b and e, the accented form of e and the upper case of a; the *)
(* term is "a be".                                                         *)
SimpleForm == [s \in Symbols |-> IF s = "A" THEN "a" ELSE IF s = "E" THEN "e" ELSE s]
TheTerm == <<"a", " ", "b", "e">>

(* p1 has the phrase in the title in another form; p2 its words in another *)
(* order in the body; p3 one word in the title and the other in the body.  *)
Titles == [p \in Posts |->
    IF p = "p1" THEN <<" ", "A", " ", " ", "b", "E">>
    ELSE IF p = "p2" THEN <<>> ELSE <<"a">>]
Bodies == [x \in Sources |->
    IF x = "p1" THEN <<"b">>
    ELSE IF x = "p2" THEN <<"b", "e", "-", "a", " ">>
    ELSE IF x = "p3" THEN <<"b", "e">> ELSE IF x = "c2" THEN <<"b", "e">> ELSE <<"a", " ", "b", "e", "b">>]
=============================================================================
