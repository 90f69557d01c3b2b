---------------------------- MODULE MCCollection ----------------------------
(* Instances of CollectionPersistence for TLC: two posts of different      *)
(* languages, and a comment on the first.                                  *)
EXTENDS CollectionPersistence, TLC

InSubreddit == [x \in Sources |-> "s1"]
OnPost == [c \in Comments |-> "p1"]
Detected == [x \in Sources |-> IF x = "p1" THEN "hu" ELSE "en"]
=============================================================================
