--------------------------- MODULE MCRunLifecycle ---------------------------
(* Instances of RunLifecycle for TLC. *)
EXTENDS RunLifecycle, TLC

(* Runs, workers and documents are interchangeable; used by runs without   *)
(* liveness.                                                               *)
Symmetric == Permutations(Runs) \cup Permutations(Workers) \cup Permutations(Docs)
=============================================================================
