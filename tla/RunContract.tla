---------------------------- MODULE RunContract -----------------------------
(***************************************************************************)
(* What the readers of query_runs rely on: the cache that reuses completed *)
(* runs, the endpoints that serve charts and documents, and the dashboard  *)
(* that polls until a run is over.  A run goes pending -> running ->       *)
(* completed or failed, and may fall back to pending while it runs.  When  *)
(* no run is ever overtaken - no live worker loses its run to another one -*)
(* a terminal status is final and the results of a run are visible exactly *)
(* when it is completed.  A worker that has been overtaken, and a recovery *)
(* that acts on what it read earlier, write whatever the status is by then:*)
(* the status may leave completed or failed again, and all that is left is *)
(* that a completed run has its results and that results stay visible.     *)
(***************************************************************************)
CONSTANTS
    Runs,      \* the runs
    Overtaken  \* the runs whose row a worker may write after it has lost the run

VARIABLES status, visible

contractVars == <<status, visible>>

(* The runs whose row a worker, or a recovery, may write.                  *)
Writable(r) ==
    status[r] = "running" \/ (r \in Overtaken /\ status[r] # "absent")

Init ==
    /\ status = [r \in Runs |-> "absent"]
    /\ visible = {}

Submit(r) ==
    /\ status[r] = "absent"
    /\ status' = [status EXCEPT ![r] = "pending"]
    /\ UNCHANGED visible

Take(r) ==
    /\ status[r] = "pending" \/ (r \in Overtaken /\ Writable(r))
    /\ status' = [status EXCEPT ![r] = "running"]
    /\ UNCHANGED visible

(* Recovery sends any number of abandoned runs back at once.               *)
GiveBack(S) ==
    /\ S # {} /\ \A r \in S : Writable(r)
    /\ status' = [r \in Runs |-> IF r \in S THEN "pending" ELSE status[r]]
    /\ UNCHANGED visible

Publish(r) ==
    /\ Writable(r)
    /\ status' = [status EXCEPT ![r] = "completed"]
    /\ visible' = visible \cup {r}

GiveUp(r) ==
    /\ Writable(r)
    /\ status' = [status EXCEPT ![r] = "failed"]
    /\ UNCHANGED visible

Next ==
    \/ \E r \in Runs : Submit(r) \/ Take(r) \/ Publish(r) \/ GiveUp(r)
    \/ \E S \in SUBSET Runs : GiveBack(S)

Spec == Init /\ [][Next]_contractVars

=============================================================================
