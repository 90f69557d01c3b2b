---------------------------- MODULE MCDashboard ----------------------------
(* An instance of DashboardSession for TLC. *)
EXTENDS DashboardSession

(* The browser has searched once before.                                   *)
OneSearch == {{[run |-> "r3", status |-> "completed", saved |-> 1]}}
=============================================================================
