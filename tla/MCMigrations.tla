---------------------------- MODULE MCMigrations ----------------------------
(* Instances of Migrations for TLC. *)
EXTENDS Migrations

CONSTANTS api, worker, worker2

(* docker-compose.yml: one container each, worker started after the API.   *)
OwnHosts == [p \in Procs |-> p]
ComposeOrder == [p \in Procs |-> IF p = api THEN {} ELSE {api}]

(* No order, every process in one container or each in its own.            *)
OneHost == [p \in Procs |-> api]
NoOrder == [p \in Procs |-> {}]
=============================================================================
