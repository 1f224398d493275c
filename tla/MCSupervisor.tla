---------------------------- MODULE MCSupervisor ----------------------------
(***************************************************************************)
(* A database, a worker and Caddy that both need it, and two instances of  *)
(* the supervisor.                                                         *)
(***************************************************************************)
EXTENDS Supervisor, TLC

CONSTANTS database, worker, caddy

MCDependencies == [s \in Services |-> IF s = database THEN {} ELSE {database}]
MCNameRank == (database :> 2) @@ (worker :> 3) @@ (caddy :> 1)
MCBackoff == <<1>>
=============================================================================
