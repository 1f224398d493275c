------------------------------ MODULE MCUpdate ------------------------------
(* Instances of Update for TLC. *)
EXTENDS Update, TLC

\* Releases 1 and 3 change the schema, release 2 does not.
MCRevision == 0 :> 1 @@ 1 :> 2 @@ 2 :> 2 @@ 3 :> 3
=============================================================================
