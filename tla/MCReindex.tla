----------------------------- MODULE MCReindex -----------------------------
(* Reindex for TLC: the sets and the bounds are in the .cfg. *)
EXTENDS Reindex
=============================================================================
