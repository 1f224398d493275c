------------------------------- MODULE MCOcr --------------------------------
(***************************************************************************)
(* Two batches, each tried twice, on a service with one slot and two       *)
(* subprocesses per run.                                                   *)
(***************************************************************************)
EXTENDS Ocr
=============================================================================
