---------------------------- MODULE MCIngestion ----------------------------
(* Instances of Ingestion for TLC. *)
EXTENDS Ingestion

CONSTANTS old, new, o1, o2

\* Every document is uploaded with the old parser; the first operation rebuilds
\* to the new one and the second one back.
UploadOld == [d \in Documents |-> old]
TargetSwap == [o \in Operations |-> IF o = o2 THEN old ELSE new]
=============================================================================
