------------------------------- MODULE MCBackup ------------------------------
(* Two keys, two concurrent requests, two backup runs.                       *)
EXTENDS Backup
=============================================================================
