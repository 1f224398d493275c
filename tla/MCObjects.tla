----------------------------- MODULE MCObjects -----------------------------
(* An instance of Objects for TLC: uploads of one content, both by one       *)
(* sender.                                                                  *)
EXTENDS Objects

CONSTANTS k1, u1, u2

OneKey == [u \in Uploads |-> k1]
Senders == [u \in Uploads |-> IF u = u2 THEN u1 ELSE u]
=============================================================================
