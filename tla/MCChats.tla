------------------------------ MODULE MCChats ------------------------------
(* Instances of Chats for TLC. *)
EXTENDS Chats, TLC

Symmetric == Permutations(Documents) \cup Permutations(Streams)
=============================================================================
