----------------------------- MODULE MCAccounts -----------------------------
(* Instances of Accounts for TLC. *)
EXTENDS Accounts, TLC

Symmetric ==
  Permutations(Users) \cup Permutations(Passwords) \cup Permutations(Sessions)
    \cup Permutations(Requests)

SomeChanges ==
  {[kind |-> "set", role |-> "member", status |-> "active"],
   [kind |-> "set", role |-> "member", status |-> "deleted"],
   [kind |-> "reset", role |-> "member", status |-> "pending_activation"]}
=============================================================================
