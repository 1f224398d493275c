------------------------------ MODULE MCAccess ------------------------------
(* Instances of Access for TLC. *)
EXTENDS Access, TLC

\* Folders are granted to the team; what an upload grants on its file may be taken back;
\* only members may create folders.
SomeOperations ==
  {op \in Operations :
     /\ op.kind = "set_grant" => IF op.node \in Folders THEN op.principal \in Teams
                                                        ELSE ~op.on
     /\ op.kind = "set_create_children_grant" => op.principal \in Members}

Symmetric == Permutations(Folders)
=============================================================================
