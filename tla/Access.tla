------------------------------- MODULE Access -------------------------------
(***************************************************************************)
(* Who may read what: the library of folders and files, the grants on its  *)
(* nodes to members and teams, the boundaries that stop inheritance, and   *)
(* the table effective_document_access that is computed from them.         *)
(*                                                                         *)
(* Administrators change access in two transactions: a preview stores the  *)
(* operation and a digest of what it would change, and an apply takes it   *)
(* if the library is still as it was.  Everything else changes the same    *)
(* tables in one transaction in the meantime.  The stored functions take   *)
(* the library lock, the row of security_epochs, or a row lock on the      *)
(* account that the others' foreign keys need, so each is one step.        *)
(*                                                                         *)
(* A version is only ever compared with the current one; the model keeps   *)
(* whether it is equal.  Names, and with them renaming and the conflicts   *)
(* of siblings, are left out; administrators read everything and are not   *)
(* among the members.                                                      *)
(***************************************************************************)
EXTENDS Naturals, FiniteSets

CONSTANTS Folders, Files, Members, Teams, Root, Absent, Gone, None,
          Asked,       \* bound: the operations that are previewed
          MaxDepth,    \* levels of the library; 256 in the code
          MaxGrants,   \* bound: rows of access_grants
          MaxCreates   \* bound: rows of folder_create_grants

Nodes == Folders \cup Files
Principals == Members \cup Teams

\* The forms of an operation.
Operations ==
  [kind : {"set_grant"}, node : Nodes, principal : Principals, on : BOOLEAN]
    \cup [kind : {"set_create_children_grant"}, node : Folders, principal : Principals,
          on : BOOLEAN]
    \cup [kind : {"set_membership"}, team : Teams, member : Members, on : BOOLEAN]
    \cup [kind : {"set_boundary"}, node : Folders, on : BOOLEAN]
    \cup [kind : {"set_team_active"}, team : Teams, on : BOOLEAN]
    \cup [kind : {"move_node"}, node : Nodes, parent : Folders \cup {Root}]

ASSUME AccessAssumption ==
  /\ Folders \cap Files = {} /\ Members \cap Teams = {}
  /\ Root # Absent /\ Root # Gone /\ Absent # Gone /\ {Root, Absent, Gone} \cap Nodes = {}
  /\ None \notin Members
  /\ IsFiniteSet(Nodes)
  /\ Asked \subseteq Operations
  /\ MaxDepth \in Nat \ {0}
  /\ MaxGrants \in Nat /\ MaxCreates \in Nat

VARIABLES
  library,   \* library_nodes, access_grants, folder_create_grants, teams, team_members
  account,   \* users: the status of each member, and whether there is a password
  rows,      \* effective_document_access
  current,   \* the rows have the version of security_epochs
  preview    \* the row of acl_previews that an administrator works with, if any

vars == <<library, account, rows, current, preview>>

-----------------------------------------------------------------------------
\* A preview whose version is no longer the current one is never accepted again: the
\* model forgets it.
NoPreview == [open |-> FALSE]

Init ==
  /\ library = [parent |-> [n \in Nodes |-> Absent], boundary |-> {},
                uploader |-> [d \in Files |-> None], grants |-> {}, creates |-> {},
                membership |-> {}, active |-> Teams]
  /\ account = [m \in Members |-> [status |-> "pending_activation", password |-> FALSE]]
  /\ rows = {}
  /\ current = TRUE
  /\ preview = NoPreview

-----------------------------------------------------------------------------
(* What a library L gives to whom.                                         *)

Exists(L, n) == L.parent[n] \notin {Absent, Gone}

Children(L, n) == {c \in Nodes : L.parent[c] = n}

\* From a node of set the walk upwards, from folder to folder, does not leave it, except
\* through one of stops.
Closed(L, set, stops) ==
  \A x \in set \ stops : L.parent[x] \in Folders => L.parent[x] \in set

\* The nodes above n, itself included, that can be reached without passing one of stops:
\* the least set of rows that the recursive query adds nothing to.
Upwards(L, n, stops) ==
  LET closed == {S \in SUBSET (Folders \cup {n}) : n \in S /\ Closed(L, S, stops)}
  IN  {a \in Folders \cup {n} : \A S \in closed : a \in S}

\* The nodes whose grants count for n: a boundary's own, not those above it.
Ancestry(L, n) == Upwards(L, n, L.boundary)

Subtree(L, n) == {x \in Nodes : n \in Upwards(L, x, {})}

Depth(L, n) == IF n = Root THEN 0 ELSE Cardinality(Upwards(L, n, {}))

\* The principal of a grant is the member, or an active team of the member.
Names(L, principal, m) ==
  \/ principal = m
  \/ principal \in L.active /\ <<principal, m>> \in L.membership

Held(L, grants, n, m) ==
  LET counted == Ancestry(L, n)
  IN  \E g \in grants : Names(L, g[2], m) /\ g[1] \in counted

IsActive(m) == account[m].status = "active"

MayRead(L, m, d) ==
  IsActive(m) /\ Exists(L, d) /\ (L.uploader[d] = m \/ Held(L, L.grants, d, m))

MayCreate(L, m, f) ==
  IsActive(m) /\ Exists(L, f) /\ Held(L, L.grants, f, m) /\ Held(L, L.creates, f, m)

DocumentAccess(L) == {c \in Members \X Files : MayRead(L, c[1], c[2])}

CreateAccess(L) == {c \in Members \X Folders : MayCreate(L, c[1], c[2])}

-----------------------------------------------------------------------------
(* The questions the database answers for a member who is signed in.       *)

\* v4_can_read_document.
CanReadDocument(m, d) ==
  /\ IsActive(m) /\ Exists(library, d)
  /\ \/ library.uploader[d] = m
     \/ current /\ <<m, d>> \in rows

\* v4_can_read_folder.
CanReadFolder(m, f) ==
  IsActive(m) /\ Exists(library, f) /\ Held(library, library.grants, f, m)

\* v4_can_create_children.
CanCreateChildren(m, f) ==
  CanReadFolder(m, f) /\ Held(library, library.creates, f, m)

GrantWithin(m, n) ==
  \E g \in library.grants : g[1] \in Subtree(library, n) /\ Names(library, g[2], m)

RowWithin(m, n) ==
  current /\ \E d \in Files \cap Subtree(library, n) : <<m, d>> \in rows

\* v4_can_view_library_node.
CanView(m, n) ==
  /\ IsActive(m) /\ Exists(library, n)
  /\ \/ n \in Folders /\ CanReadFolder(m, n)
     \/ RowWithin(m, n)
     \/ GrantWithin(m, n)

-----------------------------------------------------------------------------
(* Rebuilding.                                                             *)

\* v4_rebuild_effective_document_access, after the other changes of its transaction.
\* The version grows, so that a preview made before is stale.
Rebuild ==
  /\ rows' = DocumentAccess(library)'
  /\ current' = TRUE
  /\ preview' = NoPreview

KeepRows == UNCHANGED <<rows, current, preview>>

-----------------------------------------------------------------------------
(* Changes with a preview.                                                 *)

With(set, element, on) == IF on THEN set \cup {element} ELSE set \ {element}

After(L, op) ==
  CASE op.kind = "set_grant" ->
         [L EXCEPT !.grants = With(@, <<op.node, op.principal>>, op.on)]
    [] op.kind = "set_create_children_grant" ->
         [L EXCEPT !.creates = With(@, <<op.node, op.principal>>, op.on)]
    [] op.kind = "set_membership" ->
         [L EXCEPT !.membership = With(@, <<op.team, op.member>>, op.on)]
    [] op.kind = "set_boundary" -> [L EXCEPT !.boundary = With(@, op.node, op.on)]
    [] op.kind = "set_team_active" -> [L EXCEPT !.active = With(@, op.team, op.on)]
    [] op.kind = "move_node" -> [L EXCEPT !.parent[op.node] = op.parent]

SymmetricDifference(S, T) == (S \ T) \cup (T \ S)

\* v4_acl_impact.
Impact(op) ==
  LET documents == SymmetricDifference(DocumentAccess(library), DocumentAccess(After(library, op)))
      folders == SymmetricDifference(CreateAccess(library), CreateAccess(After(library, op)))
  IN  [users |-> {c[1] : c \in documents \cup folders},
       nodes |-> {c[2] : c \in documents \cup folders},
       documents |-> {c[2] : c \in documents}]

\* Mutant: only the node itself is ruled out as the target of its move.
NotItself(op) == op.parent # op.node

\* A node cannot be moved into its own subtree.
Acyclic(op) == op.parent \notin Subtree(library, op.node)

\* What v4_acl_impact refuses.
Previewable(op) ==
  /\ op.kind = "move_node" => Acyclic(op)
  /\ op.kind = "set_create_children_grant" => Exists(library, op.node)

\* The levels of the subtree that moves, and of the place it moves to.
FitsBelow(n, p) ==
  LET height == {Depth(library, x) - Depth(library, n) : x \in Subtree(library, n)}
  IN  \A h \in height : Depth(library, p) + 1 + h <= MaxDepth

\* What the statements of the apply refuse; a grant that is taken back need not exist.
Applicable(op) ==
  /\ op.kind \in {"set_boundary", "move_node"} => Exists(library, op.node)
  /\ (op.kind = "set_grant" /\ op.on) => Exists(library, op.node)
  /\ op.kind = "move_node" => /\ op.parent # Root => Exists(library, op.parent)
                              /\ Acyclic(op)
                              /\ FitsBelow(op.node, op.parent)

\* v4_admin_preview_acl.
PreviewAcl(op) ==
  /\ ~preview.open
  /\ Previewable(op)
  /\ After(library, op) # library  \* bound: operations that change nothing are left out
  /\ Cardinality(After(library, op).grants) <= MaxGrants
  /\ Cardinality(After(library, op).creates) <= MaxCreates
  /\ preview' = [open |-> TRUE, op |-> op, impact |-> Impact(op)]
  /\ UNCHANGED <<library, account, rows, current>>

\* Mutant: the version alone decides whether a preview still holds.
ConfirmedByVersion == preview.open

\* Version and digest are as they were when the administrator saw the impact.
Confirmed ==
  /\ preview.open
  /\ Previewable(preview.op)
  /\ Impact(preview.op) = preview.impact

\* v4_admin_apply_acl.  The grant to create folders only bumps the version.
ApplyAcl ==
  /\ Confirmed
  /\ Applicable(preview.op)
  /\ library' = After(library, preview.op)
  /\ UNCHANGED account
  /\ IF preview.op.kind = "set_create_children_grant"
       THEN current' = FALSE /\ UNCHANGED rows
       ELSE rows' = DocumentAccess(library)' /\ current' = TRUE
  /\ preview' = NoPreview

\* It expires after five minutes, or is refused when it is applied.
PreviewLapses ==
  /\ preview.open
  /\ preview' = NoPreview
  /\ UNCHANGED <<library, account, rows, current>>

-----------------------------------------------------------------------------
(* The library.  The actor is a member, or None for an administrator.      *)

MyTeams(m) == {t \in library.active : <<t, m>> \in library.membership}

Placed(n, p) == [library EXCEPT !.parent[n] = p]

\* v4_create_folder.
CreateFolder(actor, f, p) ==
  /\ library.parent[f] = Absent
  /\ IF actor = None
       THEN p # Root => Exists(library, p)
       ELSE p # Root /\ CanCreateChildren(actor, p)
  /\ Depth(library, p) < MaxDepth
  /\ library' = Placed(f, p)
  /\ KeepRows /\ UNCHANGED account

\* The commit of an upload: the uploader and the chosen teams get a grant on the file.
Upload(actor, d, p, teams) ==
  /\ library.parent[d] = Absent
  /\ IF actor = None
       THEN (p # Root => Exists(library, p)) /\ teams = {}
       ELSE /\ p # Root /\ CanReadFolder(actor, p)
            /\ teams \subseteq MyTeams(actor)
            /\ MyTeams(actor) # {} => teams # {}
  /\ library' = [Placed(d, p) EXCEPT
                   !.uploader[d] = actor,
                   !.grants = @ \cup ({d} \X (teams \cup ({actor} \ {None})))]
  /\ Cardinality(library'.grants) <= MaxGrants
  /\ UNCHANGED account
  /\ Rebuild

Removed(n) ==
  [library EXCEPT !.parent[n] = Gone, !.boundary = @ \ {n},
                  !.grants = {g \in @ : g[1] # n}, !.creates = {g \in @ : g[1] # n}]

\* v4_admin_delete_document, by an administrator or the uploader.
DeleteDocument(actor, d) ==
  /\ Exists(library, d)
  /\ actor # None => IsActive(actor) /\ library.uploader[d] = actor
  /\ library' = [Removed(d) EXCEPT !.uploader[d] = None]
  /\ UNCHANGED account
  /\ Rebuild

\* v4_admin_delete_folder.
DeleteFolder(f) ==
  /\ Exists(library, f)
  /\ Children(library, f) = {}
  /\ library' = Removed(f)
  /\ KeepRows /\ UNCHANGED account

-----------------------------------------------------------------------------
(* Accounts, as far as they decide who reads.                              *)

\* Mutant: the rows are computed before the account changes.
StatusSetLate(m, status) ==
  /\ account' = [account EXCEPT ![m].status = status]
  /\ rows' = DocumentAccess(library)
  /\ current' = TRUE
  /\ preview' = NoPreview

StatusSet(m, status) == account' = [account EXCEPT ![m].status = status] /\ Rebuild

\* v4_admin_set_user; deleting an account is disabling it for good.
SetUser(m, status) ==
  /\ account[m].status # status
  /\ status = "active" => account[m].password
  /\ library' = IF status = "active" THEN library
                ELSE [library EXCEPT !.grants = {g \in @ : g[2] # m},
                                     !.creates = {g \in @ : g[2] # m},
                                     !.membership = {e \in @ : e[2] # m}]
  /\ StatusSet(m, status)

\* v4_admin_reset_user.
ResetUser(m) ==
  /\ account[m] # [status |-> "pending_activation", password |-> FALSE]
  /\ account' = [account EXCEPT ![m] = [status |-> "pending_activation", password |-> FALSE]]
  /\ KeepRows /\ UNCHANGED library

\* v4_consume_activation.
Activate(m) ==
  /\ account[m].status = "pending_activation"
  /\ account' = [account EXCEPT ![m] = [status |-> "active", password |-> TRUE]]
  /\ KeepRows /\ UNCHANGED library

-----------------------------------------------------------------------------
Actors == Members \cup {None}

LibraryRoutes ==
  \/ \E actor \in Actors, f \in Folders, p \in Folders \cup {Root} : CreateFolder(actor, f, p)
  \/ \E f \in Folders : DeleteFolder(f)

DocumentRoutes ==
  \/ \E actor \in Actors, d \in Files, p \in Folders \cup {Root}, teams \in SUBSET Teams :
       Upload(actor, d, p, teams)
  \/ \E actor \in Actors, d \in Files : DeleteDocument(actor, d)

AclRoutes == ApplyAcl \/ PreviewLapses \/ \E op \in Asked : PreviewAcl(op)

AccountRoutes ==
  \E m \in Members :
    Activate(m) \/ ResetUser(m) \/ \E status \in {"active", "disabled"} : SetUser(m, status)

Next == LibraryRoutes \/ DocumentRoutes \/ AclRoutes \/ AccountRoutes

Spec == Init /\ [][Next]_vars

-----------------------------------------------------------------------------
(* Properties.                                                             *)

\* A grant on a counts for d when a is above d and no boundary lies below a on the way.
Inherits(d, a) ==
  /\ a \in Upwards(library, d, {})
  /\ \A x \in Upwards(library, d, {}) \ {a} :
       a \in Upwards(library, x, {}) => x \notin library.boundary

\* A member reads a document only as its uploader, or by a grant that counts for it now,
\* to the member or to an active team of the member: the rows computed earlier never
\* give more, whatever has changed since (v4_can_read_document).
NothingBeyondGrants ==
  \A m \in Members, d \in Files :
    CanReadDocument(m, d) =>
      \/ library.uploader[d] = m
      \/ \E g \in library.grants : Inherits(d, g[1]) /\ Names(library, g[2], m)

\* When an administrator applies a preview, the documents whose readers change by grants
\* and boundaries, and the members concerned, are those the administrator was shown;
\* also when accounts, folders or files have changed since (v4_admin_apply_acl).
PreviewHonoured ==
  [][library' # library /\ ApplyAcl =>
       LET documents == SymmetricDifference(DocumentAccess(library), DocumentAccess(library)')
           folders == SymmetricDifference(CreateAccess(library), CreateAccess(library)')
       IN  /\ preview.impact.documents = {c[2] : c \in documents}
           /\ preview.impact.users = {c[1] : c \in documents \cup folders}]_vars

\* Every node hangs below the root, on folders that exist: moves, creations and
\* deletions that were checked earlier never break the tree.
TreeSound ==
  \A n \in Nodes : Exists(library, n) =>
    LET above == Upwards(library, n, {})
    IN  /\ \E a \in above : library.parent[a] = Root
        /\ \A a \in above : Exists(library, a)

=============================================================================
