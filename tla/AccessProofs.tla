---------------------------- MODULE AccessProofs ----------------------------
(***************************************************************************)
(* Who reads what, for any library, members and teams: the walk upwards    *)
(* that the queries make, the tree that the routes keep, and the computed  *)
(* rows that never give more than the grants that count now.               *)
(***************************************************************************)
EXTENDS Access, TLAPS

Libraries ==
  [parent : [Nodes -> Folders \cup {Root, Absent, Gone}], boundary : SUBSET Folders,
   uploader : [Files -> Members \cup {None}], grants : SUBSET (Nodes \X Principals),
   creates : SUBSET (Folders \X Principals), membership : SUBSET (Teams \X Members),
   active : SUBSET Teams]

Accounts ==
  [status : {"pending_activation", "active", "disabled"}, password : BOOLEAN]

Types ==
  /\ library \in Libraries
  /\ account \in [Members -> Accounts]
  /\ rows \subseteq Members \X Files
  /\ preview.open => preview.op \in Operations

Above(L, n) == Upwards(L, n, {})

\* TreeSound, of any library.
Rooted(L) ==
  \A n \in Nodes : Exists(L, n) =>
    /\ \E a \in Above(L, n) : L.parent[a] = Root
    /\ \A a \in Above(L, n) : Exists(L, a)

\* A computed row is backed by the uploader or by a grant, whether the account is active
\* or not: activation and reset change no rows.
Backed(L, m, d) == L.uploader[d] = m \/ Held(L, L.grants, d, m)

RowsBacked ==
  current => \A m \in Members, d \in Files :
               <<m, d>> \in rows /\ Exists(library, d) => Backed(library, m, d)

Inv == Types /\ Rooted(library) /\ RowsBacked

-----------------------------------------------------------------------------
(* The walk upwards is the least set closed under taking parents.          *)

LEMMA UpSelf ==
  ASSUME NEW L, NEW n, NEW stops
  PROVE  n \in Upwards(L, n, stops)
BY DEF Upwards

LEMMA UpStep ==
  ASSUME NEW L, NEW n, NEW stops, NEW a \in Upwards(L, n, stops),
         a \notin stops, L.parent[a] \in Folders
  PROVE  L.parent[a] \in Upwards(L, n, stops)
BY DEF Upwards, Closed

\* The induction of this module: what holds of n and is handed on to parents holds of
\* everything above n.
LEMMA UpLeast ==
  ASSUME NEW L, NEW n, NEW stops, NEW S, n \in S,
         \A x \in Upwards(L, n, stops) :
           x \in S /\ x \notin stops /\ L.parent[x] \in Folders => L.parent[x] \in S
  PROVE  Upwards(L, n, stops) \subseteq S
<1> DEFINE T == S \cap Upwards(L, n, stops)
<1>1. T \in SUBSET (Folders \cup {n})
  BY DEF Upwards
<1>2. n \in T
  BY UpSelf
<1>3. Closed(L, T, stops)
  BY UpStep DEF Closed
<1> HIDE DEF T
<1>4. Upwards(L, n, stops) \subseteq T
  BY <1>1, <1>2, <1>3 DEF Upwards
<1> QED
  BY <1>4 DEF T

LEMMA UpNodes ==
  ASSUME NEW L, NEW n \in Nodes, NEW stops
  PROVE  Upwards(L, n, stops) \subseteq Nodes
BY DEF Upwards, Nodes

\* Fewer stops, more above.
LEMMA UpStops ==
  ASSUME NEW L, NEW n, NEW stops
  PROVE  Upwards(L, n, stops) \subseteq Above(L, n)
<1> DEFINE S == Above(L, n)
<1>1. n \in S
  BY UpSelf DEF Above
<1>2. \A x \in Upwards(L, n, stops) :
        x \in S /\ x \notin stops /\ L.parent[x] \in Folders => L.parent[x] \in S
  BY UpStep DEF Above
<1> HIDE DEF S
<1>3. Upwards(L, n, stops) \subseteq S
  BY <1>1, <1>2, UpLeast
<1> QED
  BY <1>3 DEF S

LEMMA AboveTransitive ==
  ASSUME NEW L, NEW n, NEW a \in Above(L, n)
  PROVE  Above(L, a) \subseteq Above(L, n)
<1> DEFINE S == Above(L, n)
<1>1. \A x \in Upwards(L, a, {}) :
        x \in S /\ x \notin {} /\ L.parent[x] \in Folders => L.parent[x] \in S
  BY UpStep DEF Above
<1>2. a \in S
  OBVIOUS
<1> HIDE DEF S
<1>3. Upwards(L, a, {}) \subseteq S
  BY <1>1, <1>2, UpLeast
<1> QED
  BY <1>3 DEF S, Above

\* Whoever is above n and not n itself is above its parent.
LEMMA AboveParent ==
  ASSUME NEW L, NEW n, NEW a \in Above(L, n), a # n
  PROVE  L.parent[n] \in Folders /\ a \in Above(L, L.parent[n])
<1> DEFINE S == {n} \cup {x \in Above(L, n) : L.parent[n] \in Folders
                                              /\ x \in Above(L, L.parent[n])}
<1>1. n \in S
  OBVIOUS
<1>2. ASSUME NEW x \in Upwards(L, n, {}), x \in S, L.parent[x] \in Folders
      PROVE  L.parent[x] \in S
  <2>1. L.parent[x] \in Above(L, n)
    BY <1>2, UpStep DEF Above
  <2>2. CASE x = n
    BY <1>2, <2>1, <2>2, UpSelf DEF Above
  <2>3. CASE x # n
    BY <1>2, <2>1, <2>3, UpStep DEF Above
  <2> QED
    BY <2>2, <2>3
<1> HIDE DEF S
<1>3. Upwards(L, n, {}) \subseteq S
  BY <1>1, <1>2, UpLeast
<1> QED
  BY <1>3 DEF S, Above

\* Two nodes above a third are one above the other.
LEMMA AboveLinear ==
  ASSUME NEW L, NEW n, NEW a \in Above(L, n), NEW b \in Above(L, n)
  PROVE  a \in Above(L, b) \/ b \in Above(L, a)
<1> DEFINE S == {x \in Above(L, n) : x \in Above(L, b) \/ b \in Above(L, x)}
<1>1. n \in S
  BY UpSelf DEF Above
<1>2. ASSUME NEW x \in Upwards(L, n, {}), x \in S, L.parent[x] \in Folders
      PROVE  L.parent[x] \in S
  <2>1. L.parent[x] \in Above(L, n)
    BY <1>2, UpStep DEF Above
  <2>2. CASE x \in Above(L, b)
    BY <1>2, <2>1, <2>2, UpStep DEF Above
  <2>3. CASE x \notin Above(L, b)
    <3>1. b \in Above(L, x) /\ b # x
      BY <1>2, <2>3, UpSelf DEF Above
    <3> QED
      BY <2>1, <3>1, AboveParent
  <2> QED
    BY <2>2, <2>3
<1> HIDE DEF S
<1>3. Upwards(L, n, {}) \subseteq S
  BY <1>1, <1>2, UpLeast
<1> QED
  BY <1>3 DEF S, Above

\* A change of parents elsewhere does not change the walk.
LEMMA UpSame ==
  ASSUME NEW L, NEW M, NEW n, NEW stops, NEW marks,
         \A x \in Upwards(L, n, stops) :
           M.parent[x] = L.parent[x] /\ (x \in marks <=> x \in stops)
  PROVE  Upwards(M, n, marks) = Upwards(L, n, stops)
<1> DEFINE U == Upwards(L, n, stops)
           V == Upwards(M, n, marks)
<1>1. V \subseteq U
  <2>1. n \in U
    BY UpSelf
  <2>2. \A x \in Upwards(M, n, marks) :
          x \in U /\ x \notin marks /\ M.parent[x] \in Folders => M.parent[x] \in U
    BY UpStep
  <2> HIDE DEF U
  <2> QED
    BY <2>1, <2>2, UpLeast
<1>2. U \subseteq V
  <2>1. n \in V
    BY UpSelf
  <2>2. \A x \in Upwards(L, n, stops) :
          x \in V /\ x \notin stops /\ L.parent[x] \in Folders => L.parent[x] \in V
    BY UpStep
  <2> HIDE DEF V
  <2> QED
    BY <2>1, <2>2, UpLeast
<1> QED
  BY <1>1, <1>2

LEMMA AboveSame ==
  ASSUME NEW L, NEW M, NEW n, \A x \in Above(L, n) : M.parent[x] = L.parent[x]
  PROVE  Above(M, n) = Above(L, n)
BY UpSame DEF Above

-----------------------------------------------------------------------------
(* The tree.                                                               *)

LEMMA Markers ==
  /\ Root \notin Nodes /\ Absent \notin Nodes /\ Gone \notin Nodes
  /\ Root \notin Folders /\ Absent \notin Folders /\ Gone \notin Folders
  /\ Root # Absent /\ Root # Gone /\ Absent # Gone
  /\ Folders \subseteq Nodes /\ Files \subseteq Nodes /\ Folders \cap Files = {}
  /\ None \notin Members
BY AccessAssumption DEF Nodes

\* No node is above another that is above it: the walk would never reach the root.
LEMMA NoCycle ==
  ASSUME NEW L, Rooted(L), NEW x \in Nodes, Exists(L, x), NEW y \in Above(L, x),
         x \in Above(L, y)
  PROVE  x = y
<1> SUFFICES ASSUME x # y
             PROVE  FALSE
  OBVIOUS
<1> DEFINE S == {z \in Above(L, x) : x \in Above(L, z)}
<1>1. x \in S
  BY UpSelf DEF Above
<1>2. ASSUME NEW z \in Upwards(L, x, {}), z \in S, L.parent[z] \in Folders
      PROVE  L.parent[z] \in S
  <2>1. L.parent[z] \in Above(L, x)
    BY <1>2, UpStep DEF Above
  <2>2. CASE z # x
    BY <1>2, <2>1, <2>2, AboveParent
  <2>3. CASE z = x
    <3>1. y \in Above(L, L.parent[x])
      BY AboveParent
    <3>2. x \in Above(L, L.parent[x])
      BY <3>1, AboveTransitive
    <3> QED
      BY <2>1, <2>3, <3>2
  <2> QED
    BY <2>2, <2>3
<1> HIDE DEF S
<1>3. Upwards(L, x, {}) \subseteq S
  BY <1>1, <1>2, UpLeast
<1>4. PICK a \in Above(L, x) : L.parent[a] = Root
  BY DEF Rooted
<1>5. x \in Above(L, a)
  BY <1>3, <1>4 DEF S, Above
<1>6. x = a
  BY <1>4, <1>5, AboveParent, Markers
<1> QED
  BY <1>4, <1>6, AboveParent, Markers

\* What the query counts is what is inherited: nothing between the file and the node of
\* the grant is a boundary.
LEMMA CountedInherits ==
  ASSUME Rooted(library), NEW d \in Nodes, Exists(library, d),
         NEW a \in Ancestry(library, d)
  PROVE  Inherits(d, a)
<1> DEFINE Free(b) == \A x \in Above(library, d) \ {b} :
                        b \in Above(library, x) => x \notin library.boundary
           S == {b \in Above(library, d) : Free(b)}
<1>1. d \in S
  <2>1. d \in Above(library, d)
    BY UpSelf DEF Above
  <2>2. \A x \in Above(library, d) : d \in Above(library, x) => x = d
    BY NoCycle
  <2> QED
    BY <2>1, <2>2
<1>2. ASSUME NEW b \in Upwards(library, d, library.boundary), b \in S,
             b \notin library.boundary, library.parent[b] \in Folders
      PROVE  library.parent[b] \in S
  <2> DEFINE p == library.parent[b]
  <2>1. p \in Above(library, d) /\ b \in Above(library, d)
    BY <1>2, UpStep DEF Above
  <2>2. ASSUME NEW x \in Above(library, d), x # p, p \in Above(library, x)
        PROVE  x \notin library.boundary
    <3>1. CASE x = b
      BY <1>2, <3>1
    <3>2. CASE x # b /\ b \in Above(library, x)
      BY <1>2, <2>2, <3>2
    <3>3. CASE x # b /\ x \in Above(library, b)
      <4>1. x \in Above(library, p)
        BY <3>3, AboveParent
      <4>2. p \in Nodes /\ Exists(library, p)
        BY <1>2, <2>1, Markers DEF Rooted
      <4> QED
        BY <2>2, <4>1, <4>2, NoCycle
    <3> QED
      BY <2>1, <3>1, <3>2, <3>3, AboveLinear
  <2> QED
    BY <2>1, <2>2
<1> HIDE DEF S
<1>3. Upwards(library, d, library.boundary) \subseteq S
  BY <1>1, <1>2, UpLeast
<1>4. a \in S
  BY <1>3 DEF Ancestry
<1> QED
  BY <1>4 DEF S, Inherits, Above

\* A node is hung below a folder that exists and is not below it.
LEMMA Placing ==
  ASSUME NEW L, L.parent \in [Nodes -> Folders \cup {Root, Absent, Gone}], Rooted(L),
         NEW n \in Nodes, NEW p \in Folders \cup {Root},
         p # Root => Exists(L, p) /\ n \notin Above(L, p),
         NEW M, M.parent = [L.parent EXCEPT ![n] = p]
  PROVE  Rooted(M)
<1>0. /\ M.parent[n] = p
      /\ \A x \in Nodes \ {n} : M.parent[x] = L.parent[x]
      /\ Exists(M, n)
      /\ \A x \in Nodes : Exists(L, x) => Exists(M, x)
      /\ \A x \in Nodes \ {n} : Exists(M, x) => Exists(L, x)
  BY Markers DEF Exists
<1>1. p # Root => /\ p \in Folders /\ p \in Nodes
                  /\ Above(M, p) = Above(L, p)
  <2> SUFFICES ASSUME p # Root
               PROVE  p \in Folders /\ p \in Nodes /\ Above(M, p) = Above(L, p)
    OBVIOUS
  <2>1. p \in Folders /\ p \in Nodes
    BY Markers
  <2>2. \A x \in Above(L, p) : M.parent[x] = L.parent[x]
    BY <1>0, <2>1, UpNodes DEF Above
  <2>3. Above(M, p) = Above(L, p)
    BY <2>2, AboveSame
  <2> QED
    BY <2>1, <2>3
<1>2. ASSUME NEW x \in Nodes, n \notin Above(L, x), Exists(L, x)
      PROVE  /\ \E a \in Above(M, x) : M.parent[a] = Root
             /\ \A a \in Above(M, x) : Exists(M, a)
  <2>1. \A y \in Upwards(L, x, {}) : y \in Nodes /\ M.parent[y] = L.parent[y]
    BY <1>0, <1>2, UpNodes DEF Above
  <2>2. Above(M, x) = Above(L, x)
    BY <2>1, UpSame DEF Above
  <2> QED
    BY <1>0, <1>2, <2>1, <2>2 DEF Rooted, Above
<1>3. ASSUME NEW x \in Nodes, n \in Above(M, x)
      PROVE  \E a \in Above(M, x) : M.parent[a] = Root
  <2>1. CASE p = Root
    BY <1>0, <1>3, <2>1
  <2>2. CASE p # Root
    <3>1. p \in Above(M, x)
      BY <1>0, <1>1, <1>3, <2>2, UpStep DEF Above
    <3>2. PICK a \in Above(L, p) : L.parent[a] = Root
      BY <1>1, <2>2 DEF Rooted
    <3>3. a \in Nodes /\ a # n
      BY <1>1, <2>2, <3>2, UpNodes DEF Above
    <3>4. a \in Above(M, x)
      BY <1>1, <2>2, <3>1, <3>2, AboveTransitive
    <3> QED
      BY <1>0, <3>2, <3>3, <3>4
  <2> QED
    BY <2>1, <2>2
<1>4. ASSUME NEW x \in Nodes, NEW below, below \subseteq Nodes, x \in below,
             n \in below, \A a \in below : Exists(M, a),
             \A a \in below : a # n /\ M.parent[a] \in Folders => M.parent[a] \in below
      PROVE  \A a \in Above(M, x) : Exists(M, a)
  <2> DEFINE S == below \cup (IF p = Root THEN {} ELSE Above(M, p))
  <2>1. x \in S
    BY <1>4
  <2>2. ASSUME NEW y \in Upwards(M, x, {}), y \in S, M.parent[y] \in Folders
        PROVE  M.parent[y] \in S
    <3>1. CASE p # Root /\ y \in Above(M, p)
      BY <2>2, <3>1, UpStep DEF Above
    <3>2. CASE y \in below /\ y # n
      BY <1>4, <2>2, <3>2
    <3>3. CASE y = n
      BY <1>0, <2>2, <3>3, UpSelf, Markers DEF Above
    <3> QED
      BY <2>2, <3>1, <3>2, <3>3
  <2>3. ASSUME p # Root
        PROVE  \A a \in Above(M, p) : Exists(M, a)
    BY <1>0, <1>1, <2>3, UpNodes DEF Rooted, Above
  <2>4. \A a \in S : Exists(M, a)
    BY <1>4, <2>3
  <2> HIDE DEF S
  <2>5. Upwards(M, x, {}) \subseteq S
    BY <2>1, <2>2, UpLeast
  <2> QED
    BY <2>4, <2>5 DEF Above
<1>5. /\ \E a \in Above(M, n) : M.parent[a] = Root
      /\ \A a \in Above(M, n) : Exists(M, a)
  <2>1. n \in Above(M, n)
    BY UpSelf DEF Above
  <2>2. \A a \in Above(M, n) : Exists(M, a)
    <3> DEFINE B == {n}
    <3>1. B \subseteq Nodes /\ n \in B /\ \A a \in B : Exists(M, a)
      BY <1>0
    <3>2. \A a \in B : a # n /\ M.parent[a] \in Folders => M.parent[a] \in B
      OBVIOUS
    <3> HIDE DEF B
    <3> QED
      BY <1>4, <3>1, <3>2
  <2> QED
    BY <1>3, <2>1, <2>2
<1>6. ASSUME NEW x \in Nodes, x # n, n \in Above(L, x), Exists(L, x)
      PROVE  /\ \E a \in Above(M, x) : M.parent[a] = Root
             /\ \A a \in Above(M, x) : Exists(M, a)
  <2>1. n \in Above(M, x)
    <3> DEFINE S == {y \in Above(L, x) : y \in Above(M, x) \/ n \in Above(M, x)}
    <3>1. x \in S
      BY UpSelf DEF Above
    <3>2. ASSUME NEW y \in Upwards(L, x, {}), y \in S, L.parent[y] \in Folders
          PROVE  L.parent[y] \in S
      <4>1. L.parent[y] \in Above(L, x) /\ y \in Nodes
        BY <1>6, <3>2, UpStep, UpNodes DEF Above
      <4>2. CASE n \in Above(M, x)
        BY <4>1, <4>2
      <4>3. CASE y # n /\ y \in Above(M, x)
        BY <1>0, <3>2, <4>1, <4>3, UpStep DEF Above
      <4> QED
        BY <3>2, <4>2, <4>3
    <3> HIDE DEF S
    <3>3. Upwards(L, x, {}) \subseteq S
      BY <3>1, <3>2, UpLeast
    <3> QED
      BY <1>6, <3>3 DEF S, Above
  <2>2. \A a \in Above(M, x) : Exists(M, a)
    <3> DEFINE B == Above(L, x)
    <3>1. B \subseteq Nodes /\ x \in B /\ n \in B
      BY <1>6, UpNodes, UpSelf DEF Above
    <3>2. \A a \in B : Exists(M, a)
      BY <1>0, <1>6, <3>1 DEF Rooted
    <3>3. \A a \in B : a # n /\ M.parent[a] \in Folders => M.parent[a] \in B
      BY <1>0, <3>1, UpStep DEF Above
    <3> HIDE DEF B
    <3> QED
      BY <1>4, <1>6, <3>1, <3>2, <3>3
  <2> QED
    BY <1>3, <1>6, <2>1, <2>2
<1> QED
  BY <1>0, <1>2, <1>5, <1>6 DEF Rooted

\* Nothing hangs below a node that is removed.
LEMMA Childless ==
  ASSUME NEW L, NEW n \in Nodes, \A y \in Nodes : L.parent[y] # n,
         NEW x \in Nodes, x # n, NEW stops
  PROVE  n \notin Upwards(L, x, stops)
<1> DEFINE S == Nodes \ {n}
<1>1. x \in S
  OBVIOUS
<1>2. \A y \in Upwards(L, x, stops) :
        y \in S /\ y \notin stops /\ L.parent[y] \in Folders => L.parent[y] \in S
  BY Markers
<1> HIDE DEF S
<1>3. Upwards(L, x, stops) \subseteq S
  BY <1>1, <1>2, UpLeast
<1> QED
  BY <1>3 DEF S

LEMMA Removing ==
  ASSUME NEW L, L.parent \in [Nodes -> Folders \cup {Root, Absent, Gone}], Rooted(L),
         NEW n \in Nodes, \A y \in Nodes : L.parent[y] # n,
         NEW M, M.parent = [L.parent EXCEPT ![n] = Gone]
  PROVE  Rooted(M)
<1> SUFFICES ASSUME NEW x \in Nodes, Exists(M, x)
             PROVE  /\ \E a \in Above(M, x) : M.parent[a] = Root
                    /\ \A a \in Above(M, x) : Exists(M, a)
  BY DEF Rooted
<1>1. x # n /\ Exists(L, x)
  BY DEF Exists
<1>2. \A y \in Upwards(L, x, {}) : y \in Nodes /\ y # n /\ M.parent[y] = L.parent[y]
  BY <1>1, Childless, UpNodes
<1>3. Above(M, x) = Above(L, x)
  BY <1>2, UpSame DEF Above
<1> QED
  BY <1>1, <1>2, <1>3 DEF Rooted, Above, Exists

-----------------------------------------------------------------------------
(* The rows.                                                               *)

\* Rows computed anew are backed by what the library is now.
LEMMA Recomputed ==
  ASSUME rows' = DocumentAccess(library)'
  PROVE  RowsBacked' /\ rows' \subseteq Members \X Files
BY DEF RowsBacked, DocumentAccess, MayRead, Backed

\* Rows that are kept are backed as long as the files' walk and its grants are as before.
LEMMA StillBacked ==
  ASSUME NEW L, NEW M, NEW m, NEW d, Backed(L, m, d),
         M.uploader = L.uploader, M.membership = L.membership, M.active = L.active,
         Ancestry(M, d) = Ancestry(L, d),
         \A g \in L.grants : g[1] \in Ancestry(L, d) => g \in M.grants
  PROVE  Backed(M, m, d)
BY DEF Backed, Held, Names

LEMMA Kept ==
  ASSUME Inv, KeepRows,
         NEW n \in Nodes, ~Exists(library, n) \/ \A y \in Nodes : library.parent[y] # n,
         \A x \in Nodes \ {n} : library'.parent[x] = library.parent[x],
         \A x \in Nodes \ {n} : x \in library'.boundary <=> x \in library.boundary,
         library'.uploader = library.uploader, library'.membership = library.membership,
         library'.active = library.active,
         \A g \in library.grants : g[1] # n => g \in library'.grants,
         n \in Folders
  PROVE  RowsBacked'
<1> SUFFICES ASSUME current, NEW m \in Members, NEW d \in Files, <<m, d>> \in rows,
                    Exists(library', d)
             PROVE  Backed(library', m, d)
  BY DEF RowsBacked, KeepRows
<1>1. d \in Nodes /\ d # n
  BY Markers
<1>2. Exists(library, d)
  BY <1>1 DEF Exists
<1>3. Backed(library, m, d)
  BY <1>2 DEF Inv, RowsBacked
<1>4. n \notin Ancestry(library, d)
  <2>1. CASE ~Exists(library, n)
    BY <1>1, <1>2, <2>1, UpStops DEF Inv, Rooted, Ancestry
  <2>2. CASE \A y \in Nodes : library.parent[y] # n
    BY <1>1, <2>2, Childless DEF Ancestry
  <2> QED
    BY <2>1, <2>2
<1>5. Ancestry(library, d) \subseteq Nodes
  BY <1>1, UpNodes DEF Ancestry
<1>6. Ancestry(library', d) = Ancestry(library, d)
  <2>1. \A x \in Upwards(library, d, library.boundary) :
          /\ library'.parent[x] = library.parent[x]
          /\ x \in library'.boundary <=> x \in library.boundary
    BY <1>4, <1>5 DEF Ancestry
  <2> QED
    BY <2>1, UpSame DEF Ancestry
<1>7. \A g \in library.grants : g[1] \in Ancestry(library, d) => g \in library'.grants
  BY <1>4
<1> QED
  BY <1>3, <1>6, <1>7, StillBacked

-----------------------------------------------------------------------------
(* The routes.                                                             *)

LEMMA CreateFolderStep ==
  ASSUME Inv, NEW actor \in Actors, NEW f \in Folders, NEW p \in Folders \cup {Root},
         CreateFolder(actor, f, p)
  PROVE  Inv'
<1>0. Types /\ Rooted(library) /\ f \in Nodes
  BY Markers DEF Inv
<1>1. /\ library' = [library EXCEPT !.parent[f] = p]
      /\ UNCHANGED <<account, rows, current, preview>>
      /\ ~Exists(library, f)
  BY DEF CreateFolder, Placed, KeepRows, Exists
<1>2. /\ library' \in Libraries
      /\ library'.parent = [library.parent EXCEPT ![f] = p]
      /\ library'.boundary = library.boundary
      /\ library'.uploader = library.uploader
      /\ library'.grants = library.grants
      /\ library'.membership = library.membership
      /\ library'.active = library.active
  BY <1>0, <1>1 DEF Types, Libraries
<1>3. library.parent \in [Nodes -> Folders \cup {Root, Absent, Gone}]
  BY <1>0 DEF Types, Libraries
<1>4. p # Root => Exists(library, p)
  BY DEF CreateFolder, CanCreateChildren, CanReadFolder
<1>5. p # Root => f \notin Above(library, p)
  BY <1>0, <1>1, <1>4, Markers DEF Rooted
<1>6. Rooted(library')
  BY <1>0, <1>2, <1>3, <1>4, <1>5, Placing
<1>7. \A x \in Nodes \ {f} : library'.parent[x] = library.parent[x]
  BY <1>2, <1>3
<1>8. RowsBacked'
  BY <1>0, <1>1, <1>2, <1>7, Kept DEF KeepRows
<1> QED
  BY <1>0, <1>1, <1>2, <1>6, <1>8 DEF Inv, Types

LEMMA DeleteFolderStep ==
  ASSUME Inv, NEW f \in Folders, DeleteFolder(f)
  PROVE  Inv'
<1>0. Types /\ Rooted(library) /\ f \in Nodes
  BY Markers DEF Inv
<1>1. /\ library' = Removed(f)
      /\ UNCHANGED <<account, rows, current, preview>>
      /\ \A y \in Nodes : library.parent[y] # f
  BY DEF DeleteFolder, KeepRows, Children
<1>2. /\ library' \in Libraries
      /\ library'.parent = [library.parent EXCEPT ![f] = Gone]
      /\ library'.boundary = library.boundary \ {f}
      /\ library'.uploader = library.uploader
      /\ library'.grants = {g \in library.grants : g[1] # f}
      /\ library'.membership = library.membership
      /\ library'.active = library.active
  BY <1>0, <1>1 DEF Types, Libraries, Removed
<1>3. library.parent \in [Nodes -> Folders \cup {Root, Absent, Gone}]
  BY <1>0 DEF Types, Libraries
<1>4. Rooted(library')
  BY <1>0, <1>1, <1>2, <1>3, Removing
<1>5. \A x \in Nodes \ {f} : library'.parent[x] = library.parent[x]
  BY <1>2, <1>3
<1>6. RowsBacked'
  BY <1>0, <1>1, <1>2, <1>5, Kept DEF KeepRows
<1> QED
  BY <1>0, <1>1, <1>2, <1>4, <1>6 DEF Inv, Types

LEMMA UploadStep ==
  ASSUME Inv, NEW actor \in Actors, NEW d \in Files, NEW p \in Folders \cup {Root},
         NEW teams \in SUBSET Teams, Upload(actor, d, p, teams)
  PROVE  Inv'
<1>0. Types /\ Rooted(library) /\ d \in Nodes
  BY Markers DEF Inv
<1>1. /\ library' = [Placed(d, p) EXCEPT
                       !.uploader[d] = actor,
                       !.grants = @ \cup ({d} \X (teams \cup ({actor} \ {None})))]
      /\ account' = account /\ rows' = DocumentAccess(library)' /\ preview' = NoPreview
      /\ ~Exists(library, d)
  BY DEF Upload, Rebuild, Exists
<1>2. {d} \X (teams \cup ({actor} \ {None})) \subseteq Nodes \X Principals
  BY <1>0 DEF Actors, Principals
<1>3. /\ Placed(d, p) \in Libraries
      /\ Placed(d, p).parent = [library.parent EXCEPT ![d] = p]
  BY <1>0 DEF Types, Libraries, Placed
<1>4. /\ library' \in Libraries
      /\ library'.parent = Placed(d, p).parent
  <2>1. \A L \in Libraries, G \in SUBSET (Nodes \X Principals) :
          LET M == [L EXCEPT !.uploader[d] = actor, !.grants = @ \cup G]
          IN  M \in Libraries /\ M.parent = L.parent
    BY DEF Libraries, Actors
  <2> QED
    BY <1>1, <1>2, <1>3, <2>1
<1>5. library.parent \in [Nodes -> Folders \cup {Root, Absent, Gone}]
  BY <1>0 DEF Types, Libraries
<1>6. p # Root => Exists(library, p)
  BY DEF Upload, CanReadFolder
<1>7. p # Root => d \notin Above(library, p)
  BY <1>0, <1>1, <1>6, Markers DEF Rooted
<1>8. Rooted(library')
  BY <1>0, <1>3, <1>4, <1>5, <1>6, <1>7, Placing
<1>9. RowsBacked' /\ rows' \subseteq Members \X Files
  BY <1>1, Recomputed
<1> QED
  BY <1>0, <1>1, <1>4, <1>8, <1>9 DEF Inv, Types, NoPreview

LEMMA DeleteDocumentStep ==
  ASSUME Inv, NEW actor \in Actors, NEW d \in Files, DeleteDocument(actor, d)
  PROVE  Inv'
<1>0. Types /\ Rooted(library) /\ d \in Nodes
  BY Markers DEF Inv
<1>1. /\ library' = [Removed(d) EXCEPT !.uploader[d] = None]
      /\ account' = account /\ rows' = DocumentAccess(library)' /\ preview' = NoPreview
  BY DEF DeleteDocument, Rebuild
<1>2. library.parent \in [Nodes -> Folders \cup {Root, Absent, Gone}]
  BY <1>0 DEF Types, Libraries
<1>3. \A y \in Nodes : library.parent[y] # d
  BY <1>0, <1>2, Markers
<1>4. /\ Removed(d) \in Libraries
      /\ Removed(d).parent = [library.parent EXCEPT ![d] = Gone]
  BY <1>0 DEF Types, Libraries, Removed
<1>5. library' \in Libraries /\ library'.parent = Removed(d).parent
  BY <1>1, <1>4 DEF Libraries
<1>6. Rooted(library')
  BY <1>0, <1>2, <1>3, <1>4, <1>5, Removing
<1>7. RowsBacked' /\ rows' \subseteq Members \X Files
  BY <1>1, Recomputed
<1> QED
  BY <1>0, <1>1, <1>5, <1>6, <1>7 DEF Inv, Types, NoPreview

\* The tree is a matter of the parents alone.
LEMMA SameTree ==
  ASSUME NEW L, NEW M, M.parent = L.parent, Rooted(L)
  PROVE  Rooted(M)
<1>1. \A n : Above(M, n) = Above(L, n)
  BY DEF Above, Upwards, Closed
<1> QED
  BY <1>1 DEF Rooted, Exists

\* What an operation makes of a library; only a move changes the tree.
LEMMA AfterType ==
  ASSUME NEW L \in Libraries, NEW op \in Operations
  PROVE  /\ After(L, op) \in Libraries
         /\ op.kind # "move_node" => After(L, op).parent = L.parent
         /\ op.kind = "move_node" =>
              /\ op.node \in Nodes /\ op.parent \in Folders \cup {Root}
              /\ After(L, op).parent = [L.parent EXCEPT ![op.node] = op.parent]
<1>1. CASE op \in [kind : {"set_grant"}, node : Nodes, principal : Principals, on : BOOLEAN]
  <2>1. /\ op.kind = "set_grant"
        /\ With(L.grants, <<op.node, op.principal>>, op.on) \in SUBSET (Nodes \X Principals)
    BY <1>1 DEF With, Libraries
  <2>2. After(L, op) = [L EXCEPT !.grants = With(L.grants, <<op.node, op.principal>>, op.on)]
    BY <2>1 DEF After, Libraries
  <2> QED
    BY <2>1, <2>2 DEF Libraries
<1>2. CASE op \in [kind : {"set_create_children_grant"}, node : Folders,
                   principal : Principals, on : BOOLEAN]
  <2>1. /\ op.kind = "set_create_children_grant"
        /\ With(L.creates, <<op.node, op.principal>>, op.on)
             \in SUBSET (Folders \X Principals)
    BY <1>2 DEF With, Libraries
  <2>2. After(L, op) = [L EXCEPT !.creates = With(L.creates, <<op.node, op.principal>>, op.on)]
    BY <2>1 DEF After, Libraries
  <2> QED
    BY <2>1, <2>2 DEF Libraries
<1>3. CASE op \in [kind : {"set_membership"}, team : Teams, member : Members, on : BOOLEAN]
  <2>1. /\ op.kind = "set_membership"
        /\ With(L.membership, <<op.team, op.member>>, op.on) \in SUBSET (Teams \X Members)
    BY <1>3 DEF With, Libraries
  <2>2. After(L, op) = [L EXCEPT !.membership = With(L.membership, <<op.team, op.member>>, op.on)]
    BY <2>1 DEF After, Libraries
  <2> QED
    BY <2>1, <2>2 DEF Libraries
<1>4. CASE op \in [kind : {"set_boundary"}, node : Folders, on : BOOLEAN]
  <2>1. op.kind = "set_boundary" /\ With(L.boundary, op.node, op.on) \in SUBSET Folders
    BY <1>4 DEF With, Libraries
  <2>2. After(L, op) = [L EXCEPT !.boundary = With(L.boundary, op.node, op.on)]
    BY <2>1 DEF After, Libraries
  <2> QED
    BY <2>1, <2>2 DEF Libraries
<1>5. CASE op \in [kind : {"set_team_active"}, team : Teams, on : BOOLEAN]
  <2>1. op.kind = "set_team_active" /\ With(L.active, op.team, op.on) \in SUBSET Teams
    BY <1>5 DEF With, Libraries
  <2>2. After(L, op) = [L EXCEPT !.active = With(L.active, op.team, op.on)]
    BY <2>1 DEF After, Libraries
  <2> QED
    BY <2>1, <2>2 DEF Libraries
<1>6. CASE op \in [kind : {"move_node"}, node : Nodes, parent : Folders \cup {Root}]
  <2>1. /\ op.kind = "move_node" /\ op.node \in Nodes /\ op.parent \in Folders \cup {Root}
    BY <1>6
  <2>2. After(L, op) = [L EXCEPT !.parent[op.node] = op.parent]
    BY <2>1 DEF After
  <2> QED
    BY <2>1, <2>2 DEF Libraries
<1> QED
  BY <1>1, <1>2, <1>3, <1>4, <1>5, <1>6 DEF Operations

\* The move was checked for a cycle when it is applied, not only when it was previewed.
LEMMA ApplyAclStep ==
  ASSUME Inv, ApplyAcl
  PROVE  Inv'
<1>0. Types /\ Rooted(library) /\ library \in Libraries
  BY DEF Inv, Types
<1>1. PICK op \in Operations : op = preview.op
  BY DEF Inv, Types, ApplyAcl, Confirmed
<1>2. /\ library' = After(library, op) /\ account' = account /\ preview' = NoPreview
      /\ Applicable(op)
      /\ (rows' = DocumentAccess(library)') \/ (current' = FALSE /\ rows' = rows)
  BY <1>1 DEF ApplyAcl
<1>3. library' \in Libraries
  BY <1>0, <1>2, AfterType
<1>4. Rooted(library')
  <2>1. CASE op.kind # "move_node"
    <3>1. library'.parent = library.parent
      BY <1>0, <1>2, <2>1, AfterType
    <3> QED
      BY <1>0, <3>1, SameTree
  <2>2. CASE op.kind = "move_node"
    <3>1. /\ op.node \in Nodes /\ op.parent \in Folders \cup {Root}
          /\ library'.parent = [library.parent EXCEPT ![op.node] = op.parent]
      BY <1>0, <1>2, <2>2, AfterType
    <3>2. op.parent # Root => Exists(library, op.parent)
      BY <1>2, <2>2 DEF Applicable
    <3>3. op.parent # Root => op.node \notin Above(library, op.parent)
      BY <1>2, <2>2, <3>1, Markers DEF Applicable, Acyclic, Subtree, Above
    <3>4. library.parent \in [Nodes -> Folders \cup {Root, Absent, Gone}]
      BY <1>0 DEF Libraries
    <3> QED
      BY <1>0, <3>1, <3>2, <3>3, <3>4, Placing
  <2> QED
    BY <2>1, <2>2
<1>5. RowsBacked' /\ rows' \subseteq Members \X Files
  <2>1. CASE rows' = DocumentAccess(library)'
    BY <2>1, Recomputed
  <2>2. CASE current' = FALSE /\ rows' = rows
    BY <1>0, <2>2 DEF RowsBacked, Types
  <2> QED
    BY <1>2, <2>1, <2>2
<1> QED
  BY <1>0, <1>2, <1>3, <1>4, <1>5 DEF Inv, Types, NoPreview

LEMMA PreviewStep ==
  ASSUME Inv, PreviewLapses \/ \E op \in Asked : PreviewAcl(op)
  PROVE  Inv'
<1>1. UNCHANGED <<library, account, rows, current>>
  BY DEF PreviewLapses, PreviewAcl
<1>2. preview'.open => preview'.op \in Operations
  BY AccessAssumption DEF PreviewLapses, PreviewAcl, NoPreview
<1>3. RowsBacked'
  BY <1>1 DEF Inv, RowsBacked
<1> QED
  BY <1>1, <1>2, <1>3 DEF Inv, Types

\* Disabling an account takes its grants and memberships back and computes the rows.
LEMMA SetUserStep ==
  ASSUME Inv, NEW m \in Members, NEW status \in {"active", "disabled"}, SetUser(m, status)
  PROVE  Inv'
<1>0. Types /\ Rooted(library) /\ library \in Libraries
  BY DEF Inv, Types
<1>1. /\ account' = [account EXCEPT ![m].status = status]
      /\ rows' = DocumentAccess(library)' /\ preview' = NoPreview
  BY DEF SetUser, StatusSet, Rebuild
<1>2. library' \in Libraries /\ library'.parent = library.parent
  BY <1>0 DEF SetUser, Libraries
<1>3. account' \in [Members -> Accounts]
  BY <1>0, <1>1 DEF Types, Accounts
<1>4. Rooted(library')
  BY <1>0, <1>2, SameTree
<1>5. RowsBacked' /\ rows' \subseteq Members \X Files
  BY <1>1, Recomputed
<1> QED
  BY <1>1, <1>2, <1>3, <1>4, <1>5 DEF Inv, Types, NoPreview

LEMMA AccountStep ==
  ASSUME Inv, NEW m \in Members, ResetUser(m) \/ Activate(m)
  PROVE  Inv'
<1>1. UNCHANGED <<library, rows, current, preview>>
  BY DEF ResetUser, Activate, KeepRows
<1>2. account' \in [Members -> Accounts]
  <2>1. PICK a \in Accounts : account' = [account EXCEPT ![m] = a]
    BY DEF ResetUser, Activate, Accounts
  <2> QED
    BY <2>1 DEF Inv, Types
<1>3. RowsBacked'
  BY <1>1 DEF Inv, RowsBacked
<1> QED
  BY <1>1, <1>2, <1>3 DEF Inv, Types

-----------------------------------------------------------------------------
LEMMA InitInv == Init => Inv
<1> SUFFICES ASSUME Init
             PROVE  Inv
  OBVIOUS
<1>1. library \in Libraries
  BY DEF Init, Libraries
<1>2. account \in [Members -> Accounts]
  BY DEF Init, Accounts
<1>3. Types
  BY <1>1, <1>2 DEF Init, Types, NoPreview
<1>4. \A n \in Nodes : ~Exists(library, n)
  BY DEF Init, Exists
<1>5. Rooted(library)
  BY <1>4 DEF Rooted
<1>6. RowsBacked
  BY DEF Init, RowsBacked
<1> QED
  BY <1>3, <1>5, <1>6 DEF Inv

LEMMA NextInv == Inv /\ [Next]_vars => Inv'
<1> SUFFICES ASSUME Inv, [Next]_vars
             PROVE  Inv'
  OBVIOUS
<1>1. CASE LibraryRoutes
  BY <1>1, CreateFolderStep, DeleteFolderStep DEF LibraryRoutes
<1>2. CASE DocumentRoutes
  BY <1>2, UploadStep, DeleteDocumentStep DEF DocumentRoutes
<1>3. CASE AclRoutes
  BY <1>3, ApplyAclStep, PreviewStep DEF AclRoutes
<1>4. CASE AccountRoutes
  BY <1>4, SetUserStep, AccountStep DEF AccountRoutes
<1>5. CASE UNCHANGED vars
  BY <1>5 DEF vars, Inv, Types, RowsBacked
<1> QED
  BY <1>1, <1>2, <1>3, <1>4, <1>5 DEF Next

\* The inductive invariant: the library is a tree, and every computed row of the current
\* version is backed by the uploader or by a grant that counts.
THEOREM Invariance == Spec => []Inv
BY InitInv, NextInv, PTL DEF Spec

\* Every node hangs below the root on folders that exist, for any library and any sequence
\* of moves, creations and deletions, previewed before or not.
THEOREM TreeSoundHolds == Spec => []TreeSound
<1>1. Inv => TreeSound
  BY DEF Inv, Rooted, Above, TreeSound
<1> QED
  BY <1>1, Invariance, PTL

\* v4_can_read_document() never lets a member read more than the uploader's own files and
\* what a grant to the member or to an active team gives now, with no boundary in between.
THEOREM NothingBeyondGrantsHolds == Spec => []NothingBeyondGrants
<1>1. Inv => NothingBeyondGrants
  <2> SUFFICES ASSUME Inv, NEW m \in Members, NEW d \in Files, CanReadDocument(m, d),
                      library.uploader[d] # m
               PROVE  \E g \in library.grants :
                        Inherits(d, g[1]) /\ Names(library, g[2], m)
    BY DEF NothingBeyondGrants
  <2>1. Exists(library, d) /\ d \in Nodes
    BY Markers DEF CanReadDocument
  <2>2. Held(library, library.grants, d, m)
    BY <2>1 DEF Inv, RowsBacked, Backed, CanReadDocument
  <2>3. PICK g \in library.grants :
          Names(library, g[2], m) /\ g[1] \in Ancestry(library, d)
    BY <2>2 DEF Held
  <2>4. Inherits(d, g[1])
    BY <2>1, <2>3, CountedInherits DEF Inv
  <2> QED
    BY <2>3, <2>4
<1> QED
  BY <1>1, Invariance, PTL

\* What an administrator applies changes the readers of the documents, and concerns the
\* members, that the preview showed, whatever happened since.
THEOREM PreviewHonouredHolds == Spec => PreviewHonoured
<1> DEFINE Shown ==
      library' # library /\ ApplyAcl =>
        LET documents == SymmetricDifference(DocumentAccess(library), DocumentAccess(library)')
            folders == SymmetricDifference(CreateAccess(library), CreateAccess(library)')
        IN  /\ preview.impact.documents = {c[2] : c \in documents}
            /\ preview.impact.users = {c[1] : c \in documents \cup folders}
<1>1. [Next]_vars => [Shown]_vars
  <2> SUFFICES ASSUME ApplyAcl
               PROVE  Shown
    OBVIOUS
  <2>1. /\ library' = After(library, preview.op) /\ account' = account
        /\ preview.impact = Impact(preview.op)
    BY DEF ApplyAcl, Confirmed
  <2>2. DocumentAccess(library)' = DocumentAccess(After(library, preview.op))
    BY <2>1 DEF DocumentAccess, MayRead, IsActive
  <2>3. CreateAccess(library)' = CreateAccess(After(library, preview.op))
    BY <2>1 DEF CreateAccess, MayCreate, IsActive
  <2> QED
    BY <2>1, <2>2, <2>3 DEF Impact
<1> QED
  BY <1>1, PTL DEF Spec, PreviewHonoured
=============================================================================
