------------------------ MODULE AdministrationProofs ------------------------
(***************************************************************************)
(* What administrators rely on.  The accounts: an administrator remains, a *)
(* session knows the password of its account, failed logins are bounded,   *)
(* and the setup page asks for the last code, whatever requests overlap.   *)
(* The runtime configuration: a change is what was confirmed, and what the *)
(* controller reports is what runs, whatever is lost between API and       *)
(* controller and across a stop of the process tree.  The two              *)
(* specifications share no state.                                          *)
(***************************************************************************)
EXTENDS Accounts, Configuration, FiniteSetTheorems, SequenceTheorems, TLAPS

-----------------------------------------------------------------------------
(* Accounts and sessions.                                                  *)

Statuses == {"none", "active", "disabled", "deleted", "pending_activation"}

UserRows == [status : Statuses, role : Roles, password : Passwords \cup {None},
             version : Nat, code : BOOLEAN]

SessionRows == [user : Users \cup {None}, version : Nat, revoked : BOOLEAN,
                expired : BOOLEAN, proof : Passwords \cup {None}]

ThrottleRows == [count : Nat, blocked : BOOLEAN]

SetupRows == [code : Nat, codeLive : BOOLEAN, failed : Nat,
              challenge : Browsers \cup {None}, challengeLive : BOOLEAN]

Logins == [kind : {"login"}, user : Users, version : Nat, proof : Passwords \cup {None}]
Refreshes == [kind : {"refresh"}, session : Sessions]
PasswordChanges == [kind : {"change"}, session : Sessions, new : Passwords, version : Nat]
AdminChanges == [kind : {"set", "reset"}, session : Sessions, target : Users, role : Roles,
                 status : Statuses \ {"none"}, others : BOOLEAN]

RequestRows == {Idle} \cup Logins \cup Refreshes \cup PasswordChanges \cup AdminChanges

Types ==
  /\ users \in [Users -> UserRows]
  /\ sessions \in [Sessions -> SessionRows]
  /\ throttle \in [Users -> ThrottleRows]
  /\ setup \in SetupRows
  /\ request \in [Requests -> RequestRows]
  /\ knows \in [Browsers -> Nat]
  /\ guesses \in [Users -> Nat]

-----------------------------------------------------------------------------
\* What a session or a verified login rests on: the account exists, and as long as its
\* version is the one that was seen, its password is the one that was proved.
Rests(u, version, proof) ==
  /\ users[u].status # "none"
  /\ version <= users[u].version
  /\ version = users[u].version => proof = users[u].password

Grounded(s) ==
  sessions[s].user # None =>
    /\ users[sessions[s].user].status # "none"
    /\ ~sessions[s].revoked => Rests(sessions[s].user, sessions[s].version, sessions[s].proof)

SessionsRest == \A s \in Sessions : Grounded(s)

LoginsRest ==
  \A r \in Requests : request[r].kind = "login" =>
    /\ users[request[r].user].status # "none"
    /\ request[r].proof # None =>
         Rests(request[r].user, request[r].version, request[r].proof)

\* The target of an administrator's change under way exists.
Targets(r) ==
  request[r].kind \in {"set", "reset"} => users[request[r].target].status # "none"

TargetsExist == \A r \in Requests : Targets(r)

Proved == SessionsRest /\ LoginsRest /\ TargetsExist

\* Whoever holds the challenge has proved the current code.
Challenged == \A b \in Browsers : setup.challenge = b => knows[b] = setup.code

\* The failed logins that are under way.
Failing(u) == {r \in Requests : /\ request[r].kind = "login" /\ request[r].user = u
                                /\ request[r].proof = None}

\* A client that is not blocked is below the limit; one that is blocked has only the
\* logins left that were under way.
Counts(u) ==
  /\ throttle[u].blocked => throttle[u].count >= FailureLimit
  /\ ~throttle[u].blocked => guesses[u] <= FailureLimit - 1 /\ guesses[u] <= throttle[u].count
  /\ guesses[u] + Cardinality(Failing(u)) <= (FailureLimit - 1) + Cardinality(Requests)

Counting == \A u \in Users : Counts(u)

Inv == Types /\ AdminRemains /\ Proved /\ Challenged /\ Counting

-----------------------------------------------------------------------------
(* The rows.                                                               *)

\* The kind of a request says which record it is.
LEMMA KindOfRequest ==
  ASSUME Types, NEW r \in Requests
  PROVE  /\ request[r].kind = "login" => request[r] \in Logins
         /\ request[r].kind = "refresh" => request[r] \in Refreshes
         /\ request[r].kind = "change" => request[r] \in PasswordChanges
         /\ request[r].kind \in {"set", "reset"} => request[r] \in AdminChanges
<1>1. request[r] \in RequestRows
  BY DEF Types
<1> QED
  BY <1>1 DEF RequestRows, Idle, Logins, Refreshes, PasswordChanges, AdminChanges

\* What an administrator's change makes of a row of users.
LEMMA ChangedRow ==
  ASSUME NEW row \in UserRows, NEW q \in AdminChanges
  PROVE  /\ SetRow(row, q) \in UserRows
         /\ SetRow(row, q).status = q.status
         /\ SetRow(row, q).role = q.role
         /\ SetRow(row, q).version = row.version + 1
         /\ ResetRow(row) \in UserRows
         /\ ResetRow(row).status = "pending_activation"
         /\ ResetRow(row).version = row.version + 1
<1>1. PICK n \in Nat : n = row.version + 1
  BY DEF UserRows
<1>2. PICK p \in Passwords \cup {None} : p = IF q.status = "deleted" THEN None ELSE row.password
  BY DEF UserRows
<1>3. q.role \in Roles /\ q.status \in Statuses
  BY DEF AdminChanges
<1>4. SetRow(row, q) = [row EXCEPT !.role = q.role, !.status = q.status, !.version = n,
                                   !.password = p]
  BY <1>1, <1>2 DEF SetRow, UserRows
<1>5. ResetRow(row) = [row EXCEPT !.status = "pending_activation", !.password = None,
                                  !.version = n, !.code = TRUE]
  BY <1>1 DEF ResetRow, UserRows
<1>6. SetRow(row, q) \in UserRows
  BY <1>3, <1>4 DEF UserRows
<1>7. ResetRow(row) \in UserRows
  BY <1>5 DEF UserRows, Statuses
<1>8. /\ SetRow(row, q).status = q.status
      /\ SetRow(row, q).role = q.role
      /\ SetRow(row, q).version = row.version + 1
  BY <1>1, <1>4 DEF UserRows
<1>9. /\ ResetRow(row).status = "pending_activation"
      /\ ResetRow(row).version = row.version + 1
  BY <1>1, <1>5 DEF UserRows
<1> QED
  BY <1>6, <1>7, <1>8, <1>9

\* The account an activation leaves.
Activated(row, p) ==
  [row EXCEPT !.status = "active", !.password = p, !.version = @ + 1, !.code = FALSE]

\* The account a change of the password leaves.
Rekeyed(row, p) == [row EXCEPT !.password = p, !.version = @ + 1]

LEMMA KeyedRow ==
  ASSUME NEW row \in UserRows, NEW p \in Passwords
  PROVE  /\ Activated(row, p) \in UserRows
         /\ Activated(row, p).status = "active"
         /\ Activated(row, p).role = row.role
         /\ Activated(row, p).password = p
         /\ Activated(row, p).version = row.version + 1
         /\ Rekeyed(row, p) \in UserRows
         /\ Rekeyed(row, p).status = row.status
         /\ Rekeyed(row, p).role = row.role
         /\ Rekeyed(row, p).password = p
         /\ Rekeyed(row, p).version = row.version + 1
         /\ [row EXCEPT !.code = FALSE] \in UserRows
<1>1. PICK n \in Nat : n = row.version + 1
  BY DEF UserRows
<1>2. Activated(row, p) = [row EXCEPT !.status = "active", !.password = p, !.version = n,
                                      !.code = FALSE]
  BY <1>1 DEF Activated, UserRows
<1>3. Rekeyed(row, p) = [row EXCEPT !.password = p, !.version = n]
  BY <1>1 DEF Rekeyed, UserRows
<1>4. Activated(row, p) \in UserRows
  BY <1>2 DEF UserRows, Statuses
<1>5. Rekeyed(row, p) \in UserRows
  BY <1>3 DEF UserRows
<1>6. /\ Activated(row, p).status = "active"
      /\ Activated(row, p).role = row.role
      /\ Activated(row, p).password = p
      /\ Activated(row, p).version = row.version + 1
  BY <1>1, <1>2 DEF UserRows
<1>7. /\ Rekeyed(row, p).status = row.status
      /\ Rekeyed(row, p).role = row.role
      /\ Rekeyed(row, p).password = p
      /\ Rekeyed(row, p).version = row.version + 1
  BY <1>1, <1>3 DEF UserRows
<1>8. [row EXCEPT !.code = FALSE] \in UserRows
  BY DEF UserRows
<1> QED
  BY <1>4, <1>5, <1>6, <1>7, <1>8

\* What becomes of a row of sessions.
LEMMA SessionRow ==
  ASSUME NEW row \in SessionRows
  PROVE  /\ Revoked(row) \in SessionRows
         /\ Revoked(row).user = row.user
         /\ Revoked(row).revoked = TRUE
         /\ [row EXCEPT !.expired = TRUE] \in SessionRows
         /\ [row EXCEPT !.expired = FALSE] \in SessionRows
<1>1. Revoked(row) \in SessionRows
  BY DEF Revoked, SessionRows
<1>2. Revoked(row).user = row.user /\ Revoked(row).revoked = TRUE
  BY DEF Revoked, SessionRows
<1>3. [row EXCEPT !.expired = TRUE] \in SessionRows
  BY DEF SessionRows
<1>4. [row EXCEPT !.expired = FALSE] \in SessionRows
  BY DEF SessionRows
<1> QED
  BY <1>1, <1>2, <1>3, <1>4

LEMMA IssuedRow ==
  ASSUME NEW u \in Users, NEW n \in Nat, NEW p \in Passwords
  PROVE  Issued(u, n, p) \in SessionRows
BY DEF Issued, SessionRows

LEMMA CountedRow ==
  ASSUME NEW t \in ThrottleRows
  PROVE  /\ Counted(t) \in ThrottleRows
         /\ Counted(t).count = IF t.count < FailureCap THEN t.count + 1 ELSE FailureCap
         /\ Counted(t).blocked <=> Counted(t).count >= FailureLimit
<1>1. PICK n \in Nat : n = IF t.count < FailureCap THEN t.count + 1 ELSE FailureCap
  BY AccountsAssumption DEF ThrottleRows
<1>2. CASE n >= FailureLimit
  <2>1. Counted(t) = [count |-> n, blocked |-> TRUE]
    BY <1>1, <1>2 DEF Counted
  <2> QED
    BY <1>1, <1>2, <2>1 DEF ThrottleRows
<1>3. CASE ~(n >= FailureLimit)
  <2>1. Counted(t) = [count |-> n, blocked |-> n >= FailureLimit]
    BY <1>1 DEF Counted
  <2>2. (n >= FailureLimit) = FALSE
    BY <1>3, AccountsAssumption
  <2>3. Counted(t) = [count |-> n, blocked |-> FALSE]
    BY <2>1, <2>2, Zenon
  <2> QED
    BY <1>1, <1>3, <2>3 DEF ThrottleRows
<1> QED
  BY <1>2, <1>3

-----------------------------------------------------------------------------
(* What each part of the invariant needs of a step.                        *)

\* A step that writes what one request remembers.
LEMMA OneRequest ==
  ASSUME Types, NEW r \in Requests, NEW what \in RequestRows,
         request' = [request EXCEPT ![r] = what]
  PROVE  /\ request' \in [Requests -> RequestRows]
         /\ request'[r] = what
         /\ \A q \in Requests \ {r} : request'[q] = request[q]
BY DEF Types

\* A step that leaves the accounts leaves an administrator.
LEMMA AdminKept ==
  ASSUME AdminRemains, users' = users
  PROVE  AdminRemains'
BY DEF AdminRemains, NoUsers, ActiveAdmins

\* What rested on the accounts still does.
Standing ==
  /\ \A v \in Users : users[v].status # "none" => users'[v].status # "none"
  /\ \A v \in Users, n \in Nat, p \in Passwords \cup {None} :
       Rests(v, n, p) => Rests(v, n, p)'

LEMMA SameAccounts ==
  ASSUME users' = users
  PROVE  Standing
BY DEF Standing, Rests

\* A new version of one account: what rested on the old one no longer needs to.
LEMMA NewVersion ==
  ASSUME Types, Types', NEW u \in Users,
         \A v \in Users \ {u} : users'[v] = users[v],
         users'[u].status # "none",
         users'[u].version > users[u].version
  PROVE  Standing
<1>1. \A v \in Users : users[v].status # "none" => users'[v].status # "none"
  OBVIOUS
<1>2. ASSUME NEW v \in Users, NEW n \in Nat, NEW p \in Passwords \cup {None}, Rests(v, n, p)
      PROVE  Rests(v, n, p)'
  <2>1. CASE v = u
    <3>1. users[u].version \in Nat /\ users'[u].version \in Nat
      BY DEF Types, UserRows
    <3>2. n <= users[u].version
      BY <1>2, <2>1 DEF Rests
    <3> QED
      BY <2>1, <3>1, <3>2 DEF Rests
  <2>2. CASE v # u
    BY <1>2, <2>2 DEF Rests
  <2> QED
    BY <2>1, <2>2
<1> QED
  BY <1>1, <1>2 DEF Standing

\* A session that keeps its account, and that is revoked or keeps the rest as well.
Kept(s) ==
  /\ sessions'[s].user = sessions[s].user
  /\ \/ sessions'[s].revoked
     \/ /\ sessions'[s].revoked = sessions[s].revoked
        /\ sessions'[s].version = sessions[s].version
        /\ sessions'[s].proof = sessions[s].proof

LEMMA SessionsStand ==
  ASSUME Types, SessionsRest, Standing,
         \A s \in Sessions : Kept(s) \/ Grounded(s)'
  PROVE  SessionsRest'
<1> SUFFICES ASSUME NEW s \in Sessions
             PROVE  Grounded(s)'
  BY DEF SessionsRest, Grounded
<1>1. CASE Kept(s)
  <2> SUFFICES ASSUME sessions'[s].user # None
               PROVE  /\ users'[sessions'[s].user].status # "none"
                      /\ ~sessions'[s].revoked =>
                           Rests(sessions[s].user, sessions[s].version, sessions[s].proof)'
    BY DEF Grounded
  <2>1. PICK u \in Users, n \in Nat, p \in Passwords \cup {None} :
          u = sessions[s].user /\ n = sessions[s].version /\ p = sessions[s].proof
    BY <1>1 DEF Kept, Types, SessionRows
  <2>2. users'[u].status # "none"
    BY <1>1, <2>1 DEF Kept, SessionsRest, Standing, Grounded
  <2>3. ASSUME ~sessions'[s].revoked
        PROVE  Rests(sessions[s].user, sessions[s].version, sessions[s].proof)'
    <3>1. ~sessions[s].revoked /\ sessions'[s].version = n /\ sessions'[s].proof = p
      BY <1>1, <2>1, <2>3 DEF Kept
    <3>2. Rests(u, n, p)
      BY <1>1, <2>1, <3>1 DEF Kept, SessionsRest, Grounded
    <3>3. Rests(u, n, p)'
      BY <3>2 DEF Standing
    <3> QED
      BY <1>1, <2>1, <3>1, <3>3 DEF Rests, Kept
  <2> QED
    BY <1>1, <2>1, <2>2, <2>3 DEF Kept
<1>2. CASE Grounded(s)'
  BY <1>2
<1> QED
  BY <1>1, <1>2

LEMMA LoginsStand ==
  ASSUME Types, LoginsRest, Standing,
         \A r \in Requests : request'[r] = request[r] \/ request'[r].kind # "login"
  PROVE  LoginsRest'
<1> SUFFICES ASSUME NEW r \in Requests, request[r].kind = "login", request'[r] = request[r]
             PROVE  /\ users'[request'[r].user].status # "none"
                    /\ request'[r].proof # None =>
                         Rests(request[r].user, request[r].version, request[r].proof)'
  BY DEF LoginsRest
<1>1. PICK u \in Users, n \in Nat, p \in Passwords \cup {None} :
        u = request[r].user /\ n = request[r].version /\ p = request[r].proof
  BY KindOfRequest DEF Logins
<1>2. users'[u].status # "none"
  BY <1>1 DEF LoginsRest, Standing
<1>3. ASSUME p # None
      PROVE  Rests(u, n, p)'
  BY <1>1, <1>3 DEF LoginsRest, Standing
<1> QED
  BY <1>1, <1>2, <1>3 DEF Rests

LEMMA TargetsStand ==
  ASSUME Types, TargetsExist, Standing, \A r \in Requests : request'[r] = request[r] \/ Targets(r)'
  PROVE  TargetsExist'
<1> SUFFICES ASSUME NEW r \in Requests, request[r].kind \in {"set", "reset"},
                    request'[r] = request[r]
             PROVE  users'[request[r].target].status # "none"
  BY DEF TargetsExist, Targets
<1>1. PICK u \in Users : u = request[r].target
  BY KindOfRequest DEF AdminChanges
<1> QED
  BY <1>1 DEF TargetsExist, Targets, Standing

\* A request that goes on or has ended.
Settled(q) == request'[q] = request[q] \/ request'[q] = Idle

LEMMA SettledStand ==
  ASSUME Types, LoginsRest, TargetsExist, Standing, \A q \in Requests : Settled(q)
  PROVE  LoginsRest' /\ TargetsExist'
<1>1. LoginsRest'
  BY LoginsStand DEF Settled, Idle
<1>2. TargetsExist'
  BY TargetsStand DEF Settled, Idle, Targets
<1> QED
  BY <1>1, <1>2

\* A step that leaves the counters, and starts no login that will fail.
LEMMA CountingKept ==
  ASSUME Types, Counting, throttle' = throttle, guesses' = guesses,
         \A r \in Requests : \/ request'[r] = request[r]
                             \/ request'[r].kind # "login"
                             \/ request'[r].proof # None
  PROVE  Counting'
<1> SUFFICES ASSUME NEW u \in Users
             PROVE  guesses[u] + Cardinality(Failing(u)')
                      <= (FailureLimit - 1) + Cardinality(Requests)
  BY DEF Counting, Counts
<1>1. Failing(u)' \subseteq Failing(u) /\ Failing(u) \subseteq Requests
  BY DEF Failing
<1>2. IsFiniteSet(Failing(u))
  BY <1>1, AccountsAssumption, FS_Subset
<1>3. /\ Cardinality(Failing(u)') <= Cardinality(Failing(u))
      /\ Cardinality(Failing(u)') \in Nat /\ Cardinality(Failing(u)) \in Nat
      /\ Cardinality(Requests) \in Nat
  BY <1>1, <1>2, FS_Subset, FS_CardinalityType, AccountsAssumption
<1>4. guesses[u] \in Nat
  BY DEF Types
<1> QED
  BY <1>3, <1>4, AccountsAssumption DEF Counting, Counts

-----------------------------------------------------------------------------
(* The setup page.                                                         *)

\* A step that only writes the row of owner_setup and what the browsers know.
LEMMA SetupStep ==
  ASSUME Inv, UNCHANGED <<users, sessions, throttle, request, guesses>>,
         setup' \in SetupRows, knows' \in [Browsers -> Nat], Challenged'
  PROVE  Inv'
<1>1. Types'
  BY DEF Inv, Types
<1>2. AdminRemains'
  BY AdminKept DEF Inv
<1>3. SessionsRest'
  BY SameAccounts, SessionsStand DEF Inv, Proved, Kept
<1>4. LoginsRest' /\ TargetsExist'
  BY SameAccounts, SettledStand DEF Inv, Proved, Settled
<1>5. Counting'
  BY CountingKept DEF Inv
<1> QED
  BY <1>1, <1>2, <1>3, <1>4, <1>5 DEF Inv, Proved

LEMMA IssueCodeStep ==
  ASSUME Inv, IssueCode
  PROVE  Inv'
<1>1. PICK n \in Nat : n = setup.code + 1
  BY DEF Inv, Types, SetupRows
<1>2. setup' = [code |-> n, codeLive |-> TRUE, failed |-> 0, challenge |-> None,
                challengeLive |-> FALSE]
  BY <1>1 DEF IssueCode, Rotated, FreshSetup
<1>3. setup' \in SetupRows /\ setup'.challenge = None
  BY <1>2 DEF SetupRows
<1>4. Challenged'
  BY <1>3, AccountsAssumption DEF Challenged
<1> QED
  BY <1>3, <1>4, SetupStep DEF IssueCode, historyVars, Inv, Types

LEMMA AcceptCodeStep ==
  ASSUME Inv, NEW b \in Browsers, AcceptCode(b)
  PROVE  Inv'
<1>1. setup \in SetupRows /\ knows \in [Browsers -> Nat]
  BY DEF Inv, Types
<1>2. setup' \in SetupRows
  BY <1>1 DEF AcceptCode, SetupRows
<1>3. setup'.challenge = b /\ setup'.code = setup.code
  BY <1>1 DEF AcceptCode, SetupRows
<1>4. knows' \in [Browsers -> Nat] /\ knows'[b] = setup.code
  BY <1>1 DEF AcceptCode, SetupRows
<1>5. Challenged'
  BY <1>3, <1>4 DEF Challenged
<1> QED
  BY <1>2, <1>4, <1>5, SetupStep DEF AcceptCode

LEMMA RejectCodeStep ==
  ASSUME Inv, RejectCode
  PROVE  Inv'
<1>1. setup \in SetupRows /\ knows \in [Browsers -> Nat]
  BY DEF Inv, Types
<1>2. PICK n \in Nat : n = setup.failed + 1
  BY <1>1 DEF SetupRows
<1>3. setup' = [setup EXCEPT !.failed = n, !.challenge = None, !.challengeLive = FALSE]
  BY <1>1, <1>2 DEF RejectCode, SetupRows
<1>4. setup' \in SetupRows
  BY <1>1, <1>3 DEF SetupRows
<1>5. setup'.challenge = None
  BY <1>1, <1>3 DEF SetupRows
<1>6. Challenged'
  BY <1>5, AccountsAssumption DEF Challenged
<1> QED
  BY <1>1, <1>4, <1>6, SetupStep DEF RejectCode, historyVars

LEMMA SetupLapsesStep ==
  ASSUME Inv, SetupLapses
  PROVE  Inv'
<1>1. setup \in SetupRows /\ knows \in [Browsers -> Nat] /\ knows' = knows
  BY DEF Inv, Types, SetupLapses, historyVars
<1>2. setup' \in SetupRows
  <2>1. [setup EXCEPT !.codeLive = FALSE] \in SetupRows
    BY <1>1 DEF SetupRows
  <2>2. [setup EXCEPT !.challengeLive = FALSE] \in SetupRows
    BY <1>1 DEF SetupRows
  <2> QED
    BY <2>1, <2>2 DEF SetupLapses
<1>3. setup'.code = setup.code /\ setup'.challenge = setup.challenge
  BY <1>1 DEF SetupLapses, SetupRows
<1>4. Challenged'
  BY <1>1, <1>3 DEF Challenged, Inv
<1> QED
  BY <1>1, <1>2, <1>4, SetupStep DEF SetupLapses, historyVars

\* The first account is made where there is none, so nothing rests on one.
LEMMA FirstAdminStep ==
  ASSUME Inv, NEW u \in Users, NEW p \in Passwords, NoUsers, FirstAdmin(u, p),
         setup' = FreshSetup, knows' = [b \in Browsers |-> 0],
         UNCHANGED <<sessions, throttle, request, guesses>>
  PROVE  Inv'
<1>1. /\ users'[u] = [status |-> "active", role |-> "admin", password |-> p, version |-> 1,
                      code |-> FALSE]
      /\ users' \in [Users -> UserRows]
  <2>1. [status |-> "active", role |-> "admin", password |-> p, version |-> 1,
         code |-> FALSE] \in UserRows
    BY DEF UserRows, Statuses, Roles
  <2> QED
    BY <2>1 DEF FirstAdmin, Inv, Types
<1>2. FreshSetup \in SetupRows /\ FreshSetup.challenge = None
  BY DEF FreshSetup, SetupRows
<1>3. Types'
  BY <1>1, <1>2 DEF Inv, Types
<1>4. AdminRemains'
  <2>1. u \in ActiveAdmins'
    BY <1>1 DEF ActiveAdmins
  <2> QED
    BY <2>1 DEF AdminRemains
<1>5. SessionsRest'
  <2>1. \A s \in Sessions : sessions[s].user = None
    BY DEF Inv, Types, SessionRows, Proved, SessionsRest, NoUsers, Grounded
  <2> QED
    BY <2>1 DEF SessionsRest, Grounded
<1>6. LoginsRest'
  <2>1. \A r \in Requests : request[r].kind # "login"
    BY KindOfRequest DEF Inv, Logins, Proved, LoginsRest, NoUsers
  <2> QED
    BY <2>1 DEF LoginsRest
<1>7. Challenged'
  BY <1>2, AccountsAssumption DEF Challenged
<1>8. Counting'
  BY CountingKept DEF Inv
<1>9. TargetsExist'
  <2>1. \A r \in Requests : request[r].kind \notin {"set", "reset"}
    BY KindOfRequest DEF Inv, AdminChanges, Proved, TargetsExist, Targets, NoUsers
  <2> QED
    BY <2>1 DEF TargetsExist, Targets
<1> QED
  BY <1>3, <1>4, <1>5, <1>6, <1>7, <1>8, <1>9 DEF Inv, Proved

-----------------------------------------------------------------------------
(* Steps that only write what a request remembers, and none a login.       *)

LEMMA RequestStep ==
  ASSUME Inv, NEW r \in Requests, NEW what \in RequestRows, what.kind # "login",
         what.kind \in {"set", "reset"} => users[what.target].status # "none",
         request' = [request EXCEPT ![r] = what],
         UNCHANGED <<users, sessions, throttle, setup, knows, guesses>>
  PROVE  Inv'
<1>1. /\ request' \in [Requests -> RequestRows]
      /\ \A q \in Requests : request'[q] = request[q] \/ request'[q].kind # "login"
  BY OneRequest DEF Inv
<1>2. Types'
  BY <1>1 DEF Inv, Types
<1>3. AdminRemains'
  BY AdminKept DEF Inv
<1>4. SessionsRest'
  BY SameAccounts, SessionsStand DEF Inv, Proved, Kept
<1>5. LoginsRest'
  BY <1>1, SameAccounts, LoginsStand DEF Inv, Proved
<1>6. Challenged'
  BY DEF Inv, Challenged
<1>7. Counting'
  BY <1>1, CountingKept DEF Inv
<1>8. TargetsExist'
  <2>1. request'[r] = what /\ \A q \in Requests \ {r} : request'[q] = request[q]
    BY OneRequest DEF Inv
  <2>2. \A q \in Requests : request'[q] = request[q] \/ Targets(q)'
    BY <2>1 DEF Targets
  <2> QED
    BY <2>2, SameAccounts, TargetsStand DEF Inv, Proved
<1> QED
  BY <1>2, <1>3, <1>4, <1>5, <1>6, <1>7, <1>8 DEF Inv, Proved

LEMMA IdleRow == Idle \in RequestRows /\ Idle.kind = "idle"
BY DEF RequestRows, Idle

LEMMA RefreshSelectsStep ==
  ASSUME Inv, NEW r \in Requests, NEW s \in Sessions, RefreshSelects(r, s)
  PROVE  Inv'
<1>1. [kind |-> "refresh", session |-> s] \in RequestRows
  BY DEF RequestRows, Refreshes
<1> QED
  BY <1>1, RequestStep DEF RefreshSelects, Start, historyVars

LEMMA ChangeLookupStep ==
  ASSUME Inv, NEW r \in Requests, NEW s \in Sessions, NEW p \in Passwords,
         ChangeLookup(r, s, p)
  PROVE  Inv'
<1>1. PICK n \in Nat : n = users[sessions[s].user].version
  BY DEF ChangeLookup, Live, Inv, Types, SessionRows, UserRows
<1>2. [kind |-> "change", session |-> s, new |-> p, version |-> n] \in RequestRows
  BY DEF RequestRows, PasswordChanges
<1> QED
  BY <1>1, <1>2, RequestStep DEF ChangeLookup, Start, historyVars

LEMMA AdminLocksStep ==
  ASSUME Inv, NEW r \in Requests, NEW s \in Sessions, NEW u \in Users,
         NEW change \in Changes, AdminLocks(r, s, u, change)
  PROVE  Inv'
<1>1. /\ change.kind \in {"set", "reset"} /\ change.role \in Roles
      /\ change.status \in Statuses \ {"none"}
  BY AccountsAssumption DEF Roles, Statuses
<1>2. PICK o \in BOOLEAN : o = (u \in ActiveAdmins /\ ActiveAdmins # {u})
  OBVIOUS
<1>3. [kind |-> change.kind, session |-> s, target |-> u, role |-> change.role,
       status |-> change.status, others |-> o] \in RequestRows
  BY <1>1 DEF RequestRows, AdminChanges
<1>4. request' = [request EXCEPT ![r] =
                    [kind |-> change.kind, session |-> s, target |-> u, role |-> change.role,
                     status |-> change.status, others |-> o]]
  BY <1>2 DEF AdminLocks, Start
<1> QED
  BY <1>1, <1>3, <1>4, RequestStep DEF AdminLocks, historyVars

LEMMA RefusalStep ==
  ASSUME Inv, NEW r \in Requests, AdminRefused(r) \/ DeadlockAborts(r)
  PROVE  Inv'
BY IdleRow, RequestStep DEF AdminRefused, DeadlockAborts, End, historyVars

-----------------------------------------------------------------------------
(* Sessions that are refreshed, left or idle.                              *)

LEMMA SessionStep ==
  ASSUME Inv, sessions' \in [Sessions -> SessionRows], \A s \in Sessions : Kept(s),
         request' \in [Requests -> RequestRows],
         \A q \in Requests : Settled(q),
         UNCHANGED <<users, throttle, setup, knows, guesses>>
  PROVE  Inv'
<1>1. Types'
  BY DEF Inv, Types
<1>2. AdminRemains'
  BY AdminKept DEF Inv
<1>3. SessionsRest'
  BY SameAccounts, SessionsStand DEF Inv, Proved
<1>4. LoginsRest' /\ TargetsExist'
  BY SameAccounts, SettledStand DEF Inv, Proved
<1>5. Challenged'
  BY DEF Inv, Challenged
<1>6. Counting'
  BY CountingKept DEF Inv, Settled, Idle
<1> QED
  BY <1>1, <1>2, <1>3, <1>4, <1>5, <1>6 DEF Inv, Proved

\* A step that writes one session.
LEMMA OneSession ==
  ASSUME Types, NEW s \in Sessions, NEW row \in SessionRows,
         sessions' = [sessions EXCEPT ![s] = row]
  PROVE  /\ sessions' \in [Sessions -> SessionRows]
         /\ sessions'[s] = row
         /\ \A t \in Sessions \ {s} : sessions'[t] = sessions[t]
BY DEF Types

\* The expiry of a session says nothing of what it rests on.
LEMMA ExpiryKept ==
  ASSUME Types, NEW s \in Sessions, NEW b \in BOOLEAN,
         sessions' = [sessions EXCEPT ![s].expired = b]
  PROVE  sessions' \in [Sessions -> SessionRows] /\ \A t \in Sessions : Kept(t)
<1>1. PICK row \in SessionRows : row = sessions[s]
  BY DEF Types
<1>2. PICK new \in SessionRows : new = [row EXCEPT !.expired = b]
  BY <1>1 DEF SessionRows
<1>3. /\ new.user = row.user /\ new.revoked = row.revoked /\ new.version = row.version
      /\ new.proof = row.proof
  BY <1>2 DEF SessionRows
<1>4. sessions' = [sessions EXCEPT ![s] = new]
  BY <1>1, <1>2 DEF Types
<1>5. /\ sessions' \in [Sessions -> SessionRows]
      /\ sessions'[s] = new
      /\ \A t \in Sessions \ {s} : sessions'[t] = sessions[t]
  BY <1>4, OneSession
<1> QED
  BY <1>1, <1>3, <1>5 DEF Kept

LEMMA RefreshUpdatesStep ==
  ASSUME Inv, NEW r \in Requests, RefreshUpdates(r)
  PROVE  Inv'
<1>1. PICK s \in Sessions : s = request[r].session
  BY KindOfRequest DEF RefreshUpdates, Refreshes, Inv
<1>2. \/ sessions' = [sessions EXCEPT ![s].expired = FALSE]
      \/ sessions' = sessions
  BY <1>1 DEF RefreshUpdates
<1>3. sessions' \in [Sessions -> SessionRows] /\ \A t \in Sessions : Kept(t)
  <2>1. CASE sessions' = sessions
    BY <2>1 DEF Inv, Types, Kept
  <2>2. CASE sessions' = [sessions EXCEPT ![s].expired = FALSE]
    BY <2>2, ExpiryKept DEF Inv
  <2> QED
    BY <1>2, <2>1, <2>2
<1>4. /\ request' \in [Requests -> RequestRows]
      /\ \A q \in Requests : Settled(q)
  BY IdleRow, OneRequest DEF Inv, RefreshUpdates, End, Settled
<1> QED
  BY <1>3, <1>4, SessionStep DEF RefreshUpdates, historyVars

LEMMA LogoutStep ==
  ASSUME Inv, NEW s \in Sessions, Logout(s)
  PROVE  Inv'
<1>1. PICK row \in SessionRows : row = sessions[s]
  BY DEF Inv, Types
<1>2. PICK new \in SessionRows : new = Revoked(row) /\ new.user = row.user /\ new.revoked
  BY SessionRow
<1>3. sessions' = [sessions EXCEPT ![s] = new]
  BY <1>1, <1>2 DEF Logout
<1>4. /\ sessions' \in [Sessions -> SessionRows]
      /\ sessions'[s] = new
      /\ \A t \in Sessions \ {s} : sessions'[t] = sessions[t]
  BY <1>3, OneSession DEF Inv
<1>5. \A t \in Sessions : Kept(t)
  BY <1>1, <1>2, <1>4 DEF Kept
<1> QED
  BY <1>4, <1>5, SessionStep DEF Logout, Inv, Types, Settled

LEMMA IdleOutStep ==
  ASSUME Inv, NEW s \in Sessions, IdleOut(s)
  PROVE  Inv'
<1>1. sessions' \in [Sessions -> SessionRows] /\ \A t \in Sessions : Kept(t)
  BY ExpiryKept DEF Inv, IdleOut
<1> QED
  BY <1>1, SessionStep DEF IdleOut, historyVars, Inv, Types, Settled

-----------------------------------------------------------------------------
(* Logins and the throttle.                                                *)

LEMMA FailingFinite ==
  ASSUME NEW u \in Users
  PROVE  /\ IsFiniteSet(Failing(u))
         /\ Cardinality(Failing(u)) \in Nat /\ Cardinality(Requests) \in Nat
         /\ Cardinality(Failing(u)) <= Cardinality(Requests)
<1>1. Failing(u) \subseteq Requests
  BY DEF Failing
<1> QED
  BY <1>1, AccountsAssumption, FS_Subset, FS_CardinalityType

\* The counters of another user name.
LEMMA OtherCounts ==
  ASSUME Inv, NEW u \in Users, throttle'[u] = throttle[u], guesses'[u] = guesses[u],
         Failing(u)' \subseteq Failing(u)
  PROVE  Counts(u)'
<1>1. IsFiniteSet(Failing(u)) /\ Cardinality(Requests) \in Nat
  BY FailingFinite
<1>2. /\ Cardinality(Failing(u)') <= Cardinality(Failing(u))
      /\ Cardinality(Failing(u)') \in Nat /\ Cardinality(Failing(u)) \in Nat
  BY <1>1, FS_Subset, FS_CardinalityType
<1>3. guesses[u] \in Nat
  BY DEF Inv, Types
<1> QED
  BY <1>1, <1>2, <1>3, AccountsAssumption DEF Counts, Inv, Counting

LEMMA LoginLookupStep ==
  ASSUME Inv, NEW r \in Requests, NEW u \in Users, NEW p \in Passwords,
         LoginLookup(r, u, p)
  PROVE  Inv'
<1> DEFINE right == Verify(p, users[u].password) /\ users[u].status = "active"
<1>1. PICK n \in Nat : n = users[u].version
  BY DEF Inv, Types, UserRows
<1>2. PICK proof \in Passwords \cup {None} : proof = IF right THEN p ELSE None
  OBVIOUS
<1>3. /\ users[u].status = "active" 
      /\ proof # None => proof = users[u].password
  BY <1>2, AccountsAssumption DEF LoginLookup, AuthLookup, Verify
<1>4. PICK what \in RequestRows :
        what = [kind |-> "login", user |-> u, version |-> n, proof |-> proof]
  BY DEF RequestRows, Logins
<1>5. request' = [request EXCEPT ![r] = what]
  BY <1>1, <1>2, <1>4 DEF LoginLookup, AuthLookup, Start
<1>6. /\ request' \in [Requests -> RequestRows]
      /\ request'[r] = what
      /\ \A q \in Requests \ {r} : request'[q] = request[q]
  BY <1>5, OneRequest DEF Inv
<1>7. Types'
  BY <1>6 DEF Inv, Types, LoginLookup, historyVars
<1>8. AdminRemains'
  BY AdminKept DEF Inv, LoginLookup
<1>9. SessionsRest'
  BY SameAccounts, SessionsStand DEF Inv, Proved, Kept, LoginLookup
<1>10. LoginsRest'
  <2> SUFFICES ASSUME NEW q \in Requests, request'[q].kind = "login"
               PROVE  /\ users'[request'[q].user].status # "none"
                      /\ request'[q].proof # None =>
                           Rests(request[q].user, request[q].version, request[q].proof)'
    BY DEF LoginsRest
  <2>0. users' = users
    BY DEF LoginLookup
  <2>1. CASE q = r
    <3>1. request'[q].user = u /\ request'[q].version = n /\ request'[q].proof = proof
      BY <1>4, <1>6, <2>1
    <3> QED
      BY <1>1, <1>3, <2>0, <3>1 DEF Rests
  <2>2. CASE q # r
    BY <1>6, <2>0, <2>2 DEF Inv, Proved, LoginsRest, Rests
  <2> QED
    BY <2>1, <2>2
<1>11. Challenged'
  BY DEF Inv, Challenged, LoginLookup, historyVars
<1>12. Counting'
  <2> SUFFICES ASSUME NEW v \in Users
               PROVE  Counts(v)'
    BY DEF Counts, Counting
  <2>0. throttle' = throttle /\ guesses' = guesses /\ ~throttle[u].blocked
    BY DEF LoginLookup, historyVars, Blocked
  <2>1. CASE v = u
    <3>1. (Cardinality(Failing(v)) \in Nat /\ Cardinality(Requests) \in Nat
            /\ Cardinality(Failing(v)) <= Cardinality(Requests))'
      <4>1. Failing(v)' \subseteq Requests
        BY DEF Failing
      <4> QED
        BY <4>1, AccountsAssumption, FS_Subset, FS_CardinalityType
    <3>2. guesses[u] \in Nat /\ guesses[u] <= FailureLimit - 1
      BY <2>0 DEF Inv, Types, Counting, Counts
    <3> QED
      BY <2>0, <2>1, <3>1, <3>2, AccountsAssumption DEF Counts, Inv, Counting
  <2>2. CASE v # u
    <3>1. request'[r].user = u
      BY <1>4, <1>6
    <3>2. Failing(v)' \subseteq Failing(v)
      BY <1>6, <2>2, <3>1 DEF Failing
    <3> QED
      BY <2>0, <3>2, OtherCounts
  <2> QED
    BY <2>1, <2>2
<1>13. TargetsExist'
  <2>1. \A q \in Requests : request'[q] = request[q] \/ Targets(q)'
    BY <1>4, <1>6 DEF Targets
  <2> QED
    BY <2>1, SameAccounts, TargetsStand DEF Inv, Proved, LoginLookup
<1> QED
  BY <1>7, <1>8, <1>9, <1>10, <1>11, <1>12, <1>13 DEF Inv, Proved

\* A login that ends is no longer among those that will fail.
LEMMA EndedLogin ==
  ASSUME Types, NEW r \in Requests, End(r)
  PROVE  /\ request' \in [Requests -> RequestRows]
         /\ request'[r].kind # "login"
         /\ \A q \in Requests \ {r} : request'[q] = request[q]
         /\ \A q \in Requests : Settled(q)
         /\ \A u \in Users : Failing(u)' = Failing(u) \ {r}
<1>1. /\ request' \in [Requests -> RequestRows]
      /\ request'[r] = Idle /\ request'[r].kind # "login"
      /\ \A q \in Requests \ {r} : request'[q] = request[q]
  BY IdleRow, OneRequest DEF End
<1>2. \A u \in Users : Failing(u)' = Failing(u) \ {r}
  BY <1>1 DEF Failing
<1> QED
  BY <1>1, <1>2 DEF Settled

\* Only the counters and the requests change: the parts that do not read the counters.
LEMMA ThrottleStep ==
  ASSUME Inv, throttle' \in [Users -> ThrottleRows], guesses' \in [Users -> Nat],
         request' \in [Requests -> RequestRows],
         \A q \in Requests : Settled(q),
         UNCHANGED <<users, sessions, setup, knows>>, Counting'
  PROVE  Inv'
<1>1. Types'
  BY DEF Inv, Types
<1>2. AdminRemains'
  BY AdminKept DEF Inv
<1>3. SessionsRest'
  BY SameAccounts, SessionsStand DEF Inv, Proved, Kept
<1>4. LoginsRest' /\ TargetsExist'
  BY SameAccounts, SettledStand DEF Inv, Proved
<1>5. Challenged'
  BY DEF Inv, Challenged
<1> QED
  BY <1>1, <1>2, <1>3, <1>4, <1>5 DEF Inv, Proved

\* A failure is counted: one guess more, one login under way less.  A client that is
\* still not blocked was not blocked before, and its counter has not reached the cap.
LEMMA LoginFailsStep ==
  ASSUME Inv, NEW r \in Requests, LoginFails(r)
  PROVE  Inv'
<1>0. /\ throttle \in [Users -> ThrottleRows] /\ guesses \in [Users -> Nat] /\ Types
  BY DEF Inv, Types
<1>1. PICK u \in Users : u = request[r].user
  BY <1>0, KindOfRequest DEF LoginFails, Logins
<1>2. PICK t \in ThrottleRows : t = throttle[u]
  BY <1>0
<1>3. PICK c \in ThrottleRows : c = Counted(t)
  BY CountedRow
<1>4. throttle' = [throttle EXCEPT ![u] = c] /\ guesses' = [guesses EXCEPT ![u] = @ + 1]
  BY <1>1, <1>2, <1>3 DEF LoginFails
<1>5. /\ throttle' \in [Users -> ThrottleRows]
      /\ throttle'[u] = c
      /\ \A v \in Users \ {u} : throttle'[v] = throttle[v]
  BY <1>0, <1>4
<1>6. /\ guesses' \in [Users -> Nat]
      /\ guesses'[u] = guesses[u] + 1
      /\ \A v \in Users \ {u} : guesses'[v] = guesses[v]
  BY <1>0, <1>4
<1>7. /\ request' \in [Requests -> RequestRows]
      /\ \A q \in Requests : Settled(q)
      /\ \A v \in Users : Failing(v)' = Failing(v) \ {r}
  BY <1>0, EndedLogin DEF LoginFails
<1>8. Counting'
  <2> SUFFICES ASSUME NEW v \in Users
               PROVE  Counts(v)'
    BY DEF Counting
  <2>1. CASE v = u
    <3>1. r \in Failing(u)
      BY <1>1 DEF Failing, LoginFails
    <3>2. /\ Cardinality(Failing(u)) \in Nat /\ Cardinality(Requests) \in Nat
          /\ Cardinality(Failing(u)') = Cardinality(Failing(u)) - 1
      BY <1>7, <3>1, FailingFinite, FS_RemoveElement
    <3>3. /\ c.count = IF t.count < FailureCap THEN t.count + 1 ELSE FailureCap
          /\ c.blocked <=> c.count >= FailureLimit
      BY <1>3, CountedRow
    <3>4. Counts(u) /\ guesses[u] \in Nat
      BY <1>0 DEF Inv, Counting
    <3>5. t.count \in Nat /\ c.count \in Nat
      BY DEF ThrottleRows
    <3>6. guesses'[u] + Cardinality(Failing(u)')
            <= (FailureLimit - 1) + Cardinality(Requests)
      BY <1>6, <3>2, <3>4, AccountsAssumption DEF Counts
    <3>7. c.blocked => c.count >= FailureLimit
      BY <3>3
    <3>8. ASSUME ~c.blocked
          PROVE  guesses'[u] <= FailureLimit - 1 /\ guesses'[u] <= c.count
      <4>1. c.count < FailureLimit /\ c.count = t.count + 1
        BY <3>3, <3>5, <3>8, AccountsAssumption
      <4>2. ~t.blocked
        BY <1>2, <3>4, <3>5, <4>1, AccountsAssumption DEF Counts
      <4>3. guesses[u] <= t.count
        BY <1>2, <3>4, <4>2 DEF Counts
      <4> QED
        BY <1>6, <3>4, <3>5, <4>1, <4>3, AccountsAssumption
    <3> QED
      BY <1>5, <2>1, <3>6, <3>7, <3>8 DEF Counts
  <2>2. CASE v # u
    BY <1>5, <1>6, <1>7, <2>2, OtherCounts
  <2> QED
    BY <2>1, <2>2
<1> QED
  BY <1>5, <1>6, <1>7, <1>8, ThrottleStep DEF LoginFails

\* A client that is let in, or forgotten, has made no guesses.
LEMMA NoGuesses ==
  ASSUME Inv, NEW u \in Users, guesses'[u] = 0, throttle'[u] \in ThrottleRows,
         ~throttle'[u].blocked
  PROVE  Counts(u)'
<1>1. /\ Cardinality(Failing(u)') \in Nat /\ Cardinality(Requests) \in Nat
      /\ Cardinality(Failing(u)') <= Cardinality(Requests)
  <2>1. Failing(u)' \subseteq Requests
    BY DEF Failing
  <2> QED
    BY <2>1, AccountsAssumption, FS_Subset, FS_CardinalityType
<1>2. throttle'[u].count \in Nat
  BY DEF ThrottleRows
<1> QED
  BY <1>1, <1>2, AccountsAssumption DEF Counts

LEMMA ClearedRow == Cleared \in ThrottleRows /\ Cleared.blocked = FALSE
BY DEF Cleared, ThrottleRows

LEMMA ThrottleLapsesStep ==
  ASSUME Inv, NEW u \in Users, ThrottleLapses(u)
  PROVE  Inv'
<1>0. throttle \in [Users -> ThrottleRows] /\ guesses \in [Users -> Nat]
  BY DEF Inv, Types
<1>1. PICK t \in ThrottleRows : t = throttle[u]
  BY <1>0
<1>2. /\ [t EXCEPT !.blocked = FALSE] \in ThrottleRows
      /\ [t EXCEPT !.blocked = FALSE].blocked = FALSE
  BY DEF ThrottleRows
<1>3. PICK c \in ThrottleRows : ~c.blocked /\ throttle' = [throttle EXCEPT ![u] = c]
  <2>1. CASE t.blocked
    BY <1>1, <1>2, <2>1 DEF ThrottleLapses, Blocked
  <2>2. CASE ~t.blocked
    BY <1>1, <2>2, ClearedRow DEF ThrottleLapses, Blocked
  <2> QED
    BY <2>1, <2>2
<1>4. /\ throttle' \in [Users -> ThrottleRows] /\ throttle'[u] = c
      /\ \A v \in Users \ {u} : throttle'[v] = throttle[v]
  BY <1>0, <1>3
<1>5. /\ guesses' \in [Users -> Nat] /\ guesses'[u] = 0
      /\ \A v \in Users \ {u} : guesses'[v] = guesses[v]
  BY <1>0 DEF ThrottleLapses
<1>6. request' = request
  BY DEF ThrottleLapses
<1>7. Counting'
  <2> SUFFICES ASSUME NEW v \in Users
               PROVE  Counts(v)'
    BY DEF Counting
  <2>1. CASE v = u
    BY <1>3, <1>4, <1>5, <2>1, NoGuesses
  <2>2. CASE v # u
    <3>1. Failing(v)' \subseteq Failing(v)
      BY <1>6 DEF Failing
    <3> QED
      BY <1>4, <1>5, <2>2, <3>1, OtherCounts
  <2> QED
    BY <2>1, <2>2
<1> QED
  BY <1>4, <1>5, <1>6, <1>7, ThrottleStep DEF ThrottleLapses, Inv, Types, Settled

\* The session is opened on the version that was verified, so on the password that was.
LEMMA LoginSucceedsStep ==
  ASSUME Inv, NEW r \in Requests, NEW s \in Sessions, LoginSucceeds(r, s)
  PROVE  Inv'
<1>0. /\ throttle \in [Users -> ThrottleRows] /\ guesses \in [Users -> Nat]
      /\ Types /\ Proved
  BY DEF Inv, Types
<1>1. PICK u \in Users, n \in Nat, p \in Passwords :
        u = request[r].user /\ n = request[r].version /\ p = request[r].proof
  BY <1>0, KindOfRequest DEF LoginSucceeds, Logins
<1>2. /\ request' \in [Requests -> RequestRows]
      /\ \A q \in Requests : Settled(q)
      /\ \A v \in Users : Failing(v)' = Failing(v) \ {r}
  BY <1>0, EndedLogin DEF LoginSucceeds
<1>3. UNCHANGED <<users, setup, knows>>
  BY DEF LoginSucceeds
<1>4. CASE ~Issuable(u, n)
  <2>1. UNCHANGED <<sessions, throttle, guesses>>
    BY <1>1, <1>4 DEF LoginSucceeds
  <2>2. Counting'
    BY <1>0, <1>2, <2>1, CountingKept DEF Inv, Settled, Idle
  <2> QED
    BY <1>0, <1>2, <1>3, <2>1, <2>2, ThrottleStep
<1>5. CASE Issuable(u, n)
  <2>1. /\ sessions' = [sessions EXCEPT ![s] = Issued(u, users[u].version, p)]
        /\ throttle' = [throttle EXCEPT ![u] = Cleared]
        /\ guesses' = [guesses EXCEPT ![u] = 0]
    BY <1>1, <1>5 DEF LoginSucceeds
  <2>2. users[u].version = n /\ users[u].status = "active"
    BY <1>5 DEF Issuable
  <2>3. /\ throttle' \in [Users -> ThrottleRows] /\ throttle'[u] = Cleared
        /\ \A v \in Users \ {u} : throttle'[v] = throttle[v]
    BY <1>0, <2>1, ClearedRow
  <2>4. /\ guesses' \in [Users -> Nat] /\ guesses'[u] = 0
        /\ \A v \in Users \ {u} : guesses'[v] = guesses[v]
    BY <1>0, <2>1
  <2>5. PICK row \in SessionRows : row = Issued(u, n, p)
    BY IssuedRow
  <2>6. row.user = u /\ row.version = n /\ row.proof = p
    BY <2>5 DEF Issued
  <2>7. /\ sessions' \in [Sessions -> SessionRows]
        /\ sessions'[s] = row
        /\ \A t \in Sessions \ {s} : sessions'[t] = sessions[t]
    BY <1>0, <2>1, <2>2, <2>5, OneSession
  <2>8. Types'
    BY <1>2, <1>3, <2>3, <2>4, <2>7 DEF Inv, Types
  <2>9. AdminRemains'
    BY <1>3, AdminKept DEF Inv
  <2>10. SessionsRest'
    <3>1. Rests(u, n, p)
      BY <1>0, <1>1, AccountsAssumption DEF LoginSucceeds, Proved, LoginsRest
    <3>2. Grounded(s)'
      BY <1>3, <2>6, <2>7, <3>1 DEF Grounded, Rests
    <3>3. \A t \in Sessions : Kept(t) \/ Grounded(t)'
      BY <2>7, <3>2 DEF Kept
    <3> QED
      BY <1>0, <1>3, <3>3, SameAccounts, SessionsStand DEF Proved
  <2>11. LoginsRest' /\ TargetsExist'
    BY <1>0, <1>2, <1>3, SameAccounts, SettledStand DEF Proved
  <2>12. Challenged'
    BY <1>3 DEF Inv, Challenged
  <2>13. Counting'
    <3> SUFFICES ASSUME NEW v \in Users
                 PROVE  Counts(v)'
      BY DEF Counting
    <3>1. CASE v = u
      BY <2>3, <2>4, <3>1, ClearedRow, NoGuesses
    <3>2. CASE v # u
      BY <1>2, <2>3, <2>4, <3>2, OtherCounts
    <3> QED
      BY <3>1, <3>2
  <2> QED
    BY <2>8, <2>9, <2>10, <2>11, <2>12, <2>13 DEF Inv, Proved
<1> QED
  BY <1>4, <1>5

-----------------------------------------------------------------------------
(* Steps that write an account.                                            *)

LEMMA AccountStep ==
  ASSUME Inv, users' \in [Users -> UserRows], sessions' \in [Sessions -> SessionRows],
         request' \in [Requests -> RequestRows],
         \A q \in Requests : Settled(q),
         UNCHANGED <<throttle, setup, knows, guesses>>,
         AdminRemains', Standing, \A s \in Sessions : Kept(s) \/ Grounded(s)'
  PROVE  Inv'
<1>1. Types'
  BY DEF Inv, Types
<1>2. SessionsRest'
  BY SessionsStand DEF Inv, Proved
<1>3. LoginsRest' /\ TargetsExist'
  BY SettledStand DEF Inv, Proved
<1>4. Challenged'
  BY DEF Inv, Challenged
<1>5. Counting'
  BY CountingKept DEF Inv, Settled, Idle
<1> QED
  BY <1>1, <1>2, <1>3, <1>4, <1>5 DEF Inv, Proved

\* A step that writes one account.
LEMMA OneAccount ==
  ASSUME Types, NEW u \in Users, NEW row \in UserRows, users' = [users EXCEPT ![u] = row]
  PROVE  /\ users' \in [Users -> UserRows]
         /\ users'[u] = row
         /\ \A v \in Users \ {u} : users'[v] = users[v]
BY DEF Types

\* An administrator other than the account that is written remains one.
LEMMA OtherAdmin ==
  ASSUME NEW u \in Users, \A v \in Users \ {u} : users'[v] = users[v],
         NEW a \in ActiveAdmins, a # u
  PROVE  AdminRemains'
<1>1. a \in ActiveAdmins'
  BY DEF ActiveAdmins
<1> QED
  BY <1>1 DEF AdminRemains

LEMMA CodeLapsesStep ==
  ASSUME Inv, NEW u \in Users, CodeLapses(u)
  PROVE  Inv'
<1>0. Types
  BY DEF Inv
<1>1. PICK old \in UserRows : old = users[u]
  BY <1>0 DEF Types
<1>2. PICK row \in UserRows : row = [old EXCEPT !.code = FALSE]
  BY DEF UserRows
<1>3. /\ row.status = old.status /\ row.role = old.role /\ row.version = old.version
      /\ row.password = old.password
  BY <1>2 DEF UserRows
<1>4. users' = [users EXCEPT ![u] = row]
  BY <1>0, <1>1, <1>2 DEF CodeLapses, Types
<1>5. /\ users' \in [Users -> UserRows]
      /\ users'[u] = row
      /\ \A v \in Users \ {u} : users'[v] = users[v]
  BY <1>0, <1>4, OneAccount
<1>6. \A v \in Users : /\ users'[v].status = users[v].status
                       /\ users'[v].role = users[v].role
                       /\ users'[v].version = users[v].version
                       /\ users'[v].password = users[v].password
  BY <1>1, <1>3, <1>5
<1>7. AdminRemains'
  BY <1>6 DEF Inv, AdminRemains, NoUsers, ActiveAdmins
<1>8. Standing
  BY <1>6 DEF Standing, Rests
<1>9. UNCHANGED <<sessions, throttle, setup, request, knows, guesses>>
  BY DEF CodeLapses, historyVars
<1> QED
  BY <1>0, <1>5, <1>7, <1>8, <1>9, AccountStep DEF Types, Kept, Settled

\* The administrator that creates an account is another one.
LEMMA CreateUserStep ==
  ASSUME Inv, NEW s \in Sessions, NEW u \in Users, NEW role \in Roles,
         CreateUser(s, u, role)
  PROVE  Inv'
<1>0. Types
  BY DEF Inv
<1>1. PICK row \in UserRows :
        row = [status |-> "pending_activation", role |-> role, password |-> None,
               version |-> 1, code |-> TRUE]
  BY DEF UserRows, Statuses
<1>2. users' = [users EXCEPT ![u] = row] /\ users[u].status = "none"
  BY <1>1 DEF CreateUser
<1>3. /\ users' \in [Users -> UserRows]
      /\ users'[u] = row
      /\ \A v \in Users \ {u} : users'[v] = users[v]
  BY <1>0, <1>2, OneAccount
<1>4. AdminRemains'
  <2>1. PICK a \in Users : a = sessions[s].user
    BY <1>0 DEF CreateUser, RequireAdmin, ActivateActor, Live, Types, SessionRows
  <2>2. a \in ActiveAdmins
    BY <2>1 DEF CreateUser, RequireAdmin, ActivateActor, Live, ActiveAdmins
  <2>3. a # u
    BY <1>2, <2>2 DEF ActiveAdmins
  <2> QED
    BY <1>3, <2>2, <2>3, OtherAdmin
<1>5. Standing
  <2>1. users'[u].status # "none"
    BY <1>1, <1>3
  <2> QED
    BY <1>2, <1>3, <2>1 DEF Standing, Rests
<1>6. UNCHANGED <<sessions, throttle, setup, request, knows, guesses>>
  BY DEF CreateUser, historyVars
<1> QED
  BY <1>0, <1>3, <1>4, <1>5, <1>6, AccountStep DEF Types, Kept, Settled

\* An activation gives the account a password and opens a session that knows it.
LEMMA ActivateStep ==
  ASSUME Inv, NEW u \in Users, NEW p \in Passwords, NEW s \in Sessions,
         Activate(u, p, s)
  PROVE  Inv'
<1>0. Types
  BY DEF Inv
<1>1. PICK old \in UserRows : old = users[u]
  BY <1>0 DEF Types
<1>2. PICK row \in UserRows : row = Activated(old, p)
  BY KeyedRow
<1>3. /\ row.status = "active" /\ row.role = old.role /\ row.password = p
      /\ row.version = old.version + 1
  BY <1>2, KeyedRow
<1>4. users' = [users EXCEPT ![u] = row]
  BY <1>0, <1>1, <1>2 DEF Activate, Activated, Types
<1>5. /\ users' \in [Users -> UserRows]
      /\ users'[u] = row
      /\ \A v \in Users \ {u} : users'[v] = users[v]
  BY <1>0, <1>4, OneAccount
<1>6. PICK n \in Nat : n = old.version + 1
  BY DEF UserRows
<1>7. PICK new \in SessionRows : new = Issued(u, n, p)
  BY IssuedRow
<1>8. new.user = u /\ new.version = n /\ new.proof = p
  BY <1>7 DEF Issued
<1>9. sessions' = [sessions EXCEPT ![s] = new]
  BY <1>1, <1>6, <1>7 DEF Activate
<1>10. /\ sessions' \in [Sessions -> SessionRows]
       /\ sessions'[s] = new
       /\ \A t \in Sessions \ {s} : sessions'[t] = sessions[t]
  BY <1>0, <1>9, OneSession
<1>11. AdminRemains'
  <2>1. users[u].status = "pending_activation"
    BY DEF Activate, Activatable
  <2>2. PICK a \in ActiveAdmins : TRUE
    BY <2>1 DEF Inv, AdminRemains, NoUsers
  <2>3. a # u
    BY <2>1 DEF ActiveAdmins
  <2> QED
    BY <1>5, <2>3, OtherAdmin
<1>12. UNCHANGED <<throttle, setup, request, knows, guesses>>
  BY DEF Activate, historyVars
<1>13. Standing
  <2>1. Types'
    BY <1>0, <1>5, <1>10, <1>12 DEF Types
  <2>2. users'[u].status # "none" /\ users'[u].version > users[u].version
    BY <1>1, <1>3, <1>5 DEF UserRows
  <2> QED
    BY <1>0, <1>5, <2>1, <2>2, NewVersion
<1>14. Grounded(s)'
  BY <1>3, <1>5, <1>6, <1>8, <1>10 DEF Grounded, Rests
<1>15. \A t \in Sessions : Kept(t) \/ Grounded(t)'
  BY <1>10, <1>14 DEF Kept
<1> QED
  BY <1>0, <1>5, <1>10, <1>11, <1>12, <1>13, <1>15, AccountStep DEF Types, Settled

\* The other sessions of an account are revoked, or keep what they rest on.
LEMMA RevokedAll ==
  ASSUME Types, NEW u \in Users
  PROVE  /\ RevokeAll(u) \in [Sessions -> SessionRows]
         /\ \A t \in Sessions :
              /\ RevokeAll(u)[t].user = sessions[t].user
              /\ RevokeAll(u)[t].revoked \/ RevokeAll(u)[t] = sessions[t]
<1> SUFFICES ASSUME NEW t \in Sessions
             PROVE  /\ RevokeAll(u)[t] \in SessionRows
                    /\ RevokeAll(u)[t].user = sessions[t].user
                    /\ RevokeAll(u)[t].revoked \/ RevokeAll(u)[t] = sessions[t]
  BY DEF RevokeAll
<1>1. PICK row \in SessionRows : row = sessions[t]
  BY DEF Types
<1>2. CASE t \in OpenSessions(u)
  <2>1. RevokeAll(u)[t] = Revoked(row)
    BY <1>1, <1>2 DEF RevokeAll
  <2> QED
    BY <1>1, <2>1, SessionRow
<1>3. CASE t \notin OpenSessions(u)
  BY <1>1, <1>3 DEF RevokeAll
<1> QED
  BY <1>2, <1>3

\* A change of the password opens a session that knows the new one.
LEMMA ChangePasswordStep ==
  ASSUME Inv, NEW r \in Requests, NEW s \in Sessions, ChangePassword(r, s)
  PROVE  Inv'
<1>0. Types
  BY DEF Inv
<1>1. PICK mine \in Sessions, p \in Passwords, n \in Nat :
        mine = request[r].session /\ p = request[r].new /\ n = request[r].version
  BY <1>0, KindOfRequest DEF ChangePassword, PasswordChanges
<1>2. /\ request' \in [Requests -> RequestRows]
      /\ \A q \in Requests : Settled(q)
  BY <1>0, EndedLogin DEF ChangePassword
<1>3. UNCHANGED <<throttle, setup, knows, guesses>>
  BY DEF ChangePassword
<1>4. CASE UNCHANGED <<users, sessions>>
  <2>1. \A t \in Sessions : Kept(t)
    BY <1>4 DEF Kept
  <2> QED
    BY <1>0, <1>2, <1>3, <1>4, <2>1, SessionStep DEF Types
<1>5. CASE ~UNCHANGED <<users, sessions>>
  <2>1. Live(mine) /\ users[sessions[mine].user].version = n
    BY <1>1, <1>5 DEF ChangePassword
  <2>2. PICK u \in Users : u = sessions[mine].user
    BY <1>0, <2>1 DEF Live, Types, SessionRows
  <2>3. /\ users' = [users EXCEPT ![u].password = p, ![u].version = @ + 1]
        /\ sessions' = [RevokeAll(u) EXCEPT ![s] = Issued(u, n + 1, p)]
    BY <1>1, <1>5, <2>1, <2>2 DEF ChangePassword
  <2>4. PICK old \in UserRows : old = users[u]
    BY <1>0 DEF Types
  <2>5. PICK row \in UserRows : row = Rekeyed(old, p)
    BY KeyedRow
  <2>6. /\ row.status = old.status /\ row.role = old.role /\ row.password = p
        /\ row.version = old.version + 1
    BY <2>5, KeyedRow
  <2>7. users' = [users EXCEPT ![u] = row]
    BY <1>0, <2>3, <2>4, <2>5 DEF Rekeyed, Types
  <2>8. /\ users' \in [Users -> UserRows]
        /\ users'[u] = row
        /\ \A v \in Users \ {u} : users'[v] = users[v]
    BY <1>0, <2>7, OneAccount
  <2>9. PICK m \in Nat : m = n + 1
    OBVIOUS
  <2>10. PICK new \in SessionRows : new = Issued(u, m, p)
    BY IssuedRow
  <2>11. new.user = u /\ new.version = m /\ new.proof = p
    BY <2>10 DEF Issued
  <2>12. PICK rest \in [Sessions -> SessionRows] :
           /\ rest = RevokeAll(u)
           /\ \A t \in Sessions : /\ rest[t].user = sessions[t].user
                                  /\ rest[t].revoked \/ rest[t] = sessions[t]
    BY <1>0, RevokedAll
  <2>13. /\ sessions' \in [Sessions -> SessionRows]
         /\ sessions'[s] = new
         /\ \A t \in Sessions \ {s} : sessions'[t] = rest[t]
    BY <2>3, <2>9, <2>10, <2>12
  <2>14. AdminRemains'
    <3>1. \A v \in Users : users'[v].status = users[v].status /\ users'[v].role = users[v].role
      BY <2>4, <2>6, <2>8
    <3> QED
      BY <3>1 DEF Inv, AdminRemains, NoUsers, ActiveAdmins
  <2>15. Standing
    <3>1. Types'
      BY <1>0, <1>2, <1>3, <2>8, <2>13 DEF Types
    <3>2. users'[u].status # "none" /\ users'[u].version > users[u].version
      BY <2>1, <2>2, <2>4, <2>6, <2>8 DEF UserRows, Live
    <3> QED
      BY <1>0, <2>8, <3>1, <3>2, NewVersion
  <2>16. Grounded(s)'
    <3>1. users'[u].version = m /\ users'[u].password = p /\ users'[u].status # "none"
      BY <2>1, <2>2, <2>4, <2>6, <2>8, <2>9 DEF Live
    <3> QED
      BY <2>11, <2>13, <3>1 DEF Grounded, Rests
  <2>17. \A t \in Sessions : Kept(t) \/ Grounded(t)'
    BY <2>12, <2>13, <2>16 DEF Kept
  <2> QED
    BY <1>2, <1>3, <2>8, <2>13, <2>14, <2>15, <2>17, AccountStep
<1> QED
  BY <1>4, <1>5

\* Where there is more than one there is another.
LEMMA AnotherAdmin ==
  ASSUME NEW u, Cardinality(ActiveAdmins) > 1
  PROVE  \E a \in ActiveAdmins : a # u
<1> SUFFICES ASSUME \A a \in ActiveAdmins : a = u
             PROVE  FALSE
  OBVIOUS
<1>1. ActiveAdmins = {} \/ ActiveAdmins = {u}
  OBVIOUS
<1>2. Cardinality({}) = 0 /\ Cardinality({u}) = 1
  BY FS_EmptySet, FS_Singleton
<1> QED
  BY <1>1, <1>2

\* An administrator's change is committed under the final-administrator lock: the
\* administrators are those of this moment.
LEMMA AdminCommitsStep ==
  ASSUME Inv, NEW r \in Requests, AdminCommits(r)
  PROVE  Inv'
<1>0. Types
  BY DEF Inv
<1>1. PICK q \in AdminChanges : q = request[r]
  BY <1>0, KindOfRequest DEF AdminCommits
<1>2. PICK u \in Users : u = q.target
  BY DEF AdminChanges
<1>3. PICK old \in UserRows : old = users[u]
  BY <1>0 DEF Types
<1>4. PICK row \in UserRows :
        /\ row = IF q.kind = "set" THEN SetRow(old, q) ELSE ResetRow(old)
        /\ row.version = old.version + 1
        /\ row.status # "none"
        /\ q.kind = "set" => row.status = q.status /\ row.role = q.role
  <2>1. q.status # "none"
    BY DEF AdminChanges
  <2>2. CASE q.kind = "set"
    BY <2>1, <2>2, ChangedRow
  <2>3. CASE q.kind # "set"
    BY <2>3, ChangedRow
  <2> QED
    BY <2>2, <2>3
<1>5. users' = [users EXCEPT ![u] = row]
  BY <1>0, <1>1, <1>2, <1>3, <1>4 DEF AdminCommits, Types
<1>6. /\ users' \in [Users -> UserRows]
      /\ users'[u] = row
      /\ \A v \in Users \ {u} : users'[v] = users[v]
  BY <1>0, <1>5, OneAccount
<1>7. /\ sessions' \in [Sessions -> SessionRows]
      /\ \A t \in Sessions : Kept(t)
  <2>1. sessions' = RevokeAll(u)
    BY <1>1, <1>2 DEF AdminCommits
  <2> QED
    BY <1>0, <2>1, RevokedAll DEF Kept
<1>8. /\ request' \in [Requests -> RequestRows]
      /\ \A x \in Requests : Settled(x)
  BY <1>0, EndedLogin DEF AdminCommits
<1>9. UNCHANGED <<throttle, setup, knows, guesses>>
  BY DEF AdminCommits
<1>10. AdminRemains'
  <2>1. LeavesAdmin(q)
    BY <1>1 DEF AdminCommits, Admissible
  <2>2. CASE u \in ActiveAdmins /\ q.kind = "set" /\ q.role = "admin" /\ q.status = "active"
    <3>1. u \in ActiveAdmins'
      BY <1>4, <1>6, <2>2 DEF ActiveAdmins
    <3> QED
      BY <3>1 DEF AdminRemains
  <2>3. CASE Cardinality(ActiveAdmins) > 1
    BY <1>6, <2>3, AnotherAdmin, OtherAdmin
  <2>4. CASE u \notin ActiveAdmins
    <3>1. CASE ActiveAdmins = {}
      <4>1. NoUsers
        BY <3>1 DEF Inv, AdminRemains
      <4> QED
        BY <1>1, <1>2, <4>1 DEF AdminCommits, Inv, Proved, TargetsExist, Targets, NoUsers
    <3>2. CASE ActiveAdmins # {}
      BY <1>6, <2>4, <3>2, OtherAdmin
    <3> QED
      BY <3>1, <3>2
  <2> QED
    BY <1>2, <2>1, <2>2, <2>3, <2>4 DEF LeavesAdmin
<1>11. Standing
  <2>1. Types'
    BY <1>0, <1>6, <1>7, <1>8, <1>9 DEF Types
  <2>2. users'[u].version > users[u].version
    BY <1>3, <1>4, <1>6 DEF UserRows
  <2> QED
    BY <1>0, <1>4, <1>6, <2>1, <2>2, NewVersion
<1> QED
  BY <1>6, <1>7, <1>8, <1>9, <1>10, <1>11, AccountStep

-----------------------------------------------------------------------------
(* The theorems.                                                           *)

LEMMA InitInv ==
  ASSUME Init
  PROVE  Inv
<1>1. /\ NoUser \in UserRows /\ NoSession \in SessionRows /\ Cleared \in ThrottleRows
      /\ FreshSetup \in SetupRows /\ Idle \in RequestRows
  BY IdleRow, ClearedRow
     DEF NoUser, NoSession, FreshSetup, UserRows, SessionRows, SetupRows, Statuses, Roles
<1>2. Types
  BY <1>1 DEF Init, Types
<1>3. AdminRemains
  BY DEF Init, AdminRemains, NoUsers, NoUser
<1>4. Proved
  BY DEF Init, Proved, SessionsRest, Grounded, LoginsRest, TargetsExist, Targets, NoSession, Idle
<1>5. Challenged
  BY AccountsAssumption DEF Init, Challenged, FreshSetup
<1>6. Counting
  <2> SUFFICES ASSUME NEW u \in Users
               PROVE  Counts(u)
    BY DEF Counting
  <2>1. /\ Cardinality(Failing(u)) \in Nat /\ Cardinality(Requests) \in Nat
        /\ Cardinality(Failing(u)) <= Cardinality(Requests)
    BY FailingFinite
  <2>2. ~throttle[u].blocked /\ throttle[u].count = 0 /\ guesses[u] = 0
    BY DEF Init, Cleared
  <2> QED
    BY <2>1, <2>2, AccountsAssumption DEF Counts
<1> QED
  BY <1>2, <1>3, <1>4, <1>5, <1>6 DEF Inv

\* A step that changes nothing.
LEMMA StutterStep ==
  ASSUME Inv, UNCHANGED vars
  PROVE  Inv'
<1>1. \A t \in Sessions : Kept(t)
  BY DEF vars, Kept
<1> QED
  BY <1>1, SessionStep DEF vars, Inv, Types, Settled

\* Every step keeps the invariant: one case for each route, the console and the clock.
LEMMA NextInv ==
  ASSUME Inv, [Next]_vars
  PROVE  Inv'
<1>1. CASE PostChallenge
  BY <1>1, RejectCodeStep, AcceptCodeStep DEF PostChallenge
<1>2. CASE PostOwner
  BY <1>2, FirstAdminStep DEF PostOwner, CompleteOwner, CodeOpen
<1>3. CASE Console
  BY <1>3, IssueCodeStep, FirstAdminStep DEF Console, BootstrapFirstAdmin
<1>4. CASE PostLogin
  BY <1>4, LoginLookupStep, LoginFailsStep, LoginSucceedsStep DEF PostLogin
<1>5. CASE PostActivate
  BY <1>5, ActivateStep DEF PostActivate
<1>6. CASE PostPassword
  BY <1>6, ChangePasswordStep, ChangeLookupStep DEF PostPassword
<1>7. CASE PostRefresh
  BY <1>7, RefreshUpdatesStep, RefreshSelectsStep DEF PostRefresh
<1>8. CASE PostLogout
  BY <1>8, LogoutStep DEF PostLogout
<1>9. CASE PostUser
  BY <1>9, CreateUserStep DEF PostUser
<1>10. CASE MutateUser
  BY <1>10, AdminLocksStep, AdminCommitsStep, RefusalStep DEF MutateUser
<1>11. CASE TimePasses
  BY <1>11, SetupLapsesStep, IdleOutStep, ThrottleLapsesStep, CodeLapsesStep DEF TimePasses
<1>12. CASE UNCHANGED vars
  BY <1>12, StutterStep
<1> QED
  BY <1>1, <1>2, <1>3, <1>4, <1>5, <1>6, <1>7, <1>8, <1>9, <1>10, <1>11, <1>12 DEF Next

\* The inductive invariant of the accounts holds in every behaviour of their routes.
THEOREM Invariance == Spec => []Inv
<1>1. Init => Inv
  BY InitInv
<1>2. Inv /\ [Next]_vars => Inv'
  BY NextInv
<1> QED
  BY <1>1, <1>2, PTL DEF Spec

\* v4_admin_set_user and v4_admin_reset_user never take the last administrator away,
\* for any number of accounts, sessions and requests that overlap.
THEOREM AdminRemainsHolds == Spec => []AdminRemains
<1>1. Inv => AdminRemains
  BY DEF Inv
<1> QED
  BY <1>1, Invariance, PTL

\* Whoever works in a session has shown the password the account has now, however
\* v4_issue_login_session and v4_change_password interleave with resets.
THEOREM SessionKnowsPasswordHolds == Spec => []SessionKnowsPassword
<1>1. Inv => SessionKnowsPassword
  <2> SUFFICES ASSUME Inv, NEW s \in Sessions, Live(s)
               PROVE  sessions[s].proof = users[sessions[s].user].password
    BY DEF SessionKnowsPassword
  <2>1. Grounded(s)
    BY DEF Inv, Proved, SessionsRest
  <2> QED
    BY <2>1 DEF Grounded, Rests, Live
<1> QED
  BY <1>1, Invariance, PTL

\* The throttle bounds the failed logins by its limit and the requests under way, for
\* every limit, cap and number of requests.
THEOREM GuessesBoundedHolds == Spec => []GuessesBounded
<1>1. Inv => GuessesBounded
  <2> SUFFICES ASSUME Inv, NEW u \in Users
               PROVE  guesses[u] <= (FailureLimit - 1) + Cardinality(Requests)
    BY DEF GuessesBounded
  <2>1. Cardinality(Failing(u)) \in Nat /\ Cardinality(Requests) \in Nat
    BY FailingFinite
  <2>2. Counts(u) /\ guesses[u] \in Nat
    BY DEF Inv, Counting, Types
  <2> QED
    BY <2>1, <2>2, AccountsAssumption DEF Counts
<1> QED
  BY <1>1, Invariance, PTL

\* v8_complete_owner_setup makes the first administrator only for a browser that has
\* proved the code issued last.
THEOREM OwnerProvedTheCodeHolds == Spec => OwnerProvedTheCode
<1>1. Inv /\ [Next]_vars =>
        [\A b \in Browsers, u \in Users, p \in Passwords :
           CompleteOwner(b, u, p) => knows[b] = setup.code]_vars
  BY DEF Inv, Challenged, CompleteOwner
<1> QED
  BY <1>1, Invariance, PTL DEF Spec, OwnerProvedTheCode

-----------------------------------------------------------------------------
(* The runtime configuration and its controller.                           *)

Environments == UNION {Range(c) : c \in Configs}

Confirmations == [session : AdminSessions, base : Nat, config : Configs,
                  consumed : BOOLEAN, fresh : BOOLEAN]
Working == {"draining", "applying", "restarting", "validating", "rolling_back"}
States == Active \cup Terminal
Stages == {"queued", "preflight"} \cup Working \cup Terminal
Reasons == {"none", "reported", "controller_unavailable"}
ChangeRows == [session : AdminSessions, preview : Nat, prior : Nat, desired : Nat,
               state : States, stage : Stages, reason : Reasons, nonce : Nat]
Threads == {IdleThread} \cup [at : {"claim", "preflight"}, change : Nat]
           \cup [at : Working \cup Terminal, change : Nat, report : BOOLEAN,
                 next : Nat, left : SUBSET Services]
ApplyRequests == {NoCall} \cup [at : {"waiting", "failing"}, change : Nat]

\* What a change refers to is there.
Refers(i) == /\ changes[i].preview \in 1 .. Len(previews)
             /\ changes[i].prior \in 1 .. Len(revisions)
             /\ changes[i].desired \in 1 .. Len(revisions)

RowsTyped ==
  /\ revisions \in Seq(Configs)
  /\ effective \in SUBSET (1 .. Len(revisions)) /\ effective # {}
  /\ previews \in Seq(Confirmations) /\ grants \in Seq(Confirmations)
  /\ changes \in Seq(ChangeRows)
  /\ \A i \in 1 .. Len(changes) : Refers(i)

RuntimeTyped ==
  /\ overrides \in [Services -> Environments]
  /\ running \in [Services -> Environments \cup {Down}]
  /\ draining \subseteq Services /\ up \in BOOLEAN /\ ctl \in Threads

\* Every change number in a message or in the memory of a process is that of a row.
Numbered ==
  /\ calls \in [AdminSessions -> ApplyRequests] /\ wire \subseteq 1 .. Len(changes)
  /\ \A s \in AdminSessions : calls[s] # NoCall => calls[s].change \in 1 .. Len(changes)
  /\ ctl # IdleThread => ctl.change \in 1 .. Len(changes)

\* The preview behind a change is spent.
Spent == \A i \in 1 .. Len(changes) : previews[changes[i].preview].consumed

\* Only the last change can be active.
OnlyLastActive ==
  \A i \in 1 .. Len(changes) :
    /\ changes[i].reason = "controller_unavailable" => changes[i].state = "failed"
    /\ changes[i].state \in Active => i = Len(changes)

\* No change touches another service than OCR, nor leaves one refusing work that is down.
OthersUntouched ==
  /\ \A s \in Services \ {"ocr"} :
       /\ overrides[s] = Baseline[s] /\ s \notin draining
       /\ up => running[s] = Baseline[s]
  /\ ~up => draining = {} /\ ctl = IdleThread

Serving(config) == overrides = config /\ running = config /\ draining = {}
Desired == revisions[changes[ctl.change].desired]
Prior == revisions[changes[ctl.change].prior]

\* How far the thread has come.
ThreadKnows ==
  /\ ctl.at \in {"preflight", "effective", "rolled_back"} \cup Working
       => changes[ctl.change].state = "applying"
  /\ ctl.at \in Working =>
       /\ ctl.left = {"ocr"} /\ Affected(ctl.change) = {"ocr"}
       /\ ctl.next \in 1 .. Len(Calls[ctl.at])
  /\ ctl.at = "restarting" => overrides = Desired
  /\ ctl.at \in {"validating", "effective"} => Serving(Desired)
  /\ ctl.at = "rolling_back" /\ ctl.next = 2 => overrides = Prior
  /\ ctl.at = "rolling_back" /\ ctl.next = 3 => Serving(Prior)
  /\ ctl.at = "rolled_back" => Serving(Prior)

\* The revision a finished change says is in force.
Outcome(i) == revisions[IF changes[i].state = "effective" THEN changes[i].desired
                        ELSE changes[i].prior]

\* The result of the last claimed change survives in the document.
ResultKept ==
  \A i \in 1 .. Len(changes) :
    LastClaimed(i) /\ changes[i].state \in {"effective", "rolled_back"}
      => overrides = Outcome(i) /\ (up => Serving(Outcome(i)))

ConfigurationInv ==
  /\ RowsTyped /\ AppliedAsConfirmed /\ Spent /\ OnlyLastActive
  /\ RuntimeTyped /\ Numbered /\ OthersUntouched /\ ThreadKnows /\ ResultKept


LEMMA StageCalls ==
  /\ DOMAIN Calls = Working
  /\ Calls["draining"] = <<"drain">> /\ Calls["applying"] = <<"replace">>
  /\ Calls["restarting"] = <<"restart">> /\ Calls["validating"] = <<"validate">>
  /\ Calls["rolling_back"] = <<"replace", "restart", "validate">>
  BY DEF Calls, Working, Restores

LEMMA ConfigurationStarts ==
  ASSUME ConfigurationInit PROVE ConfigurationInv
<1>1. Baseline \in Configs /\ Baseline \in [Services -> Environments]
  BY ConfigurationAssumption DEF Environments
<1>2. RowsTyped
  BY <1>1 DEF ConfigurationInit, RowsTyped
<1>3. RuntimeTyped
  BY <1>1 DEF ConfigurationInit, RuntimeTyped, Threads
<1>4. Len(changes) = 0 /\ DOMAIN changes = {} /\ DOMAIN grants = {}
  BY DEF ConfigurationInit
<1>5. AppliedAsConfirmed
  <2>1. ASSUME NEW s \in AdminSessions
        PROVE  /\ {i \in DOMAIN changes : changes[i].session = s} = {}
               /\ {g \in DOMAIN grants : grants[g].session = s /\ grants[g].consumed} = {}
    BY <1>4
  <2> QED
    BY <1>4, <2>1 DEF AppliedAsConfirmed
<1>6. Spent /\ OnlyLastActive /\ ResultKept
  BY <1>4 DEF Spent, OnlyLastActive, ResultKept
<1>7. Numbered
  BY DEF ConfigurationInit, Numbered, ApplyRequests
<1>8. OthersUntouched
  BY <1>1 DEF ConfigurationInit, OthersUntouched
<1>9. ThreadKnows
  BY DEF ConfigurationInit, ThreadKnows, IdleThread, Working
<1> QED
  BY <1>2, <1>3, <1>5, <1>6, <1>7, <1>8, <1>9 DEF ConfigurationInv

\* A confirmation that expires keeps what it says.
LEMMA LapsedRows ==
  ASSUME NEW s, NEW table \in Seq(Confirmations)
  PROVE  /\ Lapsed(s, table) \in Seq(Confirmations) /\ Len(Lapsed(s, table)) = Len(table)
         /\ \A i \in 1 .. Len(table) :
              /\ Lapsed(s, table)[i].session = table[i].session
              /\ Lapsed(s, table)[i].base = table[i].base
              /\ Lapsed(s, table)[i].config = table[i].config
              /\ Lapsed(s, table)[i].consumed = table[i].consumed
<1> DEFINE row(i) == [table[i] EXCEPT !.fresh = table[i].fresh /\ table[i].session # s]
<1>1. ASSUME NEW i \in 1 .. Len(table)
      PROVE  /\ row(i) \in Confirmations /\ row(i).session = table[i].session
             /\ row(i).base = table[i].base
             /\ row(i).config = table[i].config /\ row(i).consumed = table[i].consumed
  <2>1. PICK old \in Confirmations : old = table[i]
    OBVIOUS
  <2>2. PICK f \in BOOLEAN : f = (old.fresh /\ old.session # s)
    OBVIOUS
  <2> QED
    BY <2>1, <2>2 DEF Confirmations
<1>2. Lapsed(s, table) = [i \in 1 .. Len(table) |-> row(i)]
  BY DEF Lapsed
<1> HIDE DEF row
<1>3. [i \in 1 .. Len(table) |-> row(i)] \in Seq(Confirmations)
  BY <1>1
<1>4. Len(Lapsed(s, table)) = Len(table)
  BY <1>2, <1>3
<1> QED
  BY <1>1, <1>2, <1>3, <1>4

\* One row of a table is replaced.
LEMMA UpdatedRow ==
  ASSUME NEW S, NEW table \in Seq(S), NEW c \in 1 .. Len(table), NEW row \in S, NEW new,
         new = [table EXCEPT ![c] = row]
  PROVE  /\ new \in Seq(S) /\ Len(new) = Len(table) /\ new[c] = row
         /\ \A i \in 1 .. Len(table) : i # c => new[i] = table[i]
  OBVIOUS

\* A consumed preview or grant.
LEMMA RowConsumed ==
  ASSUME NEW old \in Confirmations
  PROVE  LET row == [old EXCEPT !.consumed = TRUE] IN
         /\ row \in Confirmations /\ row.consumed
         /\ row.session = old.session /\ row.base = old.base /\ row.config = old.config
  BY DEF Confirmations

LEMMA ConsumedTable ==
  ASSUME NEW table \in Seq(Confirmations), NEW p \in 1 .. Len(table), NEW row \in Confirmations,
         NEW new, new = [table EXCEPT ![p] = row], row.consumed,
         row.session = table[p].session, row.base = table[p].base,
         row.config = table[p].config
  PROVE  /\ new \in Seq(Confirmations) /\ Len(new) = Len(table) /\ new[p].consumed
         /\ \A i \in 1 .. Len(table) :
              /\ new[i].session = table[i].session /\ new[i].base = table[i].base
              /\ new[i].config = table[i].config
              /\ i # p => new[i] = table[i]
<1>1. /\ new \in Seq(Confirmations) /\ Len(new) = Len(table) /\ new[p] = row
      /\ \A i \in 1 .. Len(table) : i # p => new[i] = table[i]
  BY UpdatedRow
<1> QED
  BY <1>1

\* The writes to a change keep its session, its preview and its revisions.
SameChange(old, row) ==
  /\ row.session = old.session /\ row.preview = old.preview
  /\ row.prior = old.prior /\ row.desired = old.desired

RowInv == RowsTyped /\ AppliedAsConfirmed /\ Spent /\ OnlyLastActive

\* A change row that keeps what it was written for.
LEMMA RowUpdated ==
  ASSUME RowInv, NEW c \in 1 .. Len(changes), NEW row \in ChangeRows,
         changes' = [changes EXCEPT ![c] = row],
         SameChange(changes[c], row),
         row.reason = "controller_unavailable" => row.state = "failed",
         row.state \in Active => changes[c].state \in Active,
         UNCHANGED <<revisions, previews, grants>>,
         effective' \in SUBSET (1 .. Len(revisions)), effective' # {}
  PROVE  /\ RowInv' /\ Len(changes') = Len(changes) /\ changes'[c] = row
         /\ \A i \in 1 .. Len(changes) : i # c => changes'[i] = changes[i]
<1> USE DEF RowInv
<1>1. /\ changes' \in Seq(ChangeRows) /\ Len(changes') = Len(changes) /\ changes'[c] = row
      /\ \A i \in 1 .. Len(changes) : i # c => changes'[i] = changes[i]
  BY UpdatedRow DEF RowsTyped
<1>2. \A i \in 1 .. Len(changes) :
        /\ changes'[i].session = changes[i].session /\ changes'[i].preview = changes[i].preview
        /\ changes'[i].prior = changes[i].prior /\ changes'[i].desired = changes[i].desired
  BY <1>1 DEF SameChange
<1>3. RowsTyped'
  BY <1>1, <1>2 DEF RowsTyped, Refers
<1>4. DOMAIN changes = 1 .. Len(changes) /\ DOMAIN changes' = 1 .. Len(changes)
  BY <1>1 DEF RowsTyped
<1>5. AppliedAsConfirmed'
  <2>1. ASSUME NEW s \in AdminSessions
        PROVE  {i \in DOMAIN changes' : changes'[i].session = s}
                 = {i \in DOMAIN changes : changes[i].session = s}
    BY <1>2, <1>4
  <2>2. \A s \in AdminSessions :
          Cardinality({i \in DOMAIN changes' : changes'[i].session = s})
           = Cardinality({g \in DOMAIN grants :
                            grants[g].session = s /\ grants[g].consumed})
    BY <2>1 DEF AppliedAsConfirmed
  <2> QED
    BY <1>2, <1>4, <2>2 DEF AppliedAsConfirmed
<1>6. Spent'
  BY <1>1, <1>2 DEF Spent
<1>7. OnlyLastActive'
  BY <1>1 DEF OnlyLastActive
<1> QED
  BY <1>1, <1>3, <1>5, <1>6, <1>7

-----------------------------------------------------------------------------
(* Previews, grants and changes.                                           *)

LEMMA PreviewAdded ==
  ASSUME RowInv, NEW s \in AdminSessions, NEW config \in Configs,
         previews' = Append(previews, NewPreview(s, config)),
         UNCHANGED <<revisions, effective, grants, changes>>
  PROVE  RowInv'
<1> USE DEF RowInv
<1>1. Effective \in 1 .. Len(revisions)
  BY DEF RowsTyped, Effective
<1>2. NewPreview(s, config) \in Confirmations
  BY <1>1 DEF NewPreview, Confirmations
<1>3. /\ previews' \in Seq(Confirmations) /\ Len(previews') = Len(previews) + 1
      /\ \A i \in 1 .. Len(previews) : previews'[i] = previews[i]
  BY <1>2 DEF RowsTyped
<1>4. RowsTyped'
  BY <1>3 DEF RowsTyped, Refers
<1>5. DOMAIN changes = 1 .. Len(changes)
  BY DEF RowsTyped
<1>6. \A i \in 1 .. Len(changes) : previews'[changes[i].preview] = previews[changes[i].preview]
  BY <1>3 DEF RowsTyped, Refers
<1>7. AppliedAsConfirmed'
  <2>1. \A i \in DOMAIN changes' :
          LET q == previews'[changes'[i].preview] IN
          /\ q.session = changes'[i].session /\ q.base = changes'[i].prior
          /\ q.config = revisions'[changes'[i].desired]
          /\ \A j \in DOMAIN changes' : changes'[j].preview = changes'[i].preview => i = j
    <3>1. \A i \in DOMAIN changes : previews'[changes[i].preview] = previews[changes[i].preview]
      BY <1>5, <1>6
    <3> QED
      BY <3>1 DEF AppliedAsConfirmed
  <2>2. \A t \in AdminSessions :
          Cardinality({i \in DOMAIN changes' : changes'[i].session = t})
            = Cardinality({g \in DOMAIN grants' : grants'[g].session = t /\ grants'[g].consumed})
    BY DEF AppliedAsConfirmed
  <2> QED
    BY <2>1, <2>2 DEF AppliedAsConfirmed
<1>8. Spent' /\ OnlyLastActive'
  BY <1>6 DEF Spent, OnlyLastActive
<1> QED
  BY <1>4, <1>7, <1>8

LEMMA GrantAdded ==
  ASSUME RowInv, NEW s \in AdminSessions, NEW p \in 1 .. Len(previews),
         grants' = Append(grants, NewGrant(s, p)),
         UNCHANGED <<revisions, effective, previews, changes>>
  PROVE  RowInv'
<1> USE DEF RowInv
<1>1. PICK pre \in Confirmations : pre = previews[p]
  BY DEF RowsTyped
<1>2. NewGrant(s, p) \in Confirmations /\ ~NewGrant(s, p).consumed
  BY <1>1 DEF NewGrant, Confirmations
<1>3. /\ grants' \in Seq(Confirmations) /\ Len(grants') = Len(grants) + 1
      /\ \A i \in 1 .. Len(grants) : grants'[i] = grants[i]
      /\ grants'[Len(grants) + 1] = NewGrant(s, p)
  BY <1>2 DEF RowsTyped
<1>4. RowsTyped'
  BY <1>3 DEF RowsTyped, Refers
<1>5. DOMAIN grants = 1 .. Len(grants) /\ DOMAIN grants' = 1 .. (Len(grants) + 1) /\ Len(grants) \in Nat
      /\ DOMAIN changes = 1 .. Len(changes)
  BY <1>3 DEF RowsTyped
<1>6. ASSUME NEW t \in AdminSessions
      PROVE  {g \in DOMAIN grants' : grants'[g].session = t /\ grants'[g].consumed}
               = {g \in DOMAIN grants : grants[g].session = t /\ grants[g].consumed}
  BY <1>2, <1>3, <1>5
<1>7. AppliedAsConfirmed'
  <2>1. \A t \in AdminSessions :
          Cardinality({i \in DOMAIN changes' : changes'[i].session = t})
            = Cardinality({g \in DOMAIN grants' : grants'[g].session = t /\ grants'[g].consumed})
    <3>1. ASSUME NEW t \in AdminSessions
          PROVE  Cardinality({i \in DOMAIN changes : changes[i].session = t})
                   = Cardinality({g \in DOMAIN grants : grants[g].session = t /\ grants[g].consumed})
      BY DEF AppliedAsConfirmed
    <3>2. changes' = changes
      OBVIOUS
    <3> QED
      BY <1>6, <3>1, <3>2
  <2>2. \A i \in DOMAIN changes' :
         LET q == previews'[changes'[i].preview] IN
         /\ q.session = changes'[i].session
         /\ q.base = changes'[i].prior
         /\ q.config = revisions'[changes'[i].desired]
         /\ \A j \in DOMAIN changes' :
              changes'[j].preview = changes'[i].preview => i = j
    BY DEF AppliedAsConfirmed
  <2> QED
    BY <2>1, <2>2 DEF AppliedAsConfirmed
<1>8. Spent' /\ OnlyLastActive'
  BY DEF Spent, OnlyLastActive
<1> QED
  BY <1>4, <1>7, <1>8

LEMMA RowsLapse ==
  ASSUME RowInv, NEW s, previews' = Lapsed(s, previews), grants' = Lapsed(s, grants),
         UNCHANGED <<revisions, effective, changes>>
  PROVE  RowInv'
<1> USE DEF RowInv
<1>1. /\ previews' \in Seq(Confirmations) /\ Len(previews') = Len(previews)
      /\ \A i \in 1 .. Len(previews) :
           /\ previews'[i].session = previews[i].session /\ previews'[i].base = previews[i].base
           /\ previews'[i].config = previews[i].config
           /\ previews'[i].consumed = previews[i].consumed
  BY LapsedRows DEF RowsTyped
<1>2. /\ grants' \in Seq(Confirmations) /\ Len(grants') = Len(grants)
      /\ \A i \in 1 .. Len(grants) :
           /\ grants'[i].session = grants[i].session
           /\ grants'[i].consumed = grants[i].consumed
  BY LapsedRows DEF RowsTyped
<1>3. RowsTyped'
  BY <1>1, <1>2 DEF RowsTyped, Refers
<1>4. DOMAIN grants = 1 .. Len(grants) /\ DOMAIN grants' = 1 .. Len(grants)
      /\ DOMAIN changes = 1 .. Len(changes)
  BY <1>2 DEF RowsTyped
<1>5. ASSUME NEW t \in AdminSessions
      PROVE  {g \in DOMAIN grants' : grants'[g].session = t /\ grants'[g].consumed}
               = {g \in DOMAIN grants : grants[g].session = t /\ grants[g].consumed}
  BY <1>2, <1>4
<1>6. \A i \in 1 .. Len(changes) :
        LET p == changes[i].preview IN
        /\ previews'[p].session = previews[p].session /\ previews'[p].base = previews[p].base
        /\ previews'[p].config = previews[p].config
        /\ previews'[p].consumed = previews[p].consumed
  BY <1>1 DEF RowsTyped, Refers
<1>7. AppliedAsConfirmed'
  BY <1>4, <1>5, <1>6 DEF AppliedAsConfirmed
<1>8. Spent' /\ OnlyLastActive'
  BY <1>6 DEF Spent, OnlyLastActive
<1> QED
  BY <1>3, <1>7, <1>8

\* A new change: its preview and its grant are spent with it.
LEMMA ChangeRecorded ==
  ASSUME RowInv, NEW s \in AdminSessions, NEW p \in 1 .. Len(previews),
         NEW g \in 1 .. Len(grants),
         PreviewHolds(s, p), GrantHolds(s, p, g), NoActiveChange, RecordChange(s, p, g),
         UNCHANGED effective
  PROVE  /\ RowInv' /\ Len(changes') = Len(changes) + 1
         /\ \A i \in 1 .. Len(changes) : changes'[i] = changes[i]
         /\ changes'[Len(changes) + 1].state = "pending"
         /\ \A r \in 1 .. Len(revisions) : revisions'[r] = revisions[r]
<1> USE DEF RowInv
<1>1. Effective \in 1 .. Len(revisions) /\ Len(revisions) \in Nat /\ Len(changes) \in Nat
  <2>1. Effective \in effective
    BY DEF RowsTyped, Effective
  <2> QED
    BY <2>1 DEF RowsTyped
<1>2. /\ previews[p].config \in Configs /\ previews[p].session = s
      /\ ~previews[p].consumed /\ previews[p].base = Effective
  <2>1. previews[p] \in Confirmations
    BY DEF RowsTyped
  <2>2. previews[p].config \in Configs
    BY <2>1 DEF Confirmations
  <2> QED
    BY <2>2 DEF PreviewHolds, OpenPreview
<1>3. /\ revisions' \in Seq(Configs) /\ Len(revisions') = Len(revisions) + 1
      /\ \A r \in 1 .. Len(revisions) : revisions'[r] = revisions[r]
      /\ revisions'[Len(revisions) + 1] = previews[p].config
  BY <1>2 DEF RowsTyped, RecordChange
<1> DEFINE row == [session |-> s, preview |-> p, prior |-> Effective,
                   desired |-> Len(revisions) + 1, state |-> "pending",
                   stage |-> "queued", reason |-> "none", nonce |-> Len(changes) + 1]
<1>4. row \in ChangeRows
  <2>1. "pending" \in States /\ "queued" \in Stages /\ "none" \in Reasons
    BY DEF States, Stages, Reasons, Active
  <2>2. p \in Nat /\ Effective \in Nat /\ Len(revisions) + 1 \in Nat /\ Len(changes) + 1 \in Nat
    BY <1>1 DEF RowsTyped
  <2> QED
    BY <2>1, <2>2 DEF ChangeRows
<1>5. /\ row.session = s /\ row.preview = p /\ row.prior = Effective
      /\ row.desired = Len(revisions) + 1 /\ row.state = "pending" /\ row.reason = "none"
  OBVIOUS
<1>6. changes' = Append(changes, row)
  BY DEF RecordChange
<1> HIDE DEF row
<1>7. /\ changes' \in Seq(ChangeRows) /\ Len(changes') = Len(changes) + 1
      /\ \A i \in 1 .. Len(changes) : changes'[i] = changes[i]
      /\ changes'[Len(changes) + 1] = row
  BY <1>4, <1>6 DEF RowsTyped
<1>8. PICK pre \in Confirmations :
        /\ previews' = [previews EXCEPT ![p] = pre] /\ pre.consumed
        /\ pre.session = previews[p].session /\ pre.base = previews[p].base
        /\ pre.config = previews[p].config
  <2>1. PICK old \in Confirmations : old = previews[p]
    BY DEF RowsTyped
  <2>2. previews' = [previews EXCEPT ![p] = [old EXCEPT !.consumed = TRUE]]
    BY <2>1 DEF RecordChange
  <2> QED
    BY <2>1, <2>2, RowConsumed
<1>9. /\ previews' \in Seq(Confirmations) /\ Len(previews') = Len(previews)
      /\ previews'[p].consumed
      /\ \A i \in 1 .. Len(previews) :
           /\ previews'[i].session = previews[i].session /\ previews'[i].base = previews[i].base
           /\ previews'[i].config = previews[i].config
           /\ i # p => previews'[i] = previews[i]
  BY <1>8, ConsumedTable DEF RowsTyped
<1>10. PICK used \in Confirmations :
        /\ grants' = [grants EXCEPT ![g] = used] /\ used.consumed
        /\ used.session = grants[g].session /\ used.base = grants[g].base
        /\ used.config = grants[g].config
  <2>1. PICK old \in Confirmations : old = grants[g]
    BY DEF RowsTyped
  <2>2. grants' = [grants EXCEPT ![g] = [old EXCEPT !.consumed = TRUE]]
    BY <2>1 DEF RecordChange
  <2> QED
    BY <2>1, <2>2, RowConsumed
<1>11. /\ grants' \in Seq(Confirmations) /\ Len(grants') = Len(grants)
       /\ grants'[g].consumed
       /\ \A i \in 1 .. Len(grants) :
            /\ grants'[i].session = grants[i].session
            /\ i # g => grants'[i] = grants[i]
  BY <1>10, ConsumedTable DEF RowsTyped
<1>12. RowsTyped'
  <2>1. \A i \in 1 .. Len(changes') : Refers(i)'
    <3>1. ASSUME NEW i \in 1 .. Len(changes) PROVE Refers(i)'
      <4>1. changes'[i] = changes[i] /\ Refers(i)
        BY <1>7 DEF RowsTyped
      <4> QED
        BY <1>1, <1>3, <1>9, <4>1 DEF Refers
    <3>2. ASSUME NEW i, i = Len(changes) + 1 PROVE Refers(i)'
      <4>1. /\ changes'[Len(changes) + 1].preview = p
            /\ changes'[Len(changes) + 1].prior = Effective
            /\ changes'[Len(changes) + 1].desired = Len(revisions) + 1
        BY <1>5, <1>7
      <4> QED
        BY <1>1, <1>3, <1>9, <1>7, <3>2, <4>1 DEF Refers
    <3> QED
      BY <1>1, <1>7, <3>1, <3>2
  <2>2. effective' \in SUBSET (1 .. Len(revisions')) /\ effective' # {}
    BY <1>1, <1>3 DEF RowsTyped
  <2> QED
    BY <1>3, <1>7, <1>9, <1>11, <2>1, <2>2 DEF RowsTyped
<1>13. /\ DOMAIN changes = 1 .. Len(changes) /\ DOMAIN changes' = 1 .. (Len(changes) + 1)
       /\ DOMAIN grants = 1 .. Len(grants) /\ DOMAIN grants' = 1 .. Len(grants)
  BY <1>7, <1>11 DEF RowsTyped
<1>14. \A i \in 1 .. Len(changes) : changes[i].preview # p
  BY <1>2 DEF Spent
<1>15. ASSUME NEW t \in AdminSessions
       PROVE  Cardinality({i \in DOMAIN changes' : changes'[i].session = t})
               = Cardinality({h \in DOMAIN grants' : grants'[h].session = t /\ grants'[h].consumed})
  <2> DEFINE C == {i \in DOMAIN changes : changes[i].session = t}
             G == {h \in DOMAIN grants : grants[h].session = t /\ grants[h].consumed}
             C2 == {i \in DOMAIN changes' : changes'[i].session = t}
             G2 == {h \in DOMAIN grants' : grants'[h].session = t /\ grants'[h].consumed}
  <2>1. Cardinality(C) = Cardinality(G)
    BY DEF AppliedAsConfirmed
  <2>2. grants[g].session = s /\ ~grants[g].consumed
    BY DEF GrantHolds
  <2>3. CASE t # s
    <3>1. C2 = C
      BY <1>1, <1>5, <1>7, <1>13, <2>3
    <3>2. G2 = G
      BY <1>11, <1>13, <2>2, <2>3
    <3> QED
      BY <2>1, <3>1, <3>2
  <2>4. CASE t = s
    <3>1. C2 = C \cup {Len(changes) + 1} /\ Len(changes) + 1 \notin C
      BY <1>1, <1>5, <1>7, <1>13, <2>4
    <3>2. G2 = G \cup {g} /\ g \notin G
      BY <1>11, <1>13, <2>2, <2>4
    <3>3. IsFiniteSet(C) /\ IsFiniteSet(G)
      <4>1. IsFiniteSet(1 .. Len(changes)) /\ IsFiniteSet(1 .. Len(grants))
        BY FS_Interval DEF RowsTyped
      <4> QED
        BY <1>13, <4>1, FS_Subset
    <3>4. Cardinality(C2) = Cardinality(C) + 1 /\ Cardinality(G2) = Cardinality(G) + 1
      BY <3>1, <3>2, <3>3, FS_AddElement
    <3> QED
      BY <2>1, <3>4
  <2> QED
    BY <2>3, <2>4
<1>16. AppliedAsConfirmed'
  <2>1. ASSUME NEW i \in 1 .. Len(changes)
        PROVE  /\ previews'[changes'[i].preview].session = changes'[i].session
               /\ previews'[changes'[i].preview].base = changes'[i].prior
               /\ previews'[changes'[i].preview].config = revisions'[changes'[i].desired]
    <3>1. changes'[i] = changes[i] /\ Refers(i) /\ i \in DOMAIN changes
      BY <1>7, <1>13 DEF RowsTyped
    <3>2. /\ previews'[changes[i].preview].session = previews[changes[i].preview].session
          /\ previews'[changes[i].preview].base = previews[changes[i].preview].base
          /\ previews'[changes[i].preview].config = previews[changes[i].preview].config
          /\ revisions'[changes[i].desired] = revisions[changes[i].desired]
      BY <1>3, <1>9, <3>1 DEF Refers
    <3> QED
      BY <3>1, <3>2 DEF AppliedAsConfirmed
  <2>2. LET i == Len(changes) + 1 IN
        /\ previews'[changes'[i].preview].session = changes'[i].session
        /\ previews'[changes'[i].preview].base = changes'[i].prior
        /\ previews'[changes'[i].preview].config = revisions'[changes'[i].desired]
    BY <1>2, <1>3, <1>5, <1>7, <1>9
  <2>3. \A i, j \in 1 .. (Len(changes) + 1) : changes'[i].preview = changes'[j].preview => i = j
    <3>1. \A i, j \in 1 .. Len(changes) : changes'[i].preview = changes'[j].preview => i = j
      BY <1>7, <1>13 DEF AppliedAsConfirmed
    <3>2. \A i \in 1 .. Len(changes) : changes'[i].preview # changes'[Len(changes) + 1].preview
      BY <1>5, <1>7, <1>14
    <3>3. \A i \in 1 .. (Len(changes) + 1) : i \in 1 .. Len(changes) \/ i = Len(changes) + 1
      BY <1>1
    <3> QED
      BY <3>1, <3>2, <3>3
  <2>4. \A i \in DOMAIN changes' : i \in 1 .. Len(changes) \/ i = Len(changes) + 1
    BY <1>1, <1>13
  <2> QED
    BY <1>13, <1>15, <2>1, <2>2, <2>3, <2>4 DEF AppliedAsConfirmed
<1>17. Spent'
  <2>1. ASSUME NEW i \in 1 .. Len(changes) PROVE previews'[changes'[i].preview].consumed
    <3>1. changes'[i].preview = changes[i].preview /\ changes[i].preview \in 1 .. Len(previews)
      BY <1>7 DEF RowsTyped, Refers
    <3> QED
      BY <1>9, <1>14, <3>1 DEF Spent
  <2>2. previews'[changes'[Len(changes) + 1].preview].consumed
    BY <1>5, <1>7, <1>9
  <2> QED
    BY <1>1, <1>7, <2>1, <2>2 DEF Spent
<1>18. OnlyLastActive'
  <2>1. \A i \in 1 .. Len(changes) : changes[i].state \notin Active
    BY <1>13 DEF NoActiveChange, ActiveChange
  <2> QED
    BY <1>1, <1>5, <1>7, <2>1 DEF OnlyLastActive
<1> QED
  BY <1>3, <1>5, <1>7, <1>12, <1>16, <1>17, <1>18

-----------------------------------------------------------------------------
(* What the thread and the result rest on.                                 *)

LEMMA RowsKept ==
  ASSUME RowInv, UNCHANGED rows
  PROVE  RowInv'
<1>1. UNCHANGED <<revisions, effective, previews, grants, changes>>
  BY DEF rows
<1>2. RowsTyped'
  BY <1>1 DEF RowInv, RowsTyped, Refers
<1>3. AppliedAsConfirmed'
  BY <1>1 DEF RowInv, AppliedAsConfirmed
<1>4. Spent' /\ OnlyLastActive'
  BY <1>1 DEF RowInv, Spent, OnlyLastActive
<1> QED
  BY <1>2, <1>3, <1>4 DEF RowInv

\* Changes are added, and only unclaimed ones are written to.
Grows ==
  /\ Len(changes') >= Len(changes)
  /\ \A i \in 1 .. Len(changes) :
       /\ SameChange(changes[i], changes'[i])
       /\ Claimed(i) => changes'[i] = changes[i]
       /\ ~Claimed(i) => ~Claimed(i)'
  /\ \A i \in 1 .. Len(changes') : i > Len(changes) => ~Claimed(i)'
  /\ \A r \in 1 .. Len(revisions) : revisions'[r] = revisions[r]

LEMMA GrowsByNothing ==
  ASSUME RowInv, UNCHANGED rows
  PROVE  Grows
  BY DEF RowInv, RowsTyped, Grows, rows, SameChange, Claimed

LEMMA NumberedKept ==
  ASSUME RowInv, RowInv', Numbered, Grows, UNCHANGED <<calls, wire, ctl>>
  PROVE  Numbered'
<1>1. Len(changes) \in Nat /\ Len(changes') \in Nat /\ Len(changes') >= Len(changes)
  BY DEF RowInv, RowsTyped, Grows
<1>2. 1 .. Len(changes) \subseteq 1 .. Len(changes')
  BY <1>1
<1> QED
  BY <1>2 DEF Numbered

LEMMA ResultFrame ==
  ASSUME RowInv, RowInv', Grows, ResultKept, overrides' = overrides,
         \/ up' = up /\ UNCHANGED <<running, draining>>
         \/ up' = FALSE
         \/ running' = overrides /\ draining' = {}
  PROVE  ResultKept'
<1>1. SUFFICES ASSUME NEW i \in 1 .. Len(changes'), LastClaimed(i)',
                      changes'[i].state \in {"effective", "rolled_back"}
               PROVE  (overrides = Outcome(i) /\ (up => Serving(Outcome(i))))'
  BY DEF ResultKept
<1>2. /\ Len(changes) \in Nat /\ Len(changes') \in Nat /\ Len(changes') >= Len(changes)
      /\ DOMAIN changes = 1 .. Len(changes) /\ DOMAIN changes' = 1 .. Len(changes')
  BY DEF RowInv, RowsTyped, Grows
<1>3. Claimed(i)' /\ \A j \in 1 .. Len(changes') : j > i => ~Claimed(j)'
  BY <1>1, <1>2 DEF LastClaimed
<1>4. i \in 1 .. Len(changes) /\ Claimed(i) /\ changes'[i] = changes[i]
  BY <1>2, <1>3 DEF Grows
<1>5. ASSUME NEW j \in 1 .. Len(changes), j > i PROVE ~Claimed(j)
  <2>1. changes'[j] = changes[j] => (Claimed(j) <=> Claimed(j)')
    BY DEF Claimed
  <2> QED
    BY <1>2, <1>3, <1>5, <2>1 DEF Grows
<1>6. LastClaimed(i)
  BY <1>2, <1>4, <1>5 DEF LastClaimed
<1>7. overrides = Outcome(i) /\ (up => Serving(Outcome(i)))
  BY <1>1, <1>4, <1>6 DEF ResultKept
<1>8. Outcome(i)' = Outcome(i)
  BY <1>4 DEF Outcome, Grows, RowInv, RowsTyped, Refers
<1> QED
  BY <1>7, <1>8 DEF Serving

\* While a change is being applied it is the last one claimed, and says nothing yet.
LEMMA ResultOpen ==
  ASSUME RowInv', NEW c \in 1 .. Len(changes'),
         changes'[c].state \in {"applying", "failed"}, changes'[c].reason # "controller_unavailable",
         c = Len(changes')
  PROVE  ResultKept'
<1>1. SUFFICES ASSUME NEW i \in 1 .. Len(changes'), LastClaimed(i)',
                      changes'[i].state \in {"effective", "rolled_back"}
               PROVE  FALSE
  BY DEF ResultKept
<1>2. Len(changes') \in Nat /\ DOMAIN changes' = 1 .. Len(changes')
  BY DEF RowInv, RowsTyped
<1>3. Claimed(c)'
  BY DEF Claimed
<1>4. i = c
  BY <1>1, <1>2, <1>3 DEF LastClaimed
<1> QED
  BY <1>1, <1>4

LEMMA ThreadFrame ==
  ASSUME RowInv, RowInv', RuntimeTyped, Numbered, Grows, ThreadKnows,
         UNCHANGED <<ctl, overrides, running, draining>>
  PROVE  ThreadKnows'
<1>1. CASE ctl.at \in {"preflight", "effective", "rolled_back"} \cup Working
  <2>1. ctl.change \in 1 .. Len(changes) /\ changes[ctl.change].state = "applying"
    BY <1>1 DEF Numbered, ThreadKnows, IdleThread, Working
  <2>2. changes[ctl.change].reason # "controller_unavailable"
    BY <2>1 DEF RowInv, OnlyLastActive
  <2>3. changes'[ctl.change] = changes[ctl.change]
    BY <2>1, <2>2 DEF Grows, Claimed
  <2>4. Desired' = Desired /\ Prior' = Prior
    BY <2>1, <2>3 DEF Desired, Prior, Grows, RowInv, RowsTyped, Refers
  <2>5. Affected(ctl.change)' = Affected(ctl.change)
    BY <2>3, <2>4 DEF Affected, Desired, Prior
  <2> QED
    BY <2>1, <2>3, <2>4, <2>5 DEF ThreadKnows, Serving
<1>2. CASE ctl.at \notin {"preflight", "effective", "rolled_back"} \cup Working
  BY <1>2 DEF ThreadKnows, Working
<1> QED
  BY <1>1, <1>2

LEMMA RuntimeFrame ==
  ASSUME ConfigurationInv, RowInv', Grows, UNCHANGED <<ctl, runtime, up>>
  PROVE  RuntimeTyped' /\ OthersUntouched' /\ ThreadKnows' /\ ResultKept'
<1>1. /\ RowInv /\ RuntimeTyped /\ OthersUntouched /\ ThreadKnows /\ ResultKept /\ Numbered
      /\ UNCHANGED <<ctl, overrides, running, draining, up>>
  BY DEF ConfigurationInv, RowInv, runtime
<1>2. RuntimeTyped'
  BY <1>1 DEF RuntimeTyped
<1>3. OthersUntouched'
  BY <1>1 DEF OthersUntouched
<1>4. ThreadKnows'
  BY <1>1, ThreadFrame
<1>5. ResultKept'
  BY <1>1, ResultFrame
<1> QED
  BY <1>2, <1>3, <1>4, <1>5

-----------------------------------------------------------------------------
(* The actions of administrators, the API and the process tree.            *)

LEMMA PreviewKeeps ==
  ASSUME ConfigurationInv, NEW s \in AdminSessions, NEW config \in Configs,
         PreviewConfiguration(s, config)
  PROVE  ConfigurationInv'
<1>1. RowInv /\ Numbered
  BY DEF ConfigurationInv, RowInv
<1>2. /\ previews' = Append(previews, NewPreview(s, config))
      /\ UNCHANGED <<revisions, effective, grants, changes, calls, wire, ctl, up, runtime>>
  BY DEF PreviewConfiguration
<1>3. RowInv'
  BY <1>1, <1>2, PreviewAdded
<1>4. Grows
  BY <1>1, <1>2 DEF Grows, SameChange, Claimed, RowInv, RowsTyped
<1>5. Numbered'
  BY <1>1, <1>2, <1>3, <1>4, NumberedKept
<1>6. RuntimeTyped' /\ OthersUntouched' /\ ThreadKnows' /\ ResultKept'
  BY <1>2, <1>3, <1>4, RuntimeFrame
<1> QED
  BY <1>3, <1>5, <1>6 DEF ConfigurationInv, RowInv

LEMMA ReauthenticateKeeps ==
  ASSUME ConfigurationInv, NEW s \in AdminSessions, NEW p, Reauthenticate(s, p)
  PROVE  ConfigurationInv'
<1>1. RowInv /\ Numbered
  BY DEF ConfigurationInv, RowInv
<1>2. /\ grants' = Append(grants, NewGrant(s, p)) /\ p \in DOMAIN previews
      /\ UNCHANGED <<revisions, effective, previews, changes, calls, wire, ctl, up, runtime>>
  BY DEF Reauthenticate, OpenPreview
<1>3. p \in 1 .. Len(previews)
  BY <1>1, <1>2 DEF RowInv, RowsTyped
<1>4. RowInv'
  BY <1>1, <1>2, <1>3, GrantAdded
<1>5. Grows
  BY <1>1, <1>2 DEF Grows, SameChange, Claimed, RowInv, RowsTyped
<1>6. Numbered'
  BY <1>1, <1>2, <1>4, <1>5, NumberedKept
<1>7. RuntimeTyped' /\ OthersUntouched' /\ ThreadKnows' /\ ResultKept'
  BY <1>2, <1>4, <1>5, RuntimeFrame
<1> QED
  BY <1>4, <1>6, <1>7 DEF ConfigurationInv, RowInv

LEMMA ExpireKeeps ==
  ASSUME ConfigurationInv, NEW s \in AdminSessions, Expire(s)
  PROVE  ConfigurationInv'
<1>1. RowInv /\ Numbered
  BY DEF ConfigurationInv, RowInv
<1>2. /\ previews' = Lapsed(s, previews) /\ grants' = Lapsed(s, grants)
      /\ UNCHANGED <<revisions, effective, changes, calls, wire, ctl, up, runtime>>
  BY DEF Expire
<1>3. RowInv'
  BY <1>1, <1>2, RowsLapse
<1>4. Grows
  BY <1>1, <1>2 DEF Grows, SameChange, Claimed, RowInv, RowsTyped
<1>5. Numbered'
  BY <1>1, <1>2, <1>3, <1>4, NumberedKept
<1>6. RuntimeTyped' /\ OthersUntouched' /\ ThreadKnows' /\ ResultKept'
  BY <1>2, <1>3, <1>4, RuntimeFrame
<1> QED
  BY <1>3, <1>5, <1>6 DEF ConfigurationInv, RowInv

LEMMA ApplyKeeps ==
  ASSUME ConfigurationInv, NEW s \in AdminSessions, NEW p, NEW g, ApplyConfiguration(s, p, g)
  PROVE  ConfigurationInv'
<1>1. RowInv /\ Numbered
  BY DEF ConfigurationInv, RowInv
<1>2. /\ PreviewHolds(s, p) /\ GrantHolds(s, p, g) /\ NoActiveChange /\ RecordChange(s, p, g)
      /\ UNCHANGED <<effective, ctl, up, runtime>>
      /\ calls' = [calls EXCEPT ![s] = [at |-> "waiting", change |-> Len(changes) + 1]]
      /\ wire' = wire \cup {Len(changes) + 1}
  BY DEF ApplyConfiguration
<1>3. p \in 1 .. Len(previews) /\ g \in 1 .. Len(grants)
  BY <1>1, <1>2 DEF RowInv, RowsTyped, PreviewHolds, OpenPreview, GrantHolds
<1>4. /\ RowInv' /\ Len(changes') = Len(changes) + 1
      /\ \A i \in 1 .. Len(changes) : changes'[i] = changes[i]
      /\ changes'[Len(changes) + 1].state = "pending"
      /\ \A r \in 1 .. Len(revisions) : revisions'[r] = revisions[r]
  BY <1>1, <1>2, <1>3, ChangeRecorded
<1>5. Len(changes) \in Nat
  BY <1>1 DEF RowInv, RowsTyped
<1>6. Grows
  <2>1. ASSUME NEW i \in 1 .. Len(changes')
        PROVE  i > Len(changes) => ~Claimed(i)'
    BY <1>4, <1>5 DEF Claimed
  <2>2. ASSUME NEW i \in 1 .. Len(changes)
        PROVE  /\ SameChange(changes[i], changes'[i]) /\ changes'[i] = changes[i]
               /\ ~Claimed(i) => ~Claimed(i)'
    BY <1>4 DEF SameChange, Claimed
  <2> QED
    BY <1>4, <1>5, <2>1, <2>2 DEF Grows
<1>7. Numbered'
  <2>1. calls' \in [AdminSessions -> ApplyRequests]
    BY <1>1, <1>2, <1>5 DEF Numbered, ApplyRequests
  <2>2. 1 .. Len(changes) \subseteq 1 .. Len(changes') /\ Len(changes) + 1 \in 1 .. Len(changes')
    BY <1>4, <1>5
  <2>3. \A t \in AdminSessions : calls'[t] # NoCall => calls'[t].change \in 1 .. Len(changes')
    BY <1>1, <1>2, <2>2 DEF Numbered
  <2> QED
    BY <1>1, <1>2, <2>1, <2>2, <2>3 DEF Numbered
<1>8. RuntimeTyped' /\ OthersUntouched' /\ ThreadKnows' /\ ResultKept'
  BY <1>2, <1>4, <1>6, RuntimeFrame
<1> QED
  BY <1>4, <1>7, <1>8 DEF ConfigurationInv, RowInv

\* The steps that touch none of the rows, nor the controller, nor the runtime.
LEMMA AsideKeeps ==
  ASSUME ConfigurationInv, UNCHANGED <<rows, calls, wire, ctl, runtime, up>>
  PROVE  ConfigurationInv'
<1>1. RowInv /\ Numbered /\ UNCHANGED rows
  BY DEF ConfigurationInv, RowInv
<1>2. RowInv' /\ Grows
  BY <1>1, RowsKept, GrowsByNothing
<1>3. Numbered'
  BY <1>1, <1>2, NumberedKept
<1>4. RuntimeTyped' /\ OthersUntouched' /\ ThreadKnows' /\ ResultKept'
  BY <1>2, RuntimeFrame
<1> QED
  BY <1>2, <1>3, <1>4 DEF ConfigurationInv, RowInv

LEMMA TimeoutKeeps ==
  ASSUME ConfigurationInv, NEW s \in AdminSessions, CommandTimesOut(s)
  PROVE  ConfigurationInv'
<1>1. RowInv /\ Numbered /\ UNCHANGED <<rows, ctl, runtime, up>>
  BY DEF ConfigurationInv, RowInv, CommandTimesOut
<1>2. RowInv' /\ Grows
  BY <1>1, RowsKept, GrowsByNothing
<1>3. Numbered'
  <2>1. PICK old \in ApplyRequests : old = calls[s]
    BY <1>1 DEF Numbered
  <2>2. old.at = "waiting" /\ old # NoCall /\ old.change \in 1 .. Len(changes)
    BY <1>1, <2>1 DEF CommandTimesOut, NoCall, Numbered
  <2>3. [old EXCEPT !.at = "failing"] \in ApplyRequests /\ [old EXCEPT !.at = "failing"].change = old.change
    BY <2>2 DEF ApplyRequests, NoCall
  <2>4. calls' = [calls EXCEPT ![s] = [old EXCEPT !.at = "failing"]]
    BY <2>1 DEF CommandTimesOut
  <2>5. calls' \in [AdminSessions -> ApplyRequests]
    BY <1>1, <2>3, <2>4 DEF Numbered
  <2>6. changes' = changes /\ wire' \subseteq wire
    BY <1>1 DEF rows, CommandTimesOut
  <2>7. \A t \in AdminSessions : calls'[t] # NoCall => calls'[t].change \in 1 .. Len(changes)
    BY <1>1, <2>2, <2>3, <2>4 DEF Numbered
  <2> QED
    BY <1>1, <2>5, <2>6, <2>7 DEF Numbered
<1>4. RuntimeTyped' /\ OthersUntouched' /\ ThreadKnows' /\ ResultKept'
  BY <1>1, <1>2, RuntimeFrame
<1> QED
  BY <1>2, <1>3, <1>4 DEF ConfigurationInv, RowInv

LEMMA FailDeliveryKeeps ==
  ASSUME ConfigurationInv, NEW s \in AdminSessions, FailDelivery(s)
  PROVE  ConfigurationInv'
<1>c. PICK c : c = calls[s].change
  OBVIOUS
<1>1. RowInv /\ Numbered /\ calls[s].at = "failing"
      /\ UNCHANGED <<revisions, effective, previews, grants, wire, ctl, runtime, up>>
      /\ calls' = [calls EXCEPT ![s] = NoCall]
  BY DEF ConfigurationInv, RowInv, FailDelivery
<1>2. c \in 1 .. Len(changes)
  BY <1>c, <1>1 DEF Numbered, NoCall
<1>3. RowInv' /\ Grows /\ Len(changes') = Len(changes)
  <2>1. CASE UNCHANGED changes
    <3>1. UNCHANGED rows
      BY <1>1, <2>1 DEF rows
    <3> QED
      BY <1>1, <2>1, <3>1, RowsKept, GrowsByNothing
  <2>2. CASE changes[c].state = "pending" /\ FailPending(c)
    <3>1. PICK old \in ChangeRows : old = changes[c]
      BY <1>1, <1>2 DEF RowInv, RowsTyped
    <3>2. changes' = [changes EXCEPT ![c] = [old EXCEPT !.state = "failed", !.stage = "failed",
                        !.reason = "controller_unavailable", !.nonce = 0]]
      BY <2>2, <3>1 DEF FailPending
    <3>3. "failed" \in Terminal /\ "controller_unavailable" \in Reasons
      BY DEF Terminal, Reasons
    <3>a. PICK row : row = [old EXCEPT !.state = "failed", !.stage = "failed",
                              !.reason = "controller_unavailable", !.nonce = 0]
      OBVIOUS
    <3>b. /\ row \in ChangeRows /\ SameChange(old, row)
          /\ row.state = "failed" /\ row.reason = "controller_unavailable"
      <4>1. "failed" \in States /\ "failed" \in Stages
        BY <3>3 DEF States, Stages
      <4> QED
        BY <3>3, <3>a, <4>1 DEF ChangeRows, SameChange
    <3>4. changes' = [changes EXCEPT ![c] = row]
      BY <3>2, <3>a
    <3>5. effective' \in SUBSET (1 .. Len(revisions)) /\ effective' # {}
      BY <1>1 DEF RowInv, RowsTyped
    <3>6. row.state \notin Active /\ SameChange(changes[c], row)
      BY <3>1, <3>b DEF Active
    <3>7. /\ RowInv' /\ Len(changes') = Len(changes) /\ changes'[c] = row
          /\ \A i \in 1 .. Len(changes) : i # c => changes'[i] = changes[i]
      BY <1>1, <1>2, <3>b, <3>4, <3>5, <3>6, RowUpdated
    <3>8. ~Claimed(c) /\ ~Claimed(c)'
      BY <2>2, <3>b, <3>7 DEF Claimed
    <3>9. ASSUME NEW i \in 1 .. Len(changes)
          PROVE  /\ SameChange(changes[i], changes'[i])
                 /\ Claimed(i) => changes'[i] = changes[i]
                 /\ ~Claimed(i) => ~Claimed(i)'
      BY <3>6, <3>7, <3>8 DEF SameChange, Claimed
    <3> QED
      BY <1>1, <3>7, <3>9 DEF Grows, RowInv, RowsTyped
  <2> QED
    BY <1>c, <2>1, <2>2 DEF FailDelivery
<1>4. Numbered'
  <2>1. NoCall \in ApplyRequests
    BY DEF ApplyRequests
  <2> QED
    BY <1>1, <1>3, <2>1 DEF Numbered
<1>5. RuntimeTyped' /\ OthersUntouched' /\ ThreadKnows' /\ ResultKept'
  BY <1>1, <1>3, RuntimeFrame
<1> QED
  BY <1>3, <1>4, <1>5 DEF ConfigurationInv, RowInv

LEMMA HandleKeeps ==
  ASSUME ConfigurationInv, NEW c \in wire, HandleCommand(c)
  PROVE  ConfigurationInv'
<1>1. /\ RowInv /\ Numbered /\ RuntimeTyped /\ OthersUntouched /\ ThreadKnows /\ ResultKept
      /\ up /\ wire' = wire \ {c} /\ UNCHANGED <<rows, runtime, up>>
  BY DEF ConfigurationInv, RowInv, HandleCommand
<1>2. RowInv' /\ Grows /\ changes' = changes
  BY <1>1, RowsKept, GrowsByNothing DEF rows
<1>3. c \in 1 .. Len(changes) /\ c \in Nat
  BY <1>1 DEF Numbered
<1>4. ASSUME NEW at \in {"none", "failing"}, Answer(c, at)
      PROVE  /\ calls' \in [AdminSessions -> ApplyRequests]
             /\ \A s \in AdminSessions : calls'[s] # NoCall => calls'[s].change \in 1 .. Len(changes)
  <2>1. [at |-> "failing", change |-> c] \in ApplyRequests /\ NoCall \in ApplyRequests
    BY <1>3 DEF ApplyRequests
  <2>2. [at |-> "failing", change |-> c].change = c
    OBVIOUS
  <2> QED
    BY <1>1, <1>3, <1>4, <2>1, <2>2 DEF Answer, Numbered
<1>5. CASE UNCHANGED ctl /\ Answer(c, "failing")
  <2>1. Numbered'
    BY <1>1, <1>2, <1>4, <1>5 DEF Numbered
  <2>2. RuntimeTyped' /\ OthersUntouched' /\ ThreadKnows' /\ ResultKept'
    BY <1>1, <1>2, <1>5, RuntimeFrame
  <2> QED
    BY <1>2, <2>1, <2>2 DEF ConfigurationInv, RowInv
<1>6. CASE ctl' = [at |-> "claim", change |-> c] /\ Answer(c, "none")
  <2>1. ctl'.at = "claim" /\ ctl'.change = c /\ ctl' \in Threads
    BY <1>3, <1>6 DEF Threads
  <2>2. Numbered'
    BY <1>1, <1>2, <1>3, <1>4, <1>6, <2>1 DEF Numbered
  <2>3. RuntimeTyped' /\ OthersUntouched'
    BY <1>1, <2>1 DEF RuntimeTyped, OthersUntouched, runtime
  <2>4. ThreadKnows'
    BY <2>1 DEF ThreadKnows, Working
  <2>5. ResultKept'
    BY <1>1, <1>2, ResultFrame DEF runtime
  <2> QED
    BY <1>2, <2>2, <2>3, <2>4, <2>5 DEF ConfigurationInv, RowInv
<1> QED
  BY <1>5, <1>6 DEF HandleCommand

\* The overrides document survives the process tree, and a start brings it back.
LEMMA CrashKeeps ==
  ASSUME ConfigurationInv, Crash
  PROVE  ConfigurationInv'
<1>1. /\ RowInv /\ Numbered /\ RuntimeTyped /\ OthersUntouched /\ ResultKept
      /\ up' = FALSE /\ wire' = {} /\ ctl' = IdleThread /\ UNCHANGED <<rows, overrides>>
      /\ calls' = [s \in AdminSessions |-> NoCall]
      /\ running' = [s \in Services |-> Down] /\ draining' = {}
  BY DEF ConfigurationInv, RowInv, Crash
<1>2. RowInv' /\ Grows
  BY <1>1, RowsKept, GrowsByNothing
<1>3. Numbered'
  BY <1>1 DEF Numbered, ApplyRequests
<1>4. RuntimeTyped' /\ OthersUntouched'
  BY <1>1 DEF RuntimeTyped, OthersUntouched, Threads
<1>5. ThreadKnows'
  BY <1>1 DEF ThreadKnows, IdleThread, Working
<1>6. ResultKept'
  BY <1>1, <1>2, ResultFrame
<1> QED
  BY <1>2, <1>3, <1>4, <1>5, <1>6 DEF ConfigurationInv, RowInv

LEMMA StartKeeps ==
  ASSUME ConfigurationInv, StartAll
  PROVE  ConfigurationInv'
<1>1. /\ RowInv /\ Numbered /\ RuntimeTyped /\ OthersUntouched /\ ResultKept
      /\ ~up /\ up' = TRUE /\ UNCHANGED <<rows, calls, wire, ctl, overrides, draining>>
      /\ running' = overrides /\ draining = {} /\ ctl = IdleThread
  BY DEF ConfigurationInv, RowInv, StartAll, OthersUntouched
<1>2. RowInv' /\ Grows
  BY <1>1, RowsKept, GrowsByNothing
<1>3. Numbered'
  BY <1>1, <1>2, NumberedKept
<1>4. RuntimeTyped' /\ OthersUntouched'
  BY <1>1 DEF RuntimeTyped, OthersUntouched
<1>5. ThreadKnows'
  BY <1>1 DEF ThreadKnows, IdleThread, Working
<1>6. ResultKept'
  BY <1>1, <1>2, ResultFrame
<1> QED
  BY <1>2, <1>3, <1>4, <1>5, <1>6 DEF ConfigurationInv, RowInv

-----------------------------------------------------------------------------
(* The controller's thread.                                                *)

\* A stage begins with the services the change affects.
LEMMA Entered ==
  ASSUME NEW stage \in Working \cup Terminal, NEW c \in Nat, NEW t, t = Enter(stage, c)
  PROVE  /\ t \in Threads /\ t # IdleThread /\ t.at = stage /\ t.change = c
         /\ t.report /\ t.next = 1
         /\ stage \in Working => t.left = Affected(c)
<1>1. DOMAIN Calls = Working
  BY StageCalls
<1>2. Affected(c) \subseteq Services /\ {} \subseteq Services
  BY DEF Affected
<1>3. PICK left \in SUBSET Services : left = IF stage \in DOMAIN Calls THEN Affected(c) ELSE {}
  BY <1>2
<1>4. t = [at |-> stage, change |-> c, report |-> TRUE, next |-> 1, left |-> left]
  BY <1>3 DEF Enter
<1>5. t \in Threads
  BY <1>4 DEF Threads
<1>6. t # IdleThread
  BY <1>4 DEF IdleThread, Working, Terminal
<1> QED
  BY <1>1, <1>3, <1>4, <1>5, <1>6

\* Desired and prior differ for OCR only, so that is the service affected.
LEMMA OnlyOcrAffected ==
  ASSUME RowInv, NEW c \in 1 .. Len(changes)
  PROVE  Affected(c) # {} => Affected(c) = {"ocr"}
<1>1. /\ revisions[changes[c].desired] \in Configs /\ revisions[changes[c].prior] \in Configs
  BY DEF RowInv, RowsTyped, Refers
<1>2. Affected(c) \subseteq {"ocr"}
  BY <1>1, ConfigurationAssumption DEF Affected
<1> QED
  BY <1>2

LEMMA ThreadAt ==
  ASSUME ConfigurationInv, ctl.at \in Working \cup Terminal
  PROVE  /\ ctl \in [at : Working \cup Terminal, change : Nat, report : BOOLEAN,
                     next : Nat, left : SUBSET Services]
         /\ ctl.change \in 1 .. Len(changes)
<1>1. ctl \in [at : Working \cup Terminal, change : Nat, report : BOOLEAN,
               next : Nat, left : SUBSET Services]
  BY DEF ConfigurationInv, RuntimeTyped, Threads, IdleThread, Working, Terminal
<1>2. ctl # IdleThread
  BY DEF IdleThread, Working, Terminal
<1> QED
  BY <1>1, <1>2 DEF ConfigurationInv, Numbered

\* The rollback begins with the same change, and knows nothing of the runtime.
LEMMA RaisedKnows ==
  ASSUME ConfigurationInv, ctl.at \in Working \cup Terminal, ctl' = Raised,
         SameChange(changes[ctl.change], changes'[ctl.change]), revisions' = revisions,
         ctl.at \in Caught => changes'[ctl.change].state = "applying"
  PROVE  /\ ThreadKnows' /\ ctl' \in Threads /\ ctl'.change = ctl.change
<1>1. PICK c \in Nat : c = ctl.change /\ c \in 1 .. Len(changes)
  BY ThreadAt
<1>2. CASE ctl.at \in Caught
  <2>1. ctl' = Enter("rolling_back", c)
    BY <1>1, <1>2 DEF Raised
  <2>2. /\ ctl' \in Threads /\ ctl'.at = "rolling_back" /\ ctl'.change = c
        /\ ctl'.next = 1 /\ ctl'.left = Affected(c)
    <3>1. "rolling_back" \in Working
      BY DEF Working
    <3> QED
      BY <1>1, <2>1, <3>1, Entered
  <2>3. Affected(c) = {"ocr"}
    BY <1>1, <1>2 DEF ConfigurationInv, ThreadKnows, Caught, Working
  <2>4. Affected(c)' = Affected(c)
    BY <1>1 DEF Affected, SameChange
  <2>5. Len(Calls["rolling_back"]) = 3
    BY StageCalls
  <2> QED
    BY <1>1, <1>2, <2>2, <2>3, <2>4, <2>5 DEF ThreadKnows, Working
<1>3. CASE ctl.at \notin Caught
  <2>1. ctl' = Enter("failed", c)
    BY <1>1, <1>3 DEF Raised
  <2>2. ctl' \in Threads /\ ctl'.at = "failed" /\ ctl'.change = c
    <3>1. "failed" \in Terminal
      BY DEF Terminal
    <3> QED
      BY <1>1, <2>1, <3>1, Entered
  <2> QED
    BY <1>1, <2>2 DEF ThreadKnows, Working
<1> QED
  BY <1>2, <1>3

LEMMA ClaimRows ==
  ASSUME RowInv, NEW c \in 1 .. Len(changes), changes[c].state = "pending", ClaimRow(c),
         UNCHANGED <<revisions, effective, previews, grants>>
  PROVE  /\ RowInv' /\ Len(changes') = Len(changes) /\ changes'[c].state = "applying"
         /\ ResultKept'
<1>1. PICK old \in ChangeRows : old = changes[c]
  BY DEF RowInv, RowsTyped
<1>2. PICK row : row = [old EXCEPT !.state = "applying", !.stage = "preflight"]
  OBVIOUS
<1>3. /\ row \in ChangeRows /\ SameChange(old, row)
      /\ row.state = "applying" /\ row.reason = old.reason
  <2>1. "applying" \in States /\ "preflight" \in Stages
    BY DEF Active, States, Stages
  <2> QED
    BY <1>2, <2>1 DEF ChangeRows, SameChange
<1>4. changes' = [changes EXCEPT ![c] = row]
  BY <1>1, <1>2 DEF ClaimRow
<1>5. changes[c].state \in Active
  BY DEF Active
<1>6. old.reason # "controller_unavailable" /\ c = Len(changes)
  BY <1>1, <1>5 DEF RowInv, OnlyLastActive
<1>7. effective' \in SUBSET (1 .. Len(revisions)) /\ effective' # {}
  BY DEF RowInv, RowsTyped
<1>8. RowInv' /\ Len(changes') = Len(changes) /\ changes'[c] = row
  BY <1>1, <1>3, <1>4, <1>5, <1>6, <1>7, RowUpdated
<1>9. ResultKept'
  BY <1>3, <1>6, <1>8, ResultOpen
<1> QED
  BY <1>3, <1>8, <1>9

LEMMA ClaimKeeps ==
  ASSUME ConfigurationInv, Claim
  PROVE  ConfigurationInv'
<1>1. /\ RowInv /\ Numbered /\ RuntimeTyped /\ OthersUntouched /\ ResultKept
      /\ up /\ ctl.at = "claim"
      /\ UNCHANGED <<revisions, effective, previews, grants, runtime, calls, wire, up>>
  BY DEF ConfigurationInv, RowInv, Claim
<1>2. PICK c : c = ctl.change /\ c \in 1 .. Len(changes)
  BY <1>1 DEF Numbered, IdleThread
<1>3. CASE UNCHANGED changes /\ ctl' = IdleThread
  <2>1. UNCHANGED rows
    BY <1>1, <1>3 DEF rows
  <2>2. RowInv' /\ Grows
    BY <1>1, <2>1, RowsKept, GrowsByNothing
  <2>3. Numbered'
    BY <1>1, <1>3 DEF Numbered
  <2>4. RuntimeTyped' /\ OthersUntouched' /\ ThreadKnows'
    BY <1>1, <1>3 DEF RuntimeTyped, OthersUntouched, ThreadKnows, IdleThread, Threads, Working, runtime
  <2>5. ResultKept'
    BY <1>1, <2>2, ResultFrame DEF runtime
  <2> QED
    BY <2>2, <2>3, <2>4, <2>5 DEF ConfigurationInv, RowInv
<1>4. CASE /\ changes[c].state = "pending" /\ ClaimRow(c)
           /\ ctl' = IdleThread \/ ctl' = [at |-> "preflight", change |-> c]
  <2>1. /\ RowInv' /\ Len(changes') = Len(changes) /\ changes'[c].state = "applying"
        /\ ResultKept'
    BY <1>1, <1>2, <1>4, ClaimRows
  <2>2. ctl' \in Threads /\ (ctl' # IdleThread => ctl'.change = c) /\ ctl'.at \in {"idle", "preflight"}
    BY <1>2, <1>4 DEF Threads, IdleThread
  <2>3. Numbered'
    BY <1>1, <1>2, <2>1, <2>2 DEF Numbered
  <2>4. RuntimeTyped' /\ OthersUntouched'
    BY <1>1, <2>2 DEF RuntimeTyped, OthersUntouched, runtime
  <2>5. ThreadKnows'
    BY <2>1, <2>2 DEF ThreadKnows, Working, IdleThread
  <2> QED
    BY <2>1, <2>3, <2>4, <2>5 DEF ConfigurationInv, RowInv
<1> QED
  BY <1>2, <1>3, <1>4 DEF Claim

LEMMA PreflightKeeps ==
  ASSUME ConfigurationInv, Preflight
  PROVE  ConfigurationInv'
<1>1. /\ RowInv /\ Numbered /\ RuntimeTyped /\ OthersUntouched /\ ThreadKnows /\ ResultKept
      /\ up /\ ctl.at = "preflight" /\ UNCHANGED <<rows, runtime, calls, wire, up>>
  BY DEF ConfigurationInv, RowInv, Preflight
<1>2. PICK c : c = ctl.change /\ c \in 1 .. Len(changes) /\ c \in Nat
  BY <1>1 DEF Numbered, IdleThread
<1>3. RowInv' /\ Grows /\ changes' = changes /\ revisions' = revisions
  BY <1>1, RowsKept, GrowsByNothing DEF rows
<1>4. changes[c].state = "applying"
  BY <1>1, <1>2 DEF ThreadKnows
<1>5. /\ ctl' \in Threads /\ ctl'.change = c
      /\ \/ ctl'.at = "failed"
         \/ ctl'.at = "draining" /\ ctl'.next = 1 /\ ctl'.left = Affected(c) /\ Affected(c) # {}
  <2>1. CASE Affected(c) # {} /\ ctl' = Enter("draining", c)
    <3>1. "draining" \in Working
      BY DEF Working
    <3>2. ctl' = Enter("draining", c)
      BY <2>1
    <3>3. /\ ctl' \in Threads /\ ctl'.change = c /\ ctl'.at = "draining" /\ ctl'.next = 1
          /\ ctl'.left = Affected(c)
      BY <1>2, <3>1, <3>2, Entered
    <3> QED
      BY <2>1, <3>3
  <2>2. CASE ctl' = Enter("failed", c)
    <3>1. "failed" \in Working \cup Terminal
      BY DEF Terminal
    <3>2. ctl' \in Threads /\ ctl'.change = c /\ ctl'.at = "failed"
      BY <1>2, <2>2, <3>1, Entered
    <3> QED
      BY <3>2
  <2>3. (Affected(c) # {} /\ ctl' = Enter("draining", c)) \/ ctl' = Enter("failed", c)
    BY <1>2 DEF Preflight
  <2> QED
    BY <2>1, <2>2, <2>3
<1>6. Numbered'
  BY <1>1, <1>2, <1>3, <1>5 DEF Numbered
<1>7. RuntimeTyped' /\ OthersUntouched'
  BY <1>1, <1>5 DEF RuntimeTyped, OthersUntouched, runtime
<1>8. ThreadKnows'
  <2>1. Affected(c)' = Affected(c)
    BY <1>3 DEF Affected
  <2>2. Affected(c) # {} => Affected(c) = {"ocr"}
    BY <1>1, <1>2, OnlyOcrAffected
  <2>3. Len(Calls["draining"]) = 1
    BY StageCalls
  <2>4. CASE ctl'.at = "failed"
    BY <2>4 DEF ThreadKnows, Working
  <2>5. CASE ctl'.at = "draining" /\ ctl'.next = 1 /\ ctl'.left = Affected(c) /\ Affected(c) # {}
    <3>1. changes'[ctl'.change].state = "applying"
      BY <1>3, <1>4, <1>5
    <3>2. ctl'.left = {"ocr"} /\ Affected(ctl.change)' = {"ocr"}
      BY <1>3, <1>5, <2>1, <2>2, <2>5 DEF Affected
    <3>3. ctl'.next \in 1 .. Len(Calls[ctl'.at])
      <4>1. Len(Calls[ctl'.at]) = 1 /\ ctl'.next = 1
        BY <2>3, <2>5, Zenon
      <4> QED
        BY <4>1
    <3> QED
      BY <2>5, <3>1, <3>2, <3>3 DEF ThreadKnows, Working
  <2> QED
    BY <1>5, <2>4, <2>5
<1>9. ResultKept'
  BY <1>1, <1>3, ResultFrame DEF runtime
<1> QED
  BY <1>3, <1>6, <1>7, <1>8, <1>9 DEF ConfigurationInv, RowInv

\* A function that agrees with the baseline for the other services and with a
\* configuration for OCR is that configuration.
LEMMA OcrReplaced ==
  ASSUME NEW config \in Configs, NEW f, f \in [Services -> Environments \cup {Down}],
         \A s \in Services \ {"ocr"} : f[s] = Baseline[s], "ocr" \in Services
  PROVE  [f EXCEPT !["ocr"] = config["ocr"]] = config
<1>1. config \in [Services -> Environments] /\ \A s \in Services \ {"ocr"} : config[s] = Baseline[s]
  BY ConfigurationAssumption DEF Environments
<1> QED
  BY <1>1

\* What a call of the thread leaves to be shown once the rows are unchanged.
LEMMA StepFrame ==
  ASSUME ConfigurationInv, Step, ctl' \in Threads, ctl'.change = ctl.change,
         ThreadKnows', overrides' \in [Services -> Environments],
         running' \in [Services -> Environments \cup {Down}], draining' \subseteq Services,
         \A s \in Services \ {"ocr"} : /\ overrides'[s] = Baseline[s] /\ s \notin draining'
                                       /\ running'[s] = Baseline[s]
  PROVE  ConfigurationInv'
<1>1. /\ RowInv /\ Numbered /\ RuntimeTyped /\ ThreadKnows
      /\ up /\ ctl.at \in Working /\ UNCHANGED <<rows, calls, wire, up>>
  BY StageCalls DEF ConfigurationInv, RowInv, Step
<1>2. PICK c : c = ctl.change /\ c \in 1 .. Len(changes)
  BY <1>1, ThreadAt
<1>3. RowInv' /\ changes' = changes
  BY <1>1, RowsKept DEF rows
<1>4. Numbered'
  BY <1>1, <1>2, <1>3 DEF Numbered
<1>5. RuntimeTyped' /\ OthersUntouched'
  BY <1>1 DEF RuntimeTyped, OthersUntouched
<1>6. changes[c].state = "applying"
  BY <1>1, <1>2 DEF ThreadKnows
<1>7. changes[c].reason # "controller_unavailable" /\ c = Len(changes)
  BY <1>1, <1>2, <1>6 DEF RowInv, OnlyLastActive, Active
<1>8. ResultKept'
  BY <1>2, <1>3, <1>6, <1>7, ResultOpen
<1> QED
  BY <1>3, <1>4, <1>5, <1>8 DEF ConfigurationInv, RowInv

\* A call leaves the other services and what the runtime may be.
LEMMA CallsTyped ==
  ASSUME ConfigurationInv, up, ctl.at \in Working, "ocr" \in Services, NEW op,
         Perform(op, "ocr") \/ PerformFails(op, "ocr")
  PROVE  /\ overrides' \in [Services -> Environments]
         /\ running' \in [Services -> Environments \cup {Down}] /\ draining' \subseteq Services
         /\ \A s \in Services \ {"ocr"} : /\ overrides'[s] = Baseline[s] /\ s \notin draining'
                                          /\ running'[s] = Baseline[s]
<1>1. /\ overrides \in [Services -> Environments]
      /\ running \in [Services -> Environments \cup {Down}] /\ draining \subseteq Services
      /\ \A s \in Services \ {"ocr"} : /\ overrides[s] = Baseline[s] /\ s \notin draining
                                       /\ running[s] = Baseline[s]
  BY DEF ConfigurationInv, RuntimeTyped, OthersUntouched
<1>2. ctl.change \in 1 .. Len(changes)
  BY ThreadAt
<1>3. /\ revisions[changes[ctl.change].prior] \in [Services -> Environments]
      /\ revisions[changes[ctl.change].desired] \in [Services -> Environments]
  <2>1. /\ revisions[changes[ctl.change].prior] \in Configs
        /\ revisions[changes[ctl.change].desired] \in Configs
    BY <1>2 DEF ConfigurationInv, RowsTyped, Refers
  <2> QED
    BY <2>1, ConfigurationAssumption DEF Environments
<1>4. Target("ocr") \in Environments
  BY <1>3 DEF Target
<1>5. CASE UNCHANGED runtime
  BY <1>1, <1>5 DEF runtime
<1>6. CASE Drain("ocr")
  BY <1>1, <1>6 DEF Drain
<1>7. CASE ReplaceEnvironment("ocr")
  BY <1>1, <1>4, <1>7 DEF ReplaceEnvironment
<1>8. CASE Restart("ocr")
  BY <1>1, <1>8 DEF Restart
<1>9. CASE RestartFails("ocr")
  BY <1>1, <1>9 DEF RestartFails
<1> QED
  BY <1>5, <1>6, <1>7, <1>8, <1>9 DEF Perform, PerformFails, Validate

\* What one call achieves, stage by stage.
LEMMA CallSucceeds ==
  ASSUME ConfigurationInv, up, ctl.at \in Working, "ocr" \in Services, UNCHANGED rows,
         Perform(Calls[ctl.at][ctl.next], "ocr"), ctl' = AfterCall("ocr")
  PROVE  ctl' \in Threads /\ ctl'.change = ctl.change /\ ThreadKnows'
<1>1. /\ RowInv /\ RuntimeTyped /\ OthersUntouched /\ ThreadKnows
      /\ revisions' = revisions /\ changes' = changes
  BY DEF ConfigurationInv, RowInv, rows
<1>2. PICK c \in Nat : c = ctl.change /\ c \in 1 .. Len(changes)
  BY ThreadAt
<1>3. /\ changes[c].state = "applying" /\ ctl.left = {"ocr"} /\ Affected(c) = {"ocr"}
      /\ ctl.next \in 1 .. Len(Calls[ctl.at])
  BY <1>1, <1>2 DEF ThreadKnows
<1>4. PICK new \in Configs, old \in Configs :
        new = revisions[changes[c].desired] /\ old = revisions[changes[c].prior]
  BY <1>1, <1>2 DEF RowInv, RowsTyped, Refers
<1>5. Desired = new /\ Prior = old
  BY <1>2, <1>4 DEF Desired, Prior
<1>6. Target("ocr") = IF ctl.at = "rolling_back" THEN old["ocr"] ELSE new["ocr"]
  BY <1>2, <1>4 DEF Target
<1>7. /\ [overrides EXCEPT !["ocr"] = new["ocr"]] = new
      /\ [overrides EXCEPT !["ocr"] = old["ocr"]] = old
      /\ [running EXCEPT !["ocr"] = new["ocr"]] = new
      /\ [running EXCEPT !["ocr"] = old["ocr"]] = old
  <2>1. /\ overrides \in [Services -> Environments \cup {Down}]
        /\ running \in [Services -> Environments \cup {Down}]
    BY <1>1 DEF RuntimeTyped
  <2>2. \A s \in Services \ {"ocr"} : overrides[s] = Baseline[s] /\ running[s] = Baseline[s]
    BY <1>1 DEF OthersUntouched
  <2> QED
    BY <2>1, <2>2, OcrReplaced
<1>8. draining \ {"ocr"} = {}
  BY <1>1 DEF OthersUntouched, RuntimeTyped
<1>9. Affected(c)' = {"ocr"} /\ changes'[c].state = "applying"
  BY <1>1, <1>3 DEF Affected
<1>10. ASSUME NEW stage \in Working \cup Terminal, ctl' = Enter(stage, c)
       PROVE  /\ ctl' \in Threads /\ ctl'.at = stage /\ ctl'.change = c /\ ctl'.next = 1
              /\ stage \in Working => ctl'.left = {"ocr"}
  BY <1>3, <1>10, Entered
<1>11. ASSUME ctl'.change = c PROVE Desired' = new /\ Prior' = old
  BY <1>1, <1>4, <1>11 DEF Desired, Prior
<1>12. \A stage \in Working : Len(Calls[stage]) >= 1
  BY StageCalls DEF Working
<1>13. CASE ctl.at = "draining"
  <2>1. Len(Calls[ctl.at]) = 1 /\ ctl.next = 1
    BY <1>3, <1>13, StageCalls
  <2>2. ctl' = Enter("applying", c)
    BY <1>2, <1>3, <1>13, <2>1 DEF AfterCall, Following
  <2>3. /\ ctl' \in Threads /\ ctl'.at = "applying" /\ ctl'.change = c /\ ctl'.next = 1
        /\ ctl'.left = {"ocr"}
    BY <1>10, <2>2 DEF Working
  <2>4. ctl'.next \in 1 .. Len(Calls[ctl'.at])
    BY <1>12, <2>3, StageCalls DEF Working
  <2> QED
    BY <1>2, <1>9, <2>3, <2>4 DEF ThreadKnows, Working
<1>14. CASE ctl.at = "applying"
  <2>1. Len(Calls[ctl.at]) = 1 /\ ctl.next = 1 /\ Calls[ctl.at][ctl.next] = "replace"
    BY <1>3, <1>14, StageCalls
  <2>2. ctl' = Enter("restarting", c)
    BY <1>2, <1>3, <1>14, <2>1 DEF AfterCall, Following
  <2>3. /\ ctl' \in Threads /\ ctl'.at = "restarting" /\ ctl'.change = c /\ ctl'.next = 1
        /\ ctl'.left = {"ocr"}
    BY <1>10, <2>2 DEF Working
  <2>4. overrides' = Desired'
    BY <1>6, <1>7, <1>11, <1>14, <2>1, <2>3 DEF Perform, ReplaceEnvironment
  <2>5. ctl'.next \in 1 .. Len(Calls[ctl'.at])
    BY <1>12, <2>3, StageCalls DEF Working
  <2> QED
    BY <1>2, <1>9, <2>3, <2>4, <2>5 DEF ThreadKnows, Working
<1>15. CASE ctl.at = "restarting"
  <2>1. Len(Calls[ctl.at]) = 1 /\ ctl.next = 1 /\ Calls[ctl.at][ctl.next] = "restart"
    BY <1>3, <1>15, StageCalls
  <2>2. ctl' = Enter("validating", c)
    BY <1>2, <1>3, <1>15, <2>1 DEF AfterCall, Following
  <2>3. /\ ctl' \in Threads /\ ctl'.at = "validating" /\ ctl'.change = c /\ ctl'.next = 1
        /\ ctl'.left = {"ocr"}
    BY <1>10, <2>2 DEF Working
  <2>4. overrides = new
    BY <1>1, <1>5, <1>15 DEF ThreadKnows
  <2>5. overrides' = new /\ running' = new /\ draining' = {}
    BY <1>7, <1>8, <2>1, <2>4 DEF Perform, Restart
  <2>6. Serving(Desired)'
    BY <1>11, <2>3, <2>5 DEF Serving
  <2>7. ctl'.next \in 1 .. Len(Calls[ctl'.at])
    BY <1>12, <2>3, StageCalls DEF Working
  <2> QED
    BY <1>2, <1>9, <2>3, <2>6, <2>7 DEF ThreadKnows, Working
<1>16. CASE ctl.at = "validating"
  <2>1. Len(Calls[ctl.at]) = 1 /\ ctl.next = 1 /\ Calls[ctl.at][ctl.next] = "validate"
    BY <1>3, <1>16, StageCalls
  <2>2. ctl' = Enter("effective", c)
    BY <1>2, <1>3, <1>16, <2>1 DEF AfterCall, Following
  <2>3. ctl' \in Threads /\ ctl'.at = "effective" /\ ctl'.change = c
    BY <1>10, <2>2 DEF Terminal
  <2>4. Serving(new)
    BY <1>1, <1>5, <1>16 DEF ThreadKnows
  <2>5. UNCHANGED runtime
    BY <2>1 DEF Perform, Validate
  <2>6. Serving(Desired)'
    BY <1>11, <2>3, <2>4, <2>5 DEF Serving, runtime
  <2> QED
    BY <1>2, <1>9, <2>3, <2>6 DEF ThreadKnows, Working
<1>17. CASE ctl.at = "rolling_back"
  <2>1. Len(Calls[ctl.at]) = 3 /\ ctl.next \in {1, 2, 3}
    BY <1>3, <1>17, StageCalls
  <2>2. ctl \in [at : Working \cup Terminal, change : Nat, report : BOOLEAN,
                 next : Nat, left : SUBSET Services]
    BY ThreadAt
  <2>3. ASSUME NEW n \in {1, 2}, ctl.next = n
        PROVE  /\ ctl' \in Threads /\ ctl'.at = "rolling_back" /\ ctl'.change = c
               /\ ctl'.left = {"ocr"} /\ ctl'.next = n + 1
    <3>1. ctl' = [ctl EXCEPT !.next = n + 1]
      BY <2>1, <2>3 DEF AfterCall
    <3>2. ctl' \in [at : Working \cup Terminal, change : Nat, report : BOOLEAN,
                    next : Nat, left : SUBSET Services]
      BY <2>2, <3>1
    <3> QED
      BY <1>2, <1>3, <1>17, <2>2, <3>1, <3>2 DEF Threads
  <2>4. CASE ctl.next = 1
    <3>1. Calls[ctl.at][ctl.next] = "replace"
      BY <1>17, <2>4, StageCalls
    <3>2. /\ ctl' \in Threads /\ ctl'.at = "rolling_back" /\ ctl'.change = c
          /\ ctl'.left = {"ocr"} /\ ctl'.next = 2
      BY <2>3, <2>4
    <3>3. overrides' = Prior'
      BY <1>6, <1>7, <1>11, <1>17, <3>1, <3>2 DEF Perform, ReplaceEnvironment
    <3>4. ctl'.next \in 1 .. Len(Calls[ctl'.at])
      <4>1. Len(Calls["rolling_back"]) = 3
        BY StageCalls
      <4>2. Len(Calls[ctl'.at]) = 3
        BY <3>2, <4>1
      <4>3. ctl'.next = 2
        BY <3>2
      <4> QED
        BY <4>2, <4>3
    <3> QED
      BY <1>2, <1>9, <3>2, <3>3, <3>4 DEF ThreadKnows, Working
  <2>5. CASE ctl.next = 2
    <3>1. Calls[ctl.at][ctl.next] = "restart"
      BY <1>17, <2>5, StageCalls
    <3>2. /\ ctl' \in Threads /\ ctl'.at = "rolling_back" /\ ctl'.change = c
          /\ ctl'.left = {"ocr"} /\ ctl'.next = 3
      BY <2>3, <2>5
    <3>3. overrides = old
      BY <1>1, <1>5, <1>17, <2>5 DEF ThreadKnows
    <3>4. overrides' = old /\ running' = old /\ draining' = {}
      BY <1>7, <1>8, <3>1, <3>3 DEF Perform, Restart
    <3>5. Serving(Prior)'
      BY <1>11, <3>2, <3>4 DEF Serving
    <3>6. ctl'.next \in 1 .. Len(Calls[ctl'.at])
      <4>1. Len(Calls["rolling_back"]) = 3
        BY StageCalls
      <4>2. Len(Calls[ctl'.at]) = 3
        BY <3>2, <4>1
      <4>3. ctl'.next = 3
        BY <3>2
      <4> QED
        BY <4>2, <4>3
    <3> QED
      BY <1>2, <1>9, <3>2, <3>5, <3>6 DEF ThreadKnows, Working
  <2>6. CASE ctl.next = 3
    <3>1. Calls[ctl.at][ctl.next] = "validate"
      BY <1>17, <2>6, StageCalls
    <3>2. ctl' = Enter("rolled_back", c)
      BY <1>2, <1>3, <1>17, <2>1, <2>6 DEF AfterCall, Following
    <3>3. ctl' \in Threads /\ ctl'.at = "rolled_back" /\ ctl'.change = c
      BY <1>10, <3>2 DEF Terminal
    <3>4. Serving(old)
      BY <1>1, <1>5, <1>17, <2>6 DEF ThreadKnows
    <3>5. UNCHANGED runtime
      BY <3>1 DEF Perform, Validate
    <3>6. Serving(Prior)'
      BY <1>11, <3>3, <3>4, <3>5 DEF Serving, runtime
    <3> QED
      BY <1>2, <1>9, <3>3, <3>6 DEF ThreadKnows, Working
  <2> QED
    BY <2>1, <2>4, <2>5, <2>6
<1> QED
  BY <1>13, <1>14, <1>15, <1>16, <1>17 DEF Working

LEMMA StepKeeps ==
  ASSUME ConfigurationInv, Step
  PROVE  ConfigurationInv'
<1>1. up /\ ctl.at \in Working /\ UNCHANGED rows /\ ThreadKnows
  BY StageCalls DEF ConfigurationInv, Step
<1>2. PICK s \in Services :
        /\ IsFirst(s, ctl.left)
        /\ \/ Perform(Calls[ctl.at][ctl.next], s) /\ ctl' = AfterCall(s)
           \/ PerformFails(Calls[ctl.at][ctl.next], s) /\ ctl' = Raised
  BY DEF Step
<1>3. s = "ocr"
  BY <1>1, <1>2 DEF IsFirst, ThreadKnows
<1>4. /\ overrides' \in [Services -> Environments]
      /\ running' \in [Services -> Environments \cup {Down}] /\ draining' \subseteq Services
      /\ \A t \in Services \ {"ocr"} : /\ overrides'[t] = Baseline[t] /\ t \notin draining'
                                       /\ running'[t] = Baseline[t]
  BY <1>1, <1>2, <1>3, CallsTyped
<1>5. CASE Perform(Calls[ctl.at][ctl.next], "ocr") /\ ctl' = AfterCall("ocr")
  BY <1>1, <1>3, <1>4, <1>5, CallSucceeds, StepFrame
<1>6. CASE ctl' = Raised
  <2>1. changes' = changes /\ revisions' = revisions
    BY <1>1 DEF rows
  <2>2. SameChange(changes[ctl.change], changes'[ctl.change])
    BY <2>1 DEF SameChange
  <2>3. changes'[ctl.change].state = "applying"
    BY <1>1, <2>1 DEF ThreadKnows
  <2>4. ThreadKnows' /\ ctl' \in Threads /\ ctl'.change = ctl.change
    BY <1>1, <1>6, <2>1, <2>2, <2>3, RaisedKnows
  <2> QED
    BY <1>4, <2>4, StepFrame
<1> QED
  BY <1>2, <1>3, <1>5, <1>6

\* A report ends or advances the row of the thread's change, which is the last
\* one; it calls a change effective or rolled back only when that is served.
LEMMA ReportedRows ==
  ASSUME ConfigurationInv, NEW c \in 1 .. Len(changes), c = ctl.change,
         ctl.at \in Working \cup Terminal, up, Report(c, ctl.at),
         UNCHANGED <<revisions, previews, grants, runtime, up>>
  PROVE  /\ RowInv' /\ Len(changes') = Len(changes) /\ SameChange(changes[c], changes'[c])
         /\ ctl.at \in Working => changes'[c].state = "applying"
         /\ ResultKept'
<1>1. RowInv /\ ThreadKnows /\ RuntimeTyped /\ changes[c].state = "applying"
  BY DEF ConfigurationInv, RowInv, Report
<1>2. changes[c].reason # "controller_unavailable" /\ c = Len(changes) /\ changes[c].state \in Active
  BY <1>1 DEF RowInv, OnlyLastActive, Active
<1>3. PICK old \in ChangeRows : old = changes[c]
  BY <1>1 DEF RowInv, RowsTyped
<1>4. effective \in SUBSET (1 .. Len(revisions)) /\ effective # {} /\ old.desired \in 1 .. Len(revisions)
  BY <1>1, <1>3 DEF RowInv, RowsTyped, Refers
<1>5. CASE ctl.at \in Working
  <2>1. ctl.at \notin Terminal /\ ctl.at \in Stages
    BY <1>5 DEF Working, Terminal, Stages
  <2>2. changes' = [changes EXCEPT ![c] = [old EXCEPT !.stage = ctl.at]] /\ effective' = effective
    BY <1>3, <2>1 DEF Report, AdvanceRow
  <2>3. PICK row : row = [old EXCEPT !.stage = ctl.at]
    OBVIOUS
  <2>4. /\ row \in ChangeRows /\ SameChange(old, row)
        /\ row.state = old.state /\ row.reason = old.reason
    BY <2>1, <2>3 DEF ChangeRows, SameChange
  <2>5. RowInv' /\ Len(changes') = Len(changes) /\ changes'[c] = row
    BY <1>1, <1>2, <1>3, <1>4, <2>2, <2>3, <2>4, RowUpdated
  <2>6. ResultKept'
    BY <1>1, <1>2, <1>3, <2>4, <2>5, ResultOpen
  <2> QED
    BY <1>1, <1>3, <2>4, <2>5, <2>6
<1>6. CASE ctl.at \in Terminal
  <2>1. PICK result \in Terminal : result = ctl.at
    BY <1>6
  <2>2. result \in States /\ result \in Stages /\ "reported" \in Reasons /\ result \notin Active
        /\ ctl.at \notin Working
    BY <2>1 DEF States, Stages, Reasons, Terminal, Active, Working
  <2>3. PICK row : row = [old EXCEPT !.state = result, !.stage = result,
                            !.reason = "reported", !.nonce = 0]
    OBVIOUS
  <2>4. /\ row \in ChangeRows /\ SameChange(old, row)
        /\ row.state = result /\ row.reason = "reported"
    BY <2>2, <2>3 DEF ChangeRows, SameChange
  <2>5. changes' = [changes EXCEPT ![c] = row]
    BY <1>3, <2>1, <2>3 DEF Report, FinishRow
  <2>6. effective' \in SUBSET (1 .. Len(revisions)) /\ effective' # {}
    BY <1>3, <1>4, <2>1 DEF Report, FinishRow
  <2>7. /\ RowInv' /\ Len(changes') = Len(changes) /\ changes'[c] = row
        /\ \A i \in 1 .. Len(changes) : i # c => changes'[i] = changes[i]
    BY <1>1, <1>3, <2>2, <2>4, <2>5, <2>6, RowUpdated
  <2>8. CASE result = "failed"
    <3>1. ResultKept'
      BY <1>2, <2>4, <2>7, <2>8, ResultOpen
    <3> QED
      BY <1>3, <2>2, <2>4, <2>7, <3>1
  <2>9. CASE result \in {"effective", "rolled_back"}
    <3>1. Outcome(c)' = IF result = "effective" THEN Desired ELSE Prior
      BY <1>3, <2>4, <2>7 DEF Outcome, Desired, Prior, SameChange
    <3>2. Serving(IF result = "effective" THEN Desired ELSE Prior)
      BY <1>1, <2>1, <2>9 DEF ThreadKnows
    <3>3. Serving(Outcome(c))'
      BY <3>1, <3>2 DEF Serving, runtime
    <3>4. Claimed(c)'
      BY <2>2, <2>4, <2>7 DEF Claimed, Active
    <3>5. ASSUME NEW i \in 1 .. Len(changes'), LastClaimed(i)' PROVE i = c
      <4>1. DOMAIN changes' = 1 .. Len(changes') /\ c \in DOMAIN changes' /\ Len(changes') \in Nat
        BY <2>7 DEF RowInv, RowsTyped
      <4> QED
        BY <1>2, <2>7, <3>4, <3>5, <4>1 DEF LastClaimed
    <3>6. ResultKept'
      BY <3>3, <3>5 DEF ResultKept, Serving
    <3> QED
      BY <1>3, <2>2, <2>4, <2>7, <3>6
  <2> QED
    BY <2>8, <2>9 DEF Terminal
<1> QED
  BY <1>5, <1>6

LEMMA ReportKeeps ==
  ASSUME ConfigurationInv, ReportStage
  PROVE  ConfigurationInv'
<1>1. /\ RowInv /\ Numbered /\ RuntimeTyped /\ OthersUntouched /\ ThreadKnows /\ ResultKept
      /\ up /\ ctl.at \in Working \cup Terminal
      /\ UNCHANGED <<revisions, previews, grants, runtime, calls, wire, up>>
  BY StageCalls DEF ConfigurationInv, RowInv, ReportStage
<1>2. PICK c \in Nat : c = ctl.change /\ c \in 1 .. Len(changes)
  BY <1>1, ThreadAt
<1>3. /\ RowInv' /\ Len(changes') = Len(changes) /\ SameChange(changes[c], changes'[c])
      /\ ctl.at \in Working => changes'[c].state = "applying"
      /\ ResultKept'
  <2>1. CASE Report(c, ctl.at)
    BY <1>1, <1>2, <2>1, ReportedRows
  <2>2. CASE UNCHANGED <<changes, effective>>
    <3>1. UNCHANGED rows
      BY <1>1, <2>2 DEF rows
    <3>2. RowInv' /\ Grows
      BY <1>1, <3>1, RowsKept, GrowsByNothing
    <3>3. ResultKept'
      BY <1>1, <3>2, ResultFrame DEF runtime
    <3> QED
      BY <1>1, <1>2, <2>2, <3>2, <3>3 DEF SameChange, ThreadKnows
  <2> QED
    BY <1>2, <2>1, <2>2 DEF ReportStage
<1>4. ctl' \in Threads /\ (ctl' # IdleThread => ctl'.change = c) /\ ThreadKnows'
  <2>1. CASE ctl' = IdleThread
    BY <2>1 DEF Threads, IdleThread, ThreadKnows, Working
  <2>2. CASE ctl' = Raised
    <3>1. ctl.at \in Caught => ctl.at \in Working
      BY DEF Caught, Working
    <3> QED
      BY <1>1, <1>2, <1>3, <2>2, <3>1, RaisedKnows
  <2>3. CASE ctl.at \notin Terminal /\ ctl' = [ctl EXCEPT !.report = FALSE]
    <3>1. /\ ctl \in [at : Working \cup Terminal, change : Nat, report : BOOLEAN,
                      next : Nat, left : SUBSET Services]
          /\ ctl.at \in Working
      BY <1>1, <2>3, ThreadAt
    <3>2. /\ ctl' \in [at : Working \cup Terminal, change : Nat, report : BOOLEAN,
                       next : Nat, left : SUBSET Services]
          /\ ctl'.at = ctl.at /\ ctl'.change = c /\ ctl'.next = ctl.next /\ ctl'.left = ctl.left
      BY <1>2, <2>3, <3>1
    <3>3. ctl' \in Threads
      BY <3>2 DEF Threads
    <3>4. Desired' = Desired /\ Prior' = Prior
      BY <1>1, <1>2, <1>3, <3>2 DEF Desired, Prior, SameChange
    <3>5. Affected(c)' = Affected(c)
      BY <1>1, <1>3 DEF Affected, SameChange
    <3>6. UNCHANGED <<overrides, running, draining>>
      BY <1>1 DEF runtime
    <3> QED
      BY <1>1, <1>2, <1>3, <3>1, <3>2, <3>3, <3>4, <3>5, <3>6 DEF ThreadKnows, Serving
  <2> QED
    BY <2>1, <2>2, <2>3 DEF ReportStage
<1>5. Numbered'
  BY <1>1, <1>2, <1>3, <1>4 DEF Numbered
<1>6. RuntimeTyped' /\ OthersUntouched'
  BY <1>1, <1>4 DEF RuntimeTyped, OthersUntouched, runtime
<1> QED
  BY <1>3, <1>4, <1>5, <1>6 DEF ConfigurationInv, RowInv

\* The inductive invariant of a configuration change: the routes, the messages between
\* API and controller, the controller's thread, a stop and a start of the process tree.
THEOREM ConfigurationInvariance == ConfigurationSpec => []ConfigurationInv
<1>1. ConfigurationInit => ConfigurationInv
  BY ConfigurationStarts
<1>2. ConfigurationInv /\ [ConfigurationNext]_configurationVars => ConfigurationInv'
  <2> SUFFICES ASSUME ConfigurationInv, [ConfigurationNext]_configurationVars
               PROVE  ConfigurationInv'
    OBVIOUS
  <2>1. ASSUME NEW s \in AdminSessions, SystemRoutes(s) \/ EndSession(s) \/ Expire(s)
        PROVE  ConfigurationInv'
    <3>1. ASSUME NEW config \in Configs, PreviewConfiguration(s, config) PROVE ConfigurationInv'
      BY <3>1, PreviewKeeps
    <3>2. ASSUME NEW p \in DOMAIN previews, Reauthenticate(s, p) PROVE ConfigurationInv'
      BY <3>2, ReauthenticateKeeps
    <3>3. ASSUME NEW p \in DOMAIN previews, NEW g \in DOMAIN grants, ApplyConfiguration(s, p, g)
          PROVE  ConfigurationInv'
      BY <3>3, ApplyKeeps
    <3>4. ASSUME NEW p \in Profiles, NEW kind, StartOperation(s, p, kind) PROVE ConfigurationInv'
      BY <3>4, AsideKeeps DEF StartOperation
    <3>5. CASE EndSession(s)
      BY <3>5, AsideKeeps DEF EndSession
    <3>6. CASE Expire(s)
      BY <3>6, ExpireKeeps
    <3> QED
      BY <2>1, <3>1, <3>2, <3>3, <3>4, <3>5, <3>6 DEF SystemRoutes
  <2>2. ASSUME NEW s \in AdminSessions, CommandTimesOut(s) \/ FailDelivery(s)
        PROVE  ConfigurationInv'
    BY <2>2, TimeoutKeeps, FailDeliveryKeeps
  <2>3. ASSUME NEW c \in wire, HandleCommand(c) PROVE ConfigurationInv'
    BY <2>3, HandleKeeps
  <2>4. ASSUME NEW i \in DOMAIN jobs, AdvanceOperation(i) \/ CompleteOperation(i)
        PROVE  ConfigurationInv'
    BY <2>4, AsideKeeps DEF AdvanceOperation, CompleteOperation
  <2>5. CASE ControllerThread
    BY <2>5, ClaimKeeps, PreflightKeeps, StepKeeps, ReportKeeps DEF ControllerThread
  <2>6. CASE Crash \/ StartAll
    BY <2>6, CrashKeeps, StartKeeps
  <2>7. CASE UNCHANGED configurationVars
    BY <2>7, AsideKeeps DEF configurationVars, rows, runtime
  <2> QED
    BY <2>1, <2>2, <2>3, <2>4, <2>5, <2>6, <2>7 DEF ConfigurationNext
<1> QED
  BY <1>1, <1>2, PTL DEF ConfigurationSpec

\* v9_admin_apply_runtime_configuration writes exactly what its administrator previewed
\* and confirmed, with one password proof for every change, for any number of sessions,
\* previews and grants.
THEOREM AppliedAsConfirmedHolds == ConfigurationSpec => []AppliedAsConfirmed
<1>1. ConfigurationInv => AppliedAsConfirmed
  BY DEF ConfigurationInv
<1> QED
  BY <1>1, ConfigurationInvariance, PTL

\* Once v9_controller_finish_runtime_configuration has recorded a change as effective or
\* rolled back, the overrides document and every service hold that configuration until a
\* later change is claimed, whatever reports were lost and across restarts.
THEOREM ReportedResultHoldsAlways == ConfigurationSpec => []ReportedResultHolds
<1>1. ConfigurationInv => ReportedResultHolds
  <2>1. SUFFICES ASSUME ConfigurationInv, NEW i \in DOMAIN changes, LastClaimed(i), up,
                        changes[i].state \in {"effective", "rolled_back"}
                 PROVE  Serving(Outcome(i))
    BY DEF ReportedResultHolds, Serving, Outcome
  <2>2. i \in 1 .. Len(changes)
    BY <2>1 DEF ConfigurationInv, RowsTyped
  <2> QED
    BY <2>1, <2>2 DEF ConfigurationInv, ResultKept
<1> QED
  BY <1>1, ConfigurationInvariance, PTL

=============================================================================
