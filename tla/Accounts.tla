------------------------------ MODULE Accounts ------------------------------
(***************************************************************************)
(* The accounts of an installation, the sessions opened on them, and the   *)
(* setup page that creates the first one.                                  *)
(*                                                                         *)
(* A stored function is one step where it takes its locks at once.  What   *)
(* is checked in one transaction and used in a later one is remembered by  *)
(* the request: a login reads the account, verifies the password outside   *)
(* any transaction, then opens the session; a change of the password       *)
(* verifies between two statements; a refresh selects the session and then *)
(* updates it; an administrator's change checks its actor, locks the row   *)
(* of its target and only then waits for the final-administrator lock.     *)
(*                                                                         *)
(* Hashes stand for what they are compared as: a password for itself, the  *)
(* name of a session for its token.  Expiry is a step that may happen at   *)
(* any time.  The epochs of security_epochs that a session also records    *)
(* are written once, when the schema is created.                           *)
(***************************************************************************)
EXTENDS Naturals, FiniteSets

CONSTANTS Users, Passwords, Sessions, Requests, Browsers, None,
          FailureLimit,  \* login failures that block a client; 5 in the code
          FailureCap,    \* where the counter of them stops; 100 in the code
          CodeLimit,     \* wrong setup codes that lock the page; 5 in the code
          Changes,       \* bound: what administrators ask for
          GuessedFrom,   \* bound: sessions opened when wrong passwords are still tried
          MaxCodes,      \* bound: setup codes issued
          MaxVersion     \* bound: changes of an account

ASSUME AccountsAssumption ==
  /\ None \notin Users \cup Passwords \cup Sessions \cup Browsers
  /\ IsFiniteSet(Requests)
  /\ FailureLimit \in Nat \ {0, 1}
  /\ FailureCap \in Nat /\ FailureCap >= FailureLimit
  /\ CodeLimit \in Nat \ {0}
  /\ MaxCodes \in Nat \ {0}
  /\ MaxVersion \in Nat \ {0}
  /\ GuessedFrom \in Nat
  /\ Changes \subseteq [kind : {"set"}, role : {"admin", "member"},
                        status : {"active", "disabled", "deleted"}]
                 \cup [kind : {"reset"}, role : {"member"}, status : {"pending_activation"}]

VARIABLES
  users,     \* users, with the row of pre_auth_challenges that is open
  sessions,  \* sessions
  throttle,  \* login_throttles: one client address, so a key for each user name
  setup,     \* owner_setup
  request,   \* what each running request remembers
  knows,     \* history: the setup code each browser last proved to know
  guesses    \* history: failed logins since the client was last let in

vars == <<users, sessions, throttle, setup, request, knows, guesses>>

-----------------------------------------------------------------------------
Roles == {"admin", "member"}

NoUser == [status |-> "none", role |-> "member", password |-> None, version |-> 0,
           code |-> FALSE]

\* proof: the password whose holder opened the session (history).
NoSession == [user |-> None, version |-> 0, revoked |-> FALSE, expired |-> FALSE,
              proof |-> None]

\* code: the generation of the issued code, 0 if there is none.  consumed_at is only set
\* with the first user, which every function on the row asks for as well.
FreshSetup == [code |-> 0, codeLive |-> FALSE, failed |-> 0, challenge |-> None,
               challengeLive |-> FALSE]

\* v4_clear_login_failures; also what the table holds of a client that never failed.
Cleared == [count |-> 0, blocked |-> FALSE]

Idle == [kind |-> "idle"]

Init ==
  /\ users = [u \in Users |-> NoUser]
  /\ sessions = [s \in Sessions |-> NoSession]
  /\ throttle = [u \in Users |-> Cleared]
  /\ setup = FreshSetup
  /\ request = [r \in Requests |-> Idle]
  /\ knows = [b \in Browsers |-> 0]
  /\ guesses = [u \in Users |-> 0]

-----------------------------------------------------------------------------
NoUsers == \A u \in Users : users[u].status = "none"

ActiveAdmins == {u \in Users : users[u].status = "active" /\ users[u].role = "admin"}

Live(s) ==
  LET row == sessions[s] IN
  /\ row.user # None
  /\ ~row.revoked /\ ~row.expired
  /\ users[row.user].status = "active"
  /\ users[row.user].version = row.version

\* v4_activate_actor, at the start of a protected transaction.
ActivateActor(s) == Live(s)

\* v4_require_admin.
RequireAdmin(s) == ActivateActor(s) /\ users[sessions[s].user].role = "admin"

\* An administrator's change holds its target's row locked FOR UPDATE.
LockedBy(r, u) == request[r].kind \in {"set", "reset"} /\ request[r].target = u

Unlocked(u) == \A r \in Requests : ~LockedBy(r, u)

\* The expiry of a revoked session is not looked at again, nor is its history.
Revoked(row) == [row EXCEPT !.revoked = TRUE, !.expired = FALSE, !.proof = None]

OpenSessions(u) == {s \in Sessions : sessions[s].user = u /\ ~sessions[s].revoked}

RevokeAll(u) ==
  [s \in Sessions |-> IF s \in OpenSessions(u) THEN Revoked(sessions[s]) ELSE sessions[s]]

Issued(u, version, password) ==
  [user |-> u, version |-> version, revoked |-> FALSE, expired |-> FALSE,
   proof |-> password]

Free(s) == sessions[s].user = None

Start(r, what) == request[r].kind = "idle" /\ request' = [request EXCEPT ![r] = what]

End(r) == request' = [request EXCEPT ![r] = Idle]

historyVars == <<knows, guesses>>

-----------------------------------------------------------------------------
(* The first account.                                                      *)

\* Mutant: a new code leaves an accepted challenge standing.
RotatedKeepsChallenge == [setup EXCEPT !.code = @ + 1, !.codeLive = TRUE, !.failed = 0]

\* v8_issue_setup_code.
Rotated == [FreshSetup EXCEPT !.code = setup.code + 1, !.codeLive = TRUE]

IssueCode ==
  /\ NoUsers
  /\ setup.code < MaxCodes
  /\ setup' = Rotated
  /\ UNCHANGED <<users, sessions, throttle, request, historyVars>>

CodeOpen == NoUsers /\ setup.codeLive /\ setup.failed < CodeLimit

\* v8_verify_setup_code with the code that is current.
AcceptCode(b) ==
  /\ CodeOpen
  /\ setup' = [setup EXCEPT !.challenge = b, !.challengeLive = TRUE]
  /\ knows' = [knows EXCEPT ![b] = setup.code]
  /\ UNCHANGED <<users, sessions, throttle, request, guesses>>

\* v8_verify_setup_code with another code: whoever was accepted loses the challenge.
RejectCode ==
  /\ CodeOpen
  /\ setup' = [setup EXCEPT !.failed = @ + 1, !.challenge = None, !.challengeLive = FALSE]
  /\ UNCHANGED <<users, sessions, throttle, request, historyVars>>

\* v4_bootstrap_admin.
FirstAdmin(u, p) ==
  users' = [users EXCEPT ![u] = [status |-> "active", role |-> "admin", password |-> p,
                                 version |-> 1, code |-> FALSE]]

\* v8_complete_owner_setup.
CompleteOwner(b, u, p) ==
  /\ CodeOpen
  /\ setup.challenge = b /\ setup.challengeLive
  /\ FirstAdmin(u, p)
  /\ setup' = FreshSetup
  /\ knows' = [c \in Browsers |-> 0]
  /\ UNCHANGED <<sessions, throttle, request, guesses>>

\* bootstrap-admin, on the console.  It leaves the row of owner_setup, which no function
\* reads any more once there is a user; the model forgets it.
BootstrapFirstAdmin(u, p) ==
  /\ NoUsers
  /\ FirstAdmin(u, p)
  /\ setup' = FreshSetup
  /\ knows' = [b \in Browsers |-> 0]
  /\ UNCHANGED <<sessions, throttle, request, guesses>>

SetupLapses ==
  /\ NoUsers
  /\ \/ setup.codeLive /\ setup' = [setup EXCEPT !.codeLive = FALSE]
     \/ setup.challengeLive /\ setup' = [setup EXCEPT !.challengeLive = FALSE]
  /\ UNCHANGED <<users, sessions, throttle, request, historyVars>>

-----------------------------------------------------------------------------
(* Sessions.                                                               *)

\* v4_login_blocked_until.
Blocked(u) == throttle[u].blocked

\* v4_auth_lookup.
AuthLookup(u) == [status |-> users[u].status, password |-> users[u].password,
                  version |-> users[u].version]

\* An account without a password is compared with the hash of a random one.
Verify(p, hash) == hash # None /\ p = hash

\* login, up to the verification of the password: a blocked client is turned away.
LoginLookup(r, u, p) ==
  /\ ~Blocked(u)
  /\ LET account == AuthLookup(u)
         right == Verify(p, account.password) /\ account.status = "active"
     IN  /\ ~right => /\ users[u].status = "active"
                      /\ Cardinality({s \in Sessions : ~Free(s)}) <= GuessedFrom
         /\ Start(r, [kind |-> "login", user |-> u, version |-> account.version,
                      proof |-> IF right THEN p ELSE None])
  /\ UNCHANGED <<users, sessions, throttle, setup, historyVars>>

\* Mutant: only the failure that reaches the limit blocks.
CountedOnce(t) ==
  LET n == IF t.count < FailureCap THEN t.count + 1 ELSE FailureCap
  IN  [count |-> n, blocked |-> n = FailureLimit]

\* v4_record_login_failure.
Counted(t) ==
  LET n == IF t.count < FailureCap THEN t.count + 1 ELSE FailureCap
  IN  [count |-> n, blocked |-> n >= FailureLimit]

LoginFails(r) ==
  LET l == request[r] IN
  /\ l.kind = "login"
  /\ l.proof = None
  /\ throttle' = [throttle EXCEPT ![l.user] = Counted(throttle[l.user])]
  /\ guesses' = [guesses EXCEPT ![l.user] = @ + 1]
  /\ End(r)
  /\ UNCHANGED <<users, sessions, setup, knows>>

\* Mutant: the account need only be active when the session is issued.
IssuableWhenActive(u, version) == users[u].status = "active"

\* v4_issue_login_session's conditions.
Issuable(u, version) == users[u].status = "active" /\ users[u].version = version

LoginSucceeds(r, s) ==
  LET l == request[r] IN
  /\ l.kind = "login"
  /\ l.proof # None
  /\ Unlocked(l.user)
  /\ IF Issuable(l.user, l.version)
       THEN /\ Free(s)
            /\ sessions' = [sessions EXCEPT ![s] =
                              Issued(l.user, users[l.user].version, l.proof)]
            /\ throttle' = [throttle EXCEPT ![l.user] = Cleared]
            /\ guesses' = [guesses EXCEPT ![l.user] = 0]
       ELSE UNCHANGED <<sessions, throttle, guesses>>  \* rolled back, the clearing too
  /\ End(r)
  /\ UNCHANGED <<users, setup, knows>>

\* blocked_until passes; a key unused for 24 hours is forgotten.
ThrottleLapses(u) ==
  /\ throttle[u].count > 0
  /\ throttle' = [throttle EXCEPT ![u] = IF Blocked(u) THEN [throttle[u] EXCEPT !.blocked = FALSE]
                                                    ELSE Cleared]
  /\ guesses' = [guesses EXCEPT ![u] = 0]
  /\ UNCHANGED <<users, sessions, setup, request, knows>>

\* v4_refresh_session: the CTE that selects the session ...
RefreshSelects(r, s) ==
  /\ Live(s)
  /\ Start(r, [kind |-> "refresh", session |-> s])
  /\ UNCHANGED <<users, sessions, throttle, setup, historyVars>>

\* ... and the update, which looks at last_seen_at only (a refresh within five
\* minutes of the last one updates nothing).
RefreshUpdates(r) ==
  /\ request[r].kind = "refresh"
  /\ \E due \in BOOLEAN :
       sessions' = IF due THEN [sessions EXCEPT ![request[r].session].expired = FALSE]
                          ELSE sessions
  /\ End(r)
  /\ UNCHANGED <<users, throttle, setup, historyVars>>

\* v4_logout, after the session was resolved.
Logout(s) ==
  /\ Live(s)
  /\ sessions' = [sessions EXCEPT ![s] = Revoked(sessions[s])]
  /\ UNCHANGED <<users, throttle, setup, request, knows, guesses>>

IdleOut(s) ==
  /\ Live(s)
  /\ sessions' = [sessions EXCEPT ![s].expired = TRUE]
  /\ UNCHANGED <<users, throttle, setup, request, historyVars>>

\* v4_password_change_lookup, and a current password that is right.
ChangeLookup(r, s, p) ==
  /\ Live(s)
  /\ Start(r, [kind |-> "change", session |-> s, new |-> p,
               version |-> users[sessions[s].user].version])
  /\ UNCHANGED <<users, sessions, throttle, setup, historyVars>>

\* v4_change_password.
ChangePassword(r, s) ==
  LET c == request[r]
      u == sessions[c.session].user
  IN
  /\ c.kind = "change"
  /\ Unlocked(u)
  /\ users[u].version < MaxVersion
  /\ IF Live(c.session) /\ users[u].version = c.version
       THEN /\ Free(s)
            /\ users' = [users EXCEPT ![u].password = c.new, ![u].version = @ + 1]
            /\ sessions' = [RevokeAll(u) EXCEPT ![s] = Issued(u, c.version + 1, c.new)]
       ELSE UNCHANGED <<users, sessions>>
  /\ End(r)
  /\ UNCHANGED <<throttle, setup, knows, guesses>>

\* The code of a new account, or of one that was reset, is open.
Activatable(u) ==
  users[u].status = "pending_activation" /\ users[u].password = None /\ users[u].code

\* v4_consume_activation.
Activate(u, p, s) ==
  /\ Unlocked(u)
  /\ Activatable(u)
  /\ users[u].version < MaxVersion
  /\ Free(s)
  /\ users' = [users EXCEPT ![u].status = "active", ![u].password = p,
                            ![u].version = @ + 1, ![u].code = FALSE]
  /\ sessions' = [sessions EXCEPT ![s] = Issued(u, users[u].version + 1, p)]
  /\ UNCHANGED <<throttle, setup, request, historyVars>>

CodeLapses(u) ==
  /\ users[u].code
  /\ users' = [users EXCEPT ![u].code = FALSE]
  /\ UNCHANGED <<sessions, throttle, setup, request, historyVars>>

-----------------------------------------------------------------------------
(* Administration.                                                         *)

\* v4_append_audit names the actor, whose row must not be locked by another.
AuditFree(r, s) ==
  Live(s) => \A q \in Requests \ {r} : ~LockedBy(q, sessions[s].user)

\* v4_admin_create_user.
CreateUser(s, u, role) ==
  /\ RequireAdmin(s)
  /\ Unlocked(sessions[s].user)
  /\ users[u].status = "none"
  /\ users' = [users EXCEPT ![u] = [status |-> "pending_activation", role |-> role,
                                    password |-> None, version |-> 1, code |-> TRUE]]
  /\ UNCHANGED <<sessions, throttle, setup, request, historyVars>>

\* v4_admin_set_user and v4_admin_reset_user, up to the final-administrator lock.
AdminLocks(r, s, u, change) ==
  /\ RequireAdmin(s)
  /\ users[u].status # "none"
  /\ Unlocked(u)
  /\ Start(r, [kind |-> change.kind, session |-> s, target |-> u, role |-> change.role,
               status |-> change.status,
               others |-> u \in ActiveAdmins /\ ActiveAdmins # {u}])
  /\ UNCHANGED <<users, sessions, throttle, setup, historyVars>>

\* Mutant: the administrators were counted before the lock was waited for.
LeavesAdminAsCounted(q) ==
  \/ q.target \notin ActiveAdmins
  \/ q.kind = "set" /\ q.role = "admin" /\ q.status = "active"
  \/ q.others

LeavesAdmin(q) ==
  \/ q.target \notin ActiveAdmins
  \/ q.kind = "set" /\ q.role = "admin" /\ q.status = "active"
  \/ Cardinality(ActiveAdmins) > 1

\* The rest of the conditions; an active account has a password (ck_users_active_password).
Admissible(q) ==
  /\ users[q.target].status # "deleted"
  /\ LeavesAdmin(q)
  /\ q.kind = "set" /\ q.status = "active" => users[q.target].password # None

\* v4_admin_set_user.
SetRow(row, q) ==
  [row EXCEPT !.role = q.role, !.status = q.status, !.version = @ + 1,
              !.password = IF q.status = "deleted" THEN None ELSE @]

\* v4_admin_reset_user: earlier codes are revoked, a new one is open.
ResetRow(row) ==
  [row EXCEPT !.status = "pending_activation", !.password = None, !.version = @ + 1,
              !.code = TRUE]

AdminCommits(r) ==
  LET q == request[r] IN
  /\ q.kind \in {"set", "reset"}
  /\ Admissible(q)
  /\ users[q.target].version < MaxVersion
  /\ users' = [users EXCEPT ![q.target] = IF q.kind = "set" THEN SetRow(@, q)
                                                            ELSE ResetRow(@)]
  /\ sessions' = RevokeAll(q.target)
  /\ sessions[q.session].user = q.target \/ AuditFree(r, q.session)
  /\ End(r)
  /\ UNCHANGED <<throttle, setup, knows, guesses>>

\* A change that is refused, or that would pass the bound, ends without effect.
AdminRefused(r) ==
  LET q == request[r] IN
  /\ q.kind \in {"set", "reset"}
  /\ ~Admissible(q) \/ users[q.target].version = MaxVersion
  /\ End(r)
  /\ UNCHANGED <<users, sessions, throttle, setup, historyVars>>

\* One change holds the final-administrator lock and waits to record its actor, whose
\* row another holds that waits for the lock: PostgreSQL aborts one of them.
DeadlockAborts(r) ==
  /\ \E q \in Requests \ {r} :
       /\ request[q].kind \in {"set", "reset"}
       /\ request[r].kind \in {"set", "reset"}
       /\ \/ LockedBy(q, sessions[request[r].session].user)
          \/ LockedBy(r, sessions[request[q].session].user)
  /\ End(r)
  /\ UNCHANGED <<users, sessions, throttle, setup, historyVars>>

-----------------------------------------------------------------------------
(* What the routes and the console start, and what happens by itself.      *)

PostChallenge == RejectCode \/ \E b \in Browsers : AcceptCode(b)

PostOwner == \E b \in Browsers, u \in Users, p \in Passwords : CompleteOwner(b, u, p)

Console == IssueCode \/ \E u \in Users, p \in Passwords : BootstrapFirstAdmin(u, p)

PostLogin ==
  \/ \E r \in Requests, u \in Users, p \in Passwords : LoginLookup(r, u, p)
  \/ \E r \in Requests : LoginFails(r) \/ \E s \in Sessions : LoginSucceeds(r, s)

PostActivate == \E u \in Users, p \in Passwords, s \in Sessions : Activate(u, p, s)

PostPassword ==
  \E r \in Requests, s \in Sessions :
    ChangePassword(r, s) \/ \E p \in Passwords : ChangeLookup(r, s, p)

PostRefresh == \E r \in Requests : RefreshUpdates(r) \/ \E s \in Sessions : RefreshSelects(r, s)

PostLogout == \E s \in Sessions : Logout(s)

PostUser == \E s \in Sessions, u \in Users, role \in Roles : CreateUser(s, u, role)

MutateUser ==
  \/ \E r \in Requests, s \in Sessions, u \in Users, change \in Changes :
       AdminLocks(r, s, u, change)
  \/ \E r \in Requests : AdminCommits(r) \/ AdminRefused(r) \/ DeadlockAborts(r)

TimePasses ==
  \/ SetupLapses
  \/ \E s \in Sessions : IdleOut(s)
  \/ \E u \in Users : ThrottleLapses(u) \/ CodeLapses(u)

Next ==
  \/ PostChallenge \/ PostOwner \/ Console
  \/ PostLogin \/ PostActivate \/ PostPassword \/ PostRefresh \/ PostLogout
  \/ PostUser \/ MutateUser
  \/ TimePasses

Spec == Init /\ [][Next]_vars
-----------------------------------------------------------------------------
(* Properties.                                                             *)

\* Once there is an account there is an active administrator: v4_admin_set_user and
\* v4_admin_reset_user never take away the last one, however their requests overlap.
AdminRemains == NoUsers \/ ActiveAdmins # {}

\* Whoever works in a session has shown the password the account has now: a login
\* that was verified against a password since changed, reset or taken away opens none.
SessionKnowsPassword ==
  \A s \in Sessions : Live(s) => sessions[s].proof = users[sessions[s].user].password

\* The block is tested in one transaction and the failure counted in a later one, so
\* requests under way slip past it; there are never more failed logins between two
\* times the client is let in than the limit and those requests account for.
GuessesBounded ==
  \A u \in Users : guesses[u] <= (FailureLimit - 1) + Cardinality(Requests)

\* The setup page creates the first administrator only for a browser that has proved
\* the code issued last.
OwnerProvedTheCode ==
  [][\A b \in Browsers, u \in Users, p \in Passwords :
       CompleteOwner(b, u, p) => knows[b] = setup.code]_vars
=============================================================================
