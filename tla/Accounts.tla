------------------------------ MODULE Accounts ------------------------------
(* The console's accounts: who may log in, which sessions are live, and what  *)
(* the IAM server functions do to both.  A request is authenticated by a      *)
(* token (whose roles are those read at login) AND a live row of              *)
(* public.sessions.  The functions await the database between their checks    *)
(* and their writes, so calls of two browsers interleave at every step.       *)
EXTENDS Naturals, FiniteSets

CONSTANTS
  None,         \* no row, no cookie
  Users,        \* user names that may ever exist
  Roles,        \* role slugs; "admin" is one of them
  Passwords,
  Browsers,     \* each runs one server function at a time
  Sids,         \* session ids (a set of numbers): bounds the logins
  MaxJobs,      \* bounds the functions the pages call
  Accounts0     \* public.users at start: user -> row or None

VARIABLES
  users,        \* public.users with role_grants
  sessions,     \* public.sessions: id -> [user, raced] or None
  tokens,       \* the claims signed into the token of each session id
  cookie,       \* the session id a browser sends
  call,         \* the server function each browser is waiting for
  jobs,         \* functions called so far
  overlapped    \* history: two calls that take an admin away ran at once

(* What the CHECK of public.users admits; only "active" may log in.           *)
Statuses == {"active", "disabled", "locked"}

AccountRows ==
  [status : Statuses, roles : SUBSET Roles, password : Passwords]

(* Every account is a row or absent, and the program starts with an admin who *)
(* can log in: main seeds one when there is none.                             *)
ASSUME AccountsAssumption ==
  /\ None \notin AccountRows
  /\ Accounts0 \in [Users -> AccountRows \cup {None}]
  /\ \E u \in Users :
       /\ Accounts0[u] # None
       /\ Accounts0[u].status = "active"
       /\ "admin" \in Accounts0[u].roles

accountVars == <<users, sessions, tokens, cookie, jobs, overlapped>>

Idle == [pc |-> "idle"]
Free(b) == call[b].pc = "idle"
At(b, pc) == call[b].pc = pc
Goto(b, rec) == call' = [call EXCEPT ![b] = rec]

Active(u) == users[u] # None /\ users[u].status = "active"

AnyAdminExcluding(u) ==
  {v \in Users \ {u} : users[v] # None /\ "admin" \in users[v].roles}

(* db::enabled_admin_count_excluding counts these.                            *)
EnabledAdminsExcluding(u) ==
  {v \in Users \ {u} : Active(v) /\ "admin" \in users[v].roles}

Authenticated(b) == cookie[b] # None /\ sessions[cookie[b]] # None
RequireAdmin(b) == Authenticated(b) /\ "admin" \in tokens[cookie[b]].roles

(* A page calls a server function.                                            *)
Job(b, rec) ==
  /\ Free(b)
  /\ jobs < MaxJobs
  /\ jobs' = jobs + 1
  /\ Goto(b, rec)

----------------------------------------------------------------------------
(* login_action: find_user, the status and the password are checked on the    *)
(* row read here; the session is inserted by a later statement.               *)
Unused == {s \in Sids : tokens[s] = None}
LoggingIn == {b \in Browsers : At(b, "login")}

FindUser(b, u, password) ==
  /\ Free(b)
  /\ Cardinality(Unused) > Cardinality(LoggingIn)
  /\ Active(u)
  /\ users[u].password = password
  /\ Goto(b, [pc |-> "login", user |-> u, roles |-> users[u].roles])
  /\ UNCHANGED accountVars

(* A transaction on the user's row has deleted the sessions it saw and has    *)
(* not committed: it holds the row's lock, which an insert need not wait for. *)
Deleting(o, u) == At(o, "deleted") /\ call[o].user = u
RowLocked(u) == \E o \in Browsers : Deleting(o, u)

InsertSession(b) ==
  /\ At(b, "login")
  /\ \E s \in Unused :
       /\ \A t \in Unused : s <= t
       /\ sessions' = [sessions EXCEPT ![s] =
                         [user |-> call[b].user,
                          raced |-> ~Active(call[b].user) \/ RowLocked(call[b].user)]]
       /\ tokens' = [tokens EXCEPT ![s] = [user |-> call[b].user, roles |-> call[b].roles]]
       /\ cookie' = [cookie EXCEPT ![b] = s]
  /\ Goto(b, Idle)
  /\ UNCHANGED <<users, jobs, overlapped>>

Logout(b) ==
  /\ Free(b)
  /\ Authenticated(b)
  /\ sessions' = [sessions EXCEPT ![cookie[b]] = None]
  /\ cookie' = [cookie EXCEPT ![b] = None]
  /\ UNCHANGED <<users, tokens, call, jobs, overlapped>>

(* 24 hours pass: find_valid_session no longer returns the row.               *)
Expire(s) ==
  /\ sessions[s] # None
  /\ sessions' = [sessions EXCEPT ![s] = None]
  /\ UNCHANGED <<users, tokens, cookie, call, jobs, overlapped>>

----------------------------------------------------------------------------
(* The admin-gated functions.  Only setting "disabled" and revoking `admin`   *)
(* take the last-admin check; it is a query of its own, before the write.     *)
SetUserStatus(b, u, status) ==
  /\ RequireAdmin(b)
  /\ users[u] # None
  /\ Job(b, [pc |-> IF status = "disabled" THEN "count" ELSE "commit",
             what |-> "status", user |-> u, value |-> status, ended |-> {}])
  /\ UNCHANGED <<users, sessions, tokens, cookie, overlapped>>

RevokeRole(b, u, role) ==
  /\ RequireAdmin(b)
  /\ users[u] # None
  /\ role \in users[u].roles
  /\ Job(b, [pc |-> IF role = "admin" THEN "count" ELSE "commit",
             what |-> "revoke", user |-> u, value |-> role])
  /\ UNCHANGED <<users, sessions, tokens, cookie, overlapped>>

AssignRole(b, u, role) ==
  /\ RequireAdmin(b)
  /\ users[u] # None
  /\ role \notin users[u].roles
  /\ Job(b, [pc |-> "commit", what |-> "assign", user |-> u, value |-> role])
  /\ UNCHANGED <<users, sessions, tokens, cookie, overlapped>>

CreateUser(b, u, roles, password) ==
  /\ RequireAdmin(b)
  /\ Job(b, [pc |-> "insert", user |-> u, roles |-> roles, password |-> password])
  /\ UNCHANGED <<users, sessions, tokens, cookie, overlapped>>

(* The caller's own password: re-authenticated against the row read here.     *)
ChangeMyPassword(b, old, new) ==
  /\ Authenticated(b)
  /\ users[tokens[cookie[b]].user].password = old
  /\ Job(b, [pc |-> "commit", what |-> "password",
             user |-> tokens[cookie[b]].user, value |-> new])
  /\ UNCHANGED <<users, sessions, tokens, cookie, overlapped>>

CountAdmins(b) ==
  /\ At(b, "count")
  /\ Goto(b, IF EnabledAdminsExcluding(call[b].user) = {}
             THEN Idle
             ELSE [call[b] EXCEPT !.pc = "commit"])
  /\ UNCHANGED accountVars

(* A call that has passed the last-admin check and will take an admin away.   *)
TakesAdmin(b) ==
  /\ call[b].pc \in {"commit", "deleted"}
  /\ <<call[b].what, call[b].value>> \in {<<"status", "disabled">>, <<"revoke", "admin">>}

RowAfter(row, c) ==
  CASE c.what = "status"   -> [row EXCEPT !.status = c.value]
    [] c.what = "revoke"   -> [row EXCEPT !.roles = @ \ {c.value}]
    [] c.what = "assign"   -> [row EXCEPT !.roles = @ \cup {c.value}]
    [] c.what = "password" -> [row EXCEPT !.password = c.value]

NoneRevoked(c) == sessions

(* db::set_user_status: the UPDATE locks the row, the DELETE takes the        *)
(* sessions its snapshot shows, and both take effect at the COMMIT.           *)
DeleteSessions(b) ==
  /\ At(b, "commit")
  /\ call[b].what = "status"
  /\ ~RowLocked(call[b].user)
  /\ Goto(b, [call[b] EXCEPT
                !.pc = "deleted",
                !.ended = {s \in Sids : /\ sessions[s] # None
                                        /\ sessions[s].user = call[b].user}])
  /\ UNCHANGED accountVars

SessionsAfter(c) ==
  [s \in Sids |-> IF c.what = "status" /\ s \in c.ended THEN None ELSE sessions[s]]

(* The other functions run one statement.  Roles are rows of another table.   *)
Commit(b) ==
  /\ \/ At(b, "deleted")
     \/ /\ At(b, "commit")
        /\ call[b].what # "status"
        /\ call[b].what = "password" => ~RowLocked(call[b].user)
  /\ users' = [users EXCEPT ![call[b].user] = RowAfter(@, call[b])]
  /\ sessions' = SessionsAfter(call[b])
  /\ overlapped' = (overlapped \/ (TakesAdmin(b) /\ \E o \in Browsers \ {b} : TakesAdmin(o)))
  /\ Goto(b, Idle)
  /\ UNCHANGED <<tokens, cookie, jobs>>

(* db::create_user: the row, then one statement per role.                     *)
InsertUser(b) ==
  /\ At(b, "insert")
  /\ users[call[b].user] = None
  /\ users' = [users EXCEPT ![call[b].user] =
                 [status |-> "active", roles |-> {}, password |-> call[b].password]]
  /\ Goto(b, [call[b] EXCEPT !.pc = "grant"])
  /\ UNCHANGED <<sessions, tokens, cookie, jobs, overlapped>>

Grant(b) ==
  /\ At(b, "grant")
  /\ \/ /\ call[b].roles = {}
        /\ Goto(b, Idle)
        /\ UNCHANGED users
     \/ \E r \in call[b].roles :
          /\ users' = [users EXCEPT ![call[b].user].roles = @ \cup {r}]
          /\ Goto(b, [call[b] EXCEPT !.roles = @ \ {r}])
  /\ UNCHANGED <<sessions, tokens, cookie, jobs, overlapped>>

(* The database fails: the function returns an error and does no more (a user *)
(* name taken by then is such an error of InsertUser; an open transaction is  *)
(* rolled back).                                                              *)
GiveUp(b) ==
  /\ call[b].pc \in {"login", "count", "commit", "deleted", "insert", "grant"}
  /\ Goto(b, Idle)
  /\ UNCHANGED accountVars

----------------------------------------------------------------------------
AccountsInit ==
  /\ users = Accounts0
  /\ sessions = [s \in Sids |-> None]
  /\ tokens = [s \in Sids |-> None]
  /\ cookie = [b \in Browsers |-> None]
  /\ call = [b \in Browsers |-> Idle]
  /\ jobs = 0
  /\ overlapped = FALSE

AccountsStep ==
  \/ \E b \in Browsers :
       \/ \E u \in Users, p \in Passwords : FindUser(b, u, p)
       \/ \E u \in Users, s \in Statuses : SetUserStatus(b, u, s)
       \/ \E u \in Users, r \in Roles : RevokeRole(b, u, r) \/ AssignRole(b, u, r)
       \/ \E u \in Users, rs \in SUBSET Roles, p \in Passwords : CreateUser(b, u, rs, p)
       \/ \E p, q \in Passwords : ChangeMyPassword(b, p, q)
       \/ InsertSession(b) \/ Logout(b)
       \/ CountAdmins(b) \/ DeleteSessions(b) \/ Commit(b)
       \/ InsertUser(b) \/ Grant(b) \/ GiveUp(b)
  \/ \E s \in Sids : Expire(s)

----------------------------------------------------------------------------
(* An account that may not log in has no live session, except one inserted    *)
(* after set_user_status had deleted the sessions it saw, by a login that had *)
(* read the row while it still was active.                                    *)
DisabledMeansOut ==
  \A s \in Sids :
    sessions[s] # None /\ ~Active(sessions[s].user) => sessions[s].raced

(* The last-admin guard of set_user_status and revoke_role: some admin is not *)
(* disabled, unless two calls that take an admin away had both passed the     *)
(* check before either wrote.  It is not checked for "locked", so an admin    *)
(* that is left may be one who cannot log in.                                 *)
LastAdminKept ==
  \/ overlapped
  \/ \E u \in Users :
       users[u] # None /\ "admin" \in users[u].roles /\ users[u].status # "disabled"
=============================================================================
