--------------------------- MODULE SettingsProofs ---------------------------
(* Theorems about the accounts and the settings for any number of browsers,   *)
(* users, sessions and calls.  The server functions wait for the database     *)
(* between a check and the write it guards; the invariants say what a check   *)
(* that has been passed is still worth when the write happens.                *)
EXTENDS Settings, SequenceTheorems, TLAPS

----------------------------------------------------------------------------
(* The states a call can be in.                                               *)
Values == Texts \cup {None}

Tokens == [user : Users, roles : SUBSET Roles]

Logins == [pc : {"login"}, user : Users, roles : SUBSET Roles]
StatusCalls ==
  [pc : {"count", "commit", "deleted"}, what : {"status"}, user : Users, value : Statuses,
   ended : SUBSET Sids]
RoleCalls ==
  [pc : {"count", "commit"}, what : {"revoke", "assign"}, user : Users, value : Roles]
PasswordCalls == [pc : {"commit"}, what : {"password"}, user : Users, value : Passwords]
Creations ==
  [pc : {"insert", "grant"}, user : Users, roles : SUBSET Roles, password : Passwords]

AccountCalls == Logins \cup StatusCalls \cup RoleCalls \cup PasswordCalls \cup Creations

SavePcs == {"guard", "look", "vault", "upsert", "load", "store", "current", "apply"}

(* A secret is written as typed or as a name, or deleted, and the channel is  *)
(* one that has releases.                                                     *)
Writes ==
  {w \in [key : Keys, value : Values, stop : BOOLEAN] :
     /\ w.key = "anthropic_key" => w.value \in {"key", OtherRef, None}
     /\ w.key = "channel" => w.value \in DOMAIN Tags \cup {None}}

Flags == [channel : DOMAIN Tags, tag : Texts] \cup {Keep, None}

Savings ==
  {c \in [pc : SavePcs, todo : Seq(Writes), typed : BOOLEAN, after : Flags,
          snap : [Keys -> Values] \cup {None}, found : BOOLEAN, alone : BOOLEAN] :
     /\ c.pc # "guard" => c.todo # <<>>
     /\ c.pc \in {"look", "vault"} => Plaintext(Head(c.todo))
     /\ c.pc \in {"store", "apply"} => c.snap \in [Keys -> Values]}

Calls == {Idle} \cup AccountCalls \cup Savings

TypeInv ==
  /\ users \in [Users -> AccountRows \cup {None}]
  /\ sessions \in [Sids -> [user : Users, raced : BOOLEAN] \cup {None}]
  /\ tokens \in [Sids -> Tokens \cup {None}]
  /\ cookie \in [Browsers -> Sids \cup {None}]
  /\ call \in [Browsers -> Calls]
  /\ overlapped \in BOOLEAN
  /\ rows \in [Keys -> Values]
  /\ rows["channel"] \in DOMAIN Tags \cup {None}
  /\ vault \in [Secrets -> Values]
  /\ live \in [Keys -> Values]
  /\ excused \in BOOLEAN

----------------------------------------------------------------------------
(* The user a call or a live token names has a row: rows are never deleted.   *)
RowsExist ==
  /\ \A b \in Browsers :
       call[b].pc \in {"login", "count", "commit", "deleted", "grant"} => users[call[b].user] # None
  /\ \A s \in Sids : sessions[s] # None => users[tokens[s].user] # None

SessionsHaveTokens == \A s \in Sids : sessions[s] # None => tokens[s] \in Tokens

(* An admin who is not disabled.                                              *)
Kept(u) ==
  users[u] # None /\ users[u].status # "disabled" /\ "admin" \in users[u].roles

(* What the last-admin check was passed for still holds when the write comes, *)
(* unless two of them have overlapped (or the admin was locked meanwhile).    *)
CheckStillHolds ==
  \A b \in Browsers :
    TakesAdmin(b) => overlapped \/ \E v \in Users \ {call[b].user} : Kept(v)

(* A transaction that has deleted the user's sessions will end all there are, *)
(* except those inserted since.                                               *)
WillEnd(b) ==
  At(b, "deleted") =>
    \A s \in Sids : sessions[s] # None /\ sessions[s].user = call[b].user =>
      s \in call[b].ended \/ sessions[s].raced

SessionsWillEnd == \A b \in Browsers : WillEnd(b)

AccountInv ==
  RowsExist /\ SessionsHaveTokens /\ DisabledMeansOut /\ SessionsWillEnd /\ CheckStillHolds
  /\ LastAdminKept

----------------------------------------------------------------------------
(* `alone` means it: no other call is between its row and its tunables.       *)
AloneIsAlone ==
  \A b, o \in Browsers : b # o /\ Publishing(b) /\ Publishing(o) => ~call[b].alone

(* What a call that is alone has read is what app_config holds.               *)
SnapshotsFresh ==
  \A b \in Browsers : Publishing(b) /\ call[b].alone =>
    /\ At(b, "store") => call[b].snap = rows
    /\ At(b, "current") => excused \/ live = rows
    /\ At(b, "apply") => excused \/ (live = rows /\ call[b].snap = rows)

(* A call that met another write and has stored its snapshot leaves a reload  *)
(* that is excused, or one still to come that will be.                        *)
MetOthers ==
  \A b \in Browsers :
    call[b].pc \in {"current", "apply"} /\ ~call[b].alone =>
      excused \/ \E o \in Browsers \ {b} : call[o].pc \in {"load", "store"}

LiveWhenQuiet ==
  (\A b \in Browsers : ~Publishing(b)) =>
    excused \/ (live = rows /\ tuned = TimeoutOf(rows))

PublishInv == AloneIsAlone /\ SnapshotsFresh /\ MetOthers /\ LiveWhenQuiet

----------------------------------------------------------------------------
(* How far a save with a typed key has come.                                  *)
KeyWrite == Write("anthropic_key", "key", TRUE)
ModelWrite == Write("model", "anthropic", TRUE)
ProviderWrite == Write("provider", "anthropic", TRUE)

KeyStored == vault["anthropic_key"] # None
KeySaved == KeyStored /\ rows["anthropic_key"] = Ref

AllWrites == <<KeyWrite, ModelWrite, ProviderWrite>>

TypedShape(c) ==
  /\ c.todo \in {AllWrites, <<ModelWrite, ProviderWrite>>, <<ProviderWrite>>, <<>>}
  /\ c.pc \in {"look", "vault"} => c.todo = AllWrites

KeyThere(c) ==
  /\ c.todo = AllWrites /\ c.pc = "upsert" => KeyStored
  /\ c.todo = AllWrites /\ c.pc \in {"load", "store", "current", "apply"} => KeySaved
  /\ c.todo # AllWrites => KeySaved

TypedCall(b) == TypedShape(call[b]) /\ (b \in meddled \/ KeyThere(call[b]))

SwitchInv == \A b \in Browsers : call[b].pc \in SavePcs /\ call[b].typed => TypedCall(b)

Inv == TypeInv /\ AccountInv /\ PublishInv /\ SwitchInv

----------------------------------------------------------------------------
(* A call's program counter says which of the records it is.                  *)
LEMMA CallShape ==
  ASSUME TypeInv, NEW b \in Browsers
  PROVE  /\ call[b] \in Calls
         /\ call[b].pc = "idle" => call[b] = Idle
         /\ call[b].pc = "login" => call[b] \in Logins
         /\ call[b].pc \in {"count", "commit"} =>
              call[b] \in StatusCalls \cup RoleCalls \cup PasswordCalls
         /\ call[b].pc = "deleted" => call[b] \in StatusCalls
         /\ call[b].pc \in {"insert", "grant"} => call[b] \in Creations
         /\ call[b].pc \in SavePcs => call[b] \in Savings
         /\ call[b].pc \in {"idle", "login", "count", "commit", "deleted", "insert", "grant"}
                            \cup SavePcs
<1>1. call[b] \in Calls
  BY DEF TypeInv
<1>2. CASE call[b] = Idle
  BY <1>1, <1>2 DEF Idle, SavePcs
<1>3. CASE call[b] \in Logins
  BY <1>1, <1>3 DEF Logins, SavePcs
<1>4. CASE call[b] \in StatusCalls
  BY <1>1, <1>4 DEF StatusCalls, SavePcs
<1>5. CASE call[b] \in RoleCalls
  BY <1>1, <1>5 DEF RoleCalls, SavePcs
<1>6. CASE call[b] \in PasswordCalls
  BY <1>1, <1>6 DEF PasswordCalls, SavePcs
<1>7. CASE call[b] \in Creations
  BY <1>1, <1>7 DEF Creations, SavePcs
<1>8. CASE call[b] \in Savings
  BY <1>1, <1>8 DEF Savings, SavePcs
<1> QED
  BY <1>1, <1>2, <1>3, <1>4, <1>5, <1>6, <1>7, <1>8 DEF Calls, AccountCalls

(* A step that writes one browser's call.                                     *)
LEMMA GotoCall ==
  ASSUME TypeInv, NEW b \in Browsers, NEW rec \in Calls, Goto(b, rec)
  PROVE  /\ call' \in [Browsers -> Calls]
         /\ call'[b] = rec
         /\ \A o \in Browsers \ {b} : call'[o] = call[o]
BY DEF TypeInv, Goto

----------------------------------------------------------------------------
(* What an account step does to one browser's call: it stays, or it is and    *)
(* remains a call of the IAM pages.                                           *)
AccountPcs == {"idle", "login", "count", "commit", "deleted", "insert", "grant"}

(* RowAfter keeps a row a row.                                                *)
LEMMA RowStaysRow ==
  ASSUME NEW row \in AccountRows, NEW c \in StatusCalls \cup RoleCalls \cup PasswordCalls
  PROVE  /\ RowAfter(row, c) \in AccountRows
         /\ RowAfter(row, c).status = row.status \/ c.what = "status"
         /\ row.status # "disabled" /\ ~(c.what = "status" /\ c.value = "disabled") =>
              RowAfter(row, c).status # "disabled"
         /\ "admin" \in row.roles /\ ~(c.what = "revoke" /\ c.value = "admin") =>
              "admin" \in RowAfter(row, c).roles
<1>1. CASE c \in StatusCalls
  BY <1>1 DEF StatusCalls, RowAfter, AccountRows
<1>2. CASE c \in RoleCalls /\ c.what = "revoke"
  BY <1>2 DEF RoleCalls, RowAfter, AccountRows
<1>3. CASE c \in RoleCalls /\ c.what = "assign"
  BY <1>3 DEF RoleCalls, RowAfter, AccountRows
<1>4. CASE c \in PasswordCalls
  BY <1>4 DEF PasswordCalls, RowAfter, AccountRows
<1> QED
  BY <1>1, <1>2, <1>3, <1>4 DEF RoleCalls

(* Every account step keeps the types.                                        *)
LEMMA AccountsTyped ==
  ASSUME TypeInv, AccountInv, AccountsStep, UNCHANGED settingVars
  PROVE  /\ TypeInv'
         /\ \A b \in Browsers :
              \/ call'[b] = call[b]
              \/ call[b].pc \in AccountPcs /\ call'[b] \in {Idle} \cup AccountCalls
<1> DEFINE Moves(b) ==
      /\ call' \in [Browsers -> Calls]
      /\ call[b].pc \in AccountPcs
      /\ call'[b] \in {Idle} \cup AccountCalls
      /\ \A o \in Browsers \ {b} : call'[o] = call[o]
<1>0. ASSUME NEW b \in Browsers, NEW rec \in {Idle} \cup AccountCalls,
             Goto(b, rec), call[b].pc \in AccountPcs
      PROVE  Moves(b)
  <2>1. rec \in Calls
    BY <1>0 DEF Calls
  <2> QED
    BY <1>0, <2>1, GotoCall
<1>a. ASSUME NEW b \in Browsers, Authenticated(b)
      PROVE  /\ cookie[b] \in Sids
             /\ tokens[cookie[b]] \in Tokens
             /\ tokens[cookie[b]].user \in Users
  BY <1>a DEF Authenticated, TypeInv, AccountInv, SessionsHaveTokens, RowsExist, Tokens
<1>1. ASSUME NEW b \in Browsers, NEW u \in Users, NEW p \in Passwords, FindUser(b, u, p)
      PROVE  TypeInv' /\ Moves(b)
  <2>1. [pc |-> "login", user |-> u, roles |-> users[u].roles] \in AccountCalls
    BY <1>1 DEF FindUser, Active, TypeInv, AccountRows, AccountCalls, Logins
  <2>2. Moves(b)
    BY <1>0, <1>1, <2>1 DEF FindUser, Free, AccountPcs
  <2> QED
    BY <1>1, <2>2 DEF FindUser, TypeInv, accountVars, settingVars
<1>2. ASSUME NEW b \in Browsers, NEW u \in Users, NEW st \in Statuses,
             SetUserStatus(b, u, st)
      PROVE  TypeInv' /\ Moves(b)
  <2>1. [pc |-> IF st = "disabled" THEN "count" ELSE "commit",
         what |-> "status", user |-> u, value |-> st, ended |-> {}] \in AccountCalls
    BY DEF AccountCalls, StatusCalls
  <2>2. Moves(b)
    BY <1>0, <1>2, <2>1 DEF SetUserStatus, Job, Free, AccountPcs
  <2> QED
    BY <1>2, <2>2 DEF SetUserStatus, TypeInv, accountVars, settingVars
<1>3. ASSUME NEW b \in Browsers, NEW u \in Users, NEW r \in Roles, RevokeRole(b, u, r)
      PROVE  TypeInv' /\ Moves(b)
  <2>1. [pc |-> IF r = "admin" THEN "count" ELSE "commit",
         what |-> "revoke", user |-> u, value |-> r] \in AccountCalls
    BY DEF AccountCalls, RoleCalls
  <2>2. Moves(b)
    BY <1>0, <1>3, <2>1 DEF RevokeRole, Job, Free, AccountPcs
  <2> QED
    BY <1>3, <2>2 DEF RevokeRole, TypeInv, accountVars, settingVars
<1>4. ASSUME NEW b \in Browsers, NEW u \in Users, NEW r \in Roles, AssignRole(b, u, r)
      PROVE  TypeInv' /\ Moves(b)
  <2>1. [pc |-> "commit", what |-> "assign", user |-> u, value |-> r] \in AccountCalls
    BY DEF AccountCalls, RoleCalls
  <2>2. Moves(b)
    BY <1>0, <1>4, <2>1 DEF AssignRole, Job, Free, AccountPcs
  <2> QED
    BY <1>4, <2>2 DEF AssignRole, TypeInv, accountVars, settingVars
<1>5. ASSUME NEW b \in Browsers, NEW u \in Users, NEW rs \in SUBSET Roles,
             NEW p \in Passwords, CreateUser(b, u, rs, p)
      PROVE  TypeInv' /\ Moves(b)
  <2>1. [pc |-> "insert", user |-> u, roles |-> rs, password |-> p] \in AccountCalls
    BY DEF AccountCalls, Creations
  <2>2. Moves(b)
    BY <1>0, <1>5, <2>1 DEF CreateUser, Job, Free, AccountPcs
  <2> QED
    BY <1>5, <2>2 DEF CreateUser, TypeInv, accountVars, settingVars
<1>6. ASSUME NEW b \in Browsers, NEW p \in Passwords, NEW q \in Passwords,
             ChangeMyPassword(b, p, q)
      PROVE  TypeInv' /\ Moves(b)
  <2>1. [pc |-> "commit", what |-> "password",
         user |-> tokens[cookie[b]].user, value |-> q] \in AccountCalls
    BY <1>a, <1>6 DEF ChangeMyPassword, AccountCalls, PasswordCalls
  <2>2. Moves(b)
    BY <1>0, <1>6, <2>1 DEF ChangeMyPassword, Job, Free, AccountPcs
  <2> QED
    BY <1>6, <2>2 DEF ChangeMyPassword, TypeInv, accountVars, settingVars
<1>7. ASSUME NEW b \in Browsers, InsertSession(b)
      PROVE  TypeInv' /\ Moves(b)
  <2>1. Moves(b)
    BY <1>0, <1>7 DEF InsertSession, At, AccountPcs
  <2>2. call[b] \in Logins
    BY <1>7, CallShape DEF InsertSession, At
  <2>3. PICK s \in Sids :
          /\ sessions' = [sessions EXCEPT ![s] =
                            [user |-> call[b].user,
                             raced |-> ~Active(call[b].user) \/ RowLocked(call[b].user)]]
          /\ tokens' = [tokens EXCEPT ![s] = [user |-> call[b].user, roles |-> call[b].roles]]
          /\ cookie' = [cookie EXCEPT ![b] = s]
    BY <1>7 DEF InsertSession, Unused
  <2>4. sessions' \in [Sids -> [user : Users, raced : BOOLEAN] \cup {None}]
    BY <2>2, <2>3 DEF TypeInv, Logins
  <2>5. tokens' \in [Sids -> Tokens \cup {None}] /\ cookie' \in [Browsers -> Sids \cup {None}]
    BY <2>2, <2>3 DEF TypeInv, Logins, Tokens
  <2> QED
    BY <1>7, <2>1, <2>4, <2>5 DEF InsertSession, TypeInv, settingVars
<1>8. ASSUME NEW b \in Browsers, Logout(b)
      PROVE  TypeInv' /\ UNCHANGED call
  BY <1>8, <1>a DEF Logout, TypeInv, settingVars
<1>9. ASSUME NEW b \in Browsers, CountAdmins(b)
      PROVE  TypeInv' /\ Moves(b)
  <2>1. call[b] \in StatusCalls \cup RoleCalls \cup PasswordCalls
    BY <1>9, CallShape DEF CountAdmins, At
  <2>2. [call[b] EXCEPT !.pc = "commit"] \in AccountCalls
    BY <2>1 DEF StatusCalls, RoleCalls, PasswordCalls, AccountCalls
  <2>3. Moves(b)
    BY <1>0, <1>9, <2>2 DEF CountAdmins, At, AccountPcs
  <2> QED
    BY <1>9, <2>3 DEF CountAdmins, TypeInv, accountVars, settingVars
<1>10. ASSUME NEW b \in Browsers, Commit(b)
       PROVE  TypeInv' /\ Moves(b)
  <2>1. Moves(b)
    BY <1>0, <1>10 DEF Commit, At, AccountPcs
  <2>2. call[b] \in StatusCalls \cup RoleCalls \cup PasswordCalls
    BY <1>10, CallShape DEF Commit, At
  <2>3. call[b].user \in Users
    BY <2>2 DEF StatusCalls, RoleCalls, PasswordCalls
  <2>4. users[call[b].user] \in AccountRows
    BY <1>10, <2>3 DEF Commit, At, AccountInv, RowsExist, TypeInv
  <2>5. users' \in [Users -> AccountRows \cup {None}]
    BY <1>10, <2>2, <2>3, <2>4, RowStaysRow DEF Commit, TypeInv
  <2>6. sessions' \in [Sids -> [user : Users, raced : BOOLEAN] \cup {None}]
    BY <1>10 DEF Commit, SessionsAfter, TypeInv
  <2>7. overlapped' \in BOOLEAN
    BY <1>10 DEF Commit
  <2> QED
    BY <1>10, <2>1, <2>5, <2>6, <2>7 DEF Commit, TypeInv, settingVars
<1>11. ASSUME NEW b \in Browsers, InsertUser(b)
       PROVE  TypeInv' /\ Moves(b)
  <2>1. call[b] \in Creations
    BY <1>11, CallShape DEF InsertUser, At
  <2>2. [call[b] EXCEPT !.pc = "grant"] \in AccountCalls
    BY <2>1 DEF Creations, AccountCalls
  <2>3. Moves(b)
    BY <1>0, <1>11, <2>2 DEF InsertUser, At, AccountPcs
  <2>4. users' \in [Users -> AccountRows \cup {None}]
    BY <1>11, <2>1 DEF InsertUser, TypeInv, Creations, AccountRows, Statuses
  <2> QED
    BY <1>11, <2>3, <2>4 DEF InsertUser, TypeInv, settingVars
<1>12. ASSUME NEW b \in Browsers, Grant(b)
       PROVE  TypeInv' /\ Moves(b)
  <2>1. call[b] \in Creations
    BY <1>12, CallShape DEF Grant, At
  <2>2. CASE call[b].roles = {} /\ Goto(b, Idle) /\ UNCHANGED users
    <3>1. Moves(b)
      BY <1>0, <1>12, <2>2 DEF Grant, At, AccountPcs
    <3> QED
      BY <1>12, <2>2, <3>1 DEF Grant, TypeInv, settingVars
  <2>3. ASSUME NEW r \in call[b].roles,
               users' = [users EXCEPT ![call[b].user].roles = @ \cup {r}],
               Goto(b, [call[b] EXCEPT !.roles = @ \ {r}])
        PROVE  TypeInv' /\ Moves(b)
    <3>1. [call[b] EXCEPT !.roles = @ \ {r}] \in AccountCalls
      BY <2>1 DEF Creations, AccountCalls
    <3>2. Moves(b)
      BY <1>0, <1>12, <2>3, <3>1 DEF Grant, At, AccountPcs
    <3>3. r \in Roles /\ call[b].user \in Users
      BY <2>1, <2>3 DEF Creations
    <3>4. users[call[b].user] \in AccountRows
      BY <1>12, <3>3 DEF Grant, At, AccountInv, RowsExist, TypeInv
    <3>5. users' \in [Users -> AccountRows \cup {None}]
      BY <2>3, <3>3, <3>4 DEF TypeInv, AccountRows
    <3> QED
      BY <1>12, <3>2, <3>5 DEF Grant, TypeInv, settingVars
  <2> QED
    BY <1>12, <2>2, <2>3 DEF Grant
<1>13. ASSUME NEW b \in Browsers, GiveUp(b)
       PROVE  TypeInv' /\ Moves(b)
  <2>1. Moves(b)
    BY <1>0, <1>13 DEF GiveUp, AccountPcs
  <2> QED
    BY <1>13, <2>1 DEF GiveUp, TypeInv, accountVars, settingVars
<1>14. ASSUME NEW s \in Sids, Expire(s)
       PROVE  TypeInv' /\ UNCHANGED call
  BY <1>14 DEF Expire, TypeInv, settingVars
<1>15. ASSUME NEW b \in Browsers, DeleteSessions(b)
       PROVE  TypeInv' /\ Moves(b)
  <2>1. call[b] \in StatusCalls
    BY <1>15, CallShape DEF DeleteSessions, At, RoleCalls, PasswordCalls
  <2>2. \A e \in SUBSET Sids : [call[b] EXCEPT !.pc = "deleted", !.ended = e] \in AccountCalls
    BY <2>1 DEF StatusCalls, AccountCalls
  <2>3. Moves(b)
    BY <1>0, <1>15, <2>2 DEF DeleteSessions, At, AccountPcs
  <2> QED
    BY <1>15, <2>3 DEF DeleteSessions, TypeInv, accountVars, settingVars
<1> QED
  BY <1>1, <1>2, <1>3, <1>4, <1>5, <1>6, <1>7, <1>8, <1>9, <1>10, <1>11, <1>12, <1>13, <1>14,
     <1>15
  DEF AccountsStep

----------------------------------------------------------------------------
(* A call that a step wrote is sound: its user has a row, if it is about to   *)
(* take an admin away another one is left, and if it has deleted sessions it  *)
(* has deleted them all.                                                      *)
CallSound(b) ==
  /\ call[b].pc \in {"login", "count", "commit", "deleted", "grant"} => users[call[b].user] # None
  /\ TakesAdmin(b) => overlapped \/ \E v \in Users \ {call[b].user} : Kept(v)
  /\ WillEnd(b)

(* A session that a step leaves has raced, or its user may log in if he could.*)
SessionSound(s) ==
  sessions'[s] # None =>
    /\ sessions'[s] = sessions[s]
    /\ sessions[s].raced \/ (Active(sessions[s].user) => Active(sessions[s].user)')

(* A step that disables nobody, takes no admin role and starts no session     *)
(* keeps the accounts sound when the calls it writes are.                     *)
LEMMA AccountsKept ==
  ASSUME TypeInv, AccountInv, TypeInv',
         \A v \in Users : (users[v] # None => users'[v] # None) /\ (Kept(v) => Kept(v)'),
         \A s \in Sids : SessionSound(s),
         UNCHANGED tokens,
         overlapped => overlapped',
         \A b \in Browsers : call'[b] = call[b] \/ CallSound(b)'
  PROVE  AccountInv'
<1>3. ASSUME NEW b \in Browsers, call[b].pc \in {"login", "count", "commit", "deleted", "grant"}
      PROVE  call[b].user \in Users
  BY <1>3, CallShape DEF Logins, StatusCalls, RoleCalls, PasswordCalls, Creations
<1>4. RowsExist'
  <2>1. ASSUME NEW b \in Browsers,
               call'[b].pc \in {"login", "count", "commit", "deleted", "grant"}
        PROVE  users'[call'[b].user] # None
    BY <1>3, <2>1 DEF AccountInv, RowsExist, CallSound
  <2>2. ASSUME NEW s \in Sids, sessions'[s] # None
        PROVE  users'[tokens'[s].user] # None
    <3>1. sessions[s] # None
      BY <2>2 DEF SessionSound
    <3>2. tokens[s] \in Tokens /\ users[tokens[s].user] # None
      BY <3>1 DEF AccountInv, RowsExist, SessionsHaveTokens
    <3> QED
      BY <3>2 DEF Tokens
  <2> QED
    BY <2>1, <2>2 DEF RowsExist
<1>5. SessionsHaveTokens'
  BY DEF AccountInv, SessionsHaveTokens, SessionSound
<1>6. DisabledMeansOut'
  BY DEF AccountInv, DisabledMeansOut, SessionSound, Active
<1>7. SessionsWillEnd'
  <2> SUFFICES ASSUME NEW b \in Browsers, call'[b] = call[b]
               PROVE  WillEnd(b)'
    BY DEF SessionsWillEnd, CallSound
  <2>1. WillEnd(b)
    BY DEF AccountInv, SessionsWillEnd
  <2> QED
    BY <2>1 DEF WillEnd, SessionSound, At
<1>8. CheckStillHolds'
  <2> SUFFICES ASSUME NEW b \in Browsers, TakesAdmin(b)', call'[b] = call[b]
               PROVE  overlapped' \/ \E v \in Users \ {call[b].user} : Kept(v)'
    BY DEF CheckStillHolds, CallSound
  <2>1. TakesAdmin(b) /\ call[b].user \in Users
    BY <1>3 DEF TakesAdmin
  <2> QED
    BY <2>1 DEF AccountInv, CheckStillHolds
<1>9. LastAdminKept'
  BY DEF AccountInv, LastAdminKept, Kept
<1> QED
  BY <1>4, <1>5, <1>6, <1>7, <1>8, <1>9 DEF AccountInv

(* In particular one after which everybody who could log in still can.        *)
LEMMA NobodyLoses ==
  ASSUME TypeInv, AccountInv, TypeInv',
         \A v \in Users :
           /\ users[v] # None => users'[v] # None
           /\ Active(v) => Active(v)'
           /\ Kept(v) => Kept(v)',
         \A s \in Sids : sessions'[s] \in {sessions[s], None},
         UNCHANGED tokens,
         overlapped => overlapped',
         \A b \in Browsers : call'[b] = call[b] \/ CallSound(b)'
  PROVE  AccountInv'
<1>1. ASSUME NEW s \in Sids
      PROVE  SessionSound(s)
  <2> SUFFICES ASSUME sessions'[s] # None
               PROVE  /\ sessions'[s] = sessions[s]
                      /\ Active(sessions[s].user) => Active(sessions[s].user)'
    BY DEF SessionSound
  <2>1. sessions'[s] = sessions[s] /\ sessions[s] # None
    OBVIOUS
  <2>2. sessions[s].user \in Users
    BY <2>1 DEF TypeInv
  <2> QED
    BY <2>1, <2>2 DEF Active
<1> QED
  BY <1>1, AccountsKept

(* The login's late session and the admin who is taken away are the two steps *)
(* that NobodyLoses does not cover.                                           *)
LEMMA LateSession ==
  ASSUME TypeInv, AccountInv, TypeInv', NEW b \in Browsers, InsertSession(b)
  PROVE  AccountInv'
<1>1. call[b] \in Logins /\ users[call[b].user] # None
  BY CallShape DEF InsertSession, At, AccountInv, RowsExist
<1>2. PICK s \in Sids :
        /\ sessions' = [sessions EXCEPT ![s] =
                          [user |-> call[b].user,
                           raced |-> ~Active(call[b].user) \/ RowLocked(call[b].user)]]
        /\ tokens' = [tokens EXCEPT ![s] = [user |-> call[b].user, roles |-> call[b].roles]]
  BY DEF InsertSession, Unused
<1>3. /\ call'[b] = Idle
      /\ \A o \in Browsers \ {b} : call'[o] = call[o]
      /\ UNCHANGED <<users, overlapped>>
  BY DEF InsertSession, Goto, TypeInv
<1>4. RowsExist'
  <2>1. ASSUME NEW o \in Browsers, call'[o].pc \in {"login", "count", "commit", "deleted", "grant"}
        PROVE  users'[call'[o].user] # None
    BY <1>3, <2>1 DEF AccountInv, RowsExist, Idle
  <2>2. ASSUME NEW t \in Sids, sessions'[t] # None
        PROVE  users'[tokens'[t].user] # None
    BY <1>1, <1>2, <1>3, <2>2 DEF AccountInv, RowsExist, TypeInv, Logins
  <2> QED
    BY <2>1, <2>2 DEF RowsExist
<1>5. SessionsHaveTokens'
  BY <1>1, <1>2 DEF AccountInv, SessionsHaveTokens, TypeInv, Tokens, Logins
<1>6. DisabledMeansOut'
  <2> SUFFICES ASSUME NEW t \in Sids, sessions'[t] # None, ~Active(sessions[t].user)'
               PROVE  sessions'[t].raced
    BY DEF DisabledMeansOut
  <2>1. ~Active(sessions'[t].user)
    BY <1>3 DEF Active
  <2>2. CASE t = s
    BY <1>2, <2>1, <2>2 DEF TypeInv
  <2>3. CASE t # s
    BY <1>2, <2>1, <2>3 DEF TypeInv, AccountInv, DisabledMeansOut
  <2> QED
    BY <2>2, <2>3
<1>7. CheckStillHolds'
  BY <1>3 DEF AccountInv, CheckStillHolds, TakesAdmin, Idle, Kept
<1>8. LastAdminKept'
  BY <1>3 DEF AccountInv, LastAdminKept
<1>9. SessionsWillEnd'
  <2> SUFFICES ASSUME NEW o \in Browsers, At(o, "deleted")', NEW t \in Sids, sessions'[t] # None,
                      sessions'[t].user = call'[o].user
               PROVE  t \in call'[o].ended \/ sessions'[t].raced
    BY DEF SessionsWillEnd, WillEnd
  <2>1. call'[o] = call[o] /\ At(o, "deleted")
    BY <1>3 DEF At, Idle
  <2>2. CASE t = s
    <3>1. sessions'[t] = [user |-> call[b].user,
                          raced |-> ~Active(call[b].user) \/ RowLocked(call[b].user)]
      BY <1>2, <2>2 DEF TypeInv
    <3>2. RowLocked(call[b].user)
      BY <2>1, <3>1 DEF RowLocked, Deleting
    <3>3. sessions'[t].raced = (~Active(call[b].user) \/ RowLocked(call[b].user))
      BY <3>1
    <3> QED
      BY <3>2, <3>3
  <2>3. CASE t # s
    BY <1>2, <2>1, <2>3 DEF TypeInv, AccountInv, SessionsWillEnd, WillEnd
  <2> QED
    BY <2>2, <2>3
<1> QED
  BY <1>4, <1>5, <1>6, <1>7, <1>8, <1>9 DEF AccountInv

(* The write that takes an admin away leaves the one its check had counted.   *)
LEMMA AdminTaken ==
  ASSUME TypeInv, AccountInv, TypeInv', NEW b \in Browsers, Commit(b), TakesAdmin(b)
  PROVE  AccountInv'
<1> DEFINE u == call[b].user
<1>1. call[b] \in StatusCalls \cup RoleCalls \cup PasswordCalls
  BY CallShape DEF Commit, At
<1>2. u \in Users
  BY <1>1 DEF StatusCalls, RoleCalls, PasswordCalls
<1>3. users[u] \in AccountRows
  BY <1>2 DEF Commit, At, AccountInv, RowsExist, TypeInv
<1>4. /\ users'[u] = RowAfter(users[u], call[b])
      /\ \A v \in Users \ {u} : users'[v] = users[v]
  BY <1>2 DEF Commit, TypeInv
<1>5. users'[u] \in AccountRows /\ users'[u] # None
  BY <1>1, <1>3, <1>4, RowStaysRow, AccountsAssumption
<1>6. /\ call'[b] = Idle
      /\ \A o \in Browsers \ {b} : call'[o] = call[o]
      /\ UNCHANGED tokens
      /\ overlapped' = (overlapped \/ \E o \in Browsers \ {b} : TakesAdmin(o))
      /\ sessions' = SessionsAfter(call[b])
  BY DEF Commit, Goto, TypeInv
<1>7. \A v \in Users : users[v] # None => users'[v] # None
  BY <1>4, <1>5
<1>8. RowsExist'
  <2>1. ASSUME NEW o \in Browsers, call'[o].pc \in {"login", "count", "commit", "deleted", "grant"}
        PROVE  users'[call'[o].user] # None
    <3>1. call'[o] = call[o]
      BY <1>6, <2>1 DEF Idle
    <3>2. call[o].user \in Users
      BY <2>1, <3>1, CallShape DEF Logins, StatusCalls, RoleCalls, PasswordCalls, Creations
    <3> QED
      BY <1>7, <2>1, <3>1, <3>2 DEF AccountInv, RowsExist
  <2>2. ASSUME NEW s \in Sids, sessions'[s] # None
        PROVE  users'[tokens'[s].user] # None
    <3>1. sessions[s] # None
      BY <1>6, <2>2 DEF SessionsAfter
    <3>2. tokens[s] \in Tokens /\ users[tokens[s].user] # None
      BY <3>1 DEF AccountInv, RowsExist, SessionsHaveTokens
    <3> QED
      BY <1>6, <1>7, <3>2 DEF Tokens
  <2> QED
    BY <2>1, <2>2 DEF RowsExist
<1>9. SessionsHaveTokens'
  BY <1>6 DEF AccountInv, SessionsHaveTokens, SessionsAfter
<1>10. DisabledMeansOut'
  <2> SUFFICES ASSUME NEW s \in Sids, sessions'[s] # None, ~Active(sessions[s].user)'
               PROVE  sessions'[s].raced
    BY DEF DisabledMeansOut
  <2>1. /\ sessions'[s] = sessions[s]
        /\ sessions[s] # None
        /\ ~(call[b].what = "status" /\ s \in call[b].ended)
    BY <1>6 DEF SessionsAfter
  <2>2. sessions[s].user \in Users
    BY <2>1 DEF TypeInv
  <2>3. CASE sessions[s].user # u
    BY <1>4, <2>1, <2>2, <2>3 DEF Active, AccountInv, DisabledMeansOut
  <2>4. CASE sessions[s].user = u /\ call[b].what = "status"
    BY <2>1, <2>4 DEF Commit, AccountInv, SessionsWillEnd, WillEnd
  <2>5. CASE sessions[s].user = u /\ call[b].what # "status"
    <3>1. users[u].status # "active"
      BY <1>1, <1>3, <1>4, <1>5, <2>1, <2>5, RowStaysRow DEF Active
    <3> QED
      BY <2>1, <2>5, <3>1 DEF Active, AccountInv, DisabledMeansOut
  <2> QED
    BY <2>3, <2>4, <2>5
<1>11. CheckStillHolds'
  <2> SUFFICES ASSUME NEW o \in Browsers, TakesAdmin(o)'
               PROVE  overlapped'
    BY DEF CheckStillHolds
  <2>1. o # b /\ TakesAdmin(o)
    BY <1>6 DEF TakesAdmin, Idle
  <2> QED
    BY <1>6, <2>1
<1>12. LastAdminKept'
  <2> SUFFICES ASSUME ~overlapped
               PROVE  \E v \in Users : Kept(v)'
    BY <1>6 DEF LastAdminKept, Kept
  <2>1. PICK v \in Users \ {u} : Kept(v)
    BY DEF AccountInv, CheckStillHolds
  <2> QED
    BY <1>4, <2>1 DEF Kept
<1>13. SessionsWillEnd'
  <2> SUFFICES ASSUME NEW o \in Browsers, At(o, "deleted")', NEW t \in Sids, sessions'[t] # None,
                      sessions'[t].user = call'[o].user
               PROVE  t \in call'[o].ended \/ sessions'[t].raced
    BY DEF SessionsWillEnd, WillEnd
  <2>1. call'[o] = call[o] /\ At(o, "deleted")
    BY <1>6 DEF At, Idle
  <2>2. sessions'[t] = sessions[t] /\ sessions[t] # None
    BY <1>6 DEF SessionsAfter
  <2> QED
    BY <2>1, <2>2 DEF AccountInv, SessionsWillEnd, WillEnd
<1> QED
  BY <1>8, <1>9, <1>10, <1>11, <1>12, <1>13 DEF AccountInv

(* The user a live session's token names has a row.                           *)
LEMMA TokenRow ==
  ASSUME TypeInv, AccountInv, NEW s \in Sids, sessions[s] # None
  PROVE  tokens[s].user \in Users /\ users[tokens[s].user] # None
<1>1. tokens[s] \in Tokens
  BY DEF AccountInv, SessionsHaveTokens
<1> QED
  BY <1>1 DEF Tokens, AccountInv, RowsExist

(* Every account step keeps the accounts sound.                               *)
LEMMA AccountsSound ==
  ASSUME TypeInv, AccountInv, AccountsStep, TypeInv'
  PROVE  AccountInv'
<1> DEFINE Others(b) == \A o \in Browsers \ {b} : call'[o] = call[o]
<1>0. ASSUME NEW b \in Browsers, NEW rec, Goto(b, rec)
      PROVE  call'[b] = rec /\ Others(b)
  BY <1>0 DEF Goto, TypeInv
<1>a. ASSUME NEW b \in Browsers, UNCHANGED <<users, sessions, tokens, overlapped>>,
             CallSound(b)', Others(b)
      PROVE  AccountInv'
  BY <1>a, NobodyLoses DEF Active, Kept
<1>1. ASSUME NEW b \in Browsers, NEW u \in Users, NEW p \in Passwords, FindUser(b, u, p)
      PROVE  AccountInv'
  <2>1. call'[b] = [pc |-> "login", user |-> u, roles |-> users[u].roles] /\ Others(b)
    BY <1>0, <1>1 DEF FindUser
  <2>2. UNCHANGED <<users, sessions, tokens, overlapped>>
    BY <1>1 DEF FindUser, accountVars
  <2>3. CallSound(b)'
    BY <1>1, <2>1, <2>2 DEF FindUser, Active, CallSound, WillEnd, TakesAdmin, At
  <2> QED
    BY <1>a, <2>1, <2>2, <2>3
<1>2. ASSUME NEW b \in Browsers, NEW u \in Users, NEW st \in Statuses,
             SetUserStatus(b, u, st)
      PROVE  AccountInv'
  <2>1. /\ call'[b] = [pc |-> IF st = "disabled" THEN "count" ELSE "commit",
                       what |-> "status", user |-> u, value |-> st, ended |-> {}]
        /\ Others(b)
    BY <1>0, <1>2 DEF SetUserStatus, Job
  <2>2. UNCHANGED <<users, sessions, tokens, overlapped>>
    BY <1>2 DEF SetUserStatus
  <2>3. CallSound(b)'
    BY <1>2, <2>1, <2>2 DEF SetUserStatus, CallSound, WillEnd, TakesAdmin, At
  <2> QED
    BY <1>a, <2>1, <2>2, <2>3
<1>3. ASSUME NEW b \in Browsers, NEW u \in Users, NEW r \in Roles, RevokeRole(b, u, r)
      PROVE  AccountInv'
  <2>1. /\ call'[b] = [pc |-> IF r = "admin" THEN "count" ELSE "commit",
                       what |-> "revoke", user |-> u, value |-> r]
        /\ Others(b)
    BY <1>0, <1>3 DEF RevokeRole, Job
  <2>2. UNCHANGED <<users, sessions, tokens, overlapped>>
    BY <1>3 DEF RevokeRole
  <2>3. CallSound(b)'
    BY <1>3, <2>1, <2>2 DEF RevokeRole, CallSound, WillEnd, TakesAdmin, At
  <2> QED
    BY <1>a, <2>1, <2>2, <2>3
<1>4. ASSUME NEW b \in Browsers, NEW u \in Users, NEW r \in Roles, AssignRole(b, u, r)
      PROVE  AccountInv'
  <2>1. /\ call'[b] = [pc |-> "commit", what |-> "assign", user |-> u, value |-> r]
        /\ Others(b)
    BY <1>0, <1>4 DEF AssignRole, Job
  <2>2. UNCHANGED <<users, sessions, tokens, overlapped>>
    BY <1>4 DEF AssignRole
  <2>3. CallSound(b)'
    BY <1>4, <2>1, <2>2 DEF AssignRole, CallSound, WillEnd, TakesAdmin, At
  <2> QED
    BY <1>a, <2>1, <2>2, <2>3
<1>5. ASSUME NEW b \in Browsers, NEW u \in Users, NEW rs \in SUBSET Roles,
             NEW p \in Passwords, CreateUser(b, u, rs, p)
      PROVE  AccountInv'
  <2>1. /\ call'[b] = [pc |-> "insert", user |-> u, roles |-> rs, password |-> p]
        /\ Others(b)
    BY <1>0, <1>5 DEF CreateUser, Job
  <2>2. UNCHANGED <<users, sessions, tokens, overlapped>>
    BY <1>5 DEF CreateUser
  <2>3. CallSound(b)'
    BY <2>1 DEF CallSound, WillEnd, TakesAdmin, At
  <2> QED
    BY <1>a, <2>1, <2>2, <2>3
<1>6. ASSUME NEW b \in Browsers, NEW p \in Passwords, NEW q \in Passwords,
             ChangeMyPassword(b, p, q)
      PROVE  AccountInv'
  <2>1. /\ call'[b] = [pc |-> "commit", what |-> "password",
                       user |-> tokens[cookie[b]].user, value |-> q]
        /\ Others(b)
    BY <1>0, <1>6 DEF ChangeMyPassword, Job
  <2>2. UNCHANGED <<users, sessions, tokens, overlapped>>
    BY <1>6 DEF ChangeMyPassword
  <2>3. cookie[b] \in Sids /\ sessions[cookie[b]] # None
    BY <1>6 DEF ChangeMyPassword, Authenticated, TypeInv
  <2>4. users[tokens[cookie[b]].user] # None
    BY <2>3, TokenRow
  <2>5. CallSound(b)'
    BY <2>1, <2>2, <2>4 DEF CallSound, WillEnd, TakesAdmin, At
  <2> QED
    BY <1>a, <2>1, <2>2, <2>5
<1>7. ASSUME NEW b \in Browsers, Logout(b)
      PROVE  AccountInv'
  BY <1>7, NobodyLoses DEF Logout, Active, Kept, TypeInv
<1>8. ASSUME NEW b \in Browsers, CountAdmins(b)
      PROVE  AccountInv'
  <2>1. UNCHANGED <<users, sessions, tokens, overlapped>>
    BY <1>8 DEF CountAdmins, accountVars
  <2>2. call[b] \in StatusCalls \cup RoleCalls \cup PasswordCalls
    BY <1>8, CallShape DEF CountAdmins, At
  <2>3. CASE EnabledAdminsExcluding(call[b].user) = {}
    <3>1. call'[b] = Idle /\ Others(b)
      BY <1>0, <1>8, <2>3 DEF CountAdmins
    <3>2. CallSound(b)'
      BY <3>1 DEF CallSound, WillEnd, TakesAdmin, At, Idle
    <3> QED
      BY <1>a, <2>1, <3>1, <3>2
  <2>4. CASE EnabledAdminsExcluding(call[b].user) # {}
    <3>1. call'[b] = [call[b] EXCEPT !.pc = "commit"] /\ Others(b)
      BY <1>0, <1>8, <2>4 DEF CountAdmins
    <3>2. call'[b].user = call[b].user /\ call'[b].pc = "commit"
      BY <2>2, <3>1 DEF StatusCalls, RoleCalls, PasswordCalls
    <3>3. users'[call'[b].user] # None
      BY <1>8, <2>1, <3>2 DEF CountAdmins, At, AccountInv, RowsExist
    <3>4. \E v \in Users \ {call'[b].user} : Kept(v)'
      BY <2>1, <2>4, <3>2 DEF EnabledAdminsExcluding, Active, Kept
    <3>5. CallSound(b)'
      BY <3>2, <3>3, <3>4 DEF CallSound, WillEnd, At
    <3> QED
      BY <1>a, <2>1, <3>1, <3>5
  <2> QED
    BY <2>3, <2>4
<1>9. ASSUME NEW b \in Browsers, Commit(b)
      PROVE  AccountInv'
  <2>1. CASE TakesAdmin(b)
    BY <1>9, <2>1, AdminTaken
  <2>2. CASE ~TakesAdmin(b)
    <3>1. call[b] \in StatusCalls \cup RoleCalls \cup PasswordCalls
      BY <1>9, CallShape DEF Commit, At
    <3>2. call[b].user \in Users
      BY <3>1 DEF StatusCalls, RoleCalls, PasswordCalls
    <3>3. users[call[b].user] \in AccountRows
      BY <1>9, <3>2 DEF Commit, At, AccountInv, RowsExist, TypeInv
    <3>4. /\ users'[call[b].user] = RowAfter(users[call[b].user], call[b])
          /\ \A v \in Users \ {call[b].user} : users'[v] = users[v]
      BY <1>9, <3>2 DEF Commit, TypeInv
    <3>5. /\ ~(call[b].what = "status" /\ call[b].value = "disabled")
          /\ ~(call[b].what = "revoke" /\ call[b].value = "admin")
      BY <1>9, <2>2 DEF Commit, TakesAdmin, At
    <3>6. \A v \in Users : (users[v] # None => users'[v] # None) /\ (Kept(v) => Kept(v)')
      BY <3>1, <3>3, <3>4, <3>5, RowStaysRow, AccountsAssumption DEF Kept
    <3>7. ASSUME NEW s \in Sids
          PROVE  SessionSound(s)
      <4> SUFFICES ASSUME sessions'[s] # None, ~sessions[s].raced, Active(sessions[s].user)
                   PROVE  sessions'[s] = sessions[s] /\ Active(sessions[s].user)'
        BY <1>9 DEF SessionSound, Commit, SessionsAfter
      <4>1. /\ sessions'[s] = sessions[s]
            /\ sessions[s] # None
            /\ ~(call[b].what = "status" /\ s \in call[b].ended)
        BY <1>9 DEF Commit, SessionsAfter
      <4>2. sessions[s].user \in Users
        BY <4>1 DEF TypeInv
      <4>3. CASE sessions[s].user # call[b].user
        BY <3>4, <4>1, <4>2, <4>3 DEF Active
      <4>4. CASE sessions[s].user = call[b].user /\ call[b].what = "status"
        BY <1>9, <4>1, <4>4 DEF Commit, AccountInv, SessionsWillEnd, WillEnd
      <4>5. CASE sessions[s].user = call[b].user /\ call[b].what # "status"
        BY <3>1, <3>3, <3>4, <4>1, <4>5, RowStaysRow, AccountsAssumption DEF Active
      <4> QED
        BY <4>3, <4>4, <4>5
    <3>8. call'[b] = Idle /\ Others(b)
      BY <1>0, <1>9 DEF Commit
    <3>9. CallSound(b)'
      BY <3>8 DEF CallSound, WillEnd, TakesAdmin, At, Idle
    <3>10. UNCHANGED tokens /\ (overlapped => overlapped')
      BY <1>9 DEF Commit
    <3> QED
      BY <3>6, <3>7, <3>8, <3>9, <3>10, AccountsKept
  <2> QED
    BY <2>1, <2>2
<1>10. ASSUME NEW b \in Browsers, InsertUser(b)
       PROVE  AccountInv'
  <2>1. call[b] \in Creations
    BY <1>10, CallShape DEF InsertUser, At
  <2>2. /\ users'[call[b].user] =
             [status |-> "active", roles |-> {}, password |-> call[b].password]
        /\ \A v \in Users \ {call[b].user} : users'[v] = users[v]
        /\ call[b].user \in Users
    BY <1>10, <2>1 DEF InsertUser, TypeInv, Creations
  <2>3. users'[call[b].user] \in AccountRows
    BY <2>1, <2>2 DEF Creations, AccountRows, Statuses
  <2>4. users'[call[b].user] # None
    BY <2>3, AccountsAssumption
  <2>5. \A v \in Users :
          /\ users[v] # None => users'[v] # None
          /\ Active(v) => Active(v)'
          /\ Kept(v) => Kept(v)'
    BY <1>10, <2>2 DEF InsertUser, Active, Kept
  <2>6. call'[b] = [call[b] EXCEPT !.pc = "grant"] /\ Others(b)
    BY <1>0, <1>10 DEF InsertUser
  <2>7. call'[b].user = call[b].user /\ call'[b].pc = "grant"
    BY <2>1, <2>6 DEF Creations
  <2>8. CallSound(b)'
    BY <2>4, <2>7 DEF CallSound, WillEnd, TakesAdmin, At
  <2> QED
    BY <1>10, <2>5, <2>6, <2>8, NobodyLoses DEF InsertUser
<1>11. ASSUME NEW b \in Browsers, Grant(b)
       PROVE  AccountInv'
  <2>1. call[b] \in Creations /\ users[call[b].user] # None
    BY <1>11, CallShape DEF Grant, At, AccountInv, RowsExist
  <2>2. CASE call[b].roles = {} /\ Goto(b, Idle) /\ UNCHANGED users
    <3>1. call'[b] = Idle /\ Others(b)
      BY <1>0, <2>2
    <3>2. CallSound(b)'
      BY <3>1 DEF CallSound, WillEnd, TakesAdmin, At, Idle
    <3> QED
      BY <1>a, <1>11, <2>2, <3>1, <3>2 DEF Grant
  <2>3. ASSUME NEW r \in call[b].roles,
               users' = [users EXCEPT ![call[b].user].roles = @ \cup {r}],
               Goto(b, [call[b] EXCEPT !.roles = @ \ {r}])
        PROVE  AccountInv'
    <3>1. call'[b] = [call[b] EXCEPT !.roles = @ \ {r}] /\ Others(b)
      BY <1>0, <2>3
    <3>2. call'[b].user = call[b].user /\ call'[b].pc = "grant" /\ call[b].user \in Users
      BY <1>11, <2>1, <3>1 DEF Creations, Grant, At
    <3>3. users[call[b].user] \in AccountRows
      BY <2>1, <3>2 DEF TypeInv
    <3>4. /\ users'[call[b].user] =
               [users[call[b].user] EXCEPT !.roles = users[call[b].user].roles \cup {r}]
          /\ \A v \in Users \ {call[b].user} : users'[v] = users[v]
      BY <2>3, <3>2 DEF TypeInv
    <3>5. r \in Roles
      BY <2>1, <2>3 DEF Creations
    <3>6. /\ users'[call[b].user] \in AccountRows
          /\ users'[call[b].user].status = users[call[b].user].status
          /\ users[call[b].user].roles \subseteq users'[call[b].user].roles
      BY <3>3, <3>4, <3>5 DEF AccountRows
    <3>7. users'[call[b].user] # None
      BY <3>6, AccountsAssumption
    <3>8. \A v \in Users :
            /\ users[v] # None => users'[v] # None
            /\ Active(v) => Active(v)'
            /\ Kept(v) => Kept(v)'
      BY <3>4, <3>6, <3>7 DEF Active, Kept
    <3>9. CallSound(b)'
      BY <3>2, <3>7 DEF CallSound, WillEnd, TakesAdmin, At
    <3> QED
      BY <1>11, <3>1, <3>8, <3>9, NobodyLoses DEF Grant
  <2> QED
    BY <1>11, <2>2, <2>3 DEF Grant
<1>12. ASSUME NEW b \in Browsers, GiveUp(b)
       PROVE  AccountInv'
  <2>1. call'[b] = Idle /\ Others(b)
    BY <1>0, <1>12 DEF GiveUp
  <2>2. CallSound(b)'
    BY <2>1 DEF CallSound, WillEnd, TakesAdmin, At, Idle
  <2> QED
    BY <1>a, <1>12, <2>1, <2>2 DEF GiveUp, accountVars
<1>13. ASSUME NEW s \in Sids, Expire(s)
       PROVE  AccountInv'
  BY <1>13, NobodyLoses DEF Expire, Active, Kept, TypeInv
<1>14. ASSUME NEW b \in Browsers, DeleteSessions(b)
       PROVE  AccountInv'
  <2>1. UNCHANGED <<users, sessions, tokens, overlapped>>
    BY <1>14 DEF DeleteSessions, accountVars
  <2>2. call[b] \in StatusCalls
    BY <1>14, CallShape DEF DeleteSessions, At, RoleCalls, PasswordCalls
  <2>3. /\ call'[b] = [call[b] EXCEPT
                         !.pc = "deleted",
                         !.ended = {s \in Sids : /\ sessions[s] # None
                                                 /\ sessions[s].user = call[b].user}]
        /\ Others(b)
    BY <1>0, <1>14 DEF DeleteSessions
  <2>4. /\ call'[b].pc = "deleted" /\ call'[b].user = call[b].user
        /\ call'[b].what = call[b].what /\ call'[b].value = call[b].value
        /\ call'[b].ended = {s \in Sids : /\ sessions[s] # None
                                          /\ sessions[s].user = call[b].user}
    BY <2>2, <2>3 DEF StatusCalls
  <2>5. users'[call'[b].user] # None
    BY <1>14, <2>1, <2>4 DEF DeleteSessions, At, AccountInv, RowsExist
  <2>6. TakesAdmin(b)' => overlapped' \/ \E v \in Users \ {call'[b].user} : Kept(v)'
    <3>1. TakesAdmin(b)' => TakesAdmin(b)
      BY <1>14, <2>4 DEF DeleteSessions, TakesAdmin, At
    <3> QED
      BY <2>1, <2>4, <3>1 DEF AccountInv, CheckStillHolds, Kept
  <2>7. WillEnd(b)'
    BY <2>1, <2>4 DEF WillEnd
  <2>8. CallSound(b)'
    BY <2>5, <2>6, <2>7 DEF CallSound
  <2> QED
    BY <1>a, <2>1, <2>3, <2>8
<1> QED
  BY <1>1, <1>2, <1>3, <1>4, <1>5, <1>6, <1>7, <1>8, <1>9, <1>10, <1>11, <1>12, <1>13, <1>14,
     LateSession
  DEF AccountsStep

----------------------------------------------------------------------------
(* What the pages save: settings that are well-formed, and with a typed key   *)
(* the key, the model and the provider in this order.                         *)
Page(b) ==
  \/ \E p \in Providers, field \in {None, "key", OtherRef} : SaveProvider(b, p, field)
  \/ \E t \in Timeouts : SaveForm(b, t)
  \/ \E c \in DOMAIN Tags : SetChannel(b, c)
  \/ \E k \in Keys : DeleteSetting(b, k)
  \/ \E released \in BOOLEAN : CheckForUpdate(b, released)
  \/ ApplyUpdate(b) \/ CancelUpdate(b)

(* The credentials page.                                                      *)
Edit == \E b \in Browsers, k \in Secrets, value \in {None, "key"} : EditCredential(b, k, value)

(* Short lists of writes.                                                     *)
LEMMA ListOfTwo ==
  ASSUME NEW S, NEW x \in S, NEW y \in S
  PROVE  <<x, y>> \in Seq(S) /\ <<x>> \o <<y>> = <<x, y>>
<1> DEFINE s == <<x>> \o <<y>>
<1>1. <<x>> \in Seq(S) /\ <<y>> \in Seq(S) /\ <<x, y>> \in Seq(S)
  OBVIOUS
<1>2. s \in Seq(S) /\ Len(s) = 2 /\ s[1] = x /\ s[2] = y
  BY <1>1, ConcatProperties
<1> HIDE DEF s
<1>3. Len(s) = Len(<<x, y>>) /\ \A i \in 1 .. Len(s) : s[i] = <<x, y>>[i]
  BY <1>2
<1>4. s = <<x, y>>
  BY <1>1, <1>2, <1>3, SeqEqual
<1> QED
  BY <1>1, <1>4 DEF s

(* ... and of three.                                                          *)
LEMMA ListOfThree ==
  ASSUME NEW S, NEW x \in S, NEW y \in S, NEW z \in S
  PROVE  <<x, y, z>> \in Seq(S) /\ <<x, y>> \o <<z>> = <<x, y, z>>
<1> DEFINE s == <<x, y>> \o <<z>>
<1>1. <<x, y>> \in Seq(S) /\ <<z>> \in Seq(S) /\ <<x, y, z>> \in Seq(S)
  OBVIOUS
<1>2. s \in Seq(S) /\ Len(s) = 3 /\ s[1] = x /\ s[2] = y /\ s[3] = z
  BY <1>1, ConcatProperties
<1> HIDE DEF s
<1>3. Len(s) = Len(<<x, y, z>>) /\ \A i \in 1 .. Len(s) : s[i] = <<x, y, z>>[i]
  BY <1>2
<1>4. s = <<x, y, z>>
  BY <1>1, <1>2, <1>3, SeqEqual
<1> QED
  BY <1>1, <1>4 DEF s

(* The one-element list a page appends.                                       *)
LEMMA WriteTyped ==
  ASSUME NEW key \in Keys, NEW value \in Values, NEW stop \in BOOLEAN,
         key # "anthropic_key" \/ value \in {"key", OtherRef, None},
         key # "channel" \/ value \in DOMAIN Tags \cup {None}
  PROVE  /\ Write(key, value, stop) \in Writes
         /\ <<Write(key, value, stop)>> \in Seq(Writes)
BY DEF Write, Writes

(* Each page's save, with its list of writes.                                 *)
LEMMA PagesSave ==
  ASSUME TypeInv, NEW b \in Browsers, Page(b)
  PROVE  \E todo \in Seq(Writes), typed \in BOOLEAN, after \in Flags :
           /\ Save(b, todo, typed, after)
           /\ typed => todo = AllWrites
<1> DEFINE Good(todo, typed, after) ==
      /\ todo \in Seq(Writes)
      /\ typed \in BOOLEAN
      /\ after \in Flags
      /\ Save(b, todo, typed, after)
      /\ typed => todo = AllWrites
<1>k. Keep \in Flags
  BY DEF Flags
<1>s. Seed \in Seq(Writes) /\ ChannelRead \in DOMAIN Tags
  <2>1. <<Write("channel", "stable", FALSE)>> \in Seq(Writes)
    BY WriteTyped, SettingsAssumption DEF Keys, Values, Texts
  <2>2. <<>> \in Seq(Writes)
    OBVIOUS
  <2> QED
    BY <2>1, <2>2, SettingsAssumption DEF Seed, ChannelRead, TypeInv
<1>1. ASSUME NEW p \in Providers, NEW field \in {None, "key", OtherRef}, SaveProvider(b, p, field)
      PROVE  \E todo, t, after : Good(todo, t, after)
  <2> DEFINE todo == ConfigWrites(p, field) \o <<Write("provider", p, TRUE)>>
             Key == Write("anthropic_key", field, TRUE)
             Url == Write("ollama_url", "url", TRUE)
             Model == Write("model", p, TRUE)
             Provider == Write("provider", p, TRUE)
  <2>0. "key" # None /\ OtherRef # None /\ "key" # OtherRef
    BY SettingsAssumption DEF Texts, OtherRef
  <2>1. Save(b, todo, field = "key", Keep) /\ (field # None => p = "anthropic")
    BY <1>1 DEF SaveProvider
  <2>2. Model \in Writes /\ Provider \in Writes /\ Url \in Writes
    BY WriteTyped DEF Keys, Values, Texts, Providers
  <2>3. Key \in Writes
    BY WriteTyped DEF Keys, Values, Texts, Secrets
  <2>4. CASE field # None
    <3>1. ConfigWrites(p, field) = <<Key>> \o <<Model>>
      BY <2>1, <2>4 DEF ConfigWrites
    <3>2. todo = <<Key, Model, Provider>> /\ todo \in Seq(Writes)
      <4> HIDE DEF Key, Model, Provider
      <4>1. <<Key>> \o <<Model>> = <<Key, Model>>
        BY <2>2, <2>3, ListOfTwo
      <4>2. <<Key, Model>> \o <<Provider>> = <<Key, Model, Provider>>
        BY <2>2, <2>3, ListOfThree
      <4>3. <<Key, Model, Provider>> \in Seq(Writes)
        BY <2>2, <2>3, ListOfThree
      <4>4. todo = (<<Key>> \o <<Model>>) \o <<Provider>>
        BY <3>1 DEF Provider
      <4> QED
        BY <4>1, <4>2, <4>3, <4>4
    <3>3. field = "key" => todo = AllWrites
      BY <2>1, <2>4, <3>2 DEF AllWrites, KeyWrite, ModelWrite, ProviderWrite
    <3>4. Good(todo, field = "key", Keep)
      BY <1>k, <2>1, <3>2, <3>3
    <3> QED
      BY <3>4
  <2>5. CASE field = None /\ p = "local"
    <3>1. ConfigWrites(p, field) = <<Url>> \o <<Model>>
      BY <2>5 DEF ConfigWrites
    <3>2. todo = <<Url, Model, Provider>> /\ todo \in Seq(Writes)
      <4> HIDE DEF Url, Model, Provider
      <4>1. <<Url>> \o <<Model>> = <<Url, Model>>
        BY <2>2, ListOfTwo
      <4>2. <<Url, Model>> \o <<Provider>> = <<Url, Model, Provider>>
        BY <2>2, ListOfThree
      <4>3. <<Url, Model, Provider>> \in Seq(Writes)
        BY <2>2, ListOfThree
      <4>4. todo = (<<Url>> \o <<Model>>) \o <<Provider>>
        BY <3>1 DEF Provider
      <4> QED
        BY <4>1, <4>2, <4>3, <4>4
    <3>3. Good(todo, field = "key", Keep)
      BY <1>k, <2>0, <2>1, <2>5, <3>2
    <3> QED
      BY <3>3
  <2>6. CASE field = None /\ p = "anthropic"
    <3>1. ConfigWrites(p, field) = <<>> \o <<Model>>
      BY <2>6 DEF ConfigWrites
    <3>2. <<>> \o <<Model>> = <<Model>>
      OBVIOUS
    <3>3. todo = <<Model, Provider>> /\ todo \in Seq(Writes)
      BY <2>2, <3>1, <3>2, ListOfTwo
    <3>4. Good(todo, field = "key", Keep)
      BY <1>k, <2>0, <2>1, <2>6, <3>3
    <3> QED
      BY <3>4
  <2> QED
    BY <2>4, <2>5, <2>6 DEF Providers
<1>2. ASSUME NEW t \in Timeouts, SaveForm(b, t)
      PROVE  \E todo, typed, after : Good(todo, typed, after)
  <2>1. Write("timeout", t, FALSE) \in Writes /\ Write("depth", "4", FALSE) \in Writes
    BY WriteTyped, SettingsAssumption DEF Keys, Values, Texts
  <2>2. Good(<<Write("timeout", t, FALSE), Write("depth", "4", FALSE)>>, FALSE, Keep)
    BY <1>2, <1>k, <2>1, ListOfTwo DEF SaveForm
  <2> QED
    BY <2>2
<1>3. ASSUME NEW c \in DOMAIN Tags, SetChannel(b, c)
      PROVE  \E todo, typed, after : Good(todo, typed, after)
  <2>1. <<Write("channel", c, TRUE)>> \in Seq(Writes)
    BY WriteTyped, SettingsAssumption DEF Keys, Values, Texts
  <2>2. Good(<<Write("channel", c, TRUE)>>, FALSE, Keep)
    BY <1>3, <1>k, <2>1 DEF SetChannel
  <2> QED
    BY <2>2
<1>4. ASSUME NEW k \in Keys, DeleteSetting(b, k)
      PROVE  \E todo, typed, after : Good(todo, typed, after)
  <2>1. <<Write(k, None, TRUE)>> \in Seq(Writes)
    BY WriteTyped DEF Values
  <2>2. Good(<<Write(k, None, TRUE)>>, FALSE, Keep)
    BY <1>4, <1>k, <2>1 DEF DeleteSetting
  <2> QED
    BY <2>2
<1>5. ASSUME NEW released \in BOOLEAN, CheckForUpdate(b, released)
      PROVE  \E todo, typed, after : Good(todo, typed, after)
  <2> DEFINE tag == IF released THEN <<Write("latest", Tags[ChannelRead], TRUE)>> ELSE <<>>
             todo == Seed \o <<Write("checked", "now", TRUE)>> \o tag
  <2>1. <<Write("checked", "now", TRUE)>> \in Seq(Writes)
    BY WriteTyped DEF Keys, Values, Texts
  <2>2. <<Write("latest", Tags[ChannelRead], TRUE)>> \in Seq(Writes)
    <3>1. Tags[ChannelRead] \in Values
      BY <1>s DEF Values, Texts
    <3> QED
      BY <3>1, WriteTyped DEF Keys
  <2>3. tag \in Seq(Writes)
    <3>1. <<>> \in Seq(Writes)
      OBVIOUS
    <3> QED
      BY <2>2, <3>1
  <2>4. Seed \o <<Write("checked", "now", TRUE)>> \in Seq(Writes)
    BY <1>s, <2>1, ConcatProperties
  <2>5. todo \in Seq(Writes)
    BY <2>3, <2>4, ConcatProperties
  <2>6. Save(b, todo, FALSE, Keep)
    BY <1>5 DEF CheckForUpdate
  <2>7. Good(todo, FALSE, Keep)
    BY <1>k, <2>5, <2>6
  <2> QED
    BY <2>7
<1>6. ASSUME ApplyUpdate(b)
      PROVE  \E todo, typed, after : Good(todo, typed, after)
  <2>1. rows["latest"] \in Texts
    BY <1>6 DEF ApplyUpdate, TypeInv, Keys, Values
  <2>2. [channel |-> ChannelRead, tag |-> rows["latest"]] \in Flags
    BY <1>s, <2>1, SettingsAssumption DEF Flags
  <2>3. Good(Seed, FALSE, [channel |-> ChannelRead, tag |-> rows["latest"]])
    BY <1>6, <1>s, <2>2 DEF ApplyUpdate
  <2> QED
    BY <2>3
<1>7. ASSUME CancelUpdate(b)
      PROVE  \E todo, typed, after : Good(todo, typed, after)
  <2>1. Good(Seed, FALSE, None)
    BY <1>7, <1>s DEF CancelUpdate, Flags
  <2> QED
    BY <2>1
<1>8. \E todo, typed, after : Good(todo, typed, after)
  BY <1>1, <1>2, <1>3, <1>4, <1>5, <1>6, <1>7 DEF Page
<1> QED
  BY <1>8

----------------------------------------------------------------------------
(* The steps of set_setting.                                                  *)
SaveStep(b) ==
  \/ Guard(b) \/ LookUp(b) \/ StoreSecret(b) \/ Upsert(b)
  \/ Load(b) \/ Store(b) \/ Current(b) \/ ApplyTunables(b)
  \/ Refuse(b) \/ Finish(b)

(* The write a save is at, and the records it may become.                     *)
LEMMA SaveShape ==
  ASSUME NEW c \in Savings, c.todo # <<>>
  PROVE  /\ Head(c.todo) \in Writes
         /\ Head(c.todo).key \in Keys
         /\ Head(c.todo).value \in Values
         /\ \A pc \in {"guard", "upsert", "load", "current"} : [c EXCEPT !.pc = pc] \in Savings
         /\ Plaintext(Head(c.todo)) => [c EXCEPT !.pc = "look"] \in Savings
         /\ c.pc = "look" =>
              \A x \in BOOLEAN : [c EXCEPT !.pc = "vault", !.found = x] \in Savings
         /\ \A pc \in {"store", "apply"}, m \in [Keys -> Values] :
              [c EXCEPT !.pc = pc, !.snap = m] \in Savings
         /\ [c EXCEPT !.alone = FALSE] \in Savings
         /\ NextWrite(c) \in Savings
<1>1. c.todo \in Seq(Writes)
  BY DEF Savings
<1>2. Head(c.todo) \in Writes /\ Tail(c.todo) \in Seq(Writes)
  BY <1>1
<1>3. Head(c.todo).key \in Keys /\ Head(c.todo).value \in Values
  BY <1>2 DEF Writes
<1>4. /\ \A pc \in {"guard", "upsert", "load", "current"} : [c EXCEPT !.pc = pc] \in Savings
      /\ Plaintext(Head(c.todo)) => [c EXCEPT !.pc = "look"] \in Savings
  BY DEF Savings, SavePcs
<1>5. c.pc = "look" => \A x \in BOOLEAN : [c EXCEPT !.pc = "vault", !.found = x] \in Savings
  BY DEF Savings, SavePcs
<1>6. \A pc \in {"store", "apply"}, m \in [Keys -> Values] :
        [c EXCEPT !.pc = pc, !.snap = m] \in Savings
  BY DEF Savings, SavePcs
<1>7. [c EXCEPT !.alone = FALSE] \in Savings
  BY DEF Savings, SavePcs
<1>8. NextWrite(c) \in Savings
  BY <1>2 DEF NextWrite, Savings, SavePcs
<1> QED
  BY <1>2, <1>3, <1>4, <1>5, <1>6, <1>7, <1>8

(* Every step of a save keeps the types and leaves the accounts alone.        *)
LEMMA SettingsTyped ==
  ASSUME TypeInv, NEW b \in Browsers, Page(b) \/ SaveStep(b)
  PROVE  /\ TypeInv'
         /\ UNCHANGED <<users, sessions, tokens, overlapped>>
         /\ \A o \in Browsers : call'[o] = call[o] \/ call'[o] \in {Idle} \cup Savings
<1> DEFINE Moved == \A o \in Browsers : call'[o] = call[o] \/ call'[o] \in {Idle} \cup Savings
<1>0. ASSUME NEW rec \in {Idle} \cup Savings, Goto(b, rec)
      PROVE  call' \in [Browsers -> Calls] /\ Moved
  <2>1. rec \in Calls
    BY <1>0 DEF Calls
  <2> QED
    BY <1>0, <2>1, GotoCall
<1>a. ASSUME call[b].pc \in SavePcs
      PROVE  /\ call[b] \in Savings
             /\ call[b].pc # "guard" => call[b].todo # <<>>
  BY <1>a, CallShape DEF Savings
<1>1. CASE Page(b)
  <2>1. PICK todo \in Seq(Writes), typed \in BOOLEAN, after \in Flags :
          Save(b, todo, typed, after)
    BY <1>1, PagesSave
  <2>2. Saving(b, todo, typed, after) \in Savings
    BY <2>1 DEF Saving, Savings, SavePcs
  <2>3. call' \in [Browsers -> Calls] /\ Moved
    BY <1>0, <2>1, <2>2 DEF Save, Job
  <2> QED
    BY <2>1, <2>3 DEF Save, TypeInv, settingVars
<1>2. CASE Guard(b)
  <2>1. call[b] \in Savings /\ call[b].todo # <<>>
    BY <1>a, <1>2 DEF Guard, At, SavePcs
  <2>2. call' \in [Browsers -> Calls] /\ Moved
    BY <1>0, <1>2, <2>1, SaveShape DEF Guard, Step, This
  <2> QED
    BY <1>2, <2>2 DEF Guard, TypeInv, accountVars, settingVars
<1>3. CASE LookUp(b)
  <2>1. call[b] \in Savings /\ call[b].todo # <<>>
    BY <1>a, <1>3 DEF LookUp, At, SavePcs
  <2>2. call' \in [Browsers -> Calls] /\ Moved
    BY <1>0, <1>3, <2>1, SaveShape DEF LookUp, At
  <2> QED
    BY <1>3, <2>2 DEF LookUp, TypeInv, accountVars, settingVars
<1>4. CASE StoreSecret(b)
  <2>1. call[b] \in Savings /\ call[b].todo # <<>>
    BY <1>a, <1>4 DEF StoreSecret, At, SavePcs
  <2>2. call' \in [Browsers -> Calls] /\ Moved
    BY <1>0, <1>4, <2>1, SaveShape DEF StoreSecret, Step
  <2>3. vault' \in [Secrets -> Values]
    BY <1>4, <2>1, SaveShape DEF StoreSecret, This, TypeInv
  <2> QED
    BY <1>4, <2>2, <2>3 DEF StoreSecret, TypeInv, accountVars
<1>5. CASE Upsert(b)
  <2>1. call[b] \in Savings /\ call[b].todo # <<>>
    BY <1>a, <1>5 DEF Upsert, At, SavePcs
  <2>2. ASSUME NEW o \in Browsers
        PROVE  call'[o] \in Calls /\ (call'[o] = call[o] \/ call'[o] \in {Idle} \cup Savings)
    <3>1. CASE o = b
      <4>1. \E x \in {TRUE, FALSE} : call'[b] = [call[b] EXCEPT !.pc = "load", !.alone = x]
        BY <1>5 DEF Upsert
      <4>2. /\ [call[b] EXCEPT !.pc = "load", !.alone = TRUE] \in Savings
            /\ [call[b] EXCEPT !.pc = "load", !.alone = FALSE] \in Savings
        BY <2>1 DEF Savings, SavePcs
      <4>3. call'[b] \in Savings
        BY <4>1, <4>2
      <4> QED
        BY <3>1, <4>3 DEF Calls
    <3>2. CASE o # b /\ Publishing(o)
      <4>1. call[o] \in Savings /\ call[o].todo # <<>>
        BY <3>2, CallShape DEF Publishing, SavePcs, Savings
      <4>2. call'[o] = [call[o] EXCEPT !.alone = FALSE]
        BY <1>5, <3>2 DEF Upsert
      <4> QED
        BY <4>1, <4>2, SaveShape DEF Calls
    <3>3. CASE o # b /\ ~Publishing(o)
      BY <1>5, <3>3, CallShape DEF Upsert
    <3> QED
      BY <3>1, <3>2, <3>3
  <2>3. call' \in [Browsers -> Calls]
    <3>1. call' = [o \in Browsers |-> call'[o]]
      BY <1>5 DEF Upsert
    <3> QED
      BY <2>2, <3>1
  <2>4. /\ Persisted(This(b)) \in Values
        /\ This(b).key = "channel" => Persisted(This(b)) \in DOMAIN Tags \cup {None}
    <3>1. This(b) \in Writes
      BY <2>1, SaveShape DEF This
    <3> QED
      BY <3>1 DEF Persisted, Plaintext, Writes, Values, Texts, Secrets
  <2>5. rows' \in [Keys -> Values] /\ rows'["channel"] \in DOMAIN Tags \cup {None}
    <3>1. rows' = [rows EXCEPT ![This(b).key] = Persisted(This(b))]
      BY <1>5 DEF Upsert
    <3>2. rows' \in [Keys -> Values]
      BY <2>4, <3>1 DEF TypeInv
    <3>3. "channel" \in Keys
      BY DEF Keys
    <3> QED
      BY <2>4, <3>1, <3>2, <3>3 DEF TypeInv
  <2> QED
    BY <1>5, <2>2, <2>3, <2>5 DEF Upsert, TypeInv, accountVars
<1>6. CASE Load(b)
  <2>1. call[b] \in Savings /\ call[b].todo # <<>>
    BY <1>a, <1>6 DEF Load, At, SavePcs
  <2>2. call' \in [Browsers -> Calls] /\ Moved
    <3>1. /\ [call[b] EXCEPT !.pc = "store", !.snap = rows] \in Savings
          /\ [call[b] EXCEPT !.pc = "current"] \in Savings
      BY <2>1, SaveShape DEF TypeInv
    <3> QED
      BY <1>0, <1>6, <3>1 DEF Load, Step
  <2> QED
    BY <1>6, <2>2 DEF Load, TypeInv, accountVars
<1>7. CASE Store(b)
  <2>1. call[b] \in Savings /\ call[b].todo # <<>>
    BY <1>a, <1>7 DEF Store, At, SavePcs
  <2>2. call' \in [Browsers -> Calls] /\ Moved
    BY <1>0, <1>7, <2>1, SaveShape DEF Store, Step
  <2>3. live' \in [Keys -> Values] /\ excused' \in BOOLEAN
    BY <1>7, <2>1 DEF Store, At, Savings
  <2> QED
    BY <1>7, <2>2, <2>3 DEF Store, TypeInv, accountVars
<1>8. CASE Current(b)
  <2>1. call[b] \in Savings /\ call[b].todo # <<>>
    BY <1>a, <1>8 DEF Current, At, SavePcs
  <2>2. [call[b] EXCEPT !.pc = "apply", !.snap = live] \in Savings
    BY <2>1, SaveShape DEF TypeInv
  <2>3. call' \in [Browsers -> Calls] /\ Moved
    BY <1>0, <1>8, <2>2 DEF Current
  <2> QED
    BY <1>8, <2>3 DEF Current, TypeInv, accountVars, settingVars
<1>9. CASE ApplyTunables(b)
  <2>1. call[b] \in Savings /\ call[b].todo # <<>>
    BY <1>a, <1>9 DEF ApplyTunables, At, SavePcs
  <2>2. call' \in [Browsers -> Calls] /\ Moved
    BY <1>0, <1>9, <2>1, SaveShape DEF ApplyTunables
  <2> QED
    BY <1>9, <2>2 DEF ApplyTunables, TypeInv, accountVars
<1>10. CASE Refuse(b)
  <2>1. call[b] \in Savings /\ call[b].todo # <<>>
    BY <1>a, <1>10 DEF Refuse, SavePcs
  <2>2. AfterError(call[b]) \in {Idle} \cup Savings
    BY <2>1, SaveShape DEF AfterError
  <2>3. call' \in [Browsers -> Calls] /\ Moved
    BY <1>0, <1>10, <2>2 DEF Refuse
  <2> QED
    BY <1>10, <2>3 DEF Refuse, TypeInv, accountVars, settingVars
<1>11. CASE Finish(b)
  <2>1. call' \in [Browsers -> Calls] /\ Moved
    BY <1>0, <1>11 DEF Finish
  <2> QED
    BY <1>11, <2>1 DEF Finish, TypeInv, accountVars
<1> QED
  BY <1>1, <1>2, <1>3, <1>4, <1>5, <1>6, <1>7, <1>8, <1>9, <1>10, <1>11 DEF SaveStep

(* The credentials page, the update unit and a restart keep them too.         *)
LEMMA RestTyped ==
  ASSUME TypeInv, Edit \/ TakeFlag \/ Restart
  PROVE  /\ TypeInv'
         /\ UNCHANGED <<users, sessions, tokens, overlapped>>
         /\ \A o \in Browsers : call'[o] = call[o] \/ call'[o] = Idle
<1>1. CASE TakeFlag
  BY <1>1 DEF TakeFlag, TypeInv, accountVars
<1>2. CASE Restart
  <2>1. call' \in [Browsers -> Calls] /\ \A o \in Browsers : call'[o] = Idle
    BY <1>2 DEF Restart, Calls
  <2>2. live' \in [Keys -> Values] /\ excused' \in BOOLEAN
    BY <1>2 DEF Restart, TypeInv, Values
  <2> QED
    BY <1>2, <2>1, <2>2 DEF Restart, TypeInv, accountVars
<1>3. CASE Edit
  <2>1. PICK b \in Browsers, k \in Secrets, value \in {None, "key"} : EditCredential(b, k, value)
    BY <1>3 DEF Edit
  <2>2. vault' \in [Secrets -> Values]
    BY <2>1 DEF EditCredential, TypeInv, Values, Texts
  <2> QED
    BY <2>1, <2>2 DEF EditCredential, TypeInv
<1> QED
  BY <1>1, <1>2, <1>3

(* So the accounts stay sound in every step.                                  *)
LEMMA AccountsAlways ==
  ASSUME TypeInv, AccountInv, Next
  PROVE  TypeInv' /\ AccountInv'
<1>1. CASE AccountsStep /\ UNCHANGED settingVars
  BY <1>1, AccountsTyped, AccountsSound
<1>2. ASSUME TypeInv', UNCHANGED <<users, sessions, tokens, overlapped>>,
             \A o \in Browsers : call'[o] = call[o] \/ call'[o] \in {Idle} \cup Savings
      PROVE  AccountInv'
  <2>1. ASSUME NEW o \in Browsers, call'[o] \in {Idle} \cup Savings
        PROVE  CallSound(o)'
    BY <2>1 DEF CallSound, WillEnd, TakesAdmin, At, Idle, Savings, SavePcs
  <2> QED
    BY <1>2, <2>1, NobodyLoses DEF Active, Kept
<1>3. ASSUME NEW b \in Browsers, Page(b) \/ SaveStep(b)
      PROVE  TypeInv' /\ AccountInv'
  BY <1>2, <1>3, SettingsTyped
<1>4. CASE Edit \/ TakeFlag \/ Restart
  BY <1>2, <1>4, RestTyped
<1> QED
  BY <1>1, <1>3, <1>4 DEF Next, Page, SaveStep, Edit

----------------------------------------------------------------------------
(* A step of calls that are not publishing changes nothing for those that are.*)
LEMMA PublishersKeep ==
  ASSUME PublishInv, UNCHANGED <<rows, live, tuned, excused>>,
         \A o \in Browsers : call'[o] = call[o] \/ (~Publishing(o) /\ ~Publishing(o)')
  PROVE  PublishInv'
<1>1. \A o \in Browsers : Publishing(o)' => Publishing(o) /\ call'[o] = call[o]
  BY DEF Publishing
<1>2. \A o \in Browsers : Publishing(o) => Publishing(o)' /\ call'[o] = call[o]
  BY DEF Publishing
<1>3. AloneIsAlone'
  BY <1>1 DEF PublishInv, AloneIsAlone
<1>4. SnapshotsFresh'
  BY <1>1 DEF PublishInv, SnapshotsFresh, At
<1>5. MetOthers'
  BY <1>1, <1>2 DEF PublishInv, MetOthers, Publishing
<1>6. LiveWhenQuiet'
  BY <1>2 DEF PublishInv, LiveWhenQuiet, TimeoutOf
<1> QED
  BY <1>3, <1>4, <1>5, <1>6 DEF PublishInv

(* A call that is in the middle of publishing.                                *)
LEMMA PublishersShape ==
  ASSUME TypeInv, NEW b \in Browsers, call[b].pc \in SavePcs
  PROVE  /\ call[b] \in Savings
         /\ call[b].alone \in BOOLEAN
         /\ \A pc : [call[b] EXCEPT !.pc = pc].pc = pc
         /\ \A pc : [call[b] EXCEPT !.pc = pc].alone = call[b].alone
         /\ \A pc : [call[b] EXCEPT !.pc = pc].snap = call[b].snap
         /\ \A pc : [call[b] EXCEPT !.pc = pc].todo = call[b].todo
         /\ \A pc : [call[b] EXCEPT !.pc = pc].typed = call[b].typed
         /\ \A pc, m : [call[b] EXCEPT !.pc = pc, !.snap = m].pc = pc
         /\ \A pc, m : [call[b] EXCEPT !.pc = pc, !.snap = m].snap = m
         /\ \A pc, m : [call[b] EXCEPT !.pc = pc, !.snap = m].alone = call[b].alone
         /\ \A pc, m : [call[b] EXCEPT !.pc = pc, !.snap = m].todo = call[b].todo
         /\ \A pc, m : [call[b] EXCEPT !.pc = pc, !.snap = m].typed = call[b].typed
         /\ NextWrite(call[b]).pc = "guard"
         /\ NextWrite(call[b]).todo = Tail(call[b].todo)
         /\ NextWrite(call[b]).typed = call[b].typed
<1>1. call[b] \in Savings
  BY CallShape
<1>2. call[b] \in [pc : SavePcs, todo : Seq(Writes), typed : BOOLEAN, after : Flags,
                   snap : [Keys -> Values] \cup {None}, found : BOOLEAN, alone : BOOLEAN]
  BY <1>1 DEF Savings
<1> QED
  BY <1>1, <1>2 DEF NextWrite

(* Saving a row makes the call itself and everyone in between not alone.      *)
LEMMA UpsertPublishes ==
  ASSUME TypeInv, PublishInv, NEW b \in Browsers, Upsert(b)
  PROVE  PublishInv'
<1>1. /\ call'[b].pc = "load"
      /\ call'[b].alone = (\A x \in Browsers \ {b} : ~Publishing(x))
  <2>1. call[b] \in Savings
    BY CallShape DEF Upsert, At, SavePcs
  <2> QED
    BY <2>1 DEF Upsert, Savings
<1>2. ASSUME NEW o \in Browsers \ {b}, Publishing(o)
      PROVE  call'[o].pc = call[o].pc /\ call'[o].alone = FALSE
  <2>1. call[o] \in Savings
    BY <1>2, CallShape DEF Publishing, SavePcs
  <2>2. call'[o] = [call[o] EXCEPT !.alone = FALSE]
    BY <1>2 DEF Upsert
  <2> QED
    BY <2>1, <2>2 DEF Savings
<1>3. ASSUME NEW o \in Browsers \ {b}, ~Publishing(o)
      PROVE  call'[o] = call[o]
  BY <1>3 DEF Upsert
<1>4. \A o \in Browsers \ {b} : Publishing(o)' => Publishing(o) /\ ~call'[o].alone
  BY <1>2, <1>3 DEF Publishing
<1>5. AloneIsAlone'
  <2> SUFFICES ASSUME NEW o \in Browsers, NEW q \in Browsers, o # q, Publishing(o)', Publishing(q)'
               PROVE  ~call'[o].alone
    BY DEF AloneIsAlone
  <2>1. CASE o # b
    BY <1>4, <2>1
  <2>2. CASE o = b
    BY <1>1, <1>4, <2>2
  <2> QED
    BY <2>1, <2>2
<1>6. SnapshotsFresh'
  BY <1>1, <1>4 DEF SnapshotsFresh, At
<1>7. MetOthers'
  BY <1>1 DEF MetOthers
<1>8. LiveWhenQuiet'
  BY <1>1 DEF LiveWhenQuiet, Publishing
<1> QED
  BY <1>5, <1>6, <1>7, <1>8 DEF PublishInv

(* The steps from the reload to the tunables.                                 *)
LEMMA PublishStep ==
  ASSUME TypeInv, PublishInv, NEW b \in Browsers,
         Load(b) \/ Store(b) \/ Current(b) \/ ApplyTunables(b)
  PROVE  PublishInv'
<1>0. /\ Publishing(b)
      /\ call[b].pc \in SavePcs
      /\ \A o \in Browsers \ {b} : call'[o] = call[o]
      /\ UNCHANGED rows
  <2>1. Publishing(b) /\ call[b].pc \in SavePcs
    BY DEF Load, Store, Current, ApplyTunables, At, Publishing, SavePcs
  <2>2. \E rec : Goto(b, rec)
    BY DEF Load, Store, Current, ApplyTunables, Step
  <2>3. \A o \in Browsers \ {b} : call'[o] = call[o]
    BY <2>2 DEF Goto, TypeInv
  <2>4. UNCHANGED rows
    BY DEF Load, Store, Current, ApplyTunables, settingVars
  <2> QED
    BY <2>1, <2>3, <2>4
<1>a. \A o \in Browsers \ {b} : Publishing(o)' = Publishing(o)
  BY <1>0 DEF Publishing
<1>b. call[b].alone => \A o \in Browsers \ {b} : ~Publishing(o)
  BY <1>0 DEF PublishInv, AloneIsAlone
<1>c. \A o \in Browsers \ {b} : Publishing(o) => ~call[o].alone
  BY <1>0 DEF PublishInv, AloneIsAlone
<1>1. ASSUME Publishing(b)', call'[b].alone = call[b].alone
      PROVE  AloneIsAlone' /\ LiveWhenQuiet'
  <2>1. AloneIsAlone'
    BY <1>0, <1>a, <1>1 DEF PublishInv, AloneIsAlone
  <2> QED
    BY <1>1, <2>1 DEF LiveWhenQuiet
<1>2. CASE Load(b) /\ Goto(b, [call[b] EXCEPT !.pc = "store", !.snap = rows]) /\ UNCHANGED excused
  <2>1. call'[b] = [call[b] EXCEPT !.pc = "store", !.snap = rows]
    BY <1>2 DEF Goto, TypeInv
  <2>2. call'[b].pc = "store" /\ call'[b].snap = rows /\ call'[b].alone = call[b].alone
    BY <1>0, <2>1, PublishersShape
  <2>3. AloneIsAlone' /\ LiveWhenQuiet'
    BY <1>1, <2>2 DEF Publishing
  <2>4. SnapshotsFresh'
    BY <1>0, <1>a, <1>c, <2>2 DEF SnapshotsFresh, At
  <2>5. MetOthers'
    BY <1>0, <1>2, <2>2 DEF PublishInv, MetOthers, Load
  <2> QED
    BY <2>3, <2>4, <2>5 DEF PublishInv
<1>3. CASE Load(b) /\ Step(b, "current") /\ excused' = TRUE
  <2>1. call'[b] = [call[b] EXCEPT !.pc = "current"]
    BY <1>3 DEF Step, Goto, TypeInv
  <2>2. call'[b].pc = "current" /\ call'[b].alone = call[b].alone
    BY <1>0, <2>1, PublishersShape
  <2>3. AloneIsAlone' /\ LiveWhenQuiet'
    BY <1>1, <2>2 DEF Publishing
  <2>4. SnapshotsFresh'
    BY <1>0, <1>3, <1>a, <1>c, <2>2 DEF SnapshotsFresh, At
  <2>5. MetOthers'
    BY <1>3 DEF MetOthers
  <2> QED
    BY <2>3, <2>4, <2>5 DEF PublishInv
<1>4. CASE Store(b)
  <2>1. call'[b] = [call[b] EXCEPT !.pc = "current"]
    BY <1>4 DEF Store, Step, Goto, TypeInv
  <2>2. call'[b].pc = "current" /\ call'[b].alone = call[b].alone
    BY <1>0, <2>1, PublishersShape
  <2>3. AloneIsAlone' /\ LiveWhenQuiet'
    BY <1>1, <2>2 DEF Publishing
  <2>4. call[b].alone => live' = rows'
    BY <1>0, <1>4 DEF Store, PublishInv, SnapshotsFresh
  <2>5. SnapshotsFresh'
    BY <1>0, <1>4, <1>a, <1>c, <2>2, <2>4 DEF SnapshotsFresh, At
  <2>6. excused' = ~call[b].alone
    BY <1>4 DEF Store
  <2>7. MetOthers'
    <3>1. CASE call[b].alone
      BY <1>0, <1>b, <2>2, <3>1 DEF MetOthers, Publishing
    <3>2. CASE ~call[b].alone
      BY <2>6, <3>2 DEF MetOthers
    <3> QED
      BY <3>1, <3>2
  <2> QED
    BY <2>3, <2>5, <2>7 DEF PublishInv
<1>5. CASE Current(b)
  <2>1. call'[b] = [call[b] EXCEPT !.pc = "apply", !.snap = live]
    BY <1>5 DEF Current, Goto, TypeInv
  <2>2. call'[b].pc = "apply" /\ call'[b].snap = live /\ call'[b].alone = call[b].alone
    BY <1>0, <2>1, PublishersShape
  <2>3. AloneIsAlone' /\ LiveWhenQuiet'
    BY <1>1, <2>2 DEF Publishing
  <2>4. UNCHANGED <<live, excused>> /\ call[b].pc = "current"
    BY <1>5 DEF Current, settingVars, At
  <2>5. SnapshotsFresh'
    BY <1>0, <1>a, <1>c, <2>2, <2>4 DEF PublishInv, SnapshotsFresh, At
  <2>6. MetOthers'
    BY <1>0, <2>2, <2>4 DEF PublishInv, MetOthers
  <2> QED
    BY <2>3, <2>5, <2>6 DEF PublishInv
<1>6. CASE ApplyTunables(b)
  <2>1. call'[b] = NextWrite(call[b])
    BY <1>6 DEF ApplyTunables, Goto, TypeInv
  <2>2. call'[b].pc = "guard" /\ ~Publishing(b)'
    BY <1>0, <2>1, PublishersShape DEF Publishing
  <2>3. /\ UNCHANGED <<live, excused>>
        /\ call[b].pc = "apply"
        /\ tuned' = TimeoutOf(call[b].snap)
    BY <1>6 DEF ApplyTunables, At
  <2>4. AloneIsAlone'
    BY <1>0, <1>a, <2>2 DEF PublishInv, AloneIsAlone
  <2>5. SnapshotsFresh'
    BY <1>0, <1>a, <1>c, <2>2 DEF SnapshotsFresh, At
  <2>6. MetOthers'
    BY <1>0, <2>2, <2>3 DEF PublishInv, MetOthers
  <2>7. LiveWhenQuiet'
    <3> SUFFICES ASSUME \A o \in Browsers \ {b} : ~Publishing(o), ~excused
                 PROVE  live = rows /\ call[b].snap = rows
      BY <1>0, <1>a, <2>3 DEF LiveWhenQuiet, TimeoutOf
    <3>1. call[b].alone
      BY <2>3 DEF PublishInv, MetOthers, Publishing
    <3> QED
      BY <1>0, <2>3, <3>1 DEF PublishInv, SnapshotsFresh, At
  <2> QED
    BY <2>4, <2>5, <2>6, <2>7 DEF PublishInv
<1> QED
  BY <1>2, <1>3, <1>4, <1>5, <1>6 DEF Load

(* Publishing stays sound in every step.                                      *)
LEMMA PublishAlways ==
  ASSUME TypeInv, AccountInv, PublishInv, Next
  PROVE  PublishInv'
<1>1. CASE AccountsStep /\ UNCHANGED settingVars
  <2>1. \A o \in Browsers :
          \/ call'[o] = call[o]
          \/ call[o].pc \in AccountPcs /\ call'[o] \in {Idle} \cup AccountCalls
    BY <1>1, AccountsTyped
  <2>2. ASSUME NEW o \in Browsers, call'[o] \in {Idle} \cup AccountCalls
        PROVE  ~Publishing(o)'
    BY <2>2 DEF Publishing, Idle, AccountCalls, Logins, StatusCalls, RoleCalls, PasswordCalls,
                Creations
  <2>3. \A o \in Browsers : call'[o] = call[o] \/ (~Publishing(o) /\ ~Publishing(o)')
    BY <2>1, <2>2 DEF Publishing, AccountPcs
  <2> QED
    BY <1>1, <2>3, PublishersKeep DEF settingVars
<1>2. ASSUME NEW b \in Browsers, NEW rec, Goto(b, rec), ~Publishing(b),
             rec.pc \notin {"load", "store", "current", "apply"},
             UNCHANGED <<rows, live, tuned, excused>>
      PROVE  PublishInv'
  <2>1. \A o \in Browsers : call'[o] = call[o] \/ (~Publishing(o) /\ ~Publishing(o)')
    BY <1>2 DEF Goto, TypeInv, Publishing
  <2> QED
    BY <1>2, <2>1, PublishersKeep
<1>3. ASSUME NEW b \in Browsers, Page(b)
      PROVE  PublishInv'
  <2>1. PICK todo, typed, after : Save(b, todo, typed, after)
    BY <1>3, PagesSave
  <2>2. Saving(b, todo, typed, after).pc = "guard"
    BY DEF Saving
  <2> QED
    BY <1>2, <2>1, <2>2 DEF Save, Job, Free, Publishing, settingVars
<1>4. ASSUME NEW b \in Browsers, Guard(b) \/ LookUp(b) \/ StoreSecret(b)
      PROVE  PublishInv'
  <2>1. call[b].pc \in SavePcs /\ ~Publishing(b) /\ UNCHANGED <<rows, live, tuned, excused>>
    BY <1>4 DEF Guard, LookUp, StoreSecret, At, SavePcs, Publishing, settingVars
  <2>2. [call[b] EXCEPT !.pc = "vault", !.found = vault[This(b).key] # None].pc = "vault"
    <3>1. call[b] \in Savings
      BY <2>1, CallShape
    <3> QED
      BY <3>1 DEF Savings
  <2>3. \A pc : [call[b] EXCEPT !.pc = pc].pc = pc
    BY <2>1, PublishersShape
  <2>4. CASE Guard(b)
    BY <1>2, <2>1, <2>3, <2>4 DEF Guard, Step
  <2>5. CASE LookUp(b)
    BY <1>2, <2>1, <2>2, <2>5 DEF LookUp
  <2>6. CASE StoreSecret(b)
    BY <1>2, <2>1, <2>3, <2>6 DEF StoreSecret, Step
  <2> QED
    BY <1>4, <2>4, <2>5, <2>6
<1>5. ASSUME NEW b \in Browsers, Refuse(b)
      PROVE  PublishInv'
  <2>1. call[b].pc \in SavePcs /\ ~Publishing(b)
    BY <1>5 DEF Refuse, SavePcs, Publishing
  <2>2. AfterError(call[b]).pc \in {"idle", "guard"}
    BY <2>1, PublishersShape DEF AfterError, Idle
  <2> QED
    BY <1>2, <1>5, <2>1, <2>2 DEF Refuse, settingVars
<1>6. ASSUME NEW b \in Browsers, Finish(b)
      PROVE  PublishInv'
  <2>1. ~Publishing(b) /\ Idle.pc = "idle"
    BY <1>6 DEF Finish, At, Publishing, Idle
  <2> QED
    BY <1>2, <1>6, <2>1 DEF Finish
<1>7. CASE TakeFlag
  BY <1>7, PublishersKeep DEF TakeFlag
<1>8. CASE Restart
  <2>1. \A o \in Browsers : call'[o].pc = "idle"
    BY <1>8 DEF Restart, Idle
  <2>2. AloneIsAlone' /\ SnapshotsFresh' /\ MetOthers'
    BY <2>1 DEF AloneIsAlone, SnapshotsFresh, MetOthers, Publishing
  <2>3. LiveWhenQuiet'
    BY <1>8 DEF LiveWhenQuiet, Restart, TimeoutOf
  <2> QED
    BY <2>2, <2>3 DEF PublishInv
<1>9. CASE Edit
  BY <1>9, PublishersKeep DEF Edit, EditCredential
<1> QED
  BY <1>1, <1>3, <1>4, <1>5, <1>6, <1>7, <1>8, <1>9, UpsertPublishes, PublishStep
  DEF Next, Page, Edit

----------------------------------------------------------------------------
(* No key that is stored and referred to is taken away, or everybody's is.    *)
KeysStay ==
  \/ Browsers \subseteq meddled'
  \/ (KeyStored => KeyStored') /\ (KeySaved => KeySaved')

(* A typed save stays on its way when the step moves no typed save or moves   *)
(* it rightly.                                                                *)
LEMMA SwitchKeeps ==
  ASSUME TypeInv, SwitchInv, KeysStay,
         \A o \in Browsers :
           \/ call'[o] = call[o] /\ (o \in meddled => o \in meddled')
           \/ call'[o].pc \in SavePcs /\ call'[o].typed => TypedCall(o)'
  PROVE  SwitchInv'
<1> SUFFICES ASSUME NEW o \in Browsers, call'[o].pc \in SavePcs, call'[o].typed,
                    call'[o] = call[o], o \in meddled => o \in meddled'
             PROVE  TypedCall(o)'
  BY DEF SwitchInv
<1>1. TypedCall(o)
  BY DEF SwitchInv
<1> QED
  BY <1>1 DEF TypedCall, TypedShape, KeyThere, KeysStay

(* The three writes of a typed save, and how the last of them is reached.     *)
LEMMA TypedWrites ==
  /\ Plaintext(KeyWrite) /\ KeyWrite.key = "anthropic_key" /\ KeyWrite.value = "key"
  /\ KeyWrite.stop /\ ModelWrite.stop /\ ProviderWrite.stop
  /\ ProviderWrite.key = "provider" /\ ProviderWrite.value = "anthropic"
  /\ ModelWrite.key # "provider" /\ KeyWrite.key # "provider"
  /\ ModelWrite.key \notin Secrets /\ ProviderWrite.key \notin Secrets
  /\ Persisted(KeyWrite) = Ref
BY SettingsAssumption
   DEF KeyWrite, ModelWrite, ProviderWrite, Write, Plaintext, Persisted, Secrets, Ref, OtherRef,
       Texts

(* What is left of them as the writes are done.                               *)
LEMMA TypedLists ==
  /\ Head(AllWrites) = KeyWrite
  /\ Tail(AllWrites) = <<ModelWrite, ProviderWrite>>
  /\ AllWrites # <<>>
  /\ AllWrites \notin {<<ModelWrite, ProviderWrite>>, <<ProviderWrite>>}
  /\ Head(<<ModelWrite, ProviderWrite>>) = ModelWrite
  /\ Tail(<<ModelWrite, ProviderWrite>>) = <<ProviderWrite>>
  /\ Head(<<ProviderWrite>>) = ProviderWrite
  /\ Tail(<<ProviderWrite>>) = <<>>
BY DEF AllWrites

(* What a step does to the record of keys taken away.                         *)
LEMMA Meddling ==
  ASSUME NEW b \in Browsers, SaveStep(b)
  PROVE  /\ \A o \in Browsers \ {b} : o \in meddled => o \in meddled'
         /\ ~StoreSecret(b) /\ b \in meddled => b \in meddled'
<1>1. CASE StoreSecret(b)
  BY <1>1 DEF StoreSecret
<1>2. CASE Upsert(b)
  BY <1>2 DEF Upsert
<1>3. CASE ~StoreSecret(b) /\ ~Upsert(b)
  <2>1. UNCHANGED meddled
    BY <1>3 DEF SaveStep, Guard, LookUp, Load, Store, Current, ApplyTunables, Refuse, Finish,
                settingVars
  <2> QED
    BY <2>1
<1> QED
  BY <1>1, <1>2, <1>3

(* A step that takes a key away is on record.                                 *)
LEMMA KeysKeep ==
  ASSUME TypeInv, Next
  PROVE  KeysStay
<1>1. CASE AccountsStep /\ UNCHANGED settingVars
  BY <1>1 DEF settingVars, KeysStay, KeyStored, KeySaved
<1>2. ASSUME NEW b \in Browsers, Upsert(b)
      PROVE  KeysStay
  <2>1. call[b] \in Savings /\ call[b].todo # <<>>
    BY <1>2, CallShape DEF Upsert, At, SavePcs, Savings
  <2>2. This(b).key \in Keys
    BY <2>1, SaveShape DEF This
  <2>3. /\ rows' = [rows EXCEPT ![This(b).key] = Persisted(This(b))]
        /\ UNCHANGED vault
        /\ This(b).key \in Secrets /\ Persisted(This(b)) # Ref => meddled' = Browsers
    BY <1>2 DEF Upsert
  <2>4. "anthropic_key" \in Keys /\ "anthropic_key" \in Secrets
    BY DEF Keys, Secrets
  <2>5. CASE This(b).key = "anthropic_key" /\ Persisted(This(b)) # Ref
    BY <2>3, <2>4, <2>5 DEF KeysStay
  <2>6. CASE ~(This(b).key = "anthropic_key" /\ Persisted(This(b)) # Ref)
    <3>1. rows["anthropic_key"] = Ref => rows'["anthropic_key"] = Ref
      BY <2>2, <2>3, <2>4, <2>6 DEF TypeInv
    <3> QED
      BY <2>3, <3>1 DEF KeysStay, KeyStored, KeySaved
  <2> QED
    BY <2>5, <2>6
<1>3. ASSUME NEW b \in Browsers, StoreSecret(b)
      PROVE  KeysStay
  <2>1. call[b] \in Savings /\ call[b].todo # <<>> /\ call[b].pc = "vault"
    BY <1>3, CallShape DEF StoreSecret, At, SavePcs, Savings
  <2>2. This(b) \in Writes
    BY <2>1, SaveShape DEF This
  <2>3. vault' = [vault EXCEPT ![This(b).key] = This(b).value] /\ UNCHANGED rows
    BY <1>3 DEF StoreSecret
  <2>4. "anthropic_key" \in Secrets
    BY DEF Secrets
  <2>5. This(b).value # None
    BY <2>1 DEF Savings, This, Plaintext
  <2>6. KeyStored => KeyStored'
    BY <2>2, <2>3, <2>4, <2>5 DEF TypeInv, KeyStored
  <2> QED
    BY <2>3, <2>6 DEF KeysStay, KeySaved
<1>4. ASSUME NEW b \in Browsers, Page(b)
      PROVE  UNCHANGED <<rows, vault>>
  <2>1. PICK todo, typed, after : Save(b, todo, typed, after)
    BY <1>4, PagesSave
  <2> QED
    BY <2>1 DEF Save, settingVars
<1>5. ASSUME NEW b \in Browsers,
             \/ Guard(b) \/ LookUp(b) \/ Load(b) \/ Store(b) \/ Current(b) \/ ApplyTunables(b)
             \/ Refuse(b) \/ Finish(b)
      PROVE  UNCHANGED <<rows, vault>>
  BY <1>5 DEF Guard, LookUp, Load, Store, Current, ApplyTunables, Refuse, Finish, settingVars
<1>6. CASE TakeFlag \/ Restart
  BY <1>6 DEF TakeFlag, Restart, KeysStay, KeyStored, KeySaved
<1>7. UNCHANGED <<rows, vault>> => KeysStay
  BY DEF KeysStay, KeyStored, KeySaved
<1>8. CASE Edit
  <2>1. PICK b \in Browsers, k \in Secrets, value \in {None, "key"} : EditCredential(b, k, value)
    BY <1>8 DEF Edit
  <2>2. CASE value = None
    BY <2>1, <2>2 DEF EditCredential, KeysStay
  <2>3. CASE value # None
    BY <2>1, <2>3 DEF EditCredential, KeysStay, KeyStored, KeySaved, TypeInv, Secrets
  <2> QED
    BY <2>2, <2>3
<1> QED
  BY <1>1, <1>2, <1>3, <1>4, <1>5, <1>6, <1>7, <1>8 DEF Next, Page, Edit

(* A step of set_setting takes a typed save to a state TypedCall allows.      *)
LEMMA TypedMove ==
  ASSUME TypeInv, SwitchInv, NEW b \in Browsers, SaveStep(b), KeysStay
  PROVE  call'[b].pc \in SavePcs /\ call'[b].typed => TypedCall(b)'
<1> SUFFICES ASSUME call'[b].pc \in SavePcs, call'[b].typed
             PROVE  TypedCall(b)'
  OBVIOUS
<1>1. call[b].pc \in SavePcs
  BY DEF SaveStep, Guard, LookUp, StoreSecret, Upsert, Load, Store, Current, ApplyTunables,
         Refuse, Finish, At, SavePcs
<1>2. /\ call[b] \in Savings
      /\ call[b].pc # "guard" => call[b].todo # <<>>
  BY <1>1, CallShape DEF Savings
<1>3. ASSUME TypedCall(b), call[b].todo # <<>>
      PROVE  /\ This(b) = KeyWrite <=> call[b].todo = AllWrites
             /\ Head(call[b].todo).stop
             /\ Plaintext(This(b)) => call[b].todo = AllWrites
             /\ Tail(call[b].todo) \in {<<ModelWrite, ProviderWrite>>, <<ProviderWrite>>, <<>>}
  BY <1>3, TypedLists, TypedWrites DEF TypedCall, TypedShape, This, Plaintext
<1>a. ASSUME ~StoreSecret(b), TypedCall(b), b \notin meddled'
      PROVE  KeyThere(call[b]) /\ (KeyStored => KeyStored') /\ (KeySaved => KeySaved')
  BY <1>a, Meddling DEF TypedCall, KeysStay
<1>4. CASE Guard(b)
  <2>1. call'[b] = [call[b] EXCEPT !.pc = IF Plaintext(This(b)) THEN "look" ELSE "upsert"]
    BY <1>4 DEF Guard, Step, Goto, TypeInv
  <2>2. /\ call'[b].todo = call[b].todo /\ call'[b].typed = call[b].typed
        /\ call'[b].pc = IF Plaintext(This(b)) THEN "look" ELSE "upsert"
    BY <1>2, <2>1 DEF Savings
  <2>3. TypedCall(b) /\ call[b].todo # <<>> /\ ~StoreSecret(b)
    BY <1>1, <1>4, <2>2 DEF SwitchInv, Guard, StoreSecret, At
  <2>4. TypedShape(call[b])'
    BY <1>3, <2>2, <2>3 DEF TypedCall, TypedShape
  <2>5. b \notin meddled' => KeyThere(call[b])'
    BY <1>3, <1>a, <2>2, <2>3, TypedWrites DEF KeyThere
  <2> QED
    BY <2>4, <2>5 DEF TypedCall
<1>5. CASE LookUp(b)
  <2>1. call'[b] = [call[b] EXCEPT !.pc = "vault", !.found = vault[This(b).key] # None]
    BY <1>5 DEF LookUp, Goto, TypeInv
  <2>2. call'[b].todo = call[b].todo /\ call'[b].typed = call[b].typed /\ call'[b].pc = "vault"
    BY <1>2, <2>1 DEF Savings
  <2>3. TypedCall(b) /\ call[b].pc = "look"
    BY <1>1, <1>5, <2>2 DEF SwitchInv, LookUp, At
  <2>4. call[b].todo = AllWrites
    BY <2>3 DEF TypedCall, TypedShape
  <2> QED
    BY <2>2, <2>4 DEF TypedCall, TypedShape, KeyThere
<1>6. CASE StoreSecret(b)
  <2>1. call'[b] = [call[b] EXCEPT !.pc = "upsert"]
    BY <1>6 DEF StoreSecret, Step, Goto, TypeInv
  <2>2. call'[b].todo = call[b].todo /\ call'[b].typed = call[b].typed /\ call'[b].pc = "upsert"
    BY <1>2, <2>1 DEF Savings
  <2>3. TypedCall(b) /\ call[b].pc = "vault"
    BY <1>1, <1>6, <2>2 DEF SwitchInv, StoreSecret, At
  <2>4. call[b].todo = AllWrites /\ This(b) = KeyWrite
    BY <2>3, TypedLists DEF TypedCall, TypedShape, This
  <2>5. KeyStored'
    <3>1. "anthropic_key" \in Secrets
      BY DEF Secrets
    <3>2. "key" # None
      BY SettingsAssumption DEF Texts
    <3> QED
      BY <1>6, <2>4, <3>1, <3>2, TypedWrites DEF StoreSecret, KeyStored, TypeInv
  <2> QED
    BY <2>2, <2>4, <2>5 DEF TypedCall, TypedShape, KeyThere
<1>7. CASE Upsert(b)
  <2>1. call'[b].todo = call[b].todo /\ call'[b].typed = call[b].typed /\ call'[b].pc = "load"
    BY <1>2, <1>7 DEF Upsert, Savings
  <2>2. TypedCall(b) /\ call[b].todo # <<>> /\ call[b].pc = "upsert" /\ ~StoreSecret(b)
    BY <1>1, <1>2, <1>7, <2>1 DEF SwitchInv, Upsert, StoreSecret, At
  <2>3. TypedShape(call[b])'
    BY <2>1, <2>2 DEF TypedCall, TypedShape
  <2>4. ASSUME b \notin meddled'
        PROVE  KeyThere(call[b])'
    <3>1. KeyThere(call[b]) /\ (KeySaved => KeySaved')
      BY <1>a, <2>2, <2>4
    <3>2. CASE call[b].todo = AllWrites
      <4>1. This(b) = KeyWrite /\ KeyStored
        BY <1>3, <2>2, <3>1, <3>2 DEF KeyThere
      <4>2. "anthropic_key" \in Keys
        BY DEF Keys, Secrets
      <4>3. KeySaved'
        BY <1>7, <4>1, <4>2, TypedWrites DEF Upsert, KeyStored, KeySaved, TypeInv
      <4> QED
        BY <4>3 DEF KeyThere, KeySaved
    <3>3. CASE call[b].todo # AllWrites
      BY <2>1, <3>1, <3>3 DEF KeyThere
    <3> QED
      BY <3>2, <3>3
  <2> QED
    BY <2>3, <2>4 DEF TypedCall
<1>8. CASE Load(b) \/ Store(b) \/ Current(b)
  <2>1. call[b].pc \in {"load", "store", "current"} /\ ~StoreSecret(b)
    BY <1>8 DEF Load, Store, Current, StoreSecret, At
  <2>2. \/ \E pc \in {"current"} : call'[b] = [call[b] EXCEPT !.pc = pc]
        \/ \E pc \in {"store", "apply"} : \E m :
             call'[b] = [call[b] EXCEPT !.pc = pc, !.snap = m]
    BY <1>8 DEF Load, Store, Current, Step, Goto, TypeInv
  <2>3. /\ call'[b].todo = call[b].todo /\ call'[b].typed = call[b].typed
        /\ call'[b].pc \in {"store", "current", "apply"}
    BY <1>2, <2>2 DEF Savings
  <2>4. TypedCall(b)
    BY <1>1, <2>3 DEF SwitchInv
  <2>5. b \notin meddled' => KeyThere(call[b])'
    BY <1>a, <2>1, <2>3, <2>4 DEF KeyThere
  <2> QED
    BY <2>3, <2>4, <2>5 DEF TypedCall, TypedShape
<1>9. CASE ApplyTunables(b)
  <2>1. call[b].pc = "apply" /\ call'[b] = NextWrite(call[b]) /\ ~StoreSecret(b)
    BY <1>9 DEF ApplyTunables, StoreSecret, At, Goto, TypeInv
  <2>2. /\ call'[b].todo = Tail(call[b].todo) /\ call'[b].typed = call[b].typed
        /\ call'[b].pc = "guard"
    BY <1>1, <2>1, PublishersShape
  <2>3. TypedCall(b) /\ call[b].todo # <<>>
    BY <1>1, <1>2, <2>1, <2>2 DEF SwitchInv
  <2>4. b \notin meddled' => KeySaved'
    BY <1>a, <2>1, <2>3 DEF KeyThere
  <2>5. call'[b].todo \in {<<ModelWrite, ProviderWrite>>, <<ProviderWrite>>, <<>>}
    BY <1>3, <2>2, <2>3
  <2> QED
    BY <2>2, <2>4, <2>5 DEF TypedCall, TypedShape, KeyThere
<1>10. CASE Refuse(b)
  <2>1. call'[b] = AfterError(call[b]) /\ call[b].todo # <<>>
    BY <1>10 DEF Refuse, Goto, TypeInv
  <2>2. call'[b] = NextWrite(call[b]) /\ ~Head(call[b].todo).stop
    BY <2>1 DEF AfterError, Idle, SavePcs
  <2>3. call[b].typed
    BY <1>1, <2>2, PublishersShape
  <2>4. TypedCall(b)
    BY <1>1, <2>3 DEF SwitchInv
  <2> QED
    BY <1>3, <2>1, <2>2, <2>4
<1>11. CASE Finish(b)
  BY <1>11 DEF Finish, Goto, TypeInv, Idle, SavePcs
<1> QED
  BY <1>4, <1>5, <1>6, <1>7, <1>8, <1>9, <1>10, <1>11 DEF SaveStep

(* Typed saves stay on their way in every step.                               *)
LEMMA SwitchAlways ==
  ASSUME TypeInv, AccountInv, SwitchInv, Next
  PROVE  SwitchInv'
<1>0. KeysStay
  BY KeysKeep
<1>1. CASE AccountsStep /\ UNCHANGED settingVars
  <2>1. \A o \in Browsers : call'[o] = call[o] \/ call'[o] \in {Idle} \cup AccountCalls
    BY <1>1, AccountsTyped
  <2>2. ASSUME NEW o \in Browsers, call'[o] \in {Idle} \cup AccountCalls
        PROVE  call'[o].pc \notin SavePcs
    BY <2>2 DEF SavePcs, Idle, AccountCalls, Logins, StatusCalls, RoleCalls, PasswordCalls,
                Creations
  <2> QED
    BY <1>0, <1>1, <2>1, <2>2, SwitchKeeps DEF settingVars
<1>2. ASSUME NEW b \in Browsers, Page(b)
      PROVE  SwitchInv'
  <2>1. PICK todo \in Seq(Writes), typed \in BOOLEAN, after \in Flags :
          /\ Save(b, todo, typed, after)
          /\ typed => todo = AllWrites
    BY <1>2, PagesSave
  <2>2. call'[b] = Saving(b, todo, typed, after) /\ \A o \in Browsers \ {b} : call'[o] = call[o]
    BY <2>1 DEF Save, Job, Goto, TypeInv
  <2>3. call'[b].pc = "guard" /\ call'[b].todo = todo /\ call'[b].typed = typed
    BY <2>2 DEF Saving
  <2>4. call'[b].typed => TypedCall(b)'
    BY <2>1, <2>3 DEF TypedCall, TypedShape, KeyThere
  <2>5. UNCHANGED meddled
    BY <2>1 DEF Save, settingVars
  <2> QED
    BY <1>0, <2>2, <2>4, <2>5, SwitchKeeps
<1>3. ASSUME NEW b \in Browsers, SaveStep(b)
      PROVE  SwitchInv'
  <2>1. call'[b].pc \in SavePcs /\ call'[b].typed => TypedCall(b)'
    BY <1>0, <1>3, TypedMove
  <2>m. \A o \in Browsers \ {b} : o \in meddled => o \in meddled'
    BY <1>3, Meddling
  <2>2. CASE Upsert(b)
    <3>1. ASSUME NEW o \in Browsers \ {b}, Publishing(o), call'[o].typed
          PROVE  TypedCall(o)'
      <4>1. call[o] \in Savings
        BY <3>1, CallShape DEF Publishing, SavePcs
      <4>2. call'[o] = [call[o] EXCEPT !.alone = FALSE]
        BY <2>2, <3>1 DEF Upsert
      <4>3. /\ call'[o].pc = call[o].pc /\ call'[o].todo = call[o].todo
            /\ call'[o].typed = call[o].typed
        BY <4>1, <4>2 DEF Savings
      <4>4. TypedCall(o)
        BY <3>1, <4>3 DEF SwitchInv, Publishing, SavePcs
      <4> QED
        BY <1>0, <2>m, <4>3, <4>4 DEF TypedCall, TypedShape, KeyThere, KeysStay
    <3>2. \A o \in Browsers \ {b} : ~Publishing(o) => call'[o] = call[o]
      BY <2>2 DEF Upsert
    <3> QED
      BY <1>0, <2>1, <2>m, <3>1, <3>2, SwitchKeeps
  <2>3. CASE ~Upsert(b)
    <3>1. \E rec : Goto(b, rec)
      BY <1>3, <2>3 DEF SaveStep, Guard, LookUp, StoreSecret, Load, Store, Current,
                        ApplyTunables, Refuse, Finish, Step
    <3>2. \A o \in Browsers \ {b} : call'[o] = call[o]
      BY <3>1 DEF Goto, TypeInv
    <3> QED
      BY <1>0, <2>1, <2>m, <3>2, SwitchKeeps
  <2> QED
    BY <2>2, <2>3
<1>4. CASE Edit \/ TakeFlag \/ Restart
  <2>1. \A o \in Browsers : call'[o] = call[o] \/ call'[o].pc = "idle"
    BY <1>4 DEF Edit, EditCredential, TakeFlag, Restart, Idle
  <2>2. \A o \in Browsers : o \in meddled => o \in meddled'
    BY <1>4 DEF Edit, EditCredential, TakeFlag, Restart
  <2> QED
    BY <1>0, <2>1, <2>2, SwitchKeeps DEF SavePcs
<1> QED
  BY <1>1, <1>2, <1>3, <1>4 DEF Next, Page, SaveStep, Edit

----------------------------------------------------------------------------
(* The first state.                                                           *)
LEMMA Initially ==
  ASSUME Init
  PROVE  Inv
<1>1. TypeInv
  BY AccountsAssumption, SettingsAssumption
  DEF Init, AccountsInit, TypeInv, Calls, Values
<1>2. AccountInv
  <2>1. \A b \in Browsers : call[b].pc = "idle"
    BY DEF Init, AccountsInit, Idle
  <2>2. \A s \in Sids : sessions[s] = None /\ tokens[s] = None
    BY DEF Init, AccountsInit
  <2>3. \E u \in Users : Kept(u)
    BY AccountsAssumption DEF Init, AccountsInit, Kept
  <2> QED
    BY <2>1, <2>2, <2>3
    DEF AccountInv, RowsExist, SessionsHaveTokens, DisabledMeansOut, CheckStillHolds,
        SessionsWillEnd, WillEnd, LastAdminKept, Kept, TakesAdmin, At
<1>3. PublishInv
  BY DEF Init, AccountsInit, Idle, PublishInv, AloneIsAlone, SnapshotsFresh, MetOthers,
         LiveWhenQuiet, Publishing
<1>4. SwitchInv
  BY DEF Init, AccountsInit, Idle, SwitchInv, SavePcs
<1> QED
  BY <1>1, <1>2, <1>3, <1>4 DEF Inv

(* The invariant everything below rests on.                                   *)
LEMMA Invariant == Spec => []Inv
<1>1. Init => Inv
  BY Initially
<1>2. Inv /\ [Next]_vars => Inv'
  <2>1. CASE Inv /\ Next
    BY <2>1, AccountsAlways, PublishAlways, SwitchAlways DEF Inv
  <2>2. CASE Inv /\ UNCHANGED vars
    <3>1. UNCHANGED <<users, sessions, tokens, cookie, overlapped, call,
                      rows, vault, live, tuned, excused, meddled>>
      BY <2>2 DEF vars, accountVars, settingVars
    <3>2. TypeInv'
      BY <2>2, <3>1 DEF Inv, TypeInv
    <3>3. AccountInv'
      BY <2>2, <3>1, <3>2, NobodyLoses DEF Inv, Active, Kept
    <3>4. PublishInv'
      BY <2>2, <3>1, PublishersKeep DEF Inv
    <3>5. SwitchInv'
      BY <2>2, <3>1, SwitchKeeps DEF Inv, KeysStay, KeyStored, KeySaved
    <3> QED
      BY <3>2, <3>3, <3>4, <3>5 DEF Inv
  <2> QED
    BY <2>1, <2>2
<1> QED
  BY <1>1, <1>2, PTL DEF Spec

(* set_user_status ends the sessions of the account it disables or locks, and *)
(* login refuses such an account: a live session of it was inserted after the *)
(* transaction had deleted the sessions it saw, by a login that had read the  *)
(* row while it was active, however many browsers act at once.                *)
THEOREM DisabledAccountsAreOut == Spec => []DisabledMeansOut
<1>1. Inv => DisabledMeansOut
  BY DEF Inv, AccountInv
<1> QED
  BY <1>1, Invariant, PTL

(* The last-admin check of set_user_status and revoke_role: some admin is not *)
(* disabled unless two calls had both passed the check before either wrote.   *)
(* (Locking is not checked: the admin who is kept may be a locked one.)       *)
THEOREM AnAdminIsKept == Spec => []LastAdminKept
<1>1. Inv => LastAdminKept
  BY DEF Inv, AccountInv
<1> QED
  BY <1>1, Invariant, PTL

(* set_setting re-reads app_config and pushes the tunables after every write: *)
(* at rest the program runs with the saved settings, unless the last reload   *)
(* failed or another save published at the same time.                         *)
THEOREM AtRestSettingsAreLive == Spec => []QuietIsLive
<1>1. Inv => QuietIsLive
  BY DEF Inv, PublishInv, LiveWhenQuiet, QuietIsLive, Publishing, Free
<1> QED
  BY <1>1, Invariant, PTL

(* A call goes from its row to the reload in no other step.                   *)
LEMMA OnlyUpserts ==
  ASSUME TypeInv, AccountInv, Next, NEW b \in Browsers,
         call[b].pc = "upsert", call'[b].pc = "load"
  PROVE  Upsert(b)
<1>1. CASE AccountsStep /\ UNCHANGED settingVars
  BY <1>1, AccountsTyped DEF AccountPcs
<1>2. ASSUME NEW o \in Browsers, Page(o)
      PROVE  FALSE
  <2>1. PICK todo, typed, after : Save(o, todo, typed, after)
    BY <1>2, PagesSave
  <2>2. call[o].pc = "idle" /\ \A q \in Browsers \ {o} : call'[q] = call[q]
    BY <2>1 DEF Save, Job, Free, Goto, TypeInv
  <2> QED
    BY <2>2
<1>3. ASSUME NEW o \in Browsers \ {b}, SaveStep(o)
      PROVE  FALSE
  <2>1. CASE Upsert(o)
    BY <2>1 DEF Upsert, Publishing
  <2>2. CASE ~Upsert(o)
    <3>1. \E rec : Goto(o, rec)
      BY <1>3, <2>2 DEF SaveStep, Guard, LookUp, StoreSecret, Load, Store, Current,
                        ApplyTunables, Refuse, Finish, Step
    <3> QED
      BY <3>1 DEF Goto, TypeInv
  <2> QED
    BY <2>1, <2>2
<1>4. CASE SaveStep(b)
  <2>1. Upsert(b) \/ Refuse(b)
    BY <1>4 DEF SaveStep, Guard, LookUp, StoreSecret, Load, Store, Current, ApplyTunables,
                Finish, At
  <2>2. ASSUME Refuse(b)
        PROVE  FALSE
    <3>1. AfterError(call[b]).pc \in {"idle", "guard"}
      BY PublishersShape DEF AfterError, Idle, SavePcs
    <3> QED
      BY <2>2, <3>1 DEF Refuse, Goto, TypeInv
  <2> QED
    BY <2>1, <2>2
<1>5. CASE Edit \/ TakeFlag \/ Restart
  BY <1>5 DEF Edit, EditCredential, TakeFlag, Restart, Idle
<1> QED
  BY <1>1, <1>2, <1>3, <1>4, <1>5 DEF Next, Page, SaveStep, Edit

(* ProviderConfig saves the key, then the model, then llm.provider, and stops *)
(* at the first error: the step that switches the provider finds its key,     *)
(* unless another step took it away since this save stored it.                *)
THEOREM SwitchFindsItsKey == Spec => SwitchIsConfigured
<1> DEFINE Switch ==
      \A b \in Browsers :
        /\ At(b, "upsert") /\ call'[b].pc = "load"
        /\ This(b).key = "provider" /\ call[b].typed
        /\ b \notin meddled
        => SelectedKey(rows', vault') # None
<1>1. Inv /\ Inv' /\ [Next]_vars => [Switch]_vars
  <2> SUFFICES ASSUME Inv, Next, NEW b \in Browsers, At(b, "upsert"), call'[b].pc = "load",
                      This(b).key = "provider", call[b].typed, b \notin meddled
               PROVE  SelectedKey(rows', vault') # None
    OBVIOUS
  <2>1. call[b].pc = "upsert" /\ call[b] \in Savings /\ call[b].todo # <<>>
    BY CallShape DEF At, Inv, SavePcs, Savings
  <2>2. TypedCall(b)
    BY <2>1 DEF Inv, SwitchInv, SavePcs
  <2>3. KeySaved /\ This(b) = ProviderWrite
    BY <2>1, <2>2, TypedLists, TypedWrites DEF TypedCall, TypedShape, KeyThere, This
  <2>5. Upsert(b)
    BY <2>1, OnlyUpserts DEF Inv
  <2>4. KeySaved'
    <3>1. UNCHANGED meddled
      BY <2>3, <2>5, TypedWrites DEF Upsert
    <3> QED
      BY <2>3, <3>1, KeysKeep DEF Inv, KeysStay
  <2>6. rows'["provider"] = "anthropic"
    <3>1. Persisted(ProviderWrite) = "anthropic"
      BY TypedWrites DEF Persisted, Plaintext
    <3>2. "provider" \in Keys
      BY DEF Keys
    <3> QED
      BY <2>3, <2>5, <3>1, <3>2, TypedWrites DEF Upsert, Inv, TypeInv
  <2>7. "anthropic" # None
    BY SettingsAssumption DEF Texts, Providers
  <2> QED
    BY <2>4, <2>6, <2>7 DEF SelectedKey, SelectedProvider, KeySaved, KeyStored
<1> QED
  BY <1>1, Invariant, PTL DEF Spec, SwitchIsConfigured
=============================================================================
