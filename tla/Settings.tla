------------------------------ MODULE Settings ------------------------------
(* The settings of the running program.  A page saves by a sequence of        *)
(* set_setting calls; each one checks the session, moves a secret into the    *)
(* vault, writes the app_config row, re-reads all rows into the live snapshot *)
(* and pushes the tunables from it.  Each of these is a step of its own.      *)
EXTENDS Accounts, Sequences

CONSTANTS
  Timeouts,     \* what an operator types as guard.approval_timeout_secs
  Numbers,      \* those of them that parse as a number
  DefaultTimeout,
  Tags,         \* release channel -> tag of its newest release
  Rows0         \* public.app_config at start

VARIABLES
  rows,         \* public.app_config: key -> value or None
  vault,        \* the credentials named settings.<key>
  live,         \* the snapshot ConfigResolver holds
  tuned,        \* the approval timeout the guard runs with
  flag,         \* the update flag file: [channel, tag] or None
  excused,      \* history: the last reload failed or met another write
  meddled       \* history: the browsers whose stored key was taken away again

settingVars == <<rows, vault, live, tuned, flag, excused, meddled>>
vars == <<accountVars, call, settingVars>>

Providers == {"anthropic", "local"}
Secrets == {"anthropic_key"}
Keys == Secrets \cup {"provider", "model", "ollama_url", "timeout", "depth", "channel", "latest",
                    "checked"}
Ref == "vault://"               \* vault://settings.<key>
OtherRef == "vault://other"     \* the name of another credential

(* What a page can save.  A saved channel is one that has releases, and       *)
(* `stable`, the default, is one.                                             *)
Texts ==
  {"key", "url", "4", "stable", "now", Ref, OtherRef} \cup Providers \cup Timeouts
  \cup DOMAIN Tags \cup {Tags[c] : c \in DOMAIN Tags}

ASSUME SettingsAssumption ==
  /\ None \notin Texts
  /\ "stable" \in DOMAIN Tags
  /\ Rows0 \in [Keys -> Texts \cup {None}]
  /\ Rows0["channel"] \in DOMAIN Tags \cup {None}

Write(key, value, stop) == [key |-> key, value |-> value, stop |-> stop]

(* Writes left to do, then what happens to the flag file.                     *)
Saving(b, todo, typed, after) ==
  [pc |-> "guard", todo |-> todo, typed |-> typed, after |-> after,
   snap |-> None, found |-> FALSE, alone |-> TRUE]
Keep == [channel |-> "keep", tag |-> "keep"]

Save(b, todo, typed, after) ==
  /\ RequireAdmin(b)
  /\ Job(b, Saving(b, todo, typed, after))
  /\ UNCHANGED <<users, sessions, tokens, cookie, overlapped, settingVars>>

----------------------------------------------------------------------------
(* The pages' forms.  ProviderConfig writes the credential or the endpoint,   *)
(* then the model, then `llm.provider`, and stops at the first error; a blank *)
(* key field is left out, and a credential's name may be typed into it.  The  *)
(* model is the form's (seeded by the provider).                              *)
ConfigWrites(p, field) ==
  (CASE p = "local"  -> <<Write("ollama_url", "url", TRUE)>>
     [] field # None -> <<Write("anthropic_key", field, TRUE)>>
     [] OTHER        -> <<>>)
  \o <<Write("model", p, TRUE)>>

SaveProvider(b, p, field) ==
  /\ field # None => p = "anthropic"
  /\ Save(b, ConfigWrites(p, field) \o <<Write("provider", p, TRUE)>>, field = "key", Keep)

(* FormTab goes on to the next field after an error.                          *)
SaveForm(b, timeout) ==
  Save(b, <<Write("timeout", timeout, FALSE), Write("depth", "4", FALSE)>>, FALSE, Keep)

SetChannel(b, channel) == Save(b, <<Write("channel", channel, TRUE)>>, FALSE, Keep)

DeleteSetting(b, key) == Save(b, <<Write(key, None, TRUE)>>, FALSE, Keep)

(* get_update_state writes the default channel when there is none.            *)
ChannelRead == IF rows["channel"] = None THEN "stable" ELSE rows["channel"]
Seed == IF rows["channel"] = None THEN <<Write("channel", "stable", FALSE)>> ELSE <<>>

(* The time of the check, then the tag of the newest release if there is one. *)
CheckForUpdate(b, released) ==
  Save(b, Seed \o <<Write("checked", "now", TRUE)>>
            \o (IF released THEN <<Write("latest", Tags[ChannelRead], TRUE)>> ELSE <<>>),
       FALSE, Keep)

ApplyUpdate(b) ==
  /\ rows["latest"] # None
  /\ Save(b, Seed, FALSE, [channel |-> ChannelRead, tag |-> rows["latest"]])

CancelUpdate(b) == flag # None /\ Save(b, Seed, FALSE, None)

(* The credentials page: any admin may delete, rename or create the           *)
(* credential a setting names (VaultAdmin has the page's own steps).          *)
EditCredential(b, k, value) ==
  /\ RequireAdmin(b)
  /\ Free(b)
  /\ jobs < MaxJobs
  /\ jobs' = jobs + 1
  /\ value # vault[k]
  /\ vault' = [vault EXCEPT ![k] = value]
  /\ meddled' = IF value = None THEN Browsers ELSE meddled
  /\ UNCHANGED <<users, sessions, tokens, cookie, overlapped, call, rows, live, tuned,
                 flag, excused>>

----------------------------------------------------------------------------
(* set_setting and delete_setting, statement by statement.                    *)
This(b) == Head(call[b].todo)
Step(b, pc) == Goto(b, [call[b] EXCEPT !.pc = pc])

Plaintext(w) == w.key \in Secrets /\ w.value \notin {None, Ref, OtherRef, ""}

Guard(b) ==
  /\ At(b, "guard")
  /\ call[b].todo # <<>>
  /\ RequireAdmin(b)
  /\ Step(b, IF Plaintext(This(b)) THEN "look" ELSE "upsert")
  /\ UNCHANGED <<accountVars, settingVars>>

(* intercept_secret looks the name up, then updates or creates: a create      *)
(* fails when the name was taken in between, an update when it was deleted.   *)
LookUp(b) ==
  /\ At(b, "look")
  /\ Goto(b, [call[b] EXCEPT !.pc = "vault", !.found = vault[This(b).key] # None])
  /\ UNCHANGED <<accountVars, settingVars>>

StoreSecret(b) ==
  /\ At(b, "vault")
  /\ call[b].found <=> vault[This(b).key] # None
  /\ vault' = [vault EXCEPT ![This(b).key] = This(b).value]
  /\ meddled' = meddled \ {b}
  /\ Step(b, "upsert")
  /\ UNCHANGED <<accountVars, rows, live, tuned, flag, excused>>

Persisted(w) == IF Plaintext(w) THEN Ref ELSE w.value

(* Between its row and its tunables.                                          *)
Publishing(b) == call[b].pc \in {"load", "store", "current", "apply"}

Upsert(b) ==
  /\ At(b, "upsert")
  /\ rows' = [rows EXCEPT ![This(b).key] = Persisted(This(b))]
  /\ call' = [o \in Browsers |->
                CASE o = b -> [call[b] EXCEPT !.pc = "load",
                                 !.alone = \A x \in Browsers \ {b} : ~Publishing(x)]
                  [] o # b /\ Publishing(o) -> [call[o] EXCEPT !.alone = FALSE]
                  [] OTHER -> call[o]]
  /\ meddled' = IF This(b).key \in Secrets /\ Persisted(This(b)) # Ref
                THEN Browsers
                ELSE meddled
  /\ UNCHANGED <<accountVars, vault, live, tuned, flag, excused>>

LoadOwn(b) ==
  /\ At(b, "load")
  /\ \/ /\ Goto(b, [call[b] EXCEPT !.pc = "store",
                      !.snap = [live EXCEPT ![This(b).key] = rows[This(b).key]]])
        /\ UNCHANGED excused
     \/ /\ Step(b, "current")
        /\ excused' = TRUE
  /\ UNCHANGED <<accountVars, rows, vault, live, tuned, flag, meddled>>

(* ConfigResolver::reload reads every row, or fails and is only logged.       *)
Load(b) ==
  /\ At(b, "load")
  /\ \/ /\ Goto(b, [call[b] EXCEPT !.pc = "store", !.snap = rows])
        /\ UNCHANGED excused
     \/ /\ Step(b, "current")
        /\ excused' = TRUE
  /\ UNCHANGED <<accountVars, rows, vault, live, tuned, flag, meddled>>

Store(b) ==
  /\ At(b, "store")
  /\ live' = call[b].snap
  /\ excused' = ~call[b].alone
  /\ Step(b, "current")
  /\ UNCHANGED <<accountVars, rows, vault, tuned, flag, meddled>>

Current(b) ==
  /\ At(b, "current")
  /\ Goto(b, [call[b] EXCEPT !.pc = "apply", !.snap = live])
  /\ UNCHANGED <<accountVars, settingVars>>

(* A row that is missing or does not parse falls back to the default.         *)
TimeoutOf(snap) == IF snap["timeout"] \in Numbers THEN snap["timeout"] ELSE DefaultTimeout

NextWrite(c) == [c EXCEPT !.pc = "guard", !.todo = Tail(@), !.snap = None, !.found = FALSE]

ApplyTunables(b) ==
  /\ At(b, "apply")
  /\ tuned' = TimeoutOf(call[b].snap)
  /\ Goto(b, NextWrite(call[b]))
  /\ UNCHANGED <<accountVars, rows, vault, live, flag, excused, meddled>>

AlwaysGoOn(c) == NextWrite(c)

(* What a page does when set_setting returns an error.                        *)
AfterError(c) == IF Head(c.todo).stop THEN Idle ELSE NextWrite(c)

(* The session is gone, the vault or the database refuses.                    *)
Refuse(b) ==
  /\ call[b].pc \in {"guard", "look", "vault", "upsert"}
  /\ call[b].todo # <<>>
  /\ Goto(b, AfterError(call[b]))
  /\ UNCHANGED <<accountVars, settingVars>>

(* All writes are done; apply_update and cancel_update touch the flag file.   *)
Finish(b) ==
  /\ At(b, "guard")
  /\ call[b].todo = <<>>
  /\ flag' = IF call[b].after = Keep THEN flag ELSE call[b].after
  /\ Goto(b, Idle)
  /\ UNCHANGED <<accountVars, rows, vault, live, tuned, excused, meddled>>

(* The update unit takes the flag file.                                       *)
TakeFlag ==
  /\ flag # None
  /\ flag' = None
  /\ UNCHANGED <<accountVars, call, rows, vault, live, tuned, excused, meddled>>

(* The process restarts: calls are lost and the snapshot is loaded again, or  *)
(* stays empty when that fails; rows, accounts, sessions and the signing      *)
(* secret are in the database.                                                *)
Restart ==
  /\ \E b \in Browsers : ~Free(b)
  /\ call' = [b \in Browsers |-> Idle]
  /\ \/ live' = rows /\ excused' = FALSE
     \/ live' = [k \in Keys |-> None] /\ excused' = TRUE
  /\ tuned' = TimeoutOf(live')
  /\ UNCHANGED <<accountVars, rows, vault, flag, meddled>>

(* chat::select_llm on a snapshot: the provider and the key it resolves (what *)
(* another credential's name resolves to is not known here).                  *)
SelectedProvider(snap) == IF snap["provider"] = None THEN "anthropic" ELSE snap["provider"]
SelectedKey(snap, secrets) ==
  IF SelectedProvider(snap) = "anthropic" /\ snap["anthropic_key"] = Ref
  THEN secrets["anthropic_key"]
  ELSE None

----------------------------------------------------------------------------
Init ==
  /\ AccountsInit
  /\ rows = Rows0
  /\ vault = [k \in Secrets |-> None]
  /\ live = rows
  /\ tuned = TimeoutOf(rows)
  /\ flag = None
  /\ excused = FALSE
  /\ meddled = {}

Next ==
  \/ AccountsStep /\ UNCHANGED settingVars
  \/ \E b \in Browsers :
       \/ \E p \in Providers, field \in {None, "key", OtherRef} : SaveProvider(b, p, field)
       \/ \E t \in Timeouts : SaveForm(b, t)
       \/ \E c \in DOMAIN Tags : SetChannel(b, c)
       \/ \E k \in Keys : DeleteSetting(b, k)
       \/ \E released \in BOOLEAN : CheckForUpdate(b, released)
       \/ ApplyUpdate(b) \/ CancelUpdate(b)
       \/ \E k \in Secrets, value \in {None, "key"} : EditCredential(b, k, value)
       \/ Guard(b) \/ LookUp(b) \/ StoreSecret(b) \/ Upsert(b)
       \/ Load(b) \/ Store(b) \/ Current(b) \/ ApplyTunables(b)
       \/ Refuse(b) \/ Finish(b)
  \/ TakeFlag
  \/ Restart

Spec == Init /\ [][Next]_vars

----------------------------------------------------------------------------
(* When no call is under way the running program uses the saved settings:     *)
(* snapshot and guard timeout agree with app_config, unless the last reload   *)
(* failed or another save published at the same time.                         *)
QuietIsLive ==
  (\A b \in Browsers : Free(b)) /\ ~excused =>
    live = rows /\ tuned = TimeoutOf(rows)

(* ProviderConfig switches the provider last: when a save with a key makes a  *)
(* provider the active one, chat can resolve that provider's key, unless the  *)
(* key's row or credential was taken away since this save stored it.          *)
SwitchIsConfigured ==
  [][\A b \in Browsers :
       /\ At(b, "upsert") /\ call'[b].pc = "load"
       /\ This(b).key = "provider" /\ call[b].typed
       /\ b \notin meddled
       => SelectedKey(rows', vault') # None]_vars
=============================================================================
