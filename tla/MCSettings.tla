----------------------------- MODULE MCSettings -----------------------------
(* Two browsers, two admins at start and a free user name; the release check  *)
(* has been run once.                                                         *)
EXTENDS Settings, TLC

CONSTANTS Ann, Bob, New, B1, B2

MCAccounts ==
  [u \in Users |-> IF u = New THEN None
                   ELSE [status |-> "active", roles |-> {"admin"}, password |-> "p"]]
MCTags == "stable" :> "v1" @@ "beta" :> "v2"
MCRows ==
  [k \in Keys |-> CASE k = "channel" -> "stable" [] k = "latest" -> "v1" [] OTHER -> None]

(* Two halves of the state space, which meet where sessions are opened.       *)
(* Either functions of the IAM page are called; or the settings and the       *)
(* credentials are edited by Ann from sessions that last: each write of a     *)
(* save may be refused anyway, as if its session had ended.                   *)
Saves(b) == call[b].pc # "idle" /\ "todo" \in DOMAIN call[b]
OnlyAccounts ==
  /\ rows = Rows0 /\ \A k \in Secrets : vault[k] = None
  /\ \A b \in Browsers : ~Saves(b)
OnlySettings ==
  /\ users = Accounts0
  /\ \A b \in Browsers : Free(b) \/ Saves(b)
  /\ \A s \in Sids : tokens[s] # None => tokens[s].user = Ann /\ sessions[s] # None
MCConstraint == OnlyAccounts \/ OnlySettings

MCSymmetry == Permutations(Browsers)
=============================================================================
