---------------------------- MODULE MCChannels ------------------------------
(* A bounded instance of Channels: one channel of each style.                *)
EXTENDS Channels, TLC

CONSTANTS tg, mx, wh, h1, u1, a1

MCStyle ==
  [c \in Channels |-> CASE c = tg -> "updates" [] c = mx -> "sync" [] c = wh -> "webhook"]
MCUserOf == h1 :> u1

(* Two halves of the state space, which meet where neither has begun.  Either *)
(* only the webhook channel runs, with replies and up to two alerts about any *)
(* approval; or all channels do, with crashes and all but replies, about one  *)
(* approval.                                                                  *)
Said == UNION {{posted[c][k].says : k \in DOMAIN posted[c]} : c \in Channels}
OnlyWebhooks ==
  /\ crashes = 0 /\ Cardinality(alerts) <= 2
  /\ \A c \in Pollers : posted[c] = <<>> /\ poller[c].pc = "down"
  /\ \A m \in Said : m.kind = "reply"
OneApproval ==
  /\ alerts = {}
  /\ \A i \in Approvals \ {a1} : rows[i] = Inbox!Absent
  /\ \A m \in Said : m.kind # "reply" /\ (m.kind = "command" => m.id = a1)
MCConstraint == OnlyWebhooks \/ OneApproval
=============================================================================
