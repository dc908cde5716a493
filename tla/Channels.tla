------------------------------ MODULE Channels -------------------------------
(***************************************************************************)
(* Messages from chat platforms: the ingress of the adapters               *)
(* (daimon-gateway/src/adapters), the inbound pipeline that binds a sender *)
(* to a user and decides approvals or runs a chat turn                     *)
(* (daimon-app/src/gw.rs, db.rs), and the approval inbox.                  *)
(*                                                                         *)
(* A channel's style says how its messages arrive:                         *)
(*   "webhook"  each is acknowledged at once and handled in a task of its  *)
(*              own (Telegram webhook);                                    *)
(*   "updates"  polled; the cursor is saved after each message (Telegram   *)
(*              getUpdates);                                               *)
(*   "sync"     polled; the cursor is saved after each batch, and a first  *)
(*              start skips the backlog (Matrix /sync).                    *)
(* A poller handles a message inline: while a turn waits for an approval,  *)
(* the channel does not move.  The HTTP client of "updates" has a timeout; *)
(* a call of the other two may never return.  A platform numbers messages  *)
(* per chat: two chats of one channel may use the same id.                 *)
(***************************************************************************)
EXTENDS Naturals, Sequences, FiniteSets

CONSTANTS
  Channels, Style,  \* channel -> "webhook", "updates" or "sync"
  Users, UserOf,    \* platform handle -> the user it is bound to, or None
  Chats,            \* the chats (rooms, groups) of a channel
  Mids,             \* message ids
  Approvals,        \* approval ids
  Verbs,            \* the verdicts a message can carry
  MaxPosts,         \* messages posted in a behaviour
  MaxCrashes,       \* process deaths in a behaviour
  None

ASSUME ChannelsAssumption ==
  /\ IsFiniteSet(Channels)
  /\ Style \in [Channels -> {"webhook", "updates", "sync"}]
  /\ UserOf \in [DOMAIN UserOf -> Users \cup {None}]
  /\ MaxPosts \in Nat

VARIABLES
  posted,    \* per channel, the messages on the platform, in order
  cursor,    \* per channel, the saved resume position, or None
  acked,     \* per channel, the position the platform was last polled from
  poller,    \* per channel, the position of the ingress loop
  task,      \* <<channel, position>> -> the handler's progress
  handled,   \* messages a handler has finished with
  skipped,   \* messages the loop was never given
  rows,      \* the approval inbox
  alerts,    \* approval alerts on record: where each went, and when (at)
  decisions, \* decisions taken over chat
  roles,     \* active user -> "approver" or "operator"; else "disabled"
  crashes

vars == <<posted, cursor, acked, poller, task, handled, skipped, rows, alerts,
          decisions, roles, crashes>>

ingress == <<posted, cursor, acked, poller, skipped>>
inbox == <<rows, alerts, decisions>>

Inbox == INSTANCE Approvals WITH Ids <- Approvals, rows <- rows
-----------------------------------------------------------------------------
Handles == DOMAIN UserOf
Pollers == {c \in Channels : Style[c] # "webhook"}
Slots == Channels \X (1..MaxPosts)

\* What a message says: small talk that may lead to a gated call, a command
\* with an id, a bare decision in reply to message mid of its chat, or an
\* update the adapters ignore.
Contents ==
  [kind : {"chat", "noise"}]
    \cup [kind : {"command"}, id : Approvals, verb : Verbs]
    \cup [kind : {"reply"}, chat : Chats, mid : Mids, verb : Verbs]

\* text_messages and update_to_inbound drop what carries no text, and the
\* bot's own messages.
Ignored(m) == m.kind = "noise"

Idle == [pc |-> "idle"]
Count == Cardinality(UNION {{c} \X DOMAIN posted[c] : c \in Channels})

Init ==
  /\ posted = [c \in Channels |-> <<>>]
  /\ cursor = [c \in Channels |-> None]
  /\ acked = [c \in Channels |-> 0]
  /\ poller = [c \in Channels |-> [pc |-> "down", next |-> 0, upto |-> 0]]
  /\ task = [s \in Slots |-> Idle]
  /\ handled = {} /\ skipped = {}
  /\ rows = [i \in Approvals |-> Inbox!Absent]
  /\ alerts = {} /\ decisions = {}
  /\ roles \in [Users -> {"approver", "operator"}]
  /\ crashes = 0
-----------------------------------------------------------------------------
(* The platform.                                                           *)

\* Somebody posts.  On a webhook channel the platform calls the route, which
\* verifies and parses it and starts a handler, or ignores it.
Post(c, h, m) ==
  /\ Count < MaxPosts
  /\ posted' = [posted EXCEPT ![c] = Append(@, [from |-> h, says |-> m])]
  /\ task' = IF Style[c] = "webhook" /\ ~Ignored(m)
             THEN [task EXCEPT ![<<c, Len(posted'[c])>>] = [pc |-> "bind"]]
             ELSE task
  /\ UNCHANGED <<inbox, acked, cursor, poller, handled, skipped, roles,
                 crashes>>
-----------------------------------------------------------------------------
(* The pollers.                                                            *)

\* run_ingress starts from the saved cursor.  Without one, or when reading it
\* fails, "updates" asks for everything the platform has not seen
\* acknowledged, and "sync" for the present position only, which it saves.
Start(c) ==
  /\ c \in Pollers /\ poller[c].pc = "down"
  /\ LET from(k) == poller' = [poller EXCEPT ![c] =
                                [pc |-> "poll", next |-> k, upto |-> k]]
         now     == Len(posted[c])
     IN  \/ /\ cursor[c] # None
            /\ from(cursor[c])
            /\ UNCHANGED <<cursor, skipped>>
         \/ /\ Style[c] = "updates"
            /\ from(acked[c])
            /\ UNCHANGED <<cursor, skipped>>
         \/ /\ Style[c] = "sync"
            /\ from(now)
            /\ cursor' = [cursor EXCEPT ![c] = now]
            /\ skipped' = skipped \cup ({c} \X (1..now))
  /\ UNCHANGED <<inbox, posted, acked, task, handled, roles, crashes>>

\* Mutant: the cursor is saved for the whole batch as it arrives.
PollSaving(c) ==
  /\ c \in Pollers /\ poller[c].pc = "poll"
  /\ Len(posted[c]) > poller[c].next
  /\ poller' = [poller EXCEPT ![c].pc = "dispatch",
                              ![c].upto = Len(posted[c])]
  /\ acked' = [acked EXCEPT ![c] = poller[c].next]
  /\ cursor' = [cursor EXCEPT ![c] = Len(posted[c])]
  /\ UNCHANGED <<inbox, posted, task, handled, skipped, roles, crashes>>

\* A long poll answers with what has been posted since.  The answer of /sync
\* may be limited to the last messages of the room: the ones before are lost.
Poll(c) ==
  /\ c \in Pollers /\ poller[c].pc = "poll"
  /\ \E k \in poller[c].next .. Len(posted[c]) - 1 :
       /\ k = poller[c].next \/ Style[c] = "sync"
       /\ poller' = [poller EXCEPT ![c] = [pc |-> "dispatch", next |-> k,
                                           upto |-> Len(posted[c])]]
       /\ skipped' = skipped \cup ({c} \X (poller[c].next + 1 .. k))
  /\ acked' = [acked EXCEPT ![c] = poller[c].next]
  /\ UNCHANGED <<inbox, posted, cursor, task, handled, roles, crashes>>

\* A call of the Matrix poller to its platform never returns.
Hang(c) ==
  /\ Style[c] = "sync" /\ poller[c].pc \in {"down", "poll"}
  /\ poller' = [poller EXCEPT ![c].pc = "hung"]
  /\ UNCHANGED <<inbox, acked, posted, cursor, task, handled, skipped, roles,
                 crashes>>

\* The next message of the batch goes to the handler, unless it is ignored.
Dispatch(c) ==
  /\ poller[c].pc = "dispatch"
  /\ LET k == poller[c].next + 1
     IN  IF Ignored(posted[c][k].says)
         THEN /\ poller' = [poller EXCEPT ![c].pc = "advance"]
              /\ UNCHANGED task
         ELSE /\ poller' = [poller EXCEPT ![c].pc = "handling"]
              /\ task' = [task EXCEPT ![<<c, k>>] = [pc |-> "bind"]]
  /\ UNCHANGED <<inbox, acked, posted, cursor, handled, skipped, roles,
                 crashes>>

\* The handler returns to the loop.
Return(c) ==
  /\ poller[c].pc = "handling"
  /\ task[<<c, poller[c].next + 1>>].pc = "done"
  /\ poller' = [poller EXCEPT ![c].pc = "advance"]
  /\ UNCHANGED <<inbox, acked, posted, cursor, task, handled, skipped, roles,
                 crashes>>

\* Past one message.  The cursor is saved now ("updates") or at the end of
\* the batch ("sync"); a save that fails is logged and the loop goes on.
Advance(c) ==
  /\ poller[c].pc = "advance"
  /\ LET k    == poller[c].next + 1
         last == k = poller[c].upto
     IN  /\ poller' = [poller EXCEPT ![c].next = k,
                         ![c].pc = IF last THEN "poll" ELSE "dispatch"]
         /\ \/ UNCHANGED cursor
            \/ /\ Style[c] = "updates" \/ last
               /\ cursor' = [cursor EXCEPT ![c] = k]
  /\ UNCHANGED <<inbox, acked, posted, task, handled, skipped, roles,
                 crashes>>
-----------------------------------------------------------------------------
(* The inbound pipeline, AppInboundHandler::handle.                        *)

Message(s) == posted[s[1]][s[2]]

\* The reply is sent inline and the handler returns, unless the send hangs.
Finish(s) ==
  \/ /\ task' = [task EXCEPT ![s] = [pc |-> "done"]]
     /\ handled' = handled \cup {s}
  \/ /\ Style[s[1]] # "updates"
     /\ task' = [task EXCEPT ![s] = [pc |-> "hung"]]
     /\ UNCHANGED handled

\* resolve_gateway_identity: an unbound handle, a user that is not active or
\* a failing query is refused with a reply.  Otherwise the user's roles are
\* read here, once.
Bind(s) ==
  /\ task[s].pc = "bind"
  /\ LET u == UserOf[Message(s).from]
     IN  \/ Finish(s)
         \/ /\ u # None /\ roles[u] # "disabled"
            /\ task' = [task EXCEPT ![s] =
                          [pc |-> "route", user |-> u,
                           approver |-> roles[u] = "approver",
                           held |-> roles[u] = "approver"]]
            /\ UNCHANGED handled
  /\ UNCHANGED <<inbox, ingress, roles, crashes>>

\* Mutant: any channel's alert with that message id.
RepliedAnywhere(s) == {a.approval : a \in {x \in alerts :
                         x.mid = Message(s).says.mid}}

\* resolve_approval_by_reply: the approval of the newest alert that went out on
\* this channel, in whatever chat, under the id that is replied to.
Replied(s) ==
  LET sent == {x \in alerts : x.channel = s[1] /\ x.mid = Message(s).says.mid}
  IN  {a.approval : a \in {x \in sent : \A y \in sent : y.at <= x.at}}

\* A reply that answers an approval alert decides it; a command decides the
\* id it names; everything else, a reply to some other message and a failed
\* lookup included, is a chat turn.
Route(s) ==
  /\ task[s].pc = "route"
  /\ LET says == Message(s).says
         t     == task[s]
         to(i) == [pc |-> "decide", user |-> t.user, approver |-> t.approver,
                   held |-> t.held, id |-> i, via |-> says]
     IN  \/ /\ says.kind = "reply"
            /\ \E i \in Replied(s) : task' = [task EXCEPT ![s] = to(i)]
         \/ /\ says.kind = "command"
            /\ task' = [task EXCEPT ![s] = to(says.id)]
         \/ /\ says.kind \in {"reply", "chat"}
            /\ task' = [task EXCEPT ![s].pc = "turn"]
  /\ UNCHANGED <<inbox, ingress, handled, roles, crashes>>

\* Mutant: whoever is bound may decide.
DecideUnchecked(s) ==
  /\ task[s].pc = "decide"
  /\ LET t == task[s]
     IN  IF rows[t.id] = "pending"
         THEN /\ Inbox!Decide(t.id, t.via.verb)
              /\ decisions' = decisions \cup
                   {[slot |-> s, user |-> t.user, id |-> t.id]}
         ELSE UNCHANGED <<rows, decisions>>
  /\ Finish(s)
  /\ UNCHANGED <<ingress, alerts, roles, crashes>>

\* decide_over_chat: refused unless the roles that were read allow it; the
\* inbox takes the verdict only of a pending row.
DecideOverChat(s) ==
  /\ task[s].pc = "decide"
  /\ LET t == task[s]
     IN  IF t.approver /\ rows[t.id] = "pending"
         THEN /\ Inbox!Decide(t.id, t.via.verb)
              /\ decisions' = decisions \cup
                   {[slot |-> s, user |-> t.user, id |-> t.id]}
         ELSE UNCHANGED <<rows, decisions>>
  /\ Finish(s)
  /\ UNCHANGED <<ingress, alerts, roles, crashes>>

\* A chat turn ends without a gated call, or dispatches one: the Guard
\* enqueues an approval and the turn waits for the reply on the bus.
Turn(s) ==
  /\ task[s].pc = "turn"
  /\ \/ Finish(s) /\ UNCHANGED rows
     \/ \E i \in Approvals :
          /\ Inbox!Enqueue(i)
          /\ task' = [task EXCEPT ![s] = [pc |-> "parked", id |-> i]]
          /\ UNCHANGED handled
  /\ UNCHANGED <<ingress, alerts, decisions, roles, crashes>>

\* Mutant: the dispatch waits for as long as the approval is pending.
ParkedUntilDecided(s) ==
  /\ task[s].pc = "parked" /\ rows[task[s].id] # "pending"
  /\ Finish(s)
  /\ UNCHANGED <<inbox, ingress, roles, crashes>>

\* The dispatch returns: the row was decided, or its 35 seconds are over.
\* The turn replies and ends either way.
Parked(s) ==
  /\ task[s].pc = "parked"
  /\ Finish(s)
  /\ UNCHANGED <<inbox, ingress, roles, crashes>>
-----------------------------------------------------------------------------
(* Alerts, the console, administration and crashes.                        *)

\* The ids of a chat's messages that are known: its alerts, and what was replied
\* to there.
Used(c, chat) ==
  {a.mid : a \in {x \in alerts : x.channel = c /\ x.chat = chat}}
    \cup {posted[c][k].says.mid : k \in
            {j \in DOMAIN posted[c] : posted[c][j].says.kind = "reply" /\ posted[c][j].says.chat = chat}}

\* The alert router notifies the enrolled chats of the webhook channels, one
\* after the other, of a pending row, and records the id the platform gave the
\* message: a new one in that chat.
Alert(c, chat, i) ==
  /\ Style[c] = "webhook" /\ rows[i] = "pending"
  /\ \A a \in alerts : ~(a.channel = c /\ a.chat = chat /\ a.approval = i)
  /\ \E mid \in Mids \ Used(c, chat) :
       alerts' = alerts \cup {[channel |-> c, chat |-> chat, mid |-> mid, approval |-> i,
                               at |-> Cardinality(alerts)]}
  /\ UNCHANGED <<ingress, task, handled, rows, decisions, roles, crashes>>

\* An administrator changes what a user may do.
SetRole(u, r) ==
  /\ roles[u] # r
  /\ roles' = [roles EXCEPT ![u] = r]
  /\ task' = [s \in Slots |->
                IF "user" \in DOMAIN task[s] /\ task[s].user = u
                THEN [task[s] EXCEPT !.held = @ \/ r = "approver"]
                ELSE task[s]]
  /\ UNCHANGED <<inbox, ingress, handled, crashes>>

\* A call of a plan or of the console is parked for approval.
ParkElsewhere(i) ==
  /\ Inbox!Enqueue(i)
  /\ UNCHANGED <<ingress, task, handled, alerts, decisions, roles, crashes>>

\* The process dies and is started again: tasks and loops are gone, what is
\* in the database stays.
Crash ==
  /\ crashes < MaxCrashes
  /\ crashes' = crashes + 1
  /\ poller' = [c \in Channels |-> [pc |-> "down", next |-> 0, upto |-> 0]]
  /\ task' = [s \in Slots |-> Idle]
  /\ UNCHANGED <<inbox, acked, posted, cursor, handled, skipped, roles>>

Loop(c) == Start(c) \/ Poll(c) \/ Dispatch(c) \/ Return(c) \/ Advance(c)
Handle(s) == Bind(s) \/ Route(s) \/ DecideOverChat(s) \/ Turn(s) \/ Parked(s)
Tasks == (\E c \in Channels : Loop(c)) \/ (\E s \in Slots : Handle(s))

Next ==
  \/ \E c \in Channels : Hang(c)
  \/ \E c \in Channels, h \in Handles, m \in Contents : Post(c, h, m)
  \/ Tasks
  \/ \E c \in Channels, chat \in Chats, i \in Approvals : Alert(c, chat, i)
  \/ \E u \in Users, r \in {"approver", "operator", "disabled"} :
       SetRole(u, r)
  \/ \E i \in Approvals : ParkElsewhere(i)
  \/ Crash

\* The loops and the handlers are tokio tasks.  The database answers or the
\* connection fails, the dispatch of a turn and the language models have
\* timeouts; a call to the platform ends, or the task hangs in it for good.
Spec == Init /\ [][Next]_vars /\ WF_vars(Tasks)
-----------------------------------------------------------------------------
(* Properties.                                                             *)

Below(c) == IF cursor[c] = None THEN {} ELSE {c} \X (1..cursor[c])

(* At least once: whatever crashes between a poll, a turn and the save of  *)
(* the cursor, and whichever saves fail, a message below the saved         *)
(* position has been handled to the end, unless it is one the adapters     *)
(* ignore or the loop was never given it: the backlog of a start without a *)
(* cursor, and what a limited answer of /sync leaves out.                  *)
HandledBelowCursor ==
  \A c \in Pollers : \A s \in Below(c) :
    s \in handled \/ s \in skipped \/ Message(s).says.kind = "noise"

\* An alert that went out on the decision's channel under the id the reply
\* answers.
Answered(d, a) ==
  a.channel = d.slot[1] /\ a.mid = Message(d.slot).says.mid

(* FR-GW-14: a bare reply decides the approval of an alert that went out,  *)
(* on that channel, under the id of the message it answers, and never of   *)
(* one that is older than the alert of the reply's own chat: where the ids *)
(* of two chats do not meet, that is the very alert that was answered.     *)
ReplyDecidesItsAlert ==
  \A d \in decisions :
    LET says == Message(d.slot).says
    IN  says.kind = "reply" =>
          \E a \in alerts :
            /\ Answered(d, a) /\ a.approval = d.id
            /\ \A b \in alerts : Answered(d, b) /\ b.chat = says.chat => b.at <= a.at

(* FR-GW-14: a decision over chat was made for the user the sending handle *)
(* is bound to, and that user was an approver at some moment since the     *)
(* handler bound it; roles that change in between may or may not count.    *)
DecisionsAreAuthorised ==
  [][\A d \in decisions' \ decisions :
       /\ d.user = UserOf[Message(d.slot).from]
       /\ task[d.slot].held]_vars

\* The loop waits for a call to the platform that will not return.
Stuck(c) ==
  \/ poller[c].pc = "hung"
  \/ poller[c].pc = "handling" /\ task[<<c, poller[c].next + 1>>].pc = "hung"

(* No standstill: a poller that handles a turn inline is not blocked for   *)
(* ever by an approval that only a later message of the same channel can   *)
(* give.  Again and again every poller has passed all that was posted,     *)
(* unless it is the Matrix poller and hangs in a call to its platform.     *)
PollersCatchUp ==
  []<>(\A c \in Pollers : \/ poller[c].next = Len(posted[c])
                          \/ Style[c] = "sync" /\ Stuck(c))
=============================================================================
