-------------------------------- MODULE Chat ---------------------------------
(***************************************************************************)
(* Chat turns: the browser's chat panel (components/chat_bubble.rs), its   *)
(* socket (ws.rs), the turn loop (chat.rs), the hot conversation list      *)
(* (daimon-redis) and the durable, owner-scoped history (db.rs,            *)
(* admin_chat_sessions.rs).                                                *)
(*                                                                         *)
(* A socket runs its turns one after the other; turns of different sockets *)
(* may run in one session at the same time.  A stored message is the pair  *)
(* <<turn, position in that turn's own history>>.                          *)
(***************************************************************************)
EXTENDS Integers, Sequences, FiniteSets

CONSTANTS
  Clients, UserOf,   \* chat panels, and the user each is signed in as
  Sessions, Admins,
  Picks, Permitted,  \* model selections, and those the configuration permits
  Llms,              \* providers llm.provider may name
  Tools,             \* tool names the model may call
  MemoryTools,       \* those served by the memory tier (memory.log_*)
  MaxLoops,          \* max_loops
  MaxCalls,          \* tool calls of the turns under way together
  MaxTurns,          \* messages sent in a behaviour
  MaxDetours,        \* events beside the turns: lost writes, switches,
                     \* deletions, expiries and disconnections
  Retain,            \* FALSE when chat.retention_days is non-zero
  None

ASSUME ChatAssumption ==
  /\ MaxLoops \in Nat \ {0} /\ MaxTurns \in Nat /\ MaxCalls \in Nat
  /\ Permitted \subseteq Picks /\ MemoryTools \subseteq Tools
  /\ None \notin Sessions /\ Sessions # {}
  /\ Llms \subseteq {"anthropic", "chatgpt", "openai", "local"}

VARIABLES
  turn,      \* turn -> its progress
  panel,     \* client -> [current, busy, lost, socket]
  wire,      \* client -> turns sent on its socket and not yet taken
  events,    \* client -> "done" and "error" events not yet received
  owner,     \* chat_sessions: session -> owning user, or None
  log,       \* chat_turns: session -> stored messages
  hot,       \* daimon:conv:<session> -> stored messages
  deleting,  \* client -> session its delete request was authorised for
  detours

vars == <<turn, panel, wire, events, owner, log, hot, deleting, detours>>
browser == <<panel, deleting>>
tiers == <<owner, log, hot>>
-----------------------------------------------------------------------------
Turns == 1..MaxTurns
Unsent == [pc |-> "unsent"]
Sent == {t \in Turns : turn[t].pc # "unsent"}
Running(t) == turn[t].pc \notin {"unsent", "queued", "ended"}
Active(s) == \E t \in Sent : Running(t) /\ turn[t].sid = s

Over(t) == [pc |-> "ended", client |-> turn[t].client, sid |-> turn[t].sid]

Text(role) == [role |-> role]
Reply(calls) == [role |-> "assistant", calls |-> calls]
Result(call) == [role |-> "tool", call |-> call]

\* A page that was just loaded: its socket is being opened.  lost says that a
\* message went nowhere and nothing made the panel ready again since.
Loaded(s) == [current |-> s, busy |-> FALSE, lost |-> FALSE, socket |-> "connecting"]
Alive(c) == panel[c].socket # "broken"

Init ==
  /\ turn = [t \in Turns |-> Unsent]
  /\ panel = [c \in Clients |-> Loaded(CHOOSE s \in Sessions : TRUE)]
  /\ wire = [c \in Clients |-> <<>>]
  /\ events = [c \in Clients |-> <<>>]
  /\ owner = [s \in Sessions |-> None]
  /\ log = [s \in Sessions |-> <<>>]
  /\ hot = [s \in Sessions |-> <<>>]
  /\ deleting = [c \in Clients |-> None]
  /\ detours = 0

Detour == detours < MaxDetours /\ detours' = detours + 1
-----------------------------------------------------------------------------
(* The panel.                                                              *)

\* Another session is selected, or a fresh one is begun.
Switch(c, s) ==
  /\ Alive(c) /\ s # panel[c].current /\ Detour
  /\ panel' = [panel EXCEPT ![c].current = s]
  /\ UNCHANGED <<tiers, turn, wire, events, deleting>>

\* onopen.
Opened(c) ==
  /\ panel[c].socket = "connecting"
  /\ panel' = [panel EXCEPT ![c].socket = "open"]
  /\ UNCHANGED <<tiers, turn, wire, events, deleting, detours>>

\* The panel shows that it is busy and sends the message with the chosen
\* model.  On a socket that is closed, or not open yet, send fails, which is
\* ignored, and the message goes nowhere.
Send(c, p) ==
  /\ Alive(c) /\ Sent # Turns
  /\ LET t == Cardinality(Sent) + 1
     IN  IF panel[c].socket = "open"
         THEN /\ turn' = [turn EXCEPT ![t] =
                   [pc |-> "queued", client |-> c, sid |-> panel[c].current,
                    pick |-> p, heard |-> TRUE]]
              /\ wire' = [wire EXCEPT ![c] = Append(@, t)]
         ELSE /\ turn' = [turn EXCEPT ![t] = [pc |-> "ended", client |-> c,
                                              sid |-> panel[c].current]]
              /\ UNCHANGED wire
  /\ panel' = [panel EXCEPT ![c].busy = TRUE,
                            ![c].lost = @ \/ panel[c].socket = "connecting"]
  /\ UNCHANGED <<tiers, events, deleting, detours>>

\* AgentDone or Error arrives.
Receive(c) ==
  /\ Alive(c) /\ events[c] # <<>>
  /\ events' = [events EXCEPT ![c] = Tail(@)]
  /\ panel' = [panel EXCEPT ![c].busy = FALSE, ![c].lost = FALSE]
  /\ UNCHANGED <<tiers, turn, wire, deleting, detours>>

\* A tool result is shown up to its byte 1200; when that is within a character
\* the page may stop working.
Panic(c) ==
  /\ Alive(c) /\ Detour
  /\ \E t \in Sent : /\ Running(t) /\ turn[t].client = c /\ turn[t].heard
                     /\ "history" \in DOMAIN turn[t]
                     /\ \E i \in DOMAIN turn[t].history : turn[t].history[i].role = "tool"
  /\ panel' = [panel EXCEPT ![c].socket = "broken"]
  /\ UNCHANGED <<tiers, turn, wire, events, deleting>>

\* onclose, or the page is left.  What the socket has not delivered is lost; a
\* turn under way goes on.
Disconnect(c) ==
  /\ panel[c].socket # "closed" /\ Detour
  /\ panel' = [panel EXCEPT ![c].socket = "closed"]
  /\ turn' = [t \in Turns |->
                IF t \in Sent /\ turn[t].client = c
                THEN IF Running(t) THEN [turn[t] EXCEPT !.heard = FALSE]
                     ELSE Over(t)
                ELSE turn[t]]
  /\ wire' = [wire EXCEPT ![c] = <<>>]
  /\ events' = [events EXCEPT ![c] = <<>>]
  /\ UNCHANGED <<tiers, deleting>>

\* The page is loaded again.
Reload(c) ==
  /\ panel[c].socket = "closed"
  /\ panel' = [panel EXCEPT ![c] = Loaded(panel[c].current)]
  /\ UNCHANGED <<tiers, turn, wire, events, deleting, detours>>

\* delete_chat_session reads the session's owner and authorises the caller ...
AskDelete(c, s) ==
  /\ Alive(c) /\ deleting[c] = None /\ Detour
  /\ UserOf[c] \in {owner[s]} \cup Admins \/ owner[s] = None
  /\ deleting' = [deleting EXCEPT ![c] = s]
  /\ UNCHANGED <<tiers, turn, panel, wire, events>>

\* ... and then removes the rows, which cascades to the turns, and the key
\* daimon:kv:chat:<session>, which is not the key of the hot list.  The panel
\* moves to another session when it showed this one.
Delete(c) ==
  LET s == deleting[c]
  IN  /\ s # None
      /\ owner' = [owner EXCEPT ![s] = None]
      /\ log' = [log EXCEPT ![s] = <<>>]
      /\ deleting' = [deleting EXCEPT ![c] = None]
      /\ IF panel[c].current = s /\ Alive(c)
         THEN \E r \in Sessions \ {s} : panel' = [panel EXCEPT ![c].current = r]
         ELSE UNCHANGED panel
      /\ UNCHANGED <<turn, wire, events, hot, detours>>
-----------------------------------------------------------------------------
(* The tiers.                                                              *)

\* prune_chat_history: a session without activity leaves the durable history.
Prune(s) ==
  /\ ~Retain /\ owner[s] # None /\ ~Active(s) /\ Detour
  /\ owner' = [owner EXCEPT ![s] = None]
  /\ log' = [log EXCEPT ![s] = <<>>]
  /\ UNCHANGED <<turn, panel, wire, events, hot, deleting>>

\* The hot list expires after a day without a message.
Expire(s) ==
  /\ hot[s] # <<>> /\ ~Active(s) /\ Detour
  /\ hot' = [hot EXCEPT ![s] = <<>>]
  /\ UNCHANGED <<turn, panel, wire, events, owner, log, deleting>>
-----------------------------------------------------------------------------
(* The turn loop.                                                          *)

\* A turn's end is told to its panel, if its socket is still open.
Tell(t, e) ==
  events' = IF turn[t].heard
            THEN [events EXCEPT ![turn[t].client] = Append(@, e)]
            ELSE events

EndWith(t, e) ==
  /\ turn' = [turn EXCEPT ![t] = Over(t)]
  /\ Tell(t, e)

\* handle_ws takes the next message of its socket.
Take(c) ==
  /\ wire[c] # <<>>
  /\ ~\E t \in Sent : Running(t) /\ turn[t].client = c /\ turn[t].heard
  /\ turn' = [turn EXCEPT ![Head(wire[c])].pc = "check"]
  /\ wire' = [wire EXCEPT ![c] = Tail(@)]
  /\ UNCHANGED <<browser, tiers, events, detours>>

\* The selection is validated, the client is built and the history is loaded;
\* each may end the turn.  The owner of the durable history may be unknown.
\* The history is what this turn adds: before it stand the session's earlier
\* messages, without their tool calls (conv_to_chat).
Open(t) ==
  /\ turn[t].pc = "check"
  /\ \/ EndWith(t, "error") /\ UNCHANGED detours
     \/ /\ turn[t].pick \in Permitted
        /\ \E known \in BOOLEAN, llm \in Llms :
           /\ IF known THEN UNCHANGED detours ELSE Detour
           /\ turn' = [turn EXCEPT ![t] =
               [pc |-> IF known THEN "own" ELSE "push",
                client |-> @.client, sid |-> @.sid, heard |-> @.heard,
                known |-> known, llm |-> llm,
                loops |-> 0, last |-> FALSE, todo |-> <<>>,
                history |-> <<Text("user")>>]]
        /\ UNCHANGED events
  /\ UNCHANGED <<browser, tiers, wire>>

\* Mutant: the user's message is stored in place of each later one.
LastUser(t) == <<t, 1>>

\* The message just added to the history, which is the one to store.
Last(t) == <<t, Len(turn[t].history)>>

\* append_chat_turn, first statement: the session is inserted, or found to be
\* this user's; another user's session refuses the message.  The write is
\* best-effort.
Own(t) ==
  LET s == turn[t].sid
      u == UserOf[turn[t].client]
  IN  /\ turn[t].pc = "own"
      /\ \/ /\ owner[s] \in {None, u}
            /\ owner' = [owner EXCEPT ![s] = u]
            /\ turn' = [turn EXCEPT ![t].pc = "insert"]
            /\ UNCHANGED detours
         \/ /\ owner[s] \notin {None, u} \/ detours < MaxDetours
            /\ turn' = [turn EXCEPT ![t].pc = "push"]
            /\ detours' = IF owner[s] \in {None, u} THEN detours + 1 ELSE detours
            /\ UNCHANGED owner
      /\ UNCHANGED <<browser, wire, events, log, hot>>

\* Second statement: the message.  It fails when the session is gone.
Insert(t) ==
  LET s == turn[t].sid
  IN  /\ turn[t].pc = "insert"
      /\ log' = IF owner[s] = None THEN log
                ELSE [log EXCEPT ![s] = Append(@, Last(t))]
      /\ turn' = [turn EXCEPT ![t].pc = "push"]
      /\ UNCHANGED <<browser, wire, events, owner, hot, detours>>

\* What follows once a message is stored: the next tool call, the next
\* request, or the end when the model did not stop for tools.
Following(t) == IF turn[t].last THEN "done"
            ELSE IF turn[t].todo = <<>> THEN "ask" ELSE "call"

\* conv_push, whose failure is ignored.
Push(t) ==
  /\ turn[t].pc = "push"
  /\ \/ /\ hot' = [hot EXCEPT ![turn[t].sid] = Append(@, Last(t))]
        /\ UNCHANGED detours
     \/ Detour /\ UNCHANGED hot
  /\ turn' = [turn EXCEPT ![t].pc = Following(t)]
  /\ UNCHANGED <<browser, wire, events, owner, log>>

Calls == UNION {[1..n -> Tools] : n \in 0..MaxCalls}

\* The tool calls turn t was asked for so far.
Asked(t) ==
  IF "history" \notin DOMAIN turn[t] THEN {}
  ELSE UNION {{<<t, i, k>> : k \in DOMAIN turn[t].history[i].calls} :
                i \in {j \in DOMAIN turn[t].history :
                         turn[t].history[j].role = "assistant"}}
CallsLeft == MaxCalls - Cardinality(UNION {Asked(t) : t \in Turns})

\* What the stream of a provider can add up to: the tool calls it completed
\* and whether the turn is over, that is, it did not stop for tools (or broke
\* off before it said why it stopped).
AnthropicAnswers == {a \in [calls : Calls, last : BOOLEAN] : a.last \/ a.calls # <<>>}
\* A Responses stream stopped for tools iff its output has a function call.
ChatGptAnswers == AnthropicAnswers
\* The stream's tool calls are not read, its finish reason is.
OpenAiAnswers == [calls : {<<>>}, last : BOOLEAN]
\* Ollama's stream has neither.
LocalAnswers == [calls : {<<>>}, last : {TRUE}]

Answers(llm) == CASE llm = "anthropic" -> AnthropicAnswers
                  [] llm = "chatgpt"   -> ChatGptAnswers
                  [] llm = "openai"    -> OpenAiAnswers
                  [] llm = "local"     -> LocalAnswers

\* The model's reply joins the history and is stored.  When the turn is over
\* the calls it completed are not made.
Answer(t, a) ==
  turn' = [turn EXCEPT
    ![t].pc = IF turn[t].known THEN "own" ELSE "push",
    ![t].loops = @ + 1, ![t].last = a.last,
    ![t].todo = IF a.last THEN <<>> ELSE a.calls,
    ![t].history = Append(@, Reply(a.calls))]

\* Mutant: an exhausted budget ends the turn without a word.
AskSilently(t) ==
  /\ turn[t].pc = "ask"
  /\ \/ /\ turn[t].loops = MaxLoops
        /\ turn' = [turn EXCEPT ![t] = Over(t)]
        /\ UNCHANGED events
     \/ EndWith(t, "error")
     \/ /\ turn[t].loops < MaxLoops
        /\ \E a \in Answers(turn[t].llm) :
             Len(a.calls) <= CallsLeft /\ Answer(t, a)
        /\ UNCHANGED events
  /\ UNCHANGED <<browser, tiers, wire, detours>>

\* One request.  It is refused when the loop budget is spent, it may fail, or
\* its stream may break off, and nothing of it is then kept.
Ask(t) ==
  /\ turn[t].pc = "ask"
  /\ \/ EndWith(t, "error")
     \/ /\ turn[t].loops < MaxLoops
        /\ \E a \in Answers(turn[t].llm) :
             Len(a.calls) <= CallsLeft /\ Answer(t, a)
        /\ UNCHANGED events
  /\ UNCHANGED <<browser, tiers, wire, detours>>

Done(t) ==
  /\ turn[t].pc = "done"
  /\ EndWith(t, "done")
  /\ UNCHANGED <<browser, tiers, wire, detours>>

\* Mutant: a memory tool's result is stored but not given back to the model.
CallUnanswered(t) ==
  /\ turn[t].pc = "call"
  /\ LET tool == Head(turn[t].todo)
     IN  turn' = [turn EXCEPT
           ![t].todo = Tail(@),
           ![t].pc = IF tool \notin MemoryTools THEN "push"
                     ELSE IF Tail(turn[t].todo) = <<>> THEN "ask" ELSE "call",
           ![t].history = IF tool \in MemoryTools THEN @
                          ELSE Append(@, Result(tool))]
  /\ UNCHANGED <<browser, tiers, wire, events, detours>>

\* The next tool call: a memory.log_ tool is captured, any other dispatched to
\* the agent that provides it, which answers within 35 s or is given up.
\* Either way a result joins the history; a driver's is kept in the hot list
\* only.
Call(t) ==
  /\ turn[t].pc = "call"
  /\ LET tool == Head(turn[t].todo)
     IN  turn' = [turn EXCEPT
           ![t].todo = Tail(@),
           ![t].pc = IF turn[t].known /\ tool \in MemoryTools
                     THEN "own" ELSE "push",
           ![t].history = Append(@, Result(tool))]
  /\ UNCHANGED <<browser, tiers, wire, events, detours>>

-----------------------------------------------------------------------------
TurnStep(t) == Open(t) \/ Own(t) \/ Insert(t) \/ Push(t) \/ Ask(t) \/ Done(t)
                 \/ Call(t)

Next ==
  \/ \E c \in Clients : \/ \E s \in Sessions : Switch(c, s) \/ AskDelete(c, s)
                        \/ \E p \in Picks : Send(c, p)
                        \/ Opened(c) \/ Receive(c) \/ Panic(c)
                        \/ Disconnect(c) \/ Reload(c) \/ Delete(c) \/ Take(c)
  \/ \E s \in Sessions : Prune(s) \/ Expire(s)
  \/ \E t \in Turns : TurnStep(t)

Spec == Init /\ [][Next]_vars
-----------------------------------------------------------------------------
\* What a request shows the model of its own turn is well formed: each tool
\* call of a reply is followed by its result, in the order of the calls, before
\* anything else (the tool loop of handle_chat_send).
EveryCallAnswered ==
  \A t \in Sent : turn[t].pc = "ask" =>
    LET h == turn[t].history
    IN  \A i \in {j \in DOMAIN h : h[j].role = "assistant"} :
          \A k \in DOMAIN h[i].calls :
            /\ i + k \in DOMAIN h
            /\ h[i + k] = Result(h[i].calls[k])

\* Whatever else is written to a session at the same time, and whichever writes
\* are lost, both tiers keep a turn's messages in the order in which the turn
\* produced them, and none twice (append_chat_turn, conv_push).
StoredInOrder ==
  \A s \in Sessions : \A tier \in {log[s], hot[s]} :
    \A i, j \in DOMAIN tier :
      i < j /\ tier[i][1] = tier[j][1] => tier[i][2] < tier[j][2]

\* A panel waits for the server: it is busy with a message that was sent.
Waits(c) == panel[c].socket = "open" /\ panel[c].busy /\ ~panel[c].lost

\* A panel does not wait for nothing: a message of it is on the wire, a turn of
\* it is running, or the event that makes it ready again is on its way.  The
\* one way to be busy for nothing on an open socket is a message sent before
\* the socket was open (every exit of handle_chat_send, chat_bubble.rs).
BusyMeansPending ==
  \A c \in Clients : Waits(c) =>
    \/ wire[c] # <<>> \/ events[c] # <<>>
    \/ \E t \in Sent : Running(t) /\ turn[t].client = c /\ turn[t].heard
=============================================================================
