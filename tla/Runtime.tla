------------------------------ MODULE Runtime -------------------------------
(***************************************************************************)
(* The agent runtime: the broadcast bus, the capability registry, the      *)
(* supervisor and the dispatcher that callers use.                         *)
(*                                                                         *)
(* One call of Supervisor::spawn starts a life: a runner task that starts  *)
(* an agent loop as a task of its own, restarts it when it panics and      *)
(* cleans up when it gives up.  Aborting the runner does not abort the     *)
(* loop.  The loop takes one envelope at a time off the bus, which keeps   *)
(* the last Capacity envelopes for receivers that are behind.              *)
(***************************************************************************)
EXTENDS Naturals, Sequences

CONSTANTS
    AgentIds,    \* agent ids
    Provides,    \* agent id -> capabilities it declares
    Lives,       \* calls of Supervisor::spawn
    IdOf,        \* life -> the id of its agent
    Calls,       \* calls of Dispatcher::dispatch (their correlation ids)
    CapOf,       \* call -> the capability it asks for
    Nobody,      \* "no entry"
    Capacity,    \* IN_PROC_BUS_CAPACITY
    RestartMax,  \* restart_max_in_window
    MaxPanics,   \* bound: how often a handler panics
    MaxStops     \* bound: how often stop is called

ASSUME RuntimeAssumption ==
    /\ IdOf \in [Lives -> AgentIds]
    /\ DOMAIN Provides = AgentIds /\ DOMAIN CapOf = Calls
    /\ Nobody \notin Lives /\ Nobody \notin Calls
    /\ Capacity \in Nat \ {0}
    /\ RestartMax \in Nat /\ MaxPanics \in Nat /\ MaxStops \in Nat

VARIABLES
    registry,   \* ids the CapabilityRegistry has an entry for
    agents,     \* Supervisor.agents: id -> life
    handles,    \* Supervisor.handles: id -> life
    spawning,   \* how far each call of spawn is
    runner,     \* where each life's runner is
    restarts,   \* its restarts in the current window
    loop,       \* the life's loop: off, new (not subscribed yet), recv, handling
    cursor,     \* how many envelopes its receiver has passed; 0 when it has none
    job,        \* the call the loop is handling
    stopping,   \* id -> how far a call of stop is
    bus,        \* every envelope sent
    call,       \* where each dispatch is
    ear,        \* how many envelopes its receiver has passed; 0 when it has none
    handled,    \* call -> life -> how often the life took it up
    panics, stops

lifeVars == <<spawning, runner, restarts, loop, cursor, job, handled>>
supVars  == <<registry, agents, handles, stopping>>
callVars == <<call, ear>>
vars == <<registry, agents, handles, spawning, runner, restarts, loop, cursor,
          job, stopping, bus, call, ear, handled, panics, stops>>

Request(c) == [kind |-> "request", call |-> c]
Reply(c)   == [kind |-> "reply", call |-> c]

SpawnPc  == {"idle", "checked", "registered", "inserted", "started", "spawned", "refused"}
RunnerPc == {"none", "starting", "watching", "backoff", "unregistering",
             "unhandling", "removing", "ended", "aborted"}
CallPc   == {"idle", "resolved", "waiting", "answered", "timed_out", "refused"}

Envelopes == [kind : {"request", "reply"}, call : Calls]

\* The supervisor's tables.
TablesOK ==
    /\ registry \subseteq AgentIds
    /\ agents \in [AgentIds -> Lives \union {Nobody}]
    /\ handles \in [AgentIds -> Lives \union {Nobody}]
    /\ stopping \in [AgentIds -> {"no", "unregistering", "removing"}]
    /\ panics \in 0 .. MaxPanics /\ stops \in 0 .. MaxStops

\* The lives; a runner that may still restart its loop is within its budget.
LivesOK ==
    /\ spawning \in [Lives -> SpawnPc]
    /\ runner \in [Lives -> RunnerPc]
    /\ restarts \in [Lives -> 0 .. RestartMax + 1]
    /\ \A l \in Lives :
           runner[l] \in {"none", "starting", "watching", "backoff"} =>
               restarts[l] <= RestartMax
    /\ loop \in [Lives -> {"off", "new", "recv", "handling"}]
    /\ job \in [Lives -> Calls \union {Nobody}]
    /\ \A l \in Lives : loop[l] = "handling" => job[l] \in Calls

\* The bus and those who listen to it.
BusOK ==
    /\ bus \in Seq(Envelopes)
    /\ cursor \in [Lives -> 0 .. Len(bus)]
    /\ handled \in [Calls -> [Lives -> Nat]]
    /\ call \in [Calls -> CallPc]
    /\ ear \in [Calls -> 0 .. Len(bus)]

TypeOK == TablesOK /\ LivesOK /\ BusOK

Init ==
    /\ registry = {}
    /\ agents = [a \in AgentIds |-> Nobody]
    /\ handles = [a \in AgentIds |-> Nobody]
    /\ spawning = [l \in Lives |-> "idle"]
    /\ runner = [l \in Lives |-> "none"]
    /\ restarts = [l \in Lives |-> 0]
    /\ loop = [l \in Lives |-> "off"]
    /\ cursor = [l \in Lives |-> 0]
    /\ job = [l \in Lives |-> Nobody]
    /\ stopping = [a \in AgentIds |-> "no"]
    /\ bus = <<>>
    /\ call = [c \in Calls |-> "idle"]
    /\ ear = [c \in Calls |-> 0]
    /\ handled = [c \in Calls |-> [l \in Lives |-> 0]]
    /\ panics = 0
    /\ stops = 0

-----------------------------------------------------------------------------
(* Supervisor::spawn and Supervisor::stop, one critical section at a time. *)
(* One task drives the supervisor: main awaits each call before the next.  *)

Driving ==
    \/ \E l \in Lives : spawning[l] \in {"checked", "registered", "inserted", "started"}
    \/ \E a \in AgentIds : stopping[a] # "no"

SpawnTo(l, label) == spawning' = [spawning EXCEPT ![l] = label]

\* An id that is in the table is refused (DuplicateAgent).
SpawnCheck(l) ==
    /\ spawning[l] = "idle"
    /\ ~ Driving
    /\ SpawnTo(l, IF agents[IdOf[l]] = Nobody THEN "checked" ELSE "refused")
    /\ UNCHANGED <<supVars, runner, restarts, loop, cursor, job, handled,
                   bus, callVars, panics, stops>>

SpawnRegister(l) ==
    /\ spawning[l] = "checked"
    /\ SpawnTo(l, "registered")
    /\ registry' = registry \union {IdOf[l]}
    /\ UNCHANGED <<agents, handles, stopping, runner, restarts, loop, cursor, job,
                   handled, bus, callVars, panics, stops>>

SpawnInsert(l) ==
    /\ spawning[l] = "registered"
    /\ SpawnTo(l, "inserted")
    /\ agents' = [agents EXCEPT ![IdOf[l]] = l]
    /\ UNCHANGED <<registry, handles, stopping, runner, restarts, loop, cursor, job,
                   handled, bus, callVars, panics, stops>>

\* spawn_runner: the runner is a task of its own from here on.
SpawnStart(l) ==
    /\ spawning[l] = "inserted"
    /\ SpawnTo(l, "started")
    /\ runner' = [runner EXCEPT ![l] = "starting"]
    /\ UNCHANGED <<supVars, restarts, loop, cursor, job, handled, bus, callVars,
                   panics, stops>>

SpawnStore(l) ==
    /\ spawning[l] = "started"
    /\ SpawnTo(l, "spawned")
    /\ handles' = [handles EXCEPT ![IdOf[l]] = l]
    /\ UNCHANGED <<registry, agents, stopping, runner, restarts, loop, cursor, job,
                   handled, bus, callVars, panics, stops>>

CleaningUp == {"unregistering", "unhandling", "removing"}

\* stop (and shutdown, which stops every id in the table): the runner is
\* aborted, if its handle is there; its loop is not.  An abort waits for the
\* runner's next suspension, so a runner that cleans up may finish.
StopAbort(a) ==
    /\ ~ Driving
    /\ stops < MaxStops
    /\ stops' = stops + 1
    /\ stopping' = [stopping EXCEPT ![a] = "unregistering"]
    /\ handles' = [handles EXCEPT ![a] = Nobody]
    /\ \E spared \in {{"ended"}, {"ended"} \union CleaningUp} :
           runner' = [l \in Lives |->
                         IF l = handles[a] /\ runner[l] \notin spared THEN "aborted"
                                                                      ELSE runner[l]]
    /\ UNCHANGED <<registry, agents, spawning, restarts, loop, cursor, job, handled,
                   bus, callVars, panics>>

\* A bug to look for: stop forgets the registry.
StopKeepsEntry(a) ==
    /\ stopping[a] = "unregistering"
    /\ stopping' = [stopping EXCEPT ![a] = "removing"]
    /\ UNCHANGED <<registry, agents, handles, lifeVars, bus, callVars, panics, stops>>

StopUnregister(a) ==
    /\ stopping[a] = "unregistering"
    /\ stopping' = [stopping EXCEPT ![a] = "removing"]
    /\ registry' = registry \ {a}
    /\ UNCHANGED <<agents, handles, lifeVars, bus, callVars, panics, stops>>

StopRemove(a) ==
    /\ stopping[a] = "removing"
    /\ stopping' = [stopping EXCEPT ![a] = "no"]
    /\ agents' = [agents EXCEPT ![a] = Nobody]
    /\ UNCHANGED <<registry, handles, lifeVars, bus, callVars, panics, stops>>

-----------------------------------------------------------------------------
(* spawn_runner                                                            *)

RunnerTo(l, label) == runner' = [runner EXCEPT ![l] = label]

StartLoop(l) ==
    /\ runner[l] = "starting"
    /\ RunnerTo(l, "watching")
    /\ loop' = [loop EXCEPT ![l] = "new"]
    /\ UNCHANGED <<supVars, spawning, restarts, cursor, job, handled, bus, callVars,
                   panics, stops>>

\* The loop's task ended, which only a panic does: restart, unless there were
\* too many restarts in the window; the window may have run out.
NoticePanic(l) ==
    /\ runner[l] = "watching"
    /\ loop[l] = "off"
    /\ \E count \in {1, restarts[l] + 1} :
        /\ restarts' = [restarts EXCEPT ![l] = count]
        /\ RunnerTo(l, IF count > RestartMax THEN "unregistering" ELSE "backoff")
    /\ UNCHANGED <<supVars, spawning, loop, cursor, job, handled, bus, callVars,
                   panics, stops>>

\* A bug to look for: the doubled delay has no cap.
BackoffForever(l) == FALSE /\ UNCHANGED vars

Backoff(l) ==
    /\ runner[l] = "backoff"
    /\ RunnerTo(l, "starting")
    /\ UNCHANGED <<supVars, spawning, restarts, loop, cursor, job, handled, bus,
                   callVars, panics, stops>>

\* The runner gave up: registry, handles, agents, in this order.
GiveUp(l) ==
    /\ \/ /\ runner[l] = "unregistering"
          /\ registry' = registry \ {IdOf[l]}
          /\ RunnerTo(l, "unhandling")
          /\ UNCHANGED <<handles, agents>>
       \/ /\ runner[l] = "unhandling"
          /\ handles' = [handles EXCEPT ![IdOf[l]] = Nobody]
          /\ RunnerTo(l, "removing")
          /\ UNCHANGED <<registry, agents>>
       \/ /\ runner[l] = "removing"
          /\ agents' = [agents EXCEPT ![IdOf[l]] = Nobody]
          /\ RunnerTo(l, "ended")
          /\ UNCHANGED <<registry, handles>>
    /\ UNCHANGED <<stopping, spawning, restarts, loop, cursor, job, handled, bus,
                   callVars, panics, stops>>

-----------------------------------------------------------------------------
(* run_agent_loop                                                          *)

\* A bug to look for: a restarted loop reads what the bus still keeps.
SubscribeFromStart(l) ==
    /\ loop[l] = "new"
    /\ loop' = [loop EXCEPT ![l] = "recv"]
    /\ cursor' = [cursor EXCEPT ![l] = IF Len(bus) > Capacity THEN Len(bus) - Capacity ELSE 0]
    /\ UNCHANGED <<supVars, spawning, runner, restarts, job, handled, bus, callVars,
                   panics, stops>>

\* A new receiver sees what is sent from now on.
Subscribe(l) ==
    /\ loop[l] = "new"
    /\ loop' = [loop EXCEPT ![l] = "recv"]
    /\ cursor' = [cursor EXCEPT ![l] = Len(bus)]
    /\ UNCHANGED <<supVars, spawning, runner, restarts, job, handled, bus, callVars,
                   panics, stops>>

Lagged(at) == Len(bus) - at > Capacity

\* RecvError::Lagged: the receiver goes on with the oldest envelope kept.
LoopLags(l) ==
    /\ loop[l] = "recv"
    /\ Lagged(cursor[l])
    /\ cursor' = [cursor EXCEPT ![l] = Len(bus) - Capacity]
    /\ UNCHANGED <<supVars, spawning, runner, restarts, loop, job, handled, bus,
                   callVars, panics, stops>>

\* envelope_addressed_to; a reply is addressed to a caller, never to an agent.
AddressedTo(e, l) == e.kind = "request" /\ CapOf[e.call] \in Provides[IdOf[l]]

Receive(l) ==
    /\ loop[l] = "recv"
    /\ cursor[l] < Len(bus)
    /\ ~ Lagged(cursor[l])
    /\ cursor' = [cursor EXCEPT ![l] = @ + 1]
    /\ LET e == bus[cursor[l] + 1]
       IN  IF AddressedTo(e, l)
           THEN /\ loop' = [loop EXCEPT ![l] = "handling"]
                /\ job' = [job EXCEPT ![l] = e.call]
                /\ handled' = [handled EXCEPT ![e.call][l] = @ + 1]
           ELSE UNCHANGED <<loop, job, handled>>
    /\ UNCHANGED <<supVars, spawning, runner, restarts, bus, callVars, panics, stops>>

\* handle: a driver answers every request once, a bad or a failed one too.
HandleEnds(l) ==
    /\ loop[l] = "handling"
    /\ bus' = Append(bus, Reply(job[l]))
    /\ loop' = [loop EXCEPT ![l] = "recv"]
    /\ job' = [job EXCEPT ![l] = Nobody]
    /\ UNCHANGED <<supVars, spawning, runner, restarts, cursor, handled, callVars,
                   panics, stops>>

HandlePanics(l) ==
    /\ loop[l] = "handling"
    /\ panics < MaxPanics
    /\ panics' = panics + 1
    /\ loop' = [loop EXCEPT ![l] = "off"]
    /\ job' = [job EXCEPT ![l] = Nobody]
    /\ cursor' = [cursor EXCEPT ![l] = 0]
    /\ UNCHANGED <<supVars, spawning, runner, restarts, handled, bus, callVars,
                   stops>>

-----------------------------------------------------------------------------
(* Dispatcher::dispatch                                                    *)

CallTo(c, label) == call' = [call EXCEPT ![c] = label]

\* require_by_capability: fail closed.
Resolve(c) ==
    /\ call[c] = "idle"
    /\ CallTo(c, IF \E a \in registry : CapOf[c] \in Provides[a]
                 THEN "resolved" ELSE "refused")
    /\ UNCHANGED <<supVars, lifeVars, bus, ear, panics, stops>>

\* Subscribe, then send.
Send(c) ==
    /\ call[c] = "resolved"
    /\ CallTo(c, "waiting")
    /\ ear' = [ear EXCEPT ![c] = Len(bus)]
    /\ bus' = Append(bus, Request(c))
    /\ UNCHANGED <<supVars, lifeVars, panics, stops>>

CallLags(c) ==
    /\ call[c] = "waiting"
    /\ Lagged(ear[c])
    /\ ear' = [ear EXCEPT ![c] = Len(bus) - Capacity]
    /\ UNCHANGED <<supVars, lifeVars, bus, call, panics, stops>>

\* A bug to look for: any envelope with the correlation id is the reply, the
\* request itself too.
HearOwnRequest(c) ==
    /\ call[c] = "waiting"
    /\ ear[c] < Len(bus)
    /\ ~ Lagged(ear[c])
    /\ LET e == bus[ear[c] + 1]
       IN  IF e.call = c
           THEN CallTo(c, "answered") /\ ear' = [ear EXCEPT ![c] = 0]
           ELSE ear' = [ear EXCEPT ![c] = @ + 1] /\ UNCHANGED call
    /\ UNCHANGED <<supVars, lifeVars, bus, panics, stops>>

\* The reply has the correlation id and is addressed to the caller.
Hear(c) ==
    /\ call[c] = "waiting"
    /\ ear[c] < Len(bus)
    /\ ~ Lagged(ear[c])
    /\ LET e == bus[ear[c] + 1]
       IN  IF e.kind = "reply" /\ e.call = c
           THEN CallTo(c, "answered") /\ ear' = [ear EXCEPT ![c] = 0]
           ELSE ear' = [ear EXCEPT ![c] = @ + 1] /\ UNCHANGED call
    /\ UNCHANGED <<supVars, lifeVars, bus, panics, stops>>

\* A bug to look for: every envelope heard moves the deadline.
NeverTimesOut(c) == FALSE /\ UNCHANGED vars

TimeOut(c) ==
    /\ call[c] = "waiting"
    /\ CallTo(c, "timed_out")
    /\ ear' = [ear EXCEPT ![c] = 0]
    /\ UNCHANGED <<supVars, lifeVars, bus, panics, stops>>

-----------------------------------------------------------------------------
Spawn(l) ==
    SpawnCheck(l) \/ SpawnRegister(l) \/ SpawnInsert(l) \/ SpawnStart(l) \/ SpawnStore(l)

Stop(a) == StopAbort(a) \/ StopUnregister(a) \/ StopRemove(a)

Runner(l) == StartLoop(l) \/ NoticePanic(l) \/ Backoff(l) \/ GiveUp(l)

Loop(l) == Subscribe(l) \/ LoopLags(l) \/ Receive(l) \/ HandleEnds(l)

Dispatch(c) == Resolve(c) \/ Send(c) \/ CallLags(c) \/ Hear(c) \/ TimeOut(c)

Next ==
    \/ \E l \in Lives : Spawn(l) \/ Runner(l) \/ Loop(l) \/ HandlePanics(l)
    \/ \E a \in AgentIds : Stop(a)
    \/ \E c \in Calls : Dispatch(c)

\* Runners and dispatches are tasks of the async runtime; backoff and dispatch
\* have timers.  A handler may take for ever.
Fairness ==
    /\ \A l \in Lives : WF_vars(Runner(l)) /\ WF_vars(Subscribe(l))
    /\ \A c \in Calls : WF_vars(Send(c)) /\ WF_vars(TimeOut(c))

Spec == Init /\ [][Next]_vars /\ Fairness

-----------------------------------------------------------------------------
(* Properties                                                              *)

\* What resolves can be served: an id in the registry belongs to a life that is
\* being spawned, runs, restarts or is just being unregistered.  So a dispatch
\* that finds its capability is never sent to agents that are all gone for
\* good, however panics, give-ups, stops and spawns interleave.
RegistryIsHonest ==
    \A a \in registry :
        \/ stopping[a] = "unregistering"
        \/ \E l \in Lives :
               /\ IdOf[l] = a
               /\ \/ spawning[l] \in {"registered", "inserted"}
                  \/ runner[l] \in {"starting", "watching", "backoff", "unregistering"}

\* No agent takes up the same request twice: not after a lag, not when it is
\* restarted after a panic in the middle of it.  (subscribe, run_agent_loop)
NoReplay == \A c \in Calls, l \in Lives : handled[c][l] <= 1

\* The dispatcher keeps the promises of module Exchange.
Outside(c) == IF call[c] = "resolved" THEN "idle" ELSE call[c]
IsExchange == INSTANCE Exchange WITH
    state <- [c \in Calls |-> Outside(c)],
    taken <- {c \in Calls : \E l \in Lives : handled[c][l] > 0}
ExchangeSpec == IsExchange!Spec

\* A dispatch that found its capability ends, whatever agents do.
CallsEnd == \A c \in Calls : call[c] = "resolved" ~> call[c] \in {"answered", "timed_out"}

\* An agent that panicked serves again or is given up, unless it is stopped.
PanicsAreNoticed ==
    \A l \in Lives :
        (runner[l] = "watching" /\ loop[l] = "off") ~>
            (loop[l] = "recv" \/ runner[l] \in {"ended", "aborted"})
=============================================================================
