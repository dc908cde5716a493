--------------------------- MODULE RuntimeProofs ----------------------------
(***************************************************************************)
(* Proofs about module Runtime, for any agents, lives, calls, capacity of  *)
(* the bus, restart budget, and number of panics and stops.                *)
(***************************************************************************)
EXTENDS Runtime, Integers, TLAPS

\* Whose handle is stored under an id, and which lives have no runner yet.
Ownership ==
    /\ \A a \in AgentIds : handles[a] # Nobody =>
           IdOf[handles[a]] = a /\ spawning[handles[a]] = "spawned"
    /\ \A l \in Lives :
           spawning[l] \in {"idle", "checked", "registered", "inserted"} =>
               runner[l] = "none"

\* The supervisor's tables keep their types.
LEMMA TablesStep == TablesOK /\ [Next]_vars => TablesOK'
<1> SUFFICES ASSUME TablesOK, [Next]_vars PROVE TablesOK'
  OBVIOUS
<1> USE RuntimeAssumption DEF TablesOK
<1>1. ASSUME NEW l \in Lives, Spawn(l) PROVE TablesOK'
  BY <1>1 DEF Spawn, SpawnCheck, SpawnRegister, SpawnInsert, SpawnStart, SpawnStore, supVars
<1>2. ASSUME NEW l \in Lives, Runner(l) PROVE TablesOK'
  BY <1>2 DEF Runner, StartLoop, NoticePanic, Backoff, GiveUp, supVars
<1>3. ASSUME NEW l \in Lives, Loop(l) \/ HandlePanics(l) PROVE TablesOK'
  BY <1>3 DEF Loop, Subscribe, LoopLags, Receive, HandleEnds, HandlePanics, supVars
<1>4. ASSUME NEW a \in AgentIds, Stop(a) PROVE TablesOK'
  BY <1>4 DEF Stop, StopAbort, StopUnregister, StopRemove
<1>5. ASSUME NEW c \in Calls, Dispatch(c) PROVE TablesOK'
  BY <1>5 DEF Dispatch, Resolve, Send, CallLags, Hear, TimeOut, supVars
<1>6. CASE UNCHANGED vars
  BY <1>6 DEF vars
<1> QED
  BY <1>1, <1>2, <1>3, <1>4, <1>5, <1>6 DEF Next

\* A handle is stored under the id of its own life, by a spawn that is over.
LEMMA OwnershipStep == TablesOK /\ LivesOK /\ Ownership /\ [Next]_vars => Ownership'
<1> SUFFICES ASSUME TablesOK, LivesOK, Ownership, [Next]_vars PROVE Ownership'
  OBVIOUS
<1> USE RuntimeAssumption DEF TablesOK, LivesOK, Ownership
<1>1. ASSUME NEW l \in Lives, Spawn(l) PROVE Ownership'
  <2>1. CASE SpawnStore(l)
    BY <2>1 DEF SpawnStore, SpawnTo, SpawnPc
  <2>2. CASE SpawnStart(l)
    BY <2>2 DEF SpawnStart, SpawnTo, supVars
  <2>3. CASE SpawnCheck(l) \/ SpawnRegister(l) \/ SpawnInsert(l)
    BY <2>3 DEF SpawnCheck, SpawnRegister, SpawnInsert, SpawnTo, supVars
  <2> QED
    BY <1>1, <2>1, <2>2, <2>3 DEF Spawn
<1>2. ASSUME NEW l \in Lives, Runner(l) PROVE Ownership'
  BY <1>2 DEF Runner, StartLoop, NoticePanic, Backoff, GiveUp, RunnerTo, supVars
<1>3. ASSUME NEW l \in Lives, Loop(l) \/ HandlePanics(l) PROVE Ownership'
  BY <1>3 DEF Loop, Subscribe, LoopLags, Receive, HandleEnds, HandlePanics, supVars
<1>4. ASSUME NEW a \in AgentIds, Stop(a) PROVE Ownership'
  <2>1. CASE StopAbort(a)
    BY <2>1 DEF StopAbort, SpawnPc
  <2>2. CASE StopUnregister(a) \/ StopRemove(a)
    BY <2>2 DEF StopUnregister, StopRemove, lifeVars
  <2> QED
    BY <1>4, <2>1, <2>2 DEF Stop
<1>5. ASSUME NEW c \in Calls, Dispatch(c) PROVE Ownership'
  BY <1>5 DEF Dispatch, Resolve, Send, CallLags, Hear, TimeOut, supVars, lifeVars
<1>6. CASE UNCHANGED vars
  BY <1>6 DEF vars
<1> QED
  BY <1>1, <1>2, <1>3, <1>4, <1>5, <1>6 DEF Next

\* Runners and loops keep their types and their restart budget.
LEMMA LivesStep ==
    TablesOK /\ LivesOK /\ BusOK /\ Ownership /\ [Next]_vars => LivesOK'
<1> SUFFICES ASSUME TablesOK, LivesOK, BusOK, Ownership, [Next]_vars PROVE LivesOK'
  OBVIOUS
<1> USE RuntimeAssumption DEF LivesOK, SpawnPc, RunnerPc
<1>1. ASSUME NEW l \in Lives, Spawn(l) PROVE LivesOK'
  <2>1. CASE SpawnStart(l)
    BY <2>1 DEF SpawnStart, SpawnTo, Ownership
  <2>2. CASE SpawnCheck(l) \/ SpawnRegister(l) \/ SpawnInsert(l) \/ SpawnStore(l)
    BY <2>2 DEF SpawnCheck, SpawnRegister, SpawnInsert, SpawnStore, SpawnTo
  <2> QED
    BY <1>1, <2>1, <2>2 DEF Spawn
<1>2. ASSUME NEW l \in Lives, Runner(l) PROVE LivesOK'
  <2>1. CASE StartLoop(l)
    BY <2>1 DEF StartLoop, RunnerTo
  <2>2. CASE NoticePanic(l)
    BY <2>2 DEF NoticePanic, RunnerTo
  <2>3. CASE Backoff(l) \/ GiveUp(l)
    BY <2>3 DEF Backoff, GiveUp, RunnerTo
  <2> QED
    BY <1>2, <2>1, <2>2, <2>3 DEF Runner
<1>3. ASSUME NEW l \in Lives, Loop(l) \/ HandlePanics(l) PROVE LivesOK'
  <2>1. CASE Receive(l)
    <3>1. bus[cursor[l] + 1] \in Envelopes
      BY <2>1 DEF Receive, BusOK
    <3>2. bus[cursor[l] + 1].call \in Calls
      BY <3>1 DEF Envelopes
    <3> QED
      BY <2>1, <3>2 DEF Receive
  <2>2. CASE Subscribe(l) \/ LoopLags(l) \/ HandleEnds(l) \/ HandlePanics(l)
    BY <2>2 DEF Subscribe, LoopLags, HandleEnds, HandlePanics
  <2> QED
    BY <1>3, <2>1, <2>2 DEF Loop
<1>4. ASSUME NEW a \in AgentIds, Stop(a) PROVE LivesOK'
  BY <1>4 DEF Stop, StopAbort, StopUnregister, StopRemove, lifeVars
<1>5. ASSUME NEW c \in Calls, Dispatch(c) PROVE LivesOK'
  BY <1>5 DEF Dispatch, Resolve, Send, CallLags, Hear, TimeOut, lifeVars
<1>6. CASE UNCHANGED vars
  BY <1>6 DEF vars
<1> QED
  BY <1>1, <1>2, <1>3, <1>4, <1>5, <1>6 DEF Next

\* The bus and the places of its receivers keep their types.
LEMMA BusStep == LivesOK /\ BusOK /\ [Next]_vars => BusOK'
<1> SUFFICES ASSUME LivesOK, BusOK, [Next]_vars PROVE BusOK'
  OBVIOUS
<1> USE RuntimeAssumption DEF BusOK
<1>0. Len(bus) \in Nat /\ 0 \in 0 .. Len(bus)
  OBVIOUS
<1>1. ASSUME NEW l \in Lives, Spawn(l) PROVE BusOK'
  BY <1>1 DEF Spawn, SpawnCheck, SpawnRegister, SpawnInsert, SpawnStart, SpawnStore, callVars
<1>2. ASSUME NEW l \in Lives, Runner(l) PROVE BusOK'
  BY <1>2 DEF Runner, StartLoop, NoticePanic, Backoff, GiveUp, callVars
<1>3. ASSUME NEW l \in Lives, Loop(l) \/ HandlePanics(l) PROVE BusOK'
  <2>1. CASE Receive(l)
    <3>0. bus[cursor[l] + 1] \in Envelopes
      BY <2>1 DEF Receive
    <3>1. bus[cursor[l] + 1].call \in Calls
      BY <3>0 DEF Envelopes
    <3>2. cursor' \in [Lives -> 0 .. Len(bus)]
      BY <2>1 DEF Receive
    <3>3. handled' \in [Calls -> [Lives -> Nat]]
      <4>1. CASE UNCHANGED handled
        BY <4>1
      <4>2. CASE handled' = [handled EXCEPT ![bus[cursor[l] + 1].call][l] = @ + 1]
        <5> DEFINE c == bus[cursor[l] + 1].call
        <5>1. handled[c] \in [Lives -> Nat] /\ handled[c][l] + 1 \in Nat
          BY <3>1
        <5>2. [handled[c] EXCEPT ![l] = @ + 1] \in [Lives -> Nat]
          BY <5>1
        <5> QED
          BY <3>1, <4>2, <5>2
      <4> QED
        BY <2>1, <4>1, <4>2 DEF Receive
    <3> QED
      BY <2>1, <3>2, <3>3 DEF Receive, callVars
  <2>2. CASE HandleEnds(l)
    <3>1. Reply(job[l]) \in Envelopes
      BY <2>2 DEF HandleEnds, LivesOK, Reply, Envelopes
    <3>2. bus' \in Seq(Envelopes) /\ Len(bus') = Len(bus) + 1
      BY <2>2, <3>1 DEF HandleEnds
    <3> QED
      BY <2>2, <3>2 DEF HandleEnds, callVars
  <2>3. CASE Subscribe(l) \/ HandlePanics(l)
    BY <2>3 DEF Subscribe, HandlePanics, callVars
  <2>4. CASE LoopLags(l)
    BY <2>4 DEF LoopLags, Lagged, callVars
  <2> QED
    BY <1>3, <2>1, <2>2, <2>3, <2>4 DEF Loop
<1>4. ASSUME NEW a \in AgentIds, Stop(a) PROVE BusOK'
  BY <1>4 DEF Stop, StopAbort, StopUnregister, StopRemove, lifeVars, callVars
<1>5. ASSUME NEW c \in Calls, Dispatch(c) PROVE BusOK'
  <2>1. CASE Send(c)
    <3>1. Request(c) \in Envelopes
      BY DEF Request, Envelopes
    <3>2. bus' \in Seq(Envelopes) /\ Len(bus') = Len(bus) + 1
      BY <2>1, <3>1 DEF Send
    <3> QED
      BY <2>1, <3>2 DEF Send, CallTo, CallPc, lifeVars
  <2>2. CASE Resolve(c)
    <3>1. call' \in [Calls -> CallPc]
      BY <2>2 DEF Resolve, CallTo, CallPc
    <3> QED
      BY <2>2, <3>1 DEF Resolve, lifeVars
  <2>5. CASE TimeOut(c)
    <3>1. call' \in [Calls -> CallPc]
      BY <2>5 DEF TimeOut, CallTo, CallPc
    <3> QED
      BY <1>0, <2>5, <3>1 DEF TimeOut, lifeVars
  <2>3. CASE CallLags(c)
    BY <2>3 DEF CallLags, Lagged, lifeVars
  <2>4. CASE Hear(c)
    <3>1. call' \in [Calls -> CallPc]
      BY <2>4 DEF Hear, CallTo, CallPc
    <3>2. ear[c] < Len(bus) => ear[c] + 1 \in 0 .. Len(bus)
      BY <1>0
    <3>3. ear' = [ear EXCEPT ![c] = 0] \/ ear' = [ear EXCEPT ![c] = ear[c] + 1]
      BY <2>4 DEF Hear
    <3>4. ear' \in [Calls -> 0 .. Len(bus)]
      BY <1>0, <2>4, <3>2, <3>3 DEF Hear
    <3> QED
      BY <2>4, <3>1, <3>4 DEF Hear, lifeVars
  <2> QED
    BY <1>5, <2>1, <2>2, <2>3, <2>4, <2>5 DEF Dispatch
<1>6. CASE UNCHANGED vars
  BY <1>6 DEF vars
<1> QED
  BY <1>1, <1>2, <1>3, <1>4, <1>5, <1>6 DEF Next

\* Types hold from the start and so does the ownership of handles.
LEMMA TypedAndOwned == Spec => [](TypeOK /\ Ownership)
<1>1. Init => TypeOK /\ Ownership
  BY RuntimeAssumption
     DEF Init, TypeOK, TablesOK, LivesOK, BusOK, Ownership, SpawnPc, RunnerPc, CallPc
<1>2. TypeOK /\ Ownership /\ [Next]_vars => (TypeOK /\ Ownership)'
  BY TablesStep, OwnershipStep, LivesStep, BusStep DEF TypeOK
<1> QED
  BY <1>1, <1>2, PTL DEF Spec

\* Type correctness of the runtime: tables, runners, loops, bus and calls; a
\* runner that may still restart its loop is within its restart budget, and no
\* receiver is ever past the end of the bus.
THEOREM TypeCorrect == Spec => []TypeOK
  BY TypedAndOwned, PTL

-----------------------------------------------------------------------------
\* What resolves can be served, whatever interleaves: for each id in the
\* registry there is a life that is being spawned, runs, restarts or is about
\* to be unregistered.  The only strengthening it needs is that a stop never
\* aborts the runner of another id.
THEOREM RegistryStaysHonest == Spec => []RegistryIsHonest
<1>1. Init => RegistryIsHonest
  BY DEF Init, RegistryIsHonest
<1>2. TypeOK /\ Ownership /\ RegistryIsHonest /\ [Next]_vars => RegistryIsHonest'
  <2> SUFFICES ASSUME TypeOK, Ownership, RegistryIsHonest, [Next]_vars
               PROVE  RegistryIsHonest'
    OBVIOUS
  <2> USE RuntimeAssumption DEF TypeOK, TablesOK, LivesOK, RegistryIsHonest
  <2>1. ASSUME NEW l \in Lives, Spawn(l) PROVE RegistryIsHonest'
    <3>1. CASE SpawnRegister(l)
      BY <3>1 DEF SpawnRegister, SpawnTo
    <3>2. CASE SpawnStart(l)
      BY <3>2 DEF SpawnStart, SpawnTo, supVars
    <3>3. CASE SpawnCheck(l) \/ SpawnInsert(l) \/ SpawnStore(l)
      BY <3>3 DEF SpawnCheck, SpawnInsert, SpawnStore, SpawnTo, supVars
    <3> QED
      BY <2>1, <3>1, <3>2, <3>3 DEF Spawn
  <2>2. ASSUME NEW l \in Lives, Runner(l) PROVE RegistryIsHonest'
    <3>1. CASE StartLoop(l) \/ Backoff(l)
      BY <3>1 DEF StartLoop, Backoff, RunnerTo, supVars
    <3>2. CASE NoticePanic(l)
      BY <3>2 DEF NoticePanic, RunnerTo, supVars
    <3>3. CASE GiveUp(l)
      BY <3>3 DEF GiveUp, RunnerTo
    <3> QED
      BY <2>2, <3>1, <3>2, <3>3 DEF Runner
  <2>3. ASSUME NEW l \in Lives, Loop(l) \/ HandlePanics(l) PROVE RegistryIsHonest'
    BY <2>3 DEF Loop, Subscribe, LoopLags, Receive, HandleEnds, HandlePanics, supVars
  <2>4. ASSUME NEW a \in AgentIds, Stop(a) PROVE RegistryIsHonest'
    <3>1. CASE StopAbort(a)
      BY <3>1 DEF StopAbort, Ownership
    <3>2. CASE StopUnregister(a) \/ StopRemove(a)
      BY <3>2 DEF StopUnregister, StopRemove, lifeVars
    <3> QED
      BY <2>4, <3>1, <3>2 DEF Stop
  <2>5. ASSUME NEW c \in Calls, Dispatch(c) PROVE RegistryIsHonest'
    BY <2>5 DEF Dispatch, Resolve, Send, CallLags, Hear, TimeOut, supVars, lifeVars
  <2>6. CASE UNCHANGED vars
    BY <2>6 DEF vars
  <2> QED
    BY <2>1, <2>2, <2>3, <2>4, <2>5, <2>6 DEF Next
<1> QED
  BY <1>1, <1>2, TypedAndOwned, PTL DEF Spec

-----------------------------------------------------------------------------
NotSent == {"idle", "resolved", "refused"}

\* A request is on the bus at most once, and only of a call that was sent.
RequestsUnique ==
    /\ \A i \in 1 .. Len(bus) : bus[i].kind = "request" => call[bus[i].call] \notin NotSent
    /\ \A i, j \in 1 .. Len(bus) :
           bus[i].kind = "request" /\ bus[j].kind = "request" /\ bus[i].call = bus[j].call
               => i = j

\* What a life has taken up is behind its receiver, and was sent.
TakenIsBehind ==
    /\ \A c \in Calls, l \in Lives : handled[c][l] > 0 => call[c] \notin NotSent
    /\ \A c \in Calls, l \in Lives, i \in 1 .. Len(bus) :
           handled[c][l] > 0 /\ loop[l] \in {"recv", "handling"} =>
               (bus[i].kind = "request" /\ bus[i].call = c => i <= cursor[l])

ReplayInv == RequestsUnique /\ TakenIsBehind /\ NoReplay

\* The steps that touch neither the bus, a call's label nor what was taken up,
\* and leave every receiver where it is.
LEMMA ReplayFrame ==
    ASSUME ReplayInv, UNCHANGED <<bus, call, handled, cursor>>,
           \A l \in Lives : loop'[l] \in {"recv", "handling"} => loop[l] \in {"recv", "handling"}
    PROVE  ReplayInv'
  BY DEF ReplayInv, RequestsUnique, TakenIsBehind, NoReplay

\* A request goes on the bus once.
LEMMA ReplaySend ==
    ASSUME TypeOK, ReplayInv, NEW c \in Calls, Send(c)
    PROVE  ReplayInv'
<1> USE DEF TypeOK, BusOK
<1>1. /\ bus' = Append(bus, Request(c)) /\ Len(bus') = Len(bus) + 1 /\ Len(bus) \in Nat
      /\ \A i \in 1 .. Len(bus) : bus'[i] = bus[i]
      /\ bus'[Len(bus) + 1] = [kind |-> "request", call |-> c]
  BY DEF Send, Request
<1>2. /\ call[c] = "resolved" /\ call' = [call EXCEPT ![c] = "waiting"]
      /\ handled' = handled /\ cursor' = cursor /\ loop' = loop
  BY DEF Send, CallTo, lifeVars
<1>3. \A i \in 1 .. Len(bus) : bus[i] \in Envelopes
  OBVIOUS
<1>4. \A i \in 1 .. Len(bus) : bus[i].kind = "request" => bus[i].call # c
  BY <1>2 DEF ReplayInv, RequestsUnique, NotSent
<1>5. RequestsUnique'
  <2>1. \A i \in 1 .. Len(bus') : bus'[i].kind = "request" => call'[bus'[i].call] \notin NotSent
    BY <1>1, <1>2, <1>3, <1>4 DEF ReplayInv, RequestsUnique, NotSent, Envelopes
  <2>2. ASSUME NEW i \in 1 .. Len(bus'), NEW j \in 1 .. Len(bus'),
               bus'[i].kind = "request", bus'[j].kind = "request", bus'[i].call = bus'[j].call
        PROVE  i = j
    <3>1. CASE i = Len(bus) + 1 /\ j # Len(bus) + 1
      BY <1>1, <1>4, <2>2, <3>1
    <3>2. CASE j = Len(bus) + 1 /\ i # Len(bus) + 1
      BY <1>1, <1>4, <2>2, <3>2
    <3>3. CASE i # Len(bus) + 1 /\ j # Len(bus) + 1
      BY <1>1, <2>2, <3>3 DEF ReplayInv, RequestsUnique
    <3> QED
      BY <3>1, <3>2, <3>3
  <2> QED
    BY <2>1, <2>2 DEF RequestsUnique
<1>6. \A l \in Lives : ~ (handled[c][l] > 0)
  BY <1>2 DEF ReplayInv, TakenIsBehind, NotSent
<1>7. TakenIsBehind'
  BY <1>1, <1>2, <1>6 DEF ReplayInv, TakenIsBehind, NotSent
<1> QED
  BY <1>2, <1>5, <1>7 DEF ReplayInv, NoReplay

\* A reply on the bus takes nothing up.
LEMMA ReplayReply ==
    ASSUME TypeOK, ReplayInv, NEW l \in Lives, HandleEnds(l)
    PROVE  ReplayInv'
<1> USE DEF TypeOK, BusOK
<1>1. /\ Len(bus') = Len(bus) + 1 /\ Len(bus) \in Nat
      /\ \A i \in 1 .. Len(bus) : bus'[i] = bus[i]
      /\ bus'[Len(bus) + 1].kind = "reply"
  BY DEF HandleEnds, Reply
<1>2. /\ call' = call /\ handled' = handled /\ cursor' = cursor
      /\ \A m \in Lives : loop'[m] \in {"recv", "handling"} => loop[m] \in {"recv", "handling"}
  BY DEF HandleEnds, callVars, LivesOK
<1>5. \A i \in 1 .. Len(bus') :
          bus'[i].kind = "request" => i \in 1 .. Len(bus) /\ bus'[i] = bus[i]
  <2> SUFFICES ASSUME NEW i \in 1 .. Len(bus'), bus'[i].kind = "request"
               PROVE  i \in 1 .. Len(bus) /\ bus'[i] = bus[i]
    OBVIOUS
  <2>1. i # Len(bus) + 1
    BY <1>1
  <2>2. i \in 1 .. Len(bus)
    BY <1>1, <2>1
  <2> QED
    BY <1>1, <2>2
<1>3. RequestsUnique'
  BY <1>2, <1>5 DEF ReplayInv, RequestsUnique
<1>4. TakenIsBehind'
  BY <1>2, <1>5 DEF ReplayInv, TakenIsBehind
<1> QED
  BY <1>2, <1>3, <1>4 DEF ReplayInv, NoReplay

\* A receiver hands out each envelope once, and a call has one request.
LEMMA ReplayReceive ==
    ASSUME TypeOK, ReplayInv, NEW l \in Lives, Receive(l)
    PROVE  ReplayInv'
<1> USE DEF TypeOK, BusOK
<1> DEFINE at == cursor[l] + 1
           e  == bus[at]
<1>1. /\ bus' = bus /\ call' = call /\ loop[l] = "recv"
      /\ cursor' = [cursor EXCEPT ![l] = at]
      /\ at \in 1 .. Len(bus) /\ cursor[l] \in Nat /\ Len(bus) \in Nat
  BY DEF Receive, callVars
<1>2. e \in Envelopes /\ e.call \in Calls
  <2>1. e \in Envelopes
    BY <1>1
  <2> QED
    BY <2>1 DEF Envelopes
<1>3. RequestsUnique'
  BY <1>1 DEF ReplayInv, RequestsUnique
<1>4. CASE ~ AddressedTo(e, l)
  <2>1. handled' = handled /\ loop' = loop
    BY <1>4 DEF Receive
  <2>2. TakenIsBehind'
    BY <1>1, <2>1 DEF ReplayInv, TakenIsBehind
  <2> QED
    BY <1>3, <2>1, <2>2 DEF ReplayInv, NoReplay
<1>5. CASE AddressedTo(e, l)
  <2>1. /\ loop' = [loop EXCEPT ![l] = "handling"]
        /\ handled' = [handled EXCEPT ![e.call][l] = @ + 1]
        /\ e.kind = "request"
    BY <1>5 DEF Receive, AddressedTo
  <2>2. handled[e.call][l] = 0
    <3>1. ~ (handled[e.call][l] > 0)
      BY <1>1, <1>2, <2>1 DEF ReplayInv, TakenIsBehind
    <3> QED
      BY <1>2, <3>1
  <2>3. /\ handled'[e.call][l] = 1
        /\ \A c \in Calls, m \in Lives : c # e.call \/ m # l => handled'[c][m] = handled[c][m]
    BY <1>2, <2>1, <2>2
  <2>4. call[e.call] \notin NotSent
    BY <1>1, <2>1 DEF ReplayInv, RequestsUnique
  <2>5. \A i \in 1 .. Len(bus) : bus[i].kind = "request" /\ bus[i].call = e.call => i = at
    BY <1>1, <2>1 DEF ReplayInv, RequestsUnique
  <2>6. \A m \in Lives : loop'[m] \in {"recv", "handling"} => loop[m] \in {"recv", "handling"}
    BY <1>1, <2>1 DEF LivesOK
  <2>7. cursor'[l] = at /\ \A m \in Lives : cursor[m] \in Nat /\ cursor'[m] >= cursor[m]
    BY <1>1
  <2>8. TakenIsBehind'
    <3>1. \A c \in Calls, m \in Lives : handled'[c][m] > 0 => call'[c] \notin NotSent
      BY <1>1, <2>3, <2>4 DEF ReplayInv, TakenIsBehind
    <3>2. ASSUME NEW c \in Calls, NEW m \in Lives, NEW i \in 1 .. Len(bus'),
                 handled'[c][m] > 0, loop'[m] \in {"recv", "handling"},
                 bus'[i].kind = "request", bus'[i].call = c
          PROVE  i <= cursor'[m]
      <4>1. CASE c = e.call /\ m = l
        BY <1>1, <2>5, <2>7, <3>2, <4>1
      <4>2. CASE c # e.call \/ m # l
        <5>1. i <= cursor[m]
          BY <1>1, <2>3, <2>6, <3>2, <4>2 DEF ReplayInv, TakenIsBehind
        <5> QED
          BY <1>1, <2>7, <3>2, <5>1
      <4> QED
        BY <4>1, <4>2
    <3> QED
      BY <3>1, <3>2 DEF TakenIsBehind
  <2>9. NoReplay'
    <3> SUFFICES ASSUME NEW c \in Calls, NEW m \in Lives PROVE handled'[c][m] <= 1
      BY DEF NoReplay
    <3>1. handled[c][m] <= 1
      BY DEF ReplayInv, NoReplay
    <3> QED
      BY <2>3, <3>1
  <2> QED
    BY <1>3, <2>8, <2>9 DEF ReplayInv
<1> QED
  BY <1>4, <1>5

\* A receiver only moves forward, and a new one starts at the end.
LEMMA ReplayMove ==
    ASSUME TypeOK, ReplayInv, NEW l \in Lives,
           Subscribe(l) \/ LoopLags(l) \/ HandlePanics(l)
    PROVE  ReplayInv'
<1> USE DEF TypeOK, BusOK
<1>1. bus' = bus /\ call' = call /\ handled' = handled /\ Len(bus) \in Nat
  BY DEF Subscribe, LoopLags, HandlePanics, callVars
<1>2. \A m \in Lives : loop'[m] \in {"recv", "handling"} =>
          \/ cursor'[m] = Len(bus)
          \/ loop[m] \in {"recv", "handling"} /\ cursor'[m] >= cursor[m]
  BY RuntimeAssumption DEF Subscribe, LoopLags, HandlePanics, Lagged, LivesOK
<1>3. \A m \in Lives : cursor[m] \in Nat /\ cursor'[m] \in Int
  <2>1. \A m \in Lives : cursor[m] \in Nat
    OBVIOUS
  <2>2. CASE cursor' = [cursor EXCEPT ![l] = Len(bus)]
    BY <1>1, <2>1, <2>2
  <2>3. CASE cursor' = [cursor EXCEPT ![l] = Len(bus) - Capacity]
    BY <1>1, <2>1, <2>3, RuntimeAssumption
  <2>4. CASE cursor' = [cursor EXCEPT ![l] = 0]
    BY <2>1, <2>4
  <2> QED
    BY <2>1, <2>2, <2>3, <2>4 DEF Subscribe, LoopLags, HandlePanics
<1>4. RequestsUnique'
  BY <1>1 DEF ReplayInv, RequestsUnique
<1>5. TakenIsBehind'
  <2>1. ASSUME NEW c \in Calls, NEW m \in Lives, NEW i \in 1 .. Len(bus),
               handled[c][m] > 0, loop'[m] \in {"recv", "handling"},
               bus[i].kind = "request", bus[i].call = c
        PROVE  i <= cursor'[m]
    <3>1. CASE cursor'[m] = Len(bus)
      BY <1>1, <3>1
    <3>2. CASE loop[m] \in {"recv", "handling"} /\ cursor'[m] >= cursor[m]
      <4>1. i <= cursor[m]
        BY <2>1, <3>2 DEF ReplayInv, TakenIsBehind
      <4> QED
        BY <1>3, <3>2, <4>1
    <3> QED
      BY <1>2, <2>1, <3>1, <3>2
  <2> QED
    BY <1>1, <2>1 DEF ReplayInv, TakenIsBehind
<1> QED
  BY <1>1, <1>4, <1>5 DEF ReplayInv, NoReplay

\* The invariant holds of every behaviour.
LEMMA ReplayAlways == Spec => []ReplayInv
<1>1. Init => ReplayInv
  BY DEF Init, ReplayInv, RequestsUnique, TakenIsBehind, NoReplay, NotSent
<1>2. TypeOK /\ ReplayInv /\ [Next]_vars => ReplayInv'
  <2> SUFFICES ASSUME TypeOK, ReplayInv, [Next]_vars PROVE ReplayInv'
    OBVIOUS
  <2>1. ASSUME NEW l \in Lives, Spawn(l) PROVE ReplayInv'
    BY <2>1, ReplayFrame
       DEF Spawn, SpawnCheck, SpawnRegister, SpawnInsert, SpawnStart, SpawnStore, callVars
  <2>2. ASSUME NEW l \in Lives, Runner(l) PROVE ReplayInv'
    <3>1. \A m \in Lives : loop'[m] \in {"recv", "handling"} => loop[m] \in {"recv", "handling"}
      BY <2>2 DEF Runner, StartLoop, NoticePanic, Backoff, GiveUp, TypeOK, LivesOK
    <3>2. UNCHANGED <<bus, call, handled, cursor>>
      BY <2>2 DEF Runner, StartLoop, NoticePanic, Backoff, GiveUp, callVars
    <3> QED
      BY <3>1, <3>2, ReplayFrame
  <2>3. ASSUME NEW l \in Lives, Loop(l) \/ HandlePanics(l) PROVE ReplayInv'
    BY <2>3, ReplayReply, ReplayReceive, ReplayMove DEF Loop
  <2>4. ASSUME NEW a \in AgentIds, Stop(a) PROVE ReplayInv'
    BY <2>4, ReplayFrame DEF Stop, StopAbort, StopUnregister, StopRemove, lifeVars, callVars
  <2>5. ASSUME NEW c \in Calls, Dispatch(c) PROVE ReplayInv'
    <3>1. CASE Send(c)
      BY <3>1, ReplaySend
    <3>2. CASE CallLags(c)
      BY <3>2, ReplayFrame DEF CallLags, lifeVars
    <3>3. CASE Resolve(c) \/ Hear(c) \/ TimeOut(c)
      <4>1. /\ UNCHANGED <<bus, handled, cursor, loop>>
            /\ \A d \in Calls : call[d] \notin NotSent => call'[d] \notin NotSent
        BY <3>3 DEF Resolve, Hear, TimeOut, CallTo, lifeVars, NotSent, TypeOK, BusOK
      <4>2. \A i \in 1 .. Len(bus) : bus[i].call \in Calls
        <5>1. \A i \in 1 .. Len(bus) : bus[i] \in Envelopes
          BY DEF TypeOK, BusOK
        <5> QED
          BY <5>1 DEF Envelopes
      <4> QED
        BY <4>1, <4>2 DEF ReplayInv, RequestsUnique, TakenIsBehind, NoReplay
    <3> QED
      BY <2>5, <3>1, <3>2, <3>3 DEF Dispatch
  <2>6. CASE UNCHANGED vars
    BY <2>6, ReplayFrame DEF vars
  <2> QED
    BY <2>1, <2>2, <2>3, <2>4, <2>5, <2>6 DEF Next
<1> QED
  BY <1>1, <1>2, TypeCorrect, PTL DEF Spec

\* No life takes up the same request twice, however often it panics, lags and
\* restarts: the request is on the bus once, and a receiver, new or old, never
\* stands before what its life has taken up.
THEOREM NothingIsReplayed == Spec => []NoReplay
<1>1. ReplayInv => NoReplay
  BY DEF ReplayInv
<1> QED
  BY <1>1, ReplayAlways, PTL

-----------------------------------------------------------------------------
\* Only what was taken up is being handled, and only that is answered.
AnswersAreTaken ==
    /\ \A l \in Lives : loop[l] = "handling" => handled[job[l]][l] > 0
    /\ \A i \in 1 .. Len(bus) : bus[i].kind = "reply" =>
           \E l \in Lives : handled[bus[i].call][l] > 0

\* Every step keeps it.
LEMMA AnswersStep == TypeOK /\ AnswersAreTaken /\ [Next]_vars => AnswersAreTaken'
<1> SUFFICES ASSUME TypeOK, AnswersAreTaken, [Next]_vars PROVE AnswersAreTaken'
  OBVIOUS
<1> USE DEF TypeOK
<1>0. ASSUME UNCHANGED <<bus, handled>>,
             \A l \in Lives : loop'[l] = "handling" => loop[l] = "handling" /\ job'[l] = job[l]
      PROVE  AnswersAreTaken'
  BY <1>0 DEF AnswersAreTaken
<1>1. ASSUME NEW l \in Lives, Spawn(l) PROVE AnswersAreTaken'
  BY <1>0, <1>1 DEF Spawn, SpawnCheck, SpawnRegister, SpawnInsert, SpawnStart, SpawnStore
<1>2. ASSUME NEW l \in Lives, Runner(l) PROVE AnswersAreTaken'
  BY <1>0, <1>2 DEF Runner, StartLoop, NoticePanic, Backoff, GiveUp, LivesOK
<1>3. ASSUME NEW l \in Lives, Loop(l) \/ HandlePanics(l) PROVE AnswersAreTaken'
  <2>1. CASE Subscribe(l) \/ LoopLags(l) \/ HandlePanics(l)
    BY <1>0, <2>1 DEF Subscribe, LoopLags, HandlePanics, LivesOK
  <2>2. CASE HandleEnds(l)
    <3>1. /\ Len(bus') = Len(bus) + 1 /\ Len(bus) \in Nat
          /\ \A i \in 1 .. Len(bus) : bus'[i] = bus[i]
          /\ bus'[Len(bus) + 1].call = job[l]
      BY <2>2 DEF HandleEnds, Reply, BusOK
    <3>2. handled' = handled /\ handled[job[l]][l] > 0
      BY <2>2 DEF HandleEnds, AnswersAreTaken
    <3>3. \A m \in Lives : loop'[m] = "handling" => loop[m] = "handling" /\ job'[m] = job[m]
      BY <2>2 DEF HandleEnds, LivesOK
    <3>4. \A i \in 1 .. Len(bus') : i \in 1 .. Len(bus) \/ i = Len(bus) + 1
      BY <3>1
    <3> QED
      BY <3>1, <3>2, <3>3, <3>4 DEF AnswersAreTaken
  <2>3. CASE Receive(l)
    <3> DEFINE e == bus[cursor[l] + 1]
    <3>1. bus' = bus /\ cursor[l] + 1 \in 1 .. Len(bus)
      BY <2>3 DEF Receive, BusOK
    <3>2. e \in Envelopes /\ e.call \in Calls
      <4>1. e \in Envelopes
        BY <3>1 DEF BusOK
      <4> QED
        BY <4>1 DEF Envelopes
    <3>3. CASE ~ AddressedTo(e, l)
      BY <1>0, <2>3, <3>1, <3>3 DEF Receive
    <3>4. CASE AddressedTo(e, l)
      <4>1. /\ loop' = [loop EXCEPT ![l] = "handling"]
            /\ job' = [job EXCEPT ![l] = e.call]
            /\ handled' = [handled EXCEPT ![e.call][l] = @ + 1]
        BY <2>3, <3>4 DEF Receive
      <4>2. \A c \in Calls, m \in Lives : handled[c][m] \in Nat
        BY DEF BusOK
      <4>3. /\ handled'[e.call][l] > 0
            /\ \A c \in Calls, m \in Lives : handled[c][m] > 0 => handled'[c][m] > 0
        <5>1. handled'[e.call][l] = handled[e.call][l] + 1
          BY <3>2, <4>1 DEF BusOK
        <5>2. \A c \in Calls, m \in Lives :
                  c # e.call \/ m # l => handled'[c][m] = handled[c][m]
          BY <3>2, <4>1 DEF BusOK
        <5> QED
          BY <3>2, <4>2, <5>1, <5>2
      <4>4. \A i \in 1 .. Len(bus) : bus[i].call \in Calls
        <5>1. \A i \in 1 .. Len(bus) : bus[i] \in Envelopes
          BY DEF BusOK
        <5> QED
          BY <5>1 DEF Envelopes
      <4>5. \A m \in Lives : loop'[m] = "handling" => handled'[job'[m]][m] > 0
        BY <3>2, <4>1, <4>3 DEF LivesOK, AnswersAreTaken
      <4> QED
        BY <3>1, <4>3, <4>4, <4>5 DEF AnswersAreTaken
    <3> QED
      BY <3>3, <3>4
  <2> QED
    BY <1>3, <2>1, <2>2, <2>3 DEF Loop
<1>4. ASSUME NEW a \in AgentIds, Stop(a) PROVE AnswersAreTaken'
  BY <1>0, <1>4 DEF Stop, StopAbort, StopUnregister, StopRemove, lifeVars
<1>5. ASSUME NEW c \in Calls, Dispatch(c) PROVE AnswersAreTaken'
  <2>1. CASE Send(c)
    <3>1. /\ Len(bus') = Len(bus) + 1 /\ Len(bus) \in Nat
          /\ \A i \in 1 .. Len(bus) : bus'[i] = bus[i]
          /\ bus'[Len(bus) + 1].kind = "request"
      BY <2>1 DEF Send, Request, BusOK
    <3>2. \A i \in 1 .. Len(bus') : i \in 1 .. Len(bus) \/ i = Len(bus) + 1
      BY <3>1
    <3> QED
      BY <2>1, <3>1, <3>2 DEF Send, lifeVars, AnswersAreTaken
  <2>2. CASE Resolve(c) \/ CallLags(c) \/ Hear(c) \/ TimeOut(c)
    BY <1>0, <2>2 DEF Resolve, CallLags, Hear, TimeOut, lifeVars
  <2> QED
    BY <1>5, <2>1, <2>2 DEF Dispatch
<1>6. CASE UNCHANGED vars
  BY <1>0, <1>6 DEF vars
<1> QED
  BY <1>1, <1>2, <1>3, <1>4, <1>5, <1>6 DEF Next

Inv == TypeOK /\ ReplayInv /\ AnswersAreTaken

\* What a caller sees of the steps of the others: only Receive takes a call up.
LEMMA OthersStep ==
    ASSUME Inv, NEW l \in Lives, Receive(l)
    PROVE  IsExchange!Next \/ UNCHANGED IsExchange!vars
<1> DEFINE e == bus[cursor[l] + 1]
<1> USE DEF Inv, TypeOK
<1>1. cursor[l] + 1 \in 1 .. Len(bus) /\ call' = call
  BY DEF Receive, BusOK, callVars
<1>2. e \in Envelopes /\ e.call \in Calls
  <2>1. e \in Envelopes
    BY <1>1 DEF BusOK
  <2> QED
    BY <2>1 DEF Envelopes
<1>3. CASE ~ AddressedTo(e, l)
  BY <1>1, <1>3 DEF Receive, IsExchange!vars, Outside
<1>4. CASE AddressedTo(e, l)
  <2>1. handled' = [handled EXCEPT ![e.call][l] = @ + 1] /\ e.kind = "request"
    BY <1>4 DEF Receive, AddressedTo
  <2>2. call[e.call] \in {"waiting", "answered", "timed_out"}
    BY <1>1, <1>2, <2>1 DEF ReplayInv, RequestsUnique, NotSent, BusOK, CallPc
  <2>3. handled'[e.call][l] > 0
    BY <1>2, <2>1 DEF BusOK
  <2>4. \A c \in Calls : c # e.call => handled'[c] = handled[c]
    BY <1>2, <2>1 DEF BusOK
  <2>5. {c \in Calls : \E m \in Lives : handled'[c][m] > 0} =
            {c \in Calls : \E m \in Lives : handled[c][m] > 0} \union {e.call}
    BY <1>2, <2>3, <2>4
  <2>6. PICK c \in Calls : c = e.call
    BY <1>2
  <2>7. IsExchange!TakeUp(c)
    BY <1>1, <2>2, <2>5, <2>6 DEF IsExchange!TakeUp, Outside
  <2> QED
    BY <2>7 DEF IsExchange!Next
<1> QED
  BY <1>3, <1>4

\* A step that moves one call and takes none up.
LEMMA CallMoves ==
    ASSUME TypeOK, NEW c \in Calls, NEW from, NEW to, Outside(c) = from,
           [d \in Calls |-> Outside(d)'] = [d \in Calls |-> IF d = c THEN to ELSE Outside(d)],
           handled' = handled
    PROVE  IsExchange!Move(c, from, to)
  BY DEF IsExchange!Move

\* What a caller sees of its own steps.
LEMMA CallersStep ==
    ASSUME Inv, NEW c \in Calls, Dispatch(c)
    PROVE  IsExchange!Next \/ UNCHANGED IsExchange!vars
<1> USE DEF Inv, TypeOK, BusOK
<1>0. handled' = handled
  BY DEF Dispatch, Resolve, Send, CallLags, Hear, TimeOut, lifeVars
<1>1. ASSUME NEW to, call' = [call EXCEPT ![c] = to], to # "resolved"
      PROVE  IsExchange!Move(c, Outside(c), to)
  BY <1>0, <1>1, CallMoves DEF Outside
<1>2. ASSUME call' = call PROVE UNCHANGED IsExchange!vars
  BY <1>0, <1>2 DEF IsExchange!vars, Outside
<1>3. CASE Resolve(c)
  <2>1. CASE call' = [call EXCEPT ![c] = "resolved"]
    BY <1>0, <1>3, <2>1 DEF Resolve, IsExchange!vars, Outside
  <2>2. CASE call' = [call EXCEPT ![c] = "refused"]
    BY <1>1, <1>3, <2>2 DEF Resolve, Outside, IsExchange!Next
  <2> QED
    BY <1>3, <2>1, <2>2 DEF Resolve, CallTo
<1>4. CASE Send(c)
  BY <1>1, <1>4 DEF Send, CallTo, Outside, IsExchange!Next
<1>5. CASE TimeOut(c)
  BY <1>1, <1>5 DEF TimeOut, CallTo, Outside, IsExchange!Next
<1>6. CASE CallLags(c)
  BY <1>2, <1>6 DEF CallLags
<1>7. CASE Hear(c)
  <2>1. CASE call' = call
    BY <1>2, <2>1
  <2>2. CASE call' # call
    <3>1. /\ ear[c] + 1 \in 1 .. Len(bus) /\ call[c] = "waiting"
          /\ bus[ear[c] + 1].kind = "reply" /\ bus[ear[c] + 1].call = c
          /\ call' = [call EXCEPT ![c] = "answered"]
      BY <1>7, <2>2 DEF Hear, CallTo
    <3>2. \E l \in Lives : handled[c][l] > 0
      BY <3>1 DEF AnswersAreTaken
    <3> QED
      BY <1>1, <3>1, <3>2 DEF Outside, IsExchange!Next
  <2> QED
    BY <2>1, <2>2
<1> QED
  BY <1>3, <1>4, <1>5, <1>6, <1>7 DEF Dispatch

\* The bus, the agents and the dispatcher implement module Exchange: a call is
\* refused before it is sent or is sent once, is taken up only if it was sent,
\* and is answered only if it was taken up, whatever is lost, late or panics.
THEOREM RuntimeImplementsExchange == Spec => ExchangeSpec
<1>1. Init => AnswersAreTaken
  BY DEF Init, AnswersAreTaken
<1>2. Init => IsExchange!Init
  BY DEF Init, IsExchange!Init, Outside
<1>3. Inv /\ [Next]_vars => [IsExchange!Next]_(IsExchange!vars)
  <2> SUFFICES ASSUME Inv, [Next]_vars
               PROVE  IsExchange!Next \/ UNCHANGED IsExchange!vars
    OBVIOUS
  <2>0. ASSUME UNCHANGED <<call, handled>> PROVE UNCHANGED IsExchange!vars
    BY <2>0 DEF IsExchange!vars, Outside
  <2>1. ASSUME NEW l \in Lives, Spawn(l) PROVE UNCHANGED IsExchange!vars
    BY <2>0, <2>1
       DEF Spawn, SpawnCheck, SpawnRegister, SpawnInsert, SpawnStart, SpawnStore, callVars
  <2>2. ASSUME NEW l \in Lives, Runner(l) PROVE UNCHANGED IsExchange!vars
    BY <2>0, <2>2 DEF Runner, StartLoop, NoticePanic, Backoff, GiveUp, callVars
  <2>3. ASSUME NEW l \in Lives, Loop(l) \/ HandlePanics(l), ~ Receive(l)
        PROVE  UNCHANGED IsExchange!vars
    BY <2>0, <2>3 DEF Loop, Subscribe, LoopLags, HandleEnds, HandlePanics, callVars
  <2>4. ASSUME NEW a \in AgentIds, Stop(a) PROVE UNCHANGED IsExchange!vars
    BY <2>0, <2>4 DEF Stop, StopAbort, StopUnregister, StopRemove, lifeVars, callVars
  <2>5. CASE UNCHANGED vars
    BY <2>0, <2>5 DEF vars
  <2> QED
    BY <2>1, <2>2, <2>3, <2>4, <2>5, OthersStep, CallersStep DEF Next
<1>4. Spec => []Inv
  BY <1>1, AnswersStep, TypeCorrect, ReplayAlways, PTL DEF Spec, Inv
<1> QED
  BY <1>2, <1>3, <1>4, PTL DEF Spec, ExchangeSpec, IsExchange!Spec
=============================================================================
