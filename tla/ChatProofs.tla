----------------------------- MODULE ChatProofs ------------------------------
(* Theorems about chat turns for any number of panels, sessions, turns and    *)
(* tool calls, whatever is lost, deleted or disconnected meanwhile.           *)
EXTENDS Chat, SequenceTheorems, FiniteSetTheorems, TLAPS

----------------------------------------------------------------------------
Messages ==
  [role : {"user"}] \cup [role : {"assistant"}, calls : Seq(Tools)]
  \cup [role : {"tool"}, call : Tools]

LivePcs == {"own", "insert", "push", "ask", "call", "done"}

Waiting ==
  [pc : {"queued", "check"}, client : Clients, sid : Sessions, pick : Picks, heard : BOOLEAN]
Live ==
  [pc : LivePcs, client : Clients, sid : Sessions, heard : BOOLEAN, known : BOOLEAN,
   llm : Llms, loops : Nat, last : BOOLEAN, todo : Seq(Tools), history : Seq(Messages) \ {<<>>}]
Ended == [pc : {"ended"}, client : Clients, sid : Sessions]

(* Positions are counted from 1.                                              *)
Stored == Turns \X (Nat \ {0})

(* A panel that is busy before its socket opened has lost what it sent.       *)
Panels ==
  {p \in [current : Sessions, busy : BOOLEAN, lost : BOOLEAN,
          socket : {"connecting", "open", "closed", "broken"}] :
     p.socket = "connecting" /\ p.busy => p.lost}

TypeInv ==
  /\ turn \in [Turns -> {Unsent} \cup Waiting \cup Live \cup Ended]
  /\ panel \in [Clients -> Panels]
  /\ wire \in [Clients -> Seq(Turns)]
  /\ events \in [Clients -> Seq({"done", "error"})]
  /\ log \in [Sessions -> Seq(Stored)]
  /\ hot \in [Sessions -> Seq(Stored)]

----------------------------------------------------------------------------
(* Where the result of the k-th call of the reply at i is: in the history, or *)
(* still in `todo`, at the place that its position in the history will have.  *)
Answered(q) ==
  \A i \in DOMAIN q.history : q.history[i].role = "assistant" =>
    \A k \in DOMAIN q.history[i].calls :
      LET n == Len(q.history)
      IN  \/ i + k <= n /\ q.history[i + k] = Result(q.history[i].calls[k])
          \/ i + k > n /\ i + k - n \in DOMAIN q.todo /\ q.todo[i + k - n] = q.history[i].calls[k]

HistoryOK(q) ==
  /\ q.pc = "ask" => ~q.last /\ q.todo = <<>>
  /\ q.pc = "call" => ~q.last /\ q.todo # <<>>
  /\ ~q.last => Answered(q)

HistoryInv == \A t \in Turns : turn[t].pc \in LivePcs => HistoryOK(turn[t])

----------------------------------------------------------------------------
(* The position of the next message of a turn that a tier may take.           *)
LogNext(q) ==
  IF q.pc \notin LivePcs THEN 1
  ELSE IF q.pc \in {"own", "insert"} THEN Len(q.history) ELSE Len(q.history) + 1
HotNext(q) ==
  IF q.pc \notin LivePcs THEN 1
  ELSE IF q.pc \in {"own", "insert", "push"} THEN Len(q.history) ELSE Len(q.history) + 1

Under(tier, t, n) == \A i \in DOMAIN tier : tier[i][1] = t => tier[i][2] < n

Ordered(tier) ==
  \A i, j \in DOMAIN tier : i < j /\ tier[i][1] = tier[j][1] => tier[i][2] < tier[j][2]

(* Nothing is stored of a turn that is still to come.                         *)
StoreInv ==
  /\ \A s \in Sessions : Ordered(log[s]) /\ Ordered(hot[s])
  /\ \A s \in Sessions, t \in Turns : turn[t].pc # "ended" =>
       /\ Under(log[s], t, LogNext(turn[t]))
       /\ Under(hot[s], t, HotNext(turn[t]))

----------------------------------------------------------------------------
(* Turns are numbered as they are sent.                                       *)
SentInOrder == \E n \in 0 .. MaxTurns : Sent = 1 .. n

(* A socket holds queued turns of its own panel, each once.                   *)
WireInv ==
  \A c \in Clients :
    /\ \A i \in DOMAIN wire[c] :
         /\ turn[wire[c][i]].pc = "queued"
         /\ turn[wire[c][i]].client = c
         /\ turn[wire[c][i]].heard
    /\ \A i, j \in DOMAIN wire[c] : i # j => wire[c][i] # wire[c][j]

Inv == TypeInv /\ HistoryInv /\ StoreInv /\ SentInOrder /\ WireInv /\ BusyMeansPending

----------------------------------------------------------------------------
(* A turn's program counter says which of the records it is.                  *)
LEMMA TurnShape ==
  ASSUME TypeInv, NEW t \in Turns
  PROVE  /\ turn[t].pc = "unsent" => turn[t] = Unsent
         /\ turn[t].pc \in {"queued", "check"} => turn[t] \in Waiting
         /\ turn[t].pc \in LivePcs => turn[t] \in Live
         /\ turn[t].pc = "ended" => turn[t] \in Ended
         /\ turn[t].pc \in {"unsent", "queued", "check", "ended"} \cup LivePcs
<1>1. turn[t] \in {Unsent} \cup Waiting \cup Live \cup Ended
  BY DEF TypeInv
<1>2. CASE turn[t] = Unsent
  BY <1>2 DEF Unsent, LivePcs
<1>3. CASE turn[t] \in Waiting
  BY <1>3 DEF Waiting, LivePcs
<1>4. CASE turn[t] \in Live
  BY <1>4 DEF Live, LivePcs
<1>5. CASE turn[t] \in Ended
  BY <1>5 DEF Ended, LivePcs
<1> QED
  BY <1>1, <1>2, <1>3, <1>4, <1>5

(* A running turn, and the record it leaves.                                  *)
LEMMA RunningShape ==
  ASSUME TypeInv, NEW t \in Turns, Running(t)
  PROVE  /\ turn[t].client \in Clients /\ turn[t].sid \in Sessions /\ turn[t].heard \in BOOLEAN
         /\ Over(t) \in Ended
         /\ turn[t].pc = "check" \/ turn[t].pc \in LivePcs
         /\ turn[t] \in Waiting \/ turn[t] \in Live
<1>1. turn[t] \in Waiting \/ turn[t] \in Live
  BY TurnShape DEF Running
<1>2. turn[t].pc = "check" \/ turn[t].pc \in LivePcs
  BY TurnShape DEF Running
<1> QED
  BY <1>1, <1>2 DEF Waiting, Live, Over, Ended

(* What a step of a running turn may do to the turns and to the events.       *)
Goes(t) ==
  /\ turn' = [turn EXCEPT ![t] = turn'[t]]
  /\ turn'[t] \in Live
  /\ turn'[t].client = turn[t].client /\ turn'[t].heard = turn[t].heard
  /\ UNCHANGED events
Ends(t) ==
  /\ turn' = [turn EXCEPT ![t] = Over(t)]
  /\ \E e \in {"done", "error"} : Tell(t, e)

LEMMA EndsTyped ==
  ASSUME TypeInv, NEW t \in Turns, Running(t), Ends(t)
  PROVE  /\ turn' \in [Turns -> {Unsent} \cup Waiting \cup Live \cup Ended]
         /\ events' \in [Clients -> Seq({"done", "error"})]
         /\ turn[t].heard => events'[turn[t].client] # <<>>
         /\ \A c \in Clients : events'[c] = events[c] \/ events'[c] # <<>>
<1>1. Over(t) \in Ended /\ turn[t].client \in Clients
  BY RunningShape
<1>2. turn' \in [Turns -> {Unsent} \cup Waiting \cup Live \cup Ended]
  BY <1>1 DEF Ends, TypeInv
<1>3. PICK e \in {"done", "error"} : Tell(t, e)
  BY DEF Ends
<1>4. ASSUME NEW c \in Clients
      PROVE  /\ Append(events[c], e) \in Seq({"done", "error"})
             /\ Append(events[c], e) # <<>>
  <2>1. events[c] \in Seq({"done", "error"}) /\ e \in {"done", "error"}
    BY <1>3 DEF TypeInv
  <2> QED
    BY <2>1, AppendProperties
<1> QED
  BY <1>1, <1>2, <1>3, <1>4 DEF Tell, TypeInv

(* Every step of a turn moves it on or ends it, and tells its panel.          *)
LEMMA OpenMoves ==
  ASSUME TypeInv, NEW t \in Turns, Open(t)
  PROVE  Running(t) /\ (Ends(t) \/ (Goes(t) /\ HistoryOK(turn'[t])))
<1>1. turn[t] \in Waiting /\ Running(t) /\ turn[t].pc = "check"
  BY TurnShape DEF Open, Running
<1>2. CASE EndWith(t, "error")
  BY <1>1, <1>2 DEF EndWith, Ends
<1>3. ASSUME NEW known \in BOOLEAN, NEW llm \in Llms, UNCHANGED events,
             turn' = [turn EXCEPT ![t] =
               [pc |-> IF known THEN "own" ELSE "push",
                client |-> @.client, sid |-> @.sid, heard |-> @.heard,
                known |-> known, llm |-> llm,
                loops |-> 0, last |-> FALSE, todo |-> <<>>,
                history |-> <<Text("user")>>]]
      PROVE  Goes(t) /\ HistoryOK(turn'[t])
  <2>1. turn'[t] = [pc |-> IF known THEN "own" ELSE "push",
                    client |-> turn[t].client, sid |-> turn[t].sid, heard |-> turn[t].heard,
                    known |-> known, llm |-> llm,
                    loops |-> 0, last |-> FALSE, todo |-> <<>>,
                    history |-> <<Text("user")>>]
    BY <1>3 DEF TypeInv
  <2>2. <<Text("user")>> \in Seq(Messages) \ {<<>>}
    BY DEF Text, Messages
  <2>3. turn'[t] \in Live
    BY <1>1, <2>1, <2>2 DEF Live, LivePcs, Waiting
  <2>4. Answered(turn'[t])
    BY <2>1 DEF Answered, Text
  <2>5. HistoryOK(turn'[t])
    BY <2>1, <2>4 DEF HistoryOK
  <2> QED
    BY <1>3, <2>1, <2>3, <2>5 DEF Goes, TypeInv
<1> QED
  BY <1>1, <1>2, <1>3 DEF Open

(* Storing the last message leaves the history alone.                         *)
LEMMA StoringMoves ==
  ASSUME TypeInv, HistoryInv, NEW t \in Turns, NEW pc \in LivePcs, turn[t].pc \in {"own", "insert", "push"},
         turn' = [turn EXCEPT ![t].pc = pc], UNCHANGED events,
         pc \in {"insert", "push"} \/ pc = Following(t)
  PROVE  /\ Running(t) /\ Goes(t) /\ HistoryOK(turn'[t])
         /\ turn'[t].pc = pc /\ turn'[t].history = turn[t].history
<1>1. turn[t] \in Live /\ HistoryOK(turn[t])
  BY TurnShape DEF LivePcs, HistoryInv
<1>2. turn'[t] = [turn[t] EXCEPT !.pc = pc]
  BY DEF TypeInv
<1>3. /\ turn'[t] \in Live
      /\ turn'[t].pc = pc /\ turn'[t].history = turn[t].history
      /\ turn'[t].client = turn[t].client /\ turn'[t].heard = turn[t].heard
      /\ turn'[t].last = turn[t].last /\ turn'[t].todo = turn[t].todo
  BY <1>1, <1>2 DEF Live
<1>4. HistoryOK(turn'[t])
  <2>1. Answered(turn[t]) => Answered(turn'[t])
    BY <1>3 DEF Answered
  <2> QED
    BY <1>1, <1>3, <2>1 DEF HistoryOK, Following
<1> QED
  BY <1>3, <1>4 DEF Goes, Running, TypeInv

(* The model's reply: its calls are what is left to do, unless it is the end. *)
LEMMA AnswerMoves ==
  ASSUME TypeInv, HistoryInv, NEW t \in Turns, turn[t].pc = "ask",
         NEW a, a.calls \in Seq(Tools), a.last \in BOOLEAN, Answer(t, a), UNCHANGED events
  PROVE  /\ Running(t) /\ Goes(t) /\ HistoryOK(turn'[t])
         /\ turn'[t].pc \in {"own", "push"}
         /\ Len(turn'[t].history) = Len(turn[t].history) + 1
<1> DEFINE h == turn[t].history
           g == Append(h, Reply(a.calls))
           todo == IF a.last THEN <<>> ELSE a.calls
           pc == IF turn[t].known THEN "own" ELSE "push"
<1>1. turn[t] \in Live /\ HistoryOK(turn[t])
  BY TurnShape DEF LivePcs, HistoryInv
<1>2. turn'[t] = [turn[t] EXCEPT !.pc = pc, !.loops = turn[t].loops + 1, !.last = a.last,
                                 !.todo = todo, !.history = g]
  BY DEF Answer, TypeInv
<1>3. h \in Seq(Messages) /\ turn[t].loops \in Nat
  BY <1>1 DEF Live
<1>4. Reply(a.calls) \in Messages /\ Reply(a.calls).calls = a.calls
  BY DEF Reply, Messages
<1>5. /\ g \in Seq(Messages) \ {<<>>} /\ Len(g) = Len(h) + 1
      /\ \A i \in 1 .. Len(h) : g[i] = h[i]
      /\ g[Len(h) + 1] = Reply(a.calls)
  BY <1>3, <1>4, AppendProperties
<1>6. todo \in Seq(Tools) /\ pc \in {"own", "push"}
  OBVIOUS
<1> HIDE DEF g, h, todo, pc
<1>7. turn'[t] \in Live
  <2>1. PICK l \in BOOLEAN : l = a.last
    OBVIOUS
  <2>2. PICK m \in Nat : m = turn[t].loops + 1
    BY <1>3
  <2>3. turn'[t] = [turn[t] EXCEPT !.pc = pc, !.loops = m, !.last = l, !.todo = todo, !.history = g]
    BY <1>2, <2>1, <2>2
  <2> QED
    BY <1>1, <1>5, <1>6, <2>3 DEF Live, LivePcs
<1>8. /\ turn'[t].pc = pc /\ turn'[t].history = g /\ turn'[t].todo = todo
      /\ turn'[t].last = a.last
      /\ turn'[t].client = turn[t].client /\ turn'[t].heard = turn[t].heard
  BY <1>1, <1>2 DEF Live
<1>9. ASSUME ~a.last
      PROVE  Answered(turn'[t])
  <2>1. turn[t].todo = <<>> /\ Answered(turn[t])
    BY <1>1 DEF HistoryOK
  <2>2. todo = a.calls
    BY <1>9 DEF todo
  <2> SUFFICES ASSUME NEW i \in DOMAIN g, g[i].role = "assistant", NEW k \in DOMAIN g[i].calls
               PROVE  \/ i + k <= Len(g) /\ g[i + k] = Result(g[i].calls[k])
                      \/ /\ i + k > Len(g)
                         /\ i + k - Len(g) \in DOMAIN todo
                         /\ todo[i + k - Len(g)] = g[i].calls[k]
    BY <1>8 DEF Answered
  <2>3. i \in 1 .. Len(h) + 1
    BY <1>5
  <2>4. CASE i \in 1 .. Len(h)
    <3>1. g[i] = h[i] /\ i \in DOMAIN h
      BY <1>3, <1>5, <2>4
    <3>2. i + k <= Len(h) /\ h[i + k] = Result(h[i].calls[k])
      BY <2>1, <3>1 DEF Answered, h
    <3>3. k \in Nat \ {0}
      <4>1. h[i].calls \in Seq(Tools)
        BY <1>3, <2>4, <3>1 DEF Messages
      <4> QED
        BY <3>1, <4>1
    <3>4. i + k \in 1 .. Len(h)
      BY <1>3, <2>4, <3>2, <3>3
    <3> QED
      BY <1>3, <1>5, <3>1, <3>2, <3>4
  <2>5. CASE i = Len(h) + 1
    <3>1. g[i].calls = a.calls /\ k \in 1 .. Len(a.calls)
      BY <1>4, <1>5, <2>5
    <3>2. i + k - Len(g) = k /\ i + k > Len(g)
      BY <1>3, <1>5, <2>5, <3>1
    <3> QED
      BY <2>2, <3>1, <3>2
  <2> QED
    BY <1>3, <2>3, <2>4, <2>5
<1>10. HistoryOK(turn'[t])
  BY <1>6, <1>8, <1>9 DEF HistoryOK
<1>11. turn' = [turn EXCEPT ![t] = turn'[t]]
  BY DEF Answer, TypeInv
<1> QED
  BY <1>5, <1>6, <1>7, <1>8, <1>10, <1>11 DEF Goes, Running, h

(* One tool call: the first of `todo` becomes the next of the history.        *)
LEMMA CallMoves ==
  ASSUME TypeInv, HistoryInv, NEW t \in Turns, Call(t)
  PROVE  /\ Running(t) /\ Goes(t) /\ HistoryOK(turn'[t])
         /\ turn'[t].pc \in {"own", "push"}
         /\ Len(turn'[t].history) = Len(turn[t].history) + 1
<1> DEFINE h == turn[t].history
           td == turn[t].todo
           tool == Head(td)
           g == Append(h, Result(tool))
           pc == IF turn[t].known /\ tool \in MemoryTools THEN "own" ELSE "push"
<1>1. turn[t] \in Live /\ HistoryOK(turn[t]) /\ turn[t].pc = "call"
  BY TurnShape DEF LivePcs, HistoryInv, Call
<1>2. turn'[t] = [turn[t] EXCEPT !.todo = Tail(td), !.pc = pc, !.history = g]
  BY DEF Call, TypeInv
<1>3. /\ h \in Seq(Messages) /\ td \in Seq(Tools) /\ td # <<>>
      /\ ~turn[t].last /\ Answered(turn[t])
  BY <1>1 DEF Live, HistoryOK
<1>4. /\ tool \in Tools /\ Tail(td) \in Seq(Tools) /\ Len(Tail(td)) = Len(td) - 1
      /\ tool = td[1] /\ Len(td) \in Nat \ {0}
      /\ \A n \in 1 .. Len(td) - 1 : Tail(td)[n] = td[n + 1]
  BY <1>3
<1>5. Result(tool) \in Messages /\ Result(tool).role = "tool"
  BY <1>4 DEF Result, Messages
<1>6. /\ g \in Seq(Messages) \ {<<>>} /\ Len(g) = Len(h) + 1
      /\ \A i \in 1 .. Len(h) : g[i] = h[i]
      /\ g[Len(h) + 1] = Result(tool)
  BY <1>3, <1>5, AppendProperties
<1>7. pc \in {"own", "push"}
  OBVIOUS
<1> HIDE DEF g, h, td, tool, pc
<1>8. turn'[t] \in Live
  BY <1>1, <1>2, <1>4, <1>6, <1>7 DEF Live, LivePcs
<1>9. /\ turn'[t].pc = pc /\ turn'[t].history = g /\ turn'[t].todo = Tail(td)
      /\ turn'[t].client = turn[t].client /\ turn'[t].heard = turn[t].heard
  BY <1>1, <1>2 DEF Live
<1>10. Answered(turn'[t])
  <2> SUFFICES ASSUME NEW i \in DOMAIN g, g[i].role = "assistant", NEW k \in DOMAIN g[i].calls
               PROVE  \/ i + k <= Len(g) /\ g[i + k] = Result(g[i].calls[k])
                      \/ /\ i + k > Len(g)
                         /\ i + k - Len(g) \in DOMAIN Tail(td)
                         /\ Tail(td)[i + k - Len(g)] = g[i].calls[k]
    BY <1>9 DEF Answered
  <2>1. i \in 1 .. Len(h)
    BY <1>3, <1>5, <1>6
  <2>2. g[i] = h[i] /\ i \in DOMAIN h
    BY <1>3, <1>6, <2>1
  <2>3. k \in Nat \ {0}
    <3>1. h[i].calls \in Seq(Tools)
      BY <1>3, <2>1, <2>2 DEF Messages
    <3> QED
      BY <2>2, <3>1
  <2>4. \/ i + k <= Len(h) /\ h[i + k] = Result(h[i].calls[k])
        \/ /\ i + k > Len(h)
           /\ i + k - Len(h) \in DOMAIN td
           /\ td[i + k - Len(h)] = h[i].calls[k]
    BY <1>3, <2>2 DEF Answered, h, td
  <2>5. CASE i + k <= Len(h) /\ h[i + k] = Result(h[i].calls[k])
    <3>1. i + k \in 1 .. Len(h)
      BY <1>3, <2>1, <2>3, <2>5
    <3> QED
      BY <1>3, <1>6, <2>2, <2>5, <3>1
  <2>6. CASE i + k = Len(h) + 1 /\ td[i + k - Len(h)] = h[i].calls[k]
    <3>1. i + k - Len(h) = 1
      BY <1>3, <2>1, <2>3, <2>6
    <3> QED
      BY <1>4, <1>6, <2>2, <2>6, <3>1
  <2>7. CASE /\ i + k > Len(h) + 1
             /\ i + k - Len(h) \in DOMAIN td
             /\ td[i + k - Len(h)] = h[i].calls[k]
    <3>1. i + k - Len(g) \in 1 .. Len(td) - 1 /\ (i + k - Len(g)) + 1 = i + k - Len(h)
      BY <1>3, <1>4, <1>6, <2>1, <2>3, <2>7
    <3> QED
      BY <1>3, <1>4, <1>6, <2>1, <2>2, <2>3, <2>7, <3>1
  <2> QED
    BY <1>3, <2>1, <2>3, <2>4, <2>5, <2>6, <2>7
<1>11. HistoryOK(turn'[t])
  BY <1>7, <1>9, <1>10 DEF HistoryOK
<1>12. turn' = [turn EXCEPT ![t] = turn'[t]] /\ UNCHANGED events
  BY DEF Call, TypeInv
<1> QED
  BY <1>1, <1>6, <1>7, <1>8, <1>9, <1>11, <1>12 DEF Goes, Running, h

----------------------------------------------------------------------------
(* What a stream adds up to is a list of tool calls.                          *)
LEMMA AnswersTyped ==
  ASSUME NEW llm \in Llms, NEW a \in Answers(llm)
  PROVE  a.calls \in Seq(Tools) /\ a.last \in BOOLEAN
<1>1. ASSUME NEW calls \in Calls
      PROVE  calls \in Seq(Tools)
  <2>1. PICK n \in 0 .. MaxCalls : calls \in [1 .. n -> Tools]
    BY <1>1 DEF Calls
  <2> QED
    BY <2>1, ChatAssumption
<1>2. <<>> \in Seq(Tools)
  OBVIOUS
<1> QED
  BY <1>1, <1>2, ChatAssumption
  DEF Answers, AnthropicAnswers, ChatGptAnswers, OpenAiAnswers, LocalAnswers

(* Every step of a turn, but for what it stores.                              *)
LEMMA TurnMoves ==
  ASSUME TypeInv, HistoryInv, NEW t \in Turns, TurnStep(t)
  PROVE  /\ Running(t) /\ UNCHANGED <<panel, wire>>
         /\ Ends(t) \/ (Goes(t) /\ HistoryOK(turn'[t]))
<1>1. CASE Open(t)
  BY <1>1, OpenMoves DEF Open, browser
<1>2. CASE Own(t)
  <2>1. PICK pc \in {"insert", "push"} : turn' = [turn EXCEPT ![t].pc = pc]
    BY <1>2 DEF Own
  <2> QED
    BY <1>2, <2>1, StoringMoves DEF Own, browser, LivePcs
<1>3. CASE Insert(t)
  BY <1>3, StoringMoves DEF Insert, browser, LivePcs
<1>4. CASE Push(t)
  <2>1. Following(t) \in LivePcs
    BY DEF Following, LivePcs
  <2> QED
    BY <1>4, <2>1, StoringMoves DEF Push, browser
<1>5. CASE Ask(t)
  <2>1. turn[t] \in Live /\ Running(t)
    BY <1>5, TurnShape DEF Ask, LivePcs, Running
  <2>2. CASE EndWith(t, "error")
    BY <1>5, <2>1, <2>2 DEF EndWith, Ends, Ask, browser
  <2>3. ASSUME NEW a \in Answers(turn[t].llm), Answer(t, a), UNCHANGED events
        PROVE  Goes(t) /\ HistoryOK(turn'[t])
    <3>1. a.calls \in Seq(Tools) /\ a.last \in BOOLEAN
      BY <2>1, <2>3, AnswersTyped DEF Live
    <3> QED
      BY <1>5, <2>3, <3>1, AnswerMoves DEF Ask
  <2> QED
    BY <1>5, <2>1, <2>2, <2>3 DEF Ask, browser
<1>6. CASE Done(t)
  <2>1. Running(t)
    BY <1>6 DEF Done, Running
  <2> QED
    BY <1>6, <2>1 DEF Done, EndWith, Ends, browser
<1>7. CASE Call(t)
  BY <1>7, CallMoves DEF Call, browser
<1> QED
  BY <1>1, <1>2, <1>3, <1>4, <1>5, <1>6, <1>7 DEF TurnStep

----------------------------------------------------------------------------
(* A message stored in its turn.                                              *)
LEMMA AppendStored ==
  ASSUME NEW tier \in Seq(Stored), NEW t \in Turns, NEW n \in Nat \ {0},
         Under(tier, t, n), Ordered(tier)
  PROVE  /\ Append(tier, <<t, n>>) \in Seq(Stored)
         /\ Ordered(Append(tier, <<t, n>>))
         /\ Under(Append(tier, <<t, n>>), t, n + 1)
         /\ \A u \in Turns \ {t}, m \in Nat :
              Under(tier, u, m) => Under(Append(tier, <<t, n>>), u, m)
<1> DEFINE new == Append(tier, <<t, n>>)
<1>1. <<t, n>> \in Stored
  BY DEF Stored
<1>2. /\ new \in Seq(Stored) /\ Len(new) = Len(tier) + 1 /\ Len(tier) \in Nat
      /\ \A i \in 1 .. Len(tier) : new[i] = tier[i]
      /\ new[Len(tier) + 1] = <<t, n>>
  BY <1>1, AppendProperties
<1>3. DOMAIN new = 1 .. Len(tier) + 1 /\ DOMAIN tier = 1 .. Len(tier)
  BY <1>2
<1>4. \A i \in DOMAIN tier : tier[i][1] \in Turns /\ tier[i][2] \in Nat
  BY DEF Stored
<1> HIDE DEF new
<1>5. \A i \in DOMAIN new : i \in DOMAIN tier \/ i = Len(tier) + 1
  BY <1>2, <1>3
<1>6. new[Len(tier) + 1][1] = t /\ new[Len(tier) + 1][2] = n
  BY <1>2
<1>7. Ordered(new)
  <2> SUFFICES ASSUME NEW i \in DOMAIN new, NEW j \in DOMAIN new, i < j, new[i][1] = new[j][1]
               PROVE  new[i][2] < new[j][2]
    BY DEF Ordered
  <2>1. i \in DOMAIN tier /\ new[i] = tier[i]
    BY <1>2, <1>3
  <2>2. CASE j \in DOMAIN tier
    BY <1>2, <1>3, <2>1, <2>2 DEF Ordered
  <2>3. CASE j = Len(tier) + 1
    BY <1>6, <2>1, <2>3 DEF Under
  <2> QED
    BY <1>5, <2>2, <2>3
<1>8. Under(new, t, n + 1)
  <2> SUFFICES ASSUME NEW i \in DOMAIN new, new[i][1] = t
               PROVE  new[i][2] < n + 1
    BY DEF Under
  <2>1. CASE i \in DOMAIN tier
    <3>1. tier[i][2] < n /\ tier[i][2] \in Nat /\ new[i] = tier[i]
      BY <1>2, <1>3, <1>4, <2>1 DEF Under
    <3> QED
      BY <3>1
  <2>2. CASE i = Len(tier) + 1
    BY <1>6, <2>2
  <2> QED
    BY <1>5, <2>1, <2>2
<1>9. ASSUME NEW u \in Turns \ {t}, NEW m \in Nat, Under(tier, u, m)
      PROVE  Under(new, u, m)
  BY <1>2, <1>3, <1>5, <1>6, <1>9 DEF Under
<1> QED
  BY <1>2, <1>7, <1>8, <1>9 DEF new

(* A turn that moves on may store later messages only.                        *)
LEMMA NextTyped ==
  ASSUME NEW q \in {Unsent} \cup Waiting \cup Live \cup Ended
  PROVE  LogNext(q) \in Nat /\ HotNext(q) \in Nat
<1>1. CASE q \in Live
  <2>1. q.history \in Seq(Messages)
    BY <1>1 DEF Live
  <2> QED
    BY <2>1 DEF LogNext, HotNext
<1>2. CASE q \notin Live
  <2>1. q.pc \notin LivePcs
    BY <1>2 DEF Unsent, Waiting, Ended, LivePcs
  <2> QED
    BY <2>1 DEF LogNext, HotNext
<1> QED
  BY <1>1, <1>2

LEMMA UnderGrows ==
  ASSUME NEW tier \in Seq(Stored), NEW u, NEW n \in Nat, NEW m \in Nat, n <= m,
         Under(tier, u, n)
  PROVE  Under(tier, u, m)
<1>1. \A i \in DOMAIN tier : tier[i][2] \in Nat
  BY DEF Stored
<1> QED
  BY <1>1 DEF Under

(* Turns that move on without storing anything.                               *)
LEMMA StoreKeeps ==
  ASSUME TypeInv, StoreInv, TypeInv', UNCHANGED <<log, hot>>,
         \A u \in Turns :
           \/ turn'[u] = turn[u]
           \/ turn'[u].pc = "ended"
           \/ /\ turn[u].pc # "ended"
              /\ LogNext(turn[u]) <= LogNext(turn'[u])
              /\ HotNext(turn[u]) <= HotNext(turn'[u])
  PROVE  StoreInv'
<1>1. ASSUME NEW u \in Turns
      PROVE  /\ LogNext(turn[u]) \in Nat /\ HotNext(turn[u]) \in Nat
             /\ LogNext(turn'[u]) \in Nat /\ HotNext(turn'[u]) \in Nat
  <2>1. /\ turn[u] \in {Unsent} \cup Waiting \cup Live \cup Ended
        /\ turn'[u] \in {Unsent} \cup Waiting \cup Live \cup Ended
    BY DEF TypeInv
  <2> QED
    BY <2>1, NextTyped
<1>3. ASSUME NEW s \in Sessions, NEW u \in Turns, turn'[u].pc # "ended"
      PROVE  Under(log[s], u, LogNext(turn'[u])) /\ Under(hot[s], u, HotNext(turn'[u]))
  <2>1. log[s] \in Seq(Stored) /\ hot[s] \in Seq(Stored)
    BY DEF TypeInv
  <2>2. CASE turn'[u] = turn[u]
    BY <1>3, <2>2 DEF StoreInv
  <2>3. CASE /\ turn[u].pc # "ended"
             /\ LogNext(turn[u]) <= LogNext(turn'[u])
             /\ HotNext(turn[u]) <= HotNext(turn'[u])
    <3>1. Under(log[s], u, LogNext(turn[u])) /\ Under(hot[s], u, HotNext(turn[u]))
      BY <2>3 DEF StoreInv
    <3> QED
      BY <1>1, <2>1, <2>3, <3>1, UnderGrows
  <2> QED
    BY <1>3, <2>2, <2>3
<1> QED
  BY <1>3 DEF StoreInv

(* The message Insert and Push store.                                         *)
LEMMA LastTyped ==
  ASSUME TypeInv, NEW t \in Turns, turn[t].pc \in LivePcs
  PROVE  /\ turn[t] \in Live /\ turn[t].sid \in Sessions
         /\ Len(turn[t].history) \in Nat \ {0}
         /\ Last(t) = <<t, Len(turn[t].history)>> /\ Last(t) \in Stored
<1>1. turn[t] \in Live
  BY TurnShape
<1>2. turn[t].history \in Seq(Messages) /\ turn[t].history # <<>> /\ turn[t].sid \in Sessions
  BY <1>1 DEF Live
<1>3. Len(turn[t].history) \in Nat \ {0}
  BY <1>2
<1> QED
  BY <1>1, <1>2, <1>3 DEF Last, Stored

LEMMA TurnTyped ==
  ASSUME TypeInv, HistoryInv, NEW t \in Turns, TurnStep(t)
  PROVE  /\ TypeInv' /\ HistoryInv'
         /\ \A u \in Turns \ {t} : turn'[u] = turn[u]
         /\ turn'[t].pc = "ended" \/ turn'[t] \in Live
<1>1. /\ Running(t) /\ UNCHANGED <<panel, wire>>
      /\ Ends(t) \/ (Goes(t) /\ HistoryOK(turn'[t]))
  BY TurnMoves
<1>2. /\ turn' \in [Turns -> {Unsent} \cup Waiting \cup Live \cup Ended]
      /\ events' \in [Clients -> Seq({"done", "error"})]
  <2>1. CASE Ends(t)
    BY <1>1, <2>1, EndsTyped
  <2>2. CASE Goes(t)
    <3>1. PICK q \in Live : turn' = [turn EXCEPT ![t] = q]
      BY <2>2 DEF Goes
    <3> QED
      BY <2>2, <3>1 DEF Goes, TypeInv
  <2> QED
    BY <1>1, <2>1, <2>2
<1>3. \A u \in Turns \ {t} : turn'[u] = turn[u]
  <2>1. \E q : turn' = [turn EXCEPT ![t] = q]
    BY <1>1 DEF Ends, Goes
  <2> QED
    BY <2>1 DEF TypeInv
<1>4. turn'[t].pc = "ended" \/ (turn'[t] \in Live /\ HistoryOK(turn'[t]))
  BY <1>1 DEF Ends, Goes, Over, TypeInv
<1>5. HistoryInv'
  BY <1>3, <1>4 DEF HistoryInv, LivePcs
<1>6. log' \in [Sessions -> Seq(Stored)] /\ hot' \in [Sessions -> Seq(Stored)]
  <2>1. CASE Insert(t)
    <3>1. Last(t) \in Stored
      BY <2>1, LastTyped DEF Insert, LivePcs
    <3>2. \A s \in Sessions : Append(log[s], Last(t)) \in Seq(Stored)
      BY <3>1, AppendProperties DEF TypeInv
    <3> QED
      BY <2>1, <3>2 DEF Insert, TypeInv
  <2>2. CASE Push(t)
    <3>1. Last(t) \in Stored
      BY <2>2, LastTyped DEF Push, LivePcs
    <3>2. \A s \in Sessions : Append(hot[s], Last(t)) \in Seq(Stored)
      BY <3>1, AppendProperties DEF TypeInv
    <3>3. UNCHANGED hot => hot' \in [Sessions -> Seq(Stored)]
      BY DEF TypeInv
    <3>4. ASSUME NEW z \in Sessions, NEW new \in Seq(Stored), hot' = [hot EXCEPT ![z] = new]
          PROVE  hot' \in [Sessions -> Seq(Stored)]
      BY <3>4 DEF TypeInv
    <3>5. turn[t].sid \in Sessions
      BY <2>2, LastTyped DEF Push, LivePcs
    <3>6. hot' \in [Sessions -> Seq(Stored)]
      BY <2>2, <3>2, <3>3, <3>4, <3>5 DEF Push
    <3>7. UNCHANGED log
      BY <2>2 DEF Push
    <3> QED
      BY <3>6, <3>7 DEF TypeInv
  <2>3. CASE ~Insert(t) /\ ~Push(t)
    BY <2>3 DEF TurnStep, Open, Own, Ask, Done, Call, tiers, TypeInv
  <2> QED
    BY <2>1, <2>2, <2>3
<1> QED
  BY <1>1, <1>2, <1>3, <1>4, <1>5, <1>6 DEF TypeInv

(* The second statement of append_chat_turn.                                  *)
LEMMA InsertStores ==
  ASSUME TypeInv, HistoryInv, StoreInv, NEW t \in Turns, Insert(t)
  PROVE  StoreInv'
<1> DEFINE n == Len(turn[t].history)
           z == turn[t].sid
<1>1. z \in Sessions /\ n \in Nat \ {0} /\ Last(t) = <<t, n>>
  BY LastTyped DEF Insert, LivePcs
<1>2. /\ turn'[t].pc = "push" /\ turn'[t].history = turn[t].history
      /\ \A u \in Turns \ {t} : turn'[u] = turn[u]
  BY StoringMoves, TurnTyped DEF Insert, LivePcs, TurnStep
<1>3. turn[t].pc = "insert" /\ UNCHANGED hot
  BY DEF Insert
<1>4. /\ LogNext(turn[t]) = n /\ LogNext(turn'[t]) = n + 1
      /\ HotNext(turn[t]) = n /\ HotNext(turn'[t]) = n
  BY <1>2, <1>3 DEF LogNext, HotNext, LivePcs
<1>5. \A s \in Sessions :
        /\ log[s] \in Seq(Stored) /\ hot[s] \in Seq(Stored)
        /\ Ordered(log[s]) /\ Ordered(hot[s])
        /\ Under(log[s], t, n) /\ Under(hot[s], t, n)
  BY <1>3, <1>4 DEF StoreInv, TypeInv
<1>6. \A u \in Turns : LogNext(turn[u]) \in Nat
  BY NextTyped DEF TypeInv
<1>7. log' = log \/ log' = [log EXCEPT ![z] = Append(log[z], <<t, n>>)]
  BY <1>1 DEF Insert
<1> HIDE DEF n, z
<1>8. ASSUME NEW s \in Sessions
      PROVE  /\ Ordered(log'[s])
             /\ Under(log'[s], t, n + 1)
             /\ \A u \in Turns \ {t} : turn[u].pc # "ended" => Under(log'[s], u, LogNext(turn[u]))
  <2>1. Under(log[s], t, n + 1)
    BY <1>1, <1>5, UnderGrows
  <2>2. \A u \in Turns \ {t} : turn[u].pc # "ended" => Under(log[s], u, LogNext(turn[u]))
    BY DEF StoreInv
  <2>3. CASE log'[s] = log[s]
    BY <1>5, <2>1, <2>2, <2>3
  <2>4. CASE log'[s] = Append(log[s], <<t, n>>)
    <3>1. /\ Ordered(Append(log[s], <<t, n>>))
          /\ Under(Append(log[s], <<t, n>>), t, n + 1)
          /\ \A u \in Turns \ {t}, m \in Nat :
               Under(log[s], u, m) => Under(Append(log[s], <<t, n>>), u, m)
      BY <1>1, <1>5, AppendStored
    <3> QED
      BY <1>6, <2>2, <2>4, <3>1
  <2>5. log'[s] \in {log[s], Append(log[s], <<t, n>>)}
    BY <1>1, <1>7 DEF TypeInv
  <2> QED
    BY <2>3, <2>4, <2>5
<1>9. ASSUME NEW s \in Sessions, NEW u \in Turns, turn'[u].pc # "ended"
      PROVE  Under(log'[s], u, LogNext(turn'[u])) /\ Under(hot'[s], u, HotNext(turn'[u]))
  BY <1>2, <1>3, <1>4, <1>5, <1>8, <1>9 DEF StoreInv
<1> QED
  BY <1>3, <1>5, <1>8, <1>9 DEF StoreInv

(* conv_push.                                                                 *)
LEMMA PushStores ==
  ASSUME TypeInv, HistoryInv, StoreInv, NEW t \in Turns, Push(t)
  PROVE  StoreInv'
<1> DEFINE n == Len(turn[t].history)
           z == turn[t].sid
<1>1. z \in Sessions /\ n \in Nat \ {0} /\ Last(t) = <<t, n>>
  BY LastTyped DEF Push, LivePcs
<1>a. Following(t) \in {"ask", "call", "done"}
  BY DEF Following
<1>2. /\ turn'[t].pc \in {"ask", "call", "done"} /\ turn'[t].history = turn[t].history
      /\ \A u \in Turns \ {t} : turn'[u] = turn[u]
  BY <1>a, StoringMoves, TurnTyped DEF Push, LivePcs, TurnStep
<1>3. turn[t].pc = "push" /\ UNCHANGED log
  BY DEF Push
<1>4. /\ LogNext(turn[t]) = n + 1 /\ LogNext(turn'[t]) = n + 1
      /\ HotNext(turn[t]) = n /\ HotNext(turn'[t]) = n + 1
  BY <1>2, <1>3 DEF LogNext, HotNext, LivePcs
<1>5. \A s \in Sessions :
        /\ log[s] \in Seq(Stored) /\ hot[s] \in Seq(Stored)
        /\ Ordered(log[s]) /\ Ordered(hot[s])
        /\ Under(log[s], t, n + 1) /\ Under(hot[s], t, n)
  BY <1>3, <1>4 DEF StoreInv, TypeInv
<1>6. \A u \in Turns : HotNext(turn[u]) \in Nat
  BY NextTyped DEF TypeInv
<1>7. hot' = hot \/ hot' = [hot EXCEPT ![z] = Append(hot[z], <<t, n>>)]
  BY <1>1 DEF Push
<1> HIDE DEF n, z
<1>8. ASSUME NEW s \in Sessions
      PROVE  /\ Ordered(hot'[s])
             /\ Under(hot'[s], t, n + 1)
             /\ \A u \in Turns \ {t} : turn[u].pc # "ended" => Under(hot'[s], u, HotNext(turn[u]))
  <2>1. Under(hot[s], t, n + 1)
    BY <1>1, <1>5, UnderGrows
  <2>2. \A u \in Turns \ {t} : turn[u].pc # "ended" => Under(hot[s], u, HotNext(turn[u]))
    BY DEF StoreInv
  <2>3. CASE hot'[s] = hot[s]
    BY <1>5, <2>1, <2>2, <2>3
  <2>4. CASE hot'[s] = Append(hot[s], <<t, n>>)
    <3>1. /\ Ordered(Append(hot[s], <<t, n>>))
          /\ Under(Append(hot[s], <<t, n>>), t, n + 1)
          /\ \A u \in Turns \ {t}, m \in Nat :
               Under(hot[s], u, m) => Under(Append(hot[s], <<t, n>>), u, m)
      BY <1>1, <1>5, AppendStored
    <3> QED
      BY <1>6, <2>2, <2>4, <3>1
  <2>5. hot'[s] \in {hot[s], Append(hot[s], <<t, n>>)}
    BY <1>1, <1>7 DEF TypeInv
  <2> QED
    BY <2>3, <2>4, <2>5
<1>9. ASSUME NEW s \in Sessions, NEW u \in Turns, turn'[u].pc # "ended"
      PROVE  Under(log'[s], u, LogNext(turn'[u])) /\ Under(hot'[s], u, HotNext(turn'[u]))
  BY <1>2, <1>3, <1>4, <1>5, <1>8, <1>9 DEF StoreInv
<1> QED
  BY <1>3, <1>5, <1>8, <1>9 DEF StoreInv

(* The other steps of a turn store nothing.                                   *)
LEMMA TurnStores ==
  ASSUME TypeInv, HistoryInv, StoreInv, NEW t \in Turns, TurnStep(t)
  PROVE  StoreInv'
<1>1. TypeInv' /\ \A u \in Turns \ {t} : turn'[u] = turn[u]
  BY TurnTyped
<1>2. ASSUME \/ turn'[t].pc = "ended"
             \/ /\ turn[t].pc # "ended"
                /\ LogNext(turn[t]) <= LogNext(turn'[t])
                /\ HotNext(turn[t]) <= HotNext(turn'[t]),
             UNCHANGED <<log, hot>>
      PROVE  StoreInv'
  BY <1>1, <1>2, StoreKeeps
<1>3. CASE Open(t)
  <2>1. turn[t].pc = "check" /\ UNCHANGED <<log, hot>>
    BY <1>3 DEF Open, tiers
  <2>2. CASE turn'[t].pc = "ended"
    BY <1>2, <2>1, <2>2
  <2>3. CASE turn'[t] \in Live
    <3>1. LogNext(turn[t]) = 1 /\ HotNext(turn[t]) = 1
      BY <2>1 DEF LogNext, HotNext, LivePcs
    <3>2. turn'[t].history \in Seq(Messages) /\ turn'[t].history # <<>>
      BY <2>3 DEF Live
    <3>3. Len(turn'[t].history) \in Nat \ {0}
      BY <3>2
    <3>4. LogNext(turn'[t]) \in Nat \ {0} /\ HotNext(turn'[t]) \in Nat \ {0}
      BY <3>3 DEF LogNext, HotNext
    <3> QED
      BY <1>2, <2>1, <3>1, <3>4
  <2> QED
    BY <2>2, <2>3, TurnTyped
<1>4. CASE Own(t)
  <2>1. turn[t].pc = "own" /\ UNCHANGED <<log, hot>>
    BY <1>4 DEF Own
  <2>2. PICK pc \in {"insert", "push"} : turn' = [turn EXCEPT ![t].pc = pc]
    BY <1>4 DEF Own
  <2>3. turn'[t].pc \in {"insert", "push"} /\ turn'[t].history = turn[t].history
    BY <1>4, <2>2, StoringMoves DEF Own, LivePcs
  <2>4. Len(turn[t].history) \in Nat
    BY <2>1, LastTyped DEF LivePcs
  <2> QED
    BY <1>2, <2>1, <2>3, <2>4 DEF LogNext, HotNext, LivePcs
<1>5. ASSUME turn[t].pc \in {"ask", "call"}, turn'[t].pc \in {"own", "push"},
             Len(turn'[t].history) = Len(turn[t].history) + 1, UNCHANGED <<log, hot>>
      PROVE  StoreInv'
  <2>1. Len(turn[t].history) \in Nat
    BY <1>5, LastTyped DEF LivePcs
  <2> QED
    BY <1>2, <1>5, <2>1 DEF LogNext, HotNext, LivePcs
<1>6. CASE Ask(t)
  <2>1. turn[t].pc = "ask" /\ UNCHANGED <<log, hot>>
    BY <1>6 DEF Ask, tiers
  <2>2. CASE EndWith(t, "error")
    BY <1>2, <2>1, <2>2 DEF EndWith, Over, TypeInv
  <2>3. ASSUME NEW a \in Answers(turn[t].llm), Answer(t, a), UNCHANGED events
        PROVE  StoreInv'
    <3>1. a.calls \in Seq(Tools) /\ a.last \in BOOLEAN
      BY <2>1, <2>3, AnswersTyped, LastTyped DEF Live, LivePcs
    <3> QED
      BY <1>5, <2>1, <2>3, <3>1, AnswerMoves
  <2> QED
    BY <1>6, <2>2, <2>3 DEF Ask
<1>7. CASE Done(t)
  BY <1>2, <1>7 DEF Done, EndWith, Over, TypeInv, tiers
<1>8. CASE Call(t)
  BY <1>5, <1>8, CallMoves DEF Call, tiers
<1> QED
  BY <1>3, <1>4, <1>6, <1>7, <1>8, InsertStores, PushStores DEF TurnStep

----------------------------------------------------------------------------
(* Which turns were sent, when no turn is sent by the step.                   *)
LEMMA SameSent ==
  ASSUME SentInOrder, \A u \in Turns : turn'[u].pc = "unsent" <=> turn[u].pc = "unsent"
  PROVE  Sent' = Sent /\ SentInOrder'
<1>1. Sent' = Sent
  BY DEF Sent
<1> QED
  BY <1>1 DEF SentInOrder

(* A turn that ends tells its panel, and one that goes on is still running.   *)
LEMMA TurnServes ==
  ASSUME Inv, NEW t \in Turns, TurnStep(t)
  PROVE  SentInOrder' /\ WireInv' /\ BusyMeansPending'
<1>0. TypeInv /\ HistoryInv
  BY DEF Inv
<1>1. /\ Running(t) /\ UNCHANGED <<panel, wire>>
      /\ Ends(t) \/ Goes(t)
  BY <1>0, TurnMoves
<1>2. /\ \A u \in Turns \ {t} : turn'[u] = turn[u]
      /\ turn'[t].pc = "ended" \/ turn'[t] \in Live
  BY <1>0, TurnTyped
<1>3. turn'[t].pc # "unsent"
  BY <1>2 DEF Live, LivePcs
<1>4. Sent' = Sent /\ SentInOrder'
  BY <1>1, <1>2, <1>3, SameSent DEF Running, Inv
<1>5. ASSUME NEW c \in Clients, NEW i \in DOMAIN wire[c]
      PROVE  turn'[wire[c][i]] = turn[wire[c][i]]
  <2>1. wire[c][i] \in Turns
    BY <1>0 DEF TypeInv
  <2>2. turn[wire[c][i]].pc = "queued"
    BY DEF Inv, WireInv
  <2> QED
    BY <1>1, <1>2, <2>1, <2>2 DEF Running
<1>6. WireInv'
  BY <1>1, <1>5 DEF Inv, WireInv
<1>7. ASSUME NEW c \in Clients, Waits(c)
      PROVE  \/ wire[c] # <<>> \/ events'[c] # <<>>
             \/ \E u \in Turns : turn'[u].pc \notin {"unsent", "queued", "ended"}
                                   /\ turn'[u].client = c /\ turn'[u].heard
  <2>1. CASE wire[c] # <<>>
    BY <2>1
  <2>2. CASE events[c] # <<>>
    <3>1. events'[c] = events[c] \/ events'[c] # <<>>
      BY <1>0, <1>1, EndsTyped DEF Goes
    <3> QED
      BY <2>2, <3>1
  <2>3. ASSUME NEW u \in Sent, Running(u), turn[u].client = c, turn[u].heard
        PROVE  \/ events'[c] # <<>>
               \/ \E v \in Turns : turn'[v].pc \notin {"unsent", "queued", "ended"}
                                     /\ turn'[v].client = c /\ turn'[v].heard
    <3>0. u \in Turns
      BY DEF Sent
    <3>1. CASE u # t
      BY <1>2, <2>3, <3>0, <3>1 DEF Running
    <3>2. CASE u = t /\ Ends(t)
      BY <1>0, <1>1, <2>3, <3>2, EndsTyped
    <3>3. CASE u = t /\ Goes(t)
      <4>1. turn'[t].pc \in LivePcs
        BY <3>3 DEF Goes, Live
      <4>2. turn'[t].client = c /\ turn'[t].heard
        BY <2>3, <3>3 DEF Goes
      <4> QED
        BY <4>1, <4>2 DEF LivePcs
    <3> QED
      BY <1>1, <3>1, <3>2, <3>3
  <2> QED
    BY <1>7, <2>1, <2>2, <2>3 DEF Inv, BusyMeansPending
<1>8. BusyMeansPending'
  <2> SUFFICES ASSUME NEW c \in Clients, Waits(c)'
               PROVE  \/ wire'[c] # <<>> \/ events'[c] # <<>>
                      \/ \E u \in Sent' : Running(u)' /\ turn'[u].client = c /\ turn'[u].heard
    BY DEF BusyMeansPending
  <2> QED
    BY <1>1, <1>7 DEF Sent, Running, Waits
<1> QED
  BY <1>4, <1>6, <1>8

(* A step of a turn.                                                          *)
LEMMA TurnKeeps ==
  ASSUME Inv, NEW t \in Turns, TurnStep(t)
  PROVE  Inv'
BY TurnTyped, TurnStores, TurnServes DEF Inv

----------------------------------------------------------------------------
(* Steps that leave the turns and the sockets alone: a panel that is busy     *)
(* after one of them was busy before it, and no event of it was taken.        *)
LEMMA BrowserKeeps ==
  ASSUME Inv, UNCHANGED <<turn, wire>>,
         panel' \in [Clients -> Panels],
         events' \in [Clients -> Seq({"done", "error"})],
         \A c \in Clients : Waits(c)' => Waits(c) /\ events'[c] = events[c],
         log' \in [Sessions -> Seq(Stored)], hot' \in [Sessions -> Seq(Stored)],
         \A s \in Sessions : log'[s] \in {log[s], <<>>} /\ hot'[s] \in {hot[s], <<>>}
  PROVE  Inv'
<1>1. TypeInv'
  BY DEF Inv, TypeInv
<1>2. HistoryInv'
  BY DEF Inv, HistoryInv
<1>3. Ordered(<<>>) /\ \A u, n : Under(<<>>, u, n)
  BY DEF Ordered, Under
<1>4. StoreInv'
  <2>1. ASSUME NEW s \in Sessions
        PROVE  Ordered(log'[s]) /\ Ordered(hot'[s])
    BY <1>3 DEF Inv, StoreInv
  <2>2. ASSUME NEW s \in Sessions, NEW u \in Turns, turn[u].pc # "ended"
        PROVE  Under(log'[s], u, LogNext(turn[u])) /\ Under(hot'[s], u, HotNext(turn[u]))
    BY <1>3, <2>2 DEF Inv, StoreInv
  <2> QED
    BY <2>1, <2>2 DEF StoreInv
<1>5. SentInOrder' /\ Sent' = Sent
  BY DEF Inv, SentInOrder, Sent
<1>6. WireInv'
  BY DEF Inv, WireInv
<1>7. \A t : Running(t)' = Running(t)
  BY DEF Running
<1>8. BusyMeansPending'
  <2> SUFFICES ASSUME NEW c \in Clients, Waits(c)'
               PROVE  \/ wire'[c] # <<>> \/ events'[c] # <<>>
                      \/ \E u \in Sent' : Running(u)' /\ turn'[u].client = c /\ turn'[u].heard
    BY DEF BusyMeansPending
  <2>1. Waits(c) /\ events'[c] = events[c]
    OBVIOUS
  <2>2. \/ wire[c] # <<>> \/ events[c] # <<>>
        \/ \E u \in Sent : Running(u) /\ turn[u].client = c /\ turn[u].heard
    BY <2>1 DEF Inv, BusyMeansPending
  <2> QED
    BY <1>5, <2>1, <2>2 DEF Running
<1> QED
  BY <1>1, <1>2, <1>4, <1>5, <1>6, <1>8 DEF Inv

LEMMA PanelSteps ==
  ASSUME Inv, NEW c \in Clients, NEW s \in Sessions,
         Switch(c, s) \/ AskDelete(c, s) \/ Opened(c) \/ Receive(c) \/ Panic(c)
           \/ Reload(c) \/ Delete(c)
           \/ Prune(s) \/ Expire(s)
  PROVE  Inv'
<1>0. TypeInv
  BY DEF Inv
<1>1. \A z \in Sessions : <<>> \in Seq(Stored)
  OBVIOUS
<1>2. CASE Switch(c, s)
  BY <1>0, <1>2, BrowserKeeps DEF Switch, tiers, TypeInv, Panels, Waits
<1>3. CASE AskDelete(c, s)
  BY <1>0, <1>3, BrowserKeeps DEF AskDelete, tiers, TypeInv, Waits
<1>4. CASE Receive(c)
  <2>1. Tail(events[c]) \in Seq({"done", "error"})
    BY <1>0, <1>4 DEF Receive, TypeInv
  <2> QED
    BY <1>0, <1>4, <2>1, BrowserKeeps DEF Receive, tiers, TypeInv, Panels, Waits
<1>5. CASE Reload(c)
  BY <1>0, <1>5, BrowserKeeps DEF Reload, Loaded, tiers, TypeInv, Panels, Waits
<1>6. CASE Delete(c)
  <2>1. /\ UNCHANGED <<turn, wire, events, hot>>
        /\ log' = [log EXCEPT ![deleting[c]] = <<>>]
        /\ UNCHANGED panel \/ \E r \in Sessions : panel' = [panel EXCEPT ![c].current = r]
    BY <1>6 DEF Delete
  <2>2. /\ log' \in [Sessions -> Seq(Stored)]
        /\ \A z \in Sessions : log'[z] \in {log[z], <<>>}
    <3>1. PICK d : log' = [log EXCEPT ![d] = <<>>]
      BY <2>1
    <3>2. log \in [Sessions -> Seq(Stored)] /\ <<>> \in Seq(Stored)
      BY <1>0 DEF TypeInv
    <3>3. log' = [z \in Sessions |-> IF z = d THEN <<>> ELSE log[z]]
      BY <3>1, <3>2
    <3> QED
      BY <3>2, <3>3
  <2>3. /\ panel' \in [Clients -> Panels]
        /\ \A d \in Clients : Waits(d)' = Waits(d)
    <3>1. CASE UNCHANGED panel
      BY <1>0, <3>1 DEF TypeInv, Waits
    <3>2. ASSUME NEW r \in Sessions, panel' = [panel EXCEPT ![c].current = r]
          PROVE  /\ panel' \in [Clients -> Panels]
                 /\ \A d \in Clients : Waits(d)' = Waits(d)
      BY <1>0, <3>2 DEF TypeInv, Panels, Waits
    <3> QED
      BY <2>1, <3>1, <3>2
  <2> QED
    BY <1>0, <2>1, <2>2, <2>3, BrowserKeeps DEF TypeInv
<1>7. CASE Prune(s)
  BY <1>0, <1>7, BrowserKeeps DEF Prune, TypeInv, Waits
<1>8. CASE Expire(s)
  BY <1>0, <1>8, BrowserKeeps DEF Expire, TypeInv, Waits
<1>9. CASE Opened(c)
  BY <1>0, <1>9, BrowserKeeps DEF Opened, tiers, TypeInv, Panels, Waits
<1>10. CASE Panic(c)
  BY <1>0, <1>10, BrowserKeeps DEF Panic, tiers, TypeInv, Panels, Waits
<1> QED
  BY <1>2, <1>3, <1>4, <1>5, <1>6, <1>7, <1>8, <1>9, <1>10

----------------------------------------------------------------------------
(* The number a message is sent under is free, and the next one.              *)
LEMMA NextTurn ==
  ASSUME SentInOrder, Sent # Turns
  PROVE  LET t == Cardinality(Sent) + 1
         IN  t \in Turns /\ turn[t].pc = "unsent" /\ (\E n \in 0 .. MaxTurns : Sent \cup {t} = 1 .. n)
<1>1. PICK n \in 0 .. MaxTurns : Sent = 1 .. n
  BY DEF SentInOrder
<1>2. Cardinality(Sent) = n
  <2>1. n \in Int /\ 1 \in Int /\ n >= 0
    BY <1>1, ChatAssumption
  <2>2. Cardinality(1 .. n) = IF 1 > n THEN 0 ELSE n - 1 + 1
    BY <2>1, FS_Interval
  <2> QED
    BY <1>1, <2>1, <2>2
<1>3. n + 1 \in Turns
  BY <1>1, ChatAssumption DEF Turns
<1>4. n + 1 \notin Sent
  BY <1>1
<1>5. turn[n + 1].pc = "unsent"
  BY <1>3, <1>4 DEF Sent
<1>6. Sent \cup {n + 1} = 1 .. (n + 1) /\ n + 1 \in 0 .. MaxTurns
  BY <1>1, <1>3, ChatAssumption DEF Turns
<1> QED
  BY <1>2, <1>3, <1>5, <1>6

LEMMA SendKeeps ==
  ASSUME Inv, NEW c \in Clients, NEW p \in Picks, Send(c, p)
  PROVE  Inv'
<1> DEFINE t == Cardinality(Sent) + 1
<1>0. TypeInv /\ HistoryInv /\ StoreInv /\ SentInOrder /\ WireInv /\ BusyMeansPending
  BY DEF Inv
<1>1. t \in Turns /\ turn[t].pc = "unsent" /\ (\E n \in 0 .. MaxTurns : Sent \cup {t} = 1 .. n)
  BY <1>0, NextTurn DEF Send
<1>2. panel[c].current \in Sessions
  BY <1>0 DEF TypeInv, Panels
<1>3. /\ UNCHANGED <<log, hot, events>>
      /\ panel' = [panel EXCEPT ![c].busy = TRUE,
                               ![c].lost = panel[c].lost \/ panel[c].socket = "connecting"]
  BY DEF Send, tiers
<1>4. \/ /\ panel[c].socket = "open"
         /\ turn' = [turn EXCEPT ![t] = [pc |-> "queued", client |-> c, sid |-> panel[c].current,
                                         pick |-> p, heard |-> TRUE]]
         /\ wire' = [wire EXCEPT ![c] = Append(wire[c], t)]
      \/ /\ panel[c].socket # "open"
         /\ turn' = [turn EXCEPT ![t] = [pc |-> "ended", client |-> c, sid |-> panel[c].current]]
         /\ UNCHANGED wire
  BY DEF Send
<1> HIDE DEF t
<1>5. PICK q \in Waiting \cup Ended :
        /\ turn' = [turn EXCEPT ![t] = q]
        /\ \/ /\ q.pc = "queued" /\ q.client = c /\ q.heard
              /\ panel[c].socket = "open" /\ wire' = [wire EXCEPT ![c] = Append(wire[c], t)]
           \/ q.pc = "ended" /\ panel[c].socket # "open" /\ UNCHANGED wire
  <2>1. CASE panel[c].socket = "open"
    <3> DEFINE q == [pc |-> "queued", client |-> c, sid |-> panel[c].current,
                     pick |-> p, heard |-> TRUE]
    <3>1. q \in Waiting /\ q.pc = "queued" /\ q.client = c /\ q.heard
      BY <1>2 DEF Waiting
    <3>2. turn' = [turn EXCEPT ![t] = q] /\ wire' = [wire EXCEPT ![c] = Append(wire[c], t)]
      BY <1>4, <2>1
    <3> HIDE DEF q
    <3> QED
      BY <2>1, <3>1, <3>2
  <2>2. CASE panel[c].socket # "open"
    <3> DEFINE q == [pc |-> "ended", client |-> c, sid |-> panel[c].current]
    <3>1. q \in Ended /\ q.pc = "ended"
      BY <1>2 DEF Ended
    <3>2. turn' = [turn EXCEPT ![t] = q] /\ UNCHANGED wire
      BY <1>4, <2>2
    <3> HIDE DEF q
    <3> QED
      BY <2>2, <3>1, <3>2
  <2> QED
    BY <2>1, <2>2
<1>6. turn'[t] = q /\ \A u \in Turns \ {t} : turn'[u] = turn[u]
  BY <1>0, <1>1, <1>5 DEF TypeInv
<1>7. q.pc \in {"queued", "ended"}
  BY <1>5
<1>8. Append(wire[c], t) \in Seq(Turns)
  BY <1>0, <1>1, AppendProperties DEF TypeInv
<1>9. TypeInv'
  <2>1. turn' \in [Turns -> {Unsent} \cup Waiting \cup Live \cup Ended]
    BY <1>0, <1>1, <1>5 DEF TypeInv
  <2>2. wire' \in [Clients -> Seq(Turns)]
    <3>1. ASSUME NEW w \in Seq(Turns), wire' = [wire EXCEPT ![c] = w]
          PROVE  wire' \in [Clients -> Seq(Turns)]
      BY <1>0, <3>1 DEF TypeInv
    <3>2. UNCHANGED wire => wire' \in [Clients -> Seq(Turns)]
      BY <1>0 DEF TypeInv
    <3> QED
      BY <1>5, <1>8, <3>1, <3>2
  <2>3. panel' \in [Clients -> Panels]
    BY <1>0, <1>3 DEF TypeInv, Panels
  <2> QED
    BY <1>0, <1>3, <2>1, <2>2, <2>3 DEF TypeInv
<1>10. HistoryInv'
  BY <1>0, <1>6, <1>7 DEF HistoryInv, LivePcs
<1>11. StoreInv'
  <2>1. CASE q.pc = "ended"
    BY <1>0, <1>3, <1>6, <1>9, <2>1, StoreKeeps
  <2>2. CASE q.pc = "queued"
    <3>1. LogNext(turn[t]) = 1 /\ HotNext(turn[t]) = 1 /\ LogNext(turn'[t]) = 1 /\ HotNext(turn'[t]) = 1
      BY <1>1, <1>6, <2>2 DEF LogNext, HotNext, LivePcs
    <3> QED
      BY <1>0, <1>1, <1>3, <1>6, <1>9, <3>1, StoreKeeps
  <2> QED
    BY <1>7, <2>1, <2>2
<1>12. Sent' = Sent \cup {t}
  BY <1>1, <1>6, <1>7 DEF Sent
<1>13. SentInOrder'
  BY <1>1, <1>12 DEF SentInOrder
<1>14. ASSUME NEW d \in Clients, NEW i \in DOMAIN wire[d]
       PROVE  /\ wire[d][i] \in Turns /\ wire[d][i] # t
              /\ turn'[wire[d][i]] = turn[wire[d][i]]
  <2>1. wire[d][i] \in Turns
    BY <1>0 DEF TypeInv
  <2>2. turn[wire[d][i]].pc = "queued"
    BY <1>0 DEF WireInv
  <2> QED
    BY <1>1, <1>6, <2>1, <2>2
<1>15. WireInv'
  <2>1. CASE UNCHANGED wire
    BY <1>0, <1>14, <2>1 DEF WireInv
  <2>2. CASE q.pc = "queued" /\ q.client = c /\ q.heard /\ wire' = [wire EXCEPT ![c] = Append(wire[c], t)]
    <3>1. \A d \in Clients \ {c} : wire'[d] = wire[d]
      BY <1>0, <2>2 DEF TypeInv
    <3>2. wire[c] \in Seq(Turns) /\ wire'[c] = Append(wire[c], t)
      BY <1>0, <2>2 DEF TypeInv
    <3>3. /\ DOMAIN wire'[c] = DOMAIN wire[c] \cup {Len(wire[c]) + 1}
          /\ \A i \in DOMAIN wire[c] : wire'[c][i] = wire[c][i] /\ i # Len(wire[c]) + 1
          /\ wire'[c][Len(wire[c]) + 1] = t
      BY <1>1, <3>2, AppendProperties
    <3>4. ASSUME NEW d \in Clients
          PROVE  /\ \A i \in DOMAIN wire'[d] :
                      /\ turn'[wire'[d][i]].pc = "queued"
                      /\ turn'[wire'[d][i]].client = d
                      /\ turn'[wire'[d][i]].heard
                 /\ \A i, j \in DOMAIN wire'[d] : i # j => wire'[d][i] # wire'[d][j]
      <4>1. CASE d # c
        BY <1>0, <1>14, <3>1, <4>1 DEF WireInv
      <4>2. CASE d = c
        <5>1. ASSUME NEW i \in DOMAIN wire'[c]
              PROVE  /\ turn'[wire'[c][i]].pc = "queued"
                     /\ turn'[wire'[c][i]].client = c
                     /\ turn'[wire'[c][i]].heard
          <6>1. CASE i \in DOMAIN wire[c]
            BY <1>0, <1>14, <3>3, <6>1 DEF WireInv
          <6>2. CASE i = Len(wire[c]) + 1
            BY <1>6, <2>2, <3>3, <6>2
          <6> QED
            BY <3>3, <6>1, <6>2
        <5>2. ASSUME NEW i \in DOMAIN wire'[c], NEW j \in DOMAIN wire'[c], i # j
              PROVE  wire'[c][i] # wire'[c][j]
          BY <1>0, <1>14, <3>3, <5>2 DEF WireInv
        <5> QED
          BY <4>2, <5>1, <5>2
      <4> QED
        BY <4>1, <4>2
    <3> QED
      BY <3>4 DEF WireInv
  <2> QED
    BY <1>5, <2>1, <2>2
<1>16. BusyMeansPending'
  <2> SUFFICES ASSUME NEW d \in Clients, Waits(d)'
               PROVE  \/ wire'[d] # <<>> \/ events'[d] # <<>>
                      \/ \E u \in Sent' : Running(u)' /\ turn'[u].client = d /\ turn'[u].heard
    BY DEF BusyMeansPending
  <2>1. CASE d = c
    <3>1. panel[c].socket = "open"
      BY <1>0, <1>3, <2>1 DEF TypeInv, Panels, Waits
    <3>2. wire'[c] = Append(wire[c], t) /\ wire[c] \in Seq(Turns)
      BY <1>0, <1>5, <3>1 DEF TypeInv
    <3>3. wire'[c] # <<>>
      BY <1>1, <3>2, AppendProperties
    <3> QED
      BY <2>1, <3>3
  <2>2. CASE d # c
    <3>1. Waits(d)
      BY <1>0, <1>3, <2>2 DEF TypeInv, Waits
    <3>2. wire'[d] = wire[d] /\ events'[d] = events[d]
      BY <1>0, <1>3, <1>5, <2>2 DEF TypeInv
    <3>3. ASSUME NEW u \in Sent, Running(u), turn[u].client = d, turn[u].heard
          PROVE  u \in Sent' /\ Running(u)' /\ turn'[u].client = d /\ turn'[u].heard
      <4>1. u \in Turns /\ u # t
        BY <1>1 DEF Sent
      <4> QED
        BY <1>6, <1>12, <3>3, <4>1 DEF Running
    <3> QED
      BY <1>0, <3>1, <3>2, <3>3 DEF BusyMeansPending
  <2> QED
    BY <2>1, <2>2
<1> QED
  BY <1>9, <1>10, <1>11, <1>13, <1>15, <1>16 DEF Inv

LEMMA TakeKeeps ==
  ASSUME Inv, NEW c \in Clients, Take(c)
  PROVE  Inv'
<1>0. TypeInv /\ HistoryInv /\ StoreInv /\ SentInOrder /\ WireInv /\ BusyMeansPending
  BY DEF Inv
<1>1. wire[c] \in Seq(Turns) /\ wire[c] # <<>>
  BY <1>0 DEF Take, TypeInv
<1>2. PICK t \in Turns : t = Head(wire[c]) /\ t = wire[c][1] /\ 1 \in DOMAIN wire[c]
  BY <1>1
<1>3. turn[t].pc = "queued" /\ turn[t].client = c /\ turn[t].heard
  BY <1>0, <1>2 DEF WireInv
<1>4. /\ turn' = [turn EXCEPT ![t].pc = "check"]
      /\ wire' = [wire EXCEPT ![c] = Tail(wire[c])]
      /\ UNCHANGED <<panel, log, hot, events>>
  BY <1>2 DEF Take, browser, tiers
<1>5. turn[t] \in Waiting
  BY <1>0, <1>2, <1>3, TurnShape
<1>6. /\ turn'[t] \in Waiting /\ turn'[t].pc = "check"
      /\ turn'[t].client = c /\ turn'[t].heard
      /\ \A u \in Turns \ {t} : turn'[u] = turn[u]
  BY <1>0, <1>2, <1>3, <1>4, <1>5 DEF TypeInv, Waiting
<1>7. TypeInv'
  <2>1. PICK q \in Waiting : turn' = [turn EXCEPT ![t] = q]
    BY <1>0, <1>2, <1>4, <1>5 DEF TypeInv, Waiting
  <2>2. turn' \in [Turns -> {Unsent} \cup Waiting \cup Live \cup Ended]
    BY <1>0, <1>2, <2>1 DEF TypeInv
  <2>3. wire' \in [Clients -> Seq(Turns)]
    BY <1>0, <1>1, <1>4 DEF TypeInv
  <2> QED
    BY <1>0, <1>4, <2>2, <2>3 DEF TypeInv
<1>8. HistoryInv'
  BY <1>0, <1>6 DEF HistoryInv, LivePcs
<1>9. StoreInv'
  <2>1. LogNext(turn[t]) = 1 /\ HotNext(turn[t]) = 1 /\ LogNext(turn'[t]) = 1 /\ HotNext(turn'[t]) = 1
    BY <1>3, <1>6 DEF LogNext, HotNext, LivePcs
  <2> QED
    BY <1>0, <1>3, <1>4, <1>6, <1>7, <2>1, StoreKeeps
<1>10. Sent' = Sent /\ SentInOrder'
  BY <1>0, <1>3, <1>6, SameSent
<1>11. WireInv'
  <2>1. \A d \in Clients \ {c} : wire'[d] = wire[d]
    BY <1>0, <1>4 DEF TypeInv
  <2>2. /\ wire'[c] = Tail(wire[c])
        /\ \A i \in DOMAIN wire'[c] : i \in Nat /\ i + 1 \in DOMAIN wire[c] /\ wire'[c][i] = wire[c][i + 1]
                                        /\ i + 1 # 1
    BY <1>0, <1>1, <1>4 DEF TypeInv
  <2>3. ASSUME NEW d \in Clients
        PROVE  /\ \A i \in DOMAIN wire'[d] :
                    /\ turn'[wire'[d][i]].pc = "queued"
                    /\ turn'[wire'[d][i]].client = d
                    /\ turn'[wire'[d][i]].heard
               /\ \A i, j \in DOMAIN wire'[d] : i # j => wire'[d][i] # wire'[d][j]
    <3>1. CASE d # c
      <4>1. \A i \in DOMAIN wire[d] : wire[d][i] \in Turns /\ turn[wire[d][i]].client = d
        BY <1>0 DEF WireInv, TypeInv
      <4>2. \A i \in DOMAIN wire[d] : turn'[wire[d][i]] = turn[wire[d][i]]
        BY <1>3, <1>6, <3>1, <4>1
      <4> QED
        BY <1>0, <2>1, <3>1, <4>2 DEF WireInv
    <3>2. CASE d = c
      <4>1. ASSUME NEW i \in DOMAIN wire'[c]
            PROVE  /\ turn'[wire'[c][i]].pc = "queued"
                   /\ turn'[wire'[c][i]].client = c
                   /\ turn'[wire'[c][i]].heard
        <5>1. i + 1 \in DOMAIN wire[c] /\ wire'[c][i] = wire[c][i + 1] /\ i + 1 # 1
          BY <2>2
        <5>2. wire[c][i + 1] # wire[c][1]
          BY <1>0, <1>2, <5>1 DEF WireInv
        <5>3. wire[c][i + 1] \in Turns
          BY <1>1, <5>1
        <5>4. turn'[wire[c][i + 1]] = turn[wire[c][i + 1]]
          BY <1>2, <1>6, <5>2, <5>3
        <5> QED
          BY <1>0, <5>1, <5>4 DEF WireInv
      <4>2. ASSUME NEW i \in DOMAIN wire'[c], NEW j \in DOMAIN wire'[c], i # j
            PROVE  wire'[c][i] # wire'[c][j]
        <5>1. i + 1 # j + 1
          BY <2>2, <4>2
        <5> QED
          BY <1>0, <2>2, <5>1 DEF WireInv
      <4> QED
        BY <3>2, <4>1, <4>2
    <3> QED
      BY <3>1, <3>2
  <2> QED
    BY <2>3 DEF WireInv
<1>12. BusyMeansPending'
  <2> SUFFICES ASSUME NEW d \in Clients, Waits(d)'
               PROVE  \/ wire'[d] # <<>> \/ events'[d] # <<>>
                      \/ \E u \in Sent' : Running(u)' /\ turn'[u].client = d /\ turn'[u].heard
    BY DEF BusyMeansPending
  <2>1. CASE d = c
    <3>1. t \in Sent'
      BY <1>2, <1>6 DEF Sent
    <3>2. Running(t)'
      BY <1>6 DEF Running
    <3> QED
      BY <1>6, <2>1, <3>1, <3>2
  <2>2. CASE d # c
    <3>1. wire'[d] = wire[d]
      BY <1>0, <1>4, <2>2 DEF TypeInv
    <3>2. ASSUME NEW u \in Sent, Running(u), turn[u].client = d, turn[u].heard
          PROVE  u \in Sent' /\ Running(u)' /\ turn'[u].client = d /\ turn'[u].heard
      <4>1. u \in Turns /\ u # t
        BY <1>3, <3>2 DEF Sent, Running
      <4> QED
        BY <1>6, <1>10, <3>2, <4>1 DEF Running
    <3> QED
      BY <1>0, <1>4, <3>1, <3>2 DEF BusyMeansPending, Waits
  <2> QED
    BY <2>1, <2>2
<1> QED
  BY <1>7, <1>8, <1>9, <1>10, <1>11, <1>12 DEF Inv

(* The turns of a socket that closes: one under way goes on unheard, the      *)
(* others are over.                                                           *)
LEMMA DisconnectMoves ==
  ASSUME TypeInv, HistoryInv, NEW c \in Clients, Disconnect(c), NEW t \in Turns
  PROVE  /\ turn'[t] \in {Unsent} \cup Waiting \cup Live \cup Ended
         /\ turn'[t].pc = "unsent" <=> turn[t].pc = "unsent"
         /\ \/ turn'[t] = turn[t]
            \/ turn'[t].pc = "ended"
            \/ /\ turn[t].pc # "ended" /\ turn'[t].pc = turn[t].pc
               /\ turn[t].pc \in LivePcs =>
                    /\ turn'[t].history = turn[t].history
                    /\ turn'[t].last = turn[t].last /\ turn'[t].todo = turn[t].todo
         /\ t \in Sent /\ turn[t].client # c => turn'[t] = turn[t]
<1>1. turn'[t] = IF t \in Sent /\ turn[t].client = c
                 THEN IF Running(t) THEN [turn[t] EXCEPT !.heard = FALSE] ELSE Over(t)
                 ELSE turn[t]
  BY DEF Disconnect
<1>2. CASE ~(t \in Sent /\ turn[t].client = c)
  BY <1>1, <1>2 DEF TypeInv
<1>3. CASE t \in Sent /\ turn[t].client = c /\ ~Running(t)
  <2>1. turn[t] \in Waiting \cup Ended
    BY <1>3, TurnShape DEF Running, Sent
  <2>2. Over(t) \in Ended /\ Over(t).pc = "ended"
    BY <2>1 DEF Over, Waiting, Ended
  <2> QED
    BY <1>1, <1>3, <2>2 DEF Sent
<1>4. CASE t \in Sent /\ turn[t].client = c /\ Running(t)
  <2>1. turn'[t] = [turn[t] EXCEPT !.heard = FALSE] /\ turn[t].pc # "ended" /\ turn[t].pc # "unsent"
    BY <1>1, <1>4 DEF Running
  <2>2. CASE turn[t] \in Waiting
    <3>1. turn'[t] \in Waiting /\ turn'[t].pc = turn[t].pc /\ turn[t].pc \notin LivePcs
      BY <2>1, <2>2 DEF Waiting, LivePcs
    <3> QED
      BY <1>4, <2>1, <3>1
  <2>3. CASE turn[t] \in Live
    <3>1. /\ turn'[t] \in Live /\ turn'[t].pc = turn[t].pc
          /\ turn'[t].history = turn[t].history
          /\ turn'[t].last = turn[t].last /\ turn'[t].todo = turn[t].todo
      BY <2>1, <2>3 DEF Live
    <3> QED
      BY <1>4, <2>1, <3>1
  <2> QED
    BY <1>4, <2>2, <2>3, RunningShape
<1> QED
  BY <1>2, <1>3, <1>4

LEMMA DisconnectKeeps ==
  ASSUME Inv, NEW c \in Clients, Disconnect(c)
  PROVE  Inv'
<1>0. TypeInv /\ HistoryInv /\ StoreInv /\ SentInOrder /\ WireInv /\ BusyMeansPending
  BY DEF Inv
<1>1. /\ panel' = [panel EXCEPT ![c].socket = "closed"]
      /\ wire' = [wire EXCEPT ![c] = <<>>]
      /\ events' = [events EXCEPT ![c] = <<>>]
      /\ UNCHANGED <<log, hot>>
  BY DEF Disconnect, tiers
<1>2. TypeInv'
  <2>1. DOMAIN turn' = Turns /\ turn' = [t \in Turns |-> turn'[t]]
    BY DEF Disconnect
  <2>2. turn' \in [Turns -> {Unsent} \cup Waiting \cup Live \cup Ended]
    BY <1>0, <2>1, DisconnectMoves
  <2>3. panel' \in [Clients -> Panels]
    BY <1>0, <1>1 DEF TypeInv, Panels
  <2>4. wire' \in [Clients -> Seq(Turns)] /\ events' \in [Clients -> Seq({"done", "error"})]
    BY <1>0, <1>1 DEF TypeInv
  <2>5. log' \in [Sessions -> Seq(Stored)] /\ hot' \in [Sessions -> Seq(Stored)]
    BY <1>0, <1>1 DEF TypeInv
  <2> QED
    BY <2>2, <2>3, <2>4, <2>5 DEF TypeInv
<1>3. HistoryInv'
  <2> SUFFICES ASSUME NEW t \in Turns, turn'[t].pc \in LivePcs
               PROVE  HistoryOK(turn'[t])
    BY DEF HistoryInv
  <2>1. CASE turn'[t] = turn[t]
    BY <1>0, <2>1 DEF HistoryInv
  <2>2. CASE turn'[t] # turn[t]
    <3>1. /\ turn[t].pc \in LivePcs /\ turn'[t].pc = turn[t].pc
          /\ turn'[t].history = turn[t].history
          /\ turn'[t].last = turn[t].last /\ turn'[t].todo = turn[t].todo
      BY <1>0, <2>2, DisconnectMoves DEF LivePcs
    <3>2. HistoryOK(turn[t])
      BY <1>0, <3>1 DEF HistoryInv
    <3> QED
      BY <3>1, <3>2 DEF HistoryOK, Answered
  <2> QED
    BY <2>1, <2>2
<1>4. StoreInv'
  <2>1. ASSUME NEW u \in Turns
        PROVE  \/ turn'[u] = turn[u]
               \/ turn'[u].pc = "ended"
               \/ /\ turn[u].pc # "ended"
                  /\ LogNext(turn[u]) <= LogNext(turn'[u])
                  /\ HotNext(turn[u]) <= HotNext(turn'[u])
    <3>1. CASE turn'[u] # turn[u] /\ turn'[u].pc # "ended"
      <4>1. /\ turn[u].pc # "ended" /\ turn'[u].pc = turn[u].pc
            /\ turn[u].pc \in LivePcs => turn'[u].history = turn[u].history
        BY <1>0, <3>1, DisconnectMoves
      <4>2. LogNext(turn'[u]) = LogNext(turn[u]) /\ HotNext(turn'[u]) = HotNext(turn[u])
        BY <4>1 DEF LogNext, HotNext
      <4>3. LogNext(turn[u]) \in Nat /\ HotNext(turn[u]) \in Nat
        BY <1>0, NextTyped DEF TypeInv
      <4> QED
        BY <4>1, <4>2, <4>3
    <3> QED
      BY <3>1
  <2> QED
    BY <1>0, <1>1, <1>2, <2>1, StoreKeeps
<1>5. Sent' = Sent /\ SentInOrder'
  BY <1>0, SameSent, DisconnectMoves
<1>6. \A d \in Clients \ {c} :
        /\ panel'[d] = panel[d] /\ wire'[d] = wire[d] /\ events'[d] = events[d]
  BY <1>0, <1>1 DEF TypeInv
<1>7. wire'[c] = <<>> /\ ~Waits(c)'
  BY <1>0, <1>1 DEF TypeInv, Panels, Waits
<1>8. WireInv'
  <2>1. ASSUME NEW d \in Clients \ {c}, NEW i \in DOMAIN wire[d]
        PROVE  turn'[wire[d][i]] = turn[wire[d][i]]
    <3>1. wire[d][i] \in Turns /\ turn[wire[d][i]].pc = "queued" /\ turn[wire[d][i]].client = d
      BY <1>0 DEF TypeInv, WireInv
    <3> QED
      BY <1>0, <3>1, DisconnectMoves DEF Sent
  <2> QED
    BY <1>0, <1>6, <1>7, <2>1 DEF WireInv
<1>9. BusyMeansPending'
  <2> SUFFICES ASSUME NEW d \in Clients, Waits(d)'
               PROVE  \/ wire'[d] # <<>> \/ events'[d] # <<>>
                      \/ \E u \in Sent' : Running(u)' /\ turn'[u].client = d /\ turn'[u].heard
    BY DEF BusyMeansPending
  <2>1. d # c
    BY <1>7
  <2>2. ASSUME NEW u \in Sent, Running(u), turn[u].client = d, turn[u].heard
        PROVE  u \in Sent' /\ Running(u)' /\ turn'[u].client = d /\ turn'[u].heard
    <3>1. u \in Turns /\ turn'[u] = turn[u]
      BY <1>0, <2>1, <2>2, DisconnectMoves DEF Sent
    <3> QED
      BY <1>5, <2>2, <3>1 DEF Running
  <2> QED
    BY <1>0, <1>6, <2>1, <2>2 DEF BusyMeansPending, Waits
<1> QED
  BY <1>2, <1>3, <1>4, <1>5, <1>8, <1>9 DEF Inv

----------------------------------------------------------------------------
LEMMA Initially == Init => Inv
<1> SUFFICES ASSUME Init
             PROVE  Inv
  OBVIOUS
<1>1. (CHOOSE s \in Sessions : TRUE) \in Sessions
  BY ChatAssumption
<1>2. TypeInv
  <2>1. <<>> \in Seq(Turns) /\ <<>> \in Seq({"done", "error"}) /\ <<>> \in Seq(Stored)
    OBVIOUS
  <2> QED
    BY <1>1, <2>1 DEF Init, Loaded, TypeInv, Panels
<1>3. \A t \in Turns : turn[t].pc = "unsent"
  BY DEF Init, Unsent
<1>4. HistoryInv
  BY <1>3 DEF HistoryInv, LivePcs
<1>5. StoreInv
  BY DEF Init, StoreInv, Ordered, Under
<1>6. Sent = 1 .. 0
  BY <1>3 DEF Sent
<1>7. SentInOrder
  BY <1>6, ChatAssumption DEF SentInOrder
<1>8. WireInv /\ BusyMeansPending
  BY DEF Init, Loaded, WireInv, BusyMeansPending, Waits
<1> QED
  BY <1>2, <1>4, <1>5, <1>7, <1>8 DEF Inv

LEMMA Preserved == Inv /\ [Next]_vars => Inv'
<1> SUFFICES ASSUME Inv, [Next]_vars
             PROVE  Inv'
  OBVIOUS
<1>1. CASE UNCHANGED vars
  <2>1. TypeInv /\ \A s \in Sessions : log'[s] = log[s] /\ hot'[s] = hot[s]
    BY <1>1 DEF Inv, vars
  <2> QED
    BY <1>1, <2>1, BrowserKeeps DEF vars, TypeInv, Waits
<1>2. ASSUME NEW c \in Clients, NEW s \in Sessions, Switch(c, s) \/ AskDelete(c, s)
      PROVE  Inv'
  BY <1>2, PanelSteps
<1>3. ASSUME NEW c \in Clients, Opened(c) \/ Receive(c) \/ Panic(c) \/ Reload(c) \/ Delete(c)
      PROVE  Inv'
  <2>1. PICK s \in Sessions : TRUE
    BY ChatAssumption
  <2> QED
    BY <1>3, PanelSteps
<1>4. ASSUME NEW s \in Sessions, Prune(s) \/ Expire(s)
      PROVE  Inv'
  <2>1. CASE Prune(s)
    BY <2>1, BrowserKeeps DEF Prune, Inv, TypeInv, Waits
  <2>2. CASE Expire(s)
    BY <2>2, BrowserKeeps DEF Expire, Inv, TypeInv, Waits
  <2> QED
    BY <1>4, <2>1, <2>2
<1> QED
  BY <1>1, <1>2, <1>3, <1>4, SendKeeps, TakeKeeps, DisconnectKeeps, TurnKeeps DEF Next

LEMMA Invariant == Spec => []Inv
BY Initially, Preserved, PTL DEF Spec

(* Every request that goes to the model shows a well-formed turn: each tool   *)
(* call of a reply is followed by its own result, in the order of the calls   *)
(* (the tool loop of handle_chat_send), for every provider and every number   *)
(* of loops, turns and calls.                                                 *)
THEOREM CallsAreAnswered == Spec => []EveryCallAnswered
<1>1. Inv => EveryCallAnswered
  <2> SUFFICES ASSUME Inv, NEW t \in Sent, turn[t].pc = "ask",
                      NEW i \in DOMAIN turn[t].history, turn[t].history[i].role = "assistant",
                      NEW k \in DOMAIN turn[t].history[i].calls
               PROVE  /\ i + k \in DOMAIN turn[t].history
                      /\ turn[t].history[i + k] = Result(turn[t].history[i].calls[k])
    BY DEF EveryCallAnswered
  <2>1. t \in Turns /\ turn[t].pc \in LivePcs /\ HistoryOK(turn[t]) /\ turn[t] \in Live
    BY TurnShape DEF Sent, LivePcs, Inv, HistoryInv
  <2>2. Answered(turn[t]) /\ turn[t].todo = <<>>
    BY <2>1 DEF HistoryOK
  <2>3. turn[t].history \in Seq(Messages) /\ turn[t].history[i] \in Messages
    BY <2>1 DEF Live
  <2>4. turn[t].history[i].calls \in Seq(Tools)
    BY <2>3 DEF Messages
  <2>5. i \in Nat \ {0} /\ k \in Nat \ {0}
    BY <2>3, <2>4
  <2>6. i + k <= Len(turn[t].history) /\ turn[t].history[i + k] = Result(turn[t].history[i].calls[k])
    BY <2>2 DEF Answered
  <2> QED
    BY <2>3, <2>5, <2>6
<1> QED
  BY <1>1, Invariant, PTL

(* Both tiers keep each turn's messages in the order in which the turn        *)
(* produced them and none twice (append_chat_turn, conv_push), whatever is    *)
(* written to the session at the same time and whichever writes are lost.     *)
THEOREM TiersKeepTheOrder == Spec => []StoredInOrder
<1>1. Inv => StoredInOrder
  BY DEF Inv, StoreInv, Ordered, StoredInOrder
<1> QED
  BY <1>1, Invariant, PTL

(* A panel whose socket is open is not busy for nothing: a message of it is   *)
(* waiting, a turn of it is running, or the event that frees it is on its way *)
(* (every exit of handle_chat_send sends one), unless it lost a message that  *)
(* it sent before its socket was open (chat_bubble.rs).                       *)
THEOREM BusyPanelsAreServed == Spec => []BusyMeansPending
<1>1. Inv => BusyMeansPending
  BY DEF Inv
<1> QED
  BY <1>1, Invariant, PTL
=============================================================================
