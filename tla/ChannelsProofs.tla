--------------------------- MODULE ChannelsProofs ---------------------------
(***************************************************************************)
(* Proofs about module Channels, for any finite set of channels of any     *)
(* style, any users, handles and approvals, any number of messages and     *)
(* crashes; and about module Alerting, under the name Monitor, for any     *)
(* sources, queries, recipients and windows.                               *)
(***************************************************************************)
EXTENDS Channels, AlertingState, FiniteSetTheorems, TLAPS

-----------------------------------------------------------------------------
(* Types                                                                   *)

Messages == [from : Handles, says : Contents]
LoopStates == {"down", "poll", "dispatch", "handling", "advance", "hung"}
Roles == {"approver", "operator", "disabled"}

\* A handler that is not bound to a user yet, hangs or has ended; one that is bound;
\* one that is about to decide; one whose turn waits for an approval.
Plain == [pc : {"idle", "bind", "done", "hung"}]
Bound == [pc : {"route", "turn"}, user : Users, approver : BOOLEAN, held : BOOLEAN]
Deciding ==
  [pc : {"decide"}, user : Users, approver : BOOLEAN, held : BOOLEAN,
   id : Approvals, via : Contents]
Waiting == [pc : {"parked"}, id : Approvals]

IngressOK ==
  /\ posted \in [Channels -> Seq(Messages)]
  /\ cursor \in [Channels -> Nat \union {None}]
  /\ acked \in [Channels -> Nat]
  /\ poller \in [Channels -> [pc : LoopStates, next : Nat, upto : Nat]]
  /\ \A c \in Channels : Len(posted[c]) <= MaxPosts

TasksOK ==
  /\ task \in [Slots -> Plain \union Bound \union Deciding \union Waiting]
  /\ roles \in [Users -> Roles]
  /\ \A a \in alerts : a.approval \in Approvals

\* No position lies beyond what was posted.
PositionsOK ==
  \A c \in Channels :
    /\ poller[c].next <= poller[c].upto /\ poller[c].upto <= Len(posted[c])
    /\ poller[c].pc \in {"dispatch", "handling", "advance"} =>
         poller[c].next < poller[c].upto
    /\ acked[c] <= Len(posted[c])
    /\ cursor[c] # None => cursor[c] <= Len(posted[c])

TypeInv == IngressOK /\ TasksOK /\ PositionsOK

-----------------------------------------------------------------------------
(* The invariants                                                          *)

\* The first k messages of a channel have been dealt with.
Covered(c, k) ==
  \A j \in 1..k : \/ <<c, j>> \in handled
                  \/ <<c, j>> \in skipped
                  \/ posted[c][j].says.kind = "noise"

\* Every position a loop may resume from, the saved one, the one the platform
\* remembers and the loop's own, has only such messages below it.
CoverInv ==
  /\ \A s \in Slots : task[s].pc = "done" => s \in handled
  /\ \A c \in Channels :
       /\ cursor[c] # None => Covered(c, cursor[c])
       /\ Covered(c, acked[c])
       /\ Covered(c, poller[c].next)
       /\ poller[c].pc = "advance" => Covered(c, poller[c].next + 1)

\* The alert with the id that message s replies to.
Matches(s, a) == a.channel = s[1] /\ a.mid = Message(s).says.mid

\* An alert for approval i went out under that id, and none of the reply's own
\* chat is newer.
Answers(s, i) ==
  \E a \in alerts :
    /\ Matches(s, a) /\ a.approval = i
    /\ \A b \in alerts : Matches(s, b) /\ b.chat = Message(s).says.chat => b.at <= a.at

\* What a handler knows about its own message stays true.
HandlerOK(s) ==
  /\ task[s].pc # "idle" => s[2] <= Len(posted[s[1]])
  /\ task[s].pc \in {"route", "turn", "decide"} =>
       /\ task[s].user = UserOf[Message(s).from]
       /\ task[s].approver => task[s].held
  /\ task[s].pc = "decide" =>
       /\ task[s].via = Message(s).says
       /\ Message(s).says.kind = "reply" => Answers(s, task[s].id)

TaskInv == \A s \in Slots : HandlerOK(s)

DecisionInv ==
  \A d \in decisions :
    /\ d.slot \in Slots
    /\ d.slot[2] <= Len(posted[d.slot[1]])
    /\ Message(d.slot).says.kind = "reply" => Answers(d.slot, d.id)

-----------------------------------------------------------------------------
(* Types are kept                                                          *)

\* Nothing has been posted yet.
LEMMA Initially == Init => TypeInv /\ CoverInv /\ TaskInv /\ DecisionInv
<1> SUFFICES ASSUME Init PROVE TypeInv /\ CoverInv /\ TaskInv /\ DecisionInv
  OBVIOUS
<1> USE DEF Init
<1>1. \A c \in Channels : Len(posted[c]) = 0 /\ posted[c] \in Seq(Messages)
  OBVIOUS
<1>2. IngressOK
  BY <1>1, ChannelsAssumption DEF IngressOK, LoopStates
<1>3. TasksOK
  BY DEF TasksOK, Plain, Idle, Roles
<1>4. PositionsOK
  BY <1>1 DEF PositionsOK
<1>5. CoverInv
  <2>1. \A s \in Slots : task[s].pc # "done"
    BY DEF Idle
  <2>2. \A c \in Channels : Covered(c, 0)
    BY DEF Covered
  <2> QED
    BY <2>1, <2>2 DEF CoverInv
<1>6. TaskInv /\ DecisionInv
  BY DEF TaskInv, HandlerOK, DecisionInv, Idle
<1> QED
  BY <1>2, <1>3, <1>4, <1>5, <1>6 DEF TypeInv

\* No channel holds more than all messages.
LEMMA CountBounds ==
    ASSUME IngressOK, NEW c \in Channels
    PROVE  Count \in Nat /\ Len(posted[c]) <= Count
<1> DEFINE all == UNION {{d} \X DOMAIN posted[d] : d \in Channels}
           n == Len(posted[c])
           f == [k \in 1..n |-> <<c, k>>]
<1>1. \A d \in Channels : DOMAIN posted[d] = 1..Len(posted[d]) /\ Len(posted[d]) \in 0..MaxPosts
  BY ChannelsAssumption DEF IngressOK
<1>2. all \subseteq Slots
  BY <1>1, ChannelsAssumption DEF Slots
<1>3. IsFiniteSet(Slots)
  <2>1. IsFiniteSet(1..MaxPosts)
    BY ChannelsAssumption, FS_Interval
  <2> QED
    BY <2>1, ChannelsAssumption, FS_Product DEF Slots
<1>4. IsFiniteSet(all) /\ Cardinality(all) \in Nat
  <2> HIDE DEF all
  <2>1. IsFiniteSet(all)
    BY <1>2, <1>3, FS_Subset
  <2> QED
    BY <2>1, FS_CardinalityType
<1>5. f \in Injection(1..n, all)
  <2>1. \A k \in 1..n : <<c, k>> \in all
    BY <1>1
  <2> HIDE DEF all
  <2>2. f \in [1..n -> all]
    BY <2>1
  <2>3. \A j, k \in 1..n : f[j] = f[k] => j = k
    OBVIOUS
  <2> QED
    BY <2>2, <2>3, Zenon DEF Injection, IsInjective
<1>6. Cardinality(1..n) <= Cardinality(all)
  <2> HIDE DEF all, f
  <2> QED
    BY <1>4, <1>5, FS_Injection
<1>7. n \in Nat /\ Cardinality(1..n) = n
  <2>1. n \in Nat
    BY <1>1, ChannelsAssumption
  <2> HIDE DEF n
  <2>2. Cardinality(1..n) = IF 1 > n THEN 0 ELSE n - 1 + 1
    BY <2>1, FS_Interval
  <2> QED
    BY <2>1, <2>2
<1>8. Count = Cardinality(all)
  BY DEF Count
<1>9. n = Len(posted[c])
  OBVIOUS
<1> HIDE DEF all, n, f
<1> QED
  BY <1>4, <1>6, <1>7, <1>8, <1>9

\* What was posted, handled, skipped and alerted stays.
LEMMA Growth ==
    ASSUME TypeInv, [Next]_vars
    PROVE  /\ \A c \in Channels :
                /\ Len(posted[c]) \in Nat /\ Len(posted'[c]) \in Nat
                /\ Len(posted[c]) <= Len(posted'[c])
                /\ \A j \in 1..Len(posted[c]) : posted'[c][j] = posted[c][j]
           /\ handled \subseteq handled'
           /\ skipped \subseteq skipped'
           /\ alerts \subseteq alerts'
<1>0. posted \in [Channels -> Seq(Messages)]
  BY DEF TypeInv, IngressOK
<1>1. /\ handled \subseteq handled'
      /\ skipped \subseteq skipped'
      /\ alerts \subseteq alerts'
  BY DEF Next, Post, Tasks, Loop, Handle, Start, Poll, Hang, Dispatch, Return, Advance, Bind,
     Route, DecideOverChat, Turn, Parked, Alert, SetRole, ParkElsewhere, Crash, vars,
     ingress, inbox, Finish
<1>2. \/ posted' = posted
      \/ \E c \in Channels, m \in Messages :
           posted' = [posted EXCEPT ![c] = Append(@, m)]
  <2>1. ASSUME NEW c \in Channels, NEW h \in Handles, NEW m \in Contents, Post(c, h, m)
        PROVE  \E x \in Messages : posted' = [posted EXCEPT ![c] = Append(@, x)]
    <3>1. [from |-> h, says |-> m] \in Messages
      BY DEF Messages
    <3> QED
      BY <2>1, <3>1 DEF Post
  <2>2. CASE ~ \E c \in Channels, h \in Handles, m \in Contents : Post(c, h, m)
    BY <2>2 DEF Next, Tasks, Loop, Handle, Start, Poll, Hang, Dispatch, Return, Advance, Bind,
       Route, DecideOverChat, Turn, Parked, Alert, SetRole, ParkElsewhere, Crash, vars,
       ingress
  <2> QED
    BY <2>1, <2>2
<1>3. ASSUME NEW c \in Channels
      PROVE  /\ Len(posted[c]) \in Nat /\ Len(posted'[c]) \in Nat
             /\ Len(posted[c]) <= Len(posted'[c])
             /\ \A j \in 1..Len(posted[c]) : posted'[c][j] = posted[c][j]
  <2>1. CASE posted' = posted
    BY <1>0, <2>1
  <2>2. ASSUME NEW d \in Channels, NEW m \in Messages,
               posted' = [posted EXCEPT ![d] = Append(@, m)]
        PROVE  /\ Len(posted[c]) \in Nat /\ Len(posted'[c]) \in Nat
               /\ Len(posted[c]) <= Len(posted'[c])
               /\ \A j \in 1..Len(posted[c]) : posted'[c][j] = posted[c][j]
    <3>1. posted[c] \in Seq(Messages)
      BY <1>0
    <3>2. posted'[c] = posted[c] \/ posted'[c] = Append(posted[c], m)
      BY <1>0, <2>2
    <3> QED
      BY <3>1, <3>2
  <2> QED
    BY <1>2, <2>1, <2>2
<1> QED
  BY <1>1, <1>3

\* A message that was dealt with stays so.
LEMMA CoveredKeeps ==
    ASSUME TypeInv, [Next]_vars, NEW c \in Channels, NEW k \in Nat,
           k <= Len(posted[c]), Covered(c, k)
    PROVE  Covered(c, k)'
<1>1. \A j \in 1..k : j \in 1..Len(posted[c])
  BY Growth
<1> QED
  BY <1>1, Growth DEF Covered

\* The fields of a handler's record, by its state.
LEMMA TaskShape ==
    ASSUME TypeInv, NEW s \in Slots
    PROVE  /\ task[s].pc \in {"idle", "bind", "done", "hung", "route", "turn", "decide", "parked"}
           /\ task[s].pc \in {"route", "turn"} => task[s] \in Bound
           /\ task[s].pc = "decide" => task[s] \in Deciding
           /\ s[1] \in Channels /\ s[2] \in 1..MaxPosts /\ s = <<s[1], s[2]>>
<1>1. task[s] \in Plain \union Bound \union Deciding \union Waiting
  BY DEF TypeInv, TasksOK
<1>2. s[1] \in Channels /\ s[2] \in 1..MaxPosts /\ s = <<s[1], s[2]>>
  BY DEF Slots
<1> QED
  BY <1>1, <1>2 DEF Plain, Bound, Deciding, Waiting

\* A message that exists is one of the messages.
LEMMA MessageType ==
    ASSUME TypeInv, NEW s \in Slots, s[2] <= Len(posted[s[1]])
    PROVE  /\ Message(s).from \in Handles
           /\ Message(s).says \in Contents
           /\ UserOf[Message(s).from] \in Users \union {None}
<1>1. s[1] \in Channels /\ s[2] \in 1..MaxPosts
  BY TaskShape
<1>2. posted[s[1]] \in Seq(Messages)
  BY <1>1 DEF TypeInv, IngressOK
<1>3. posted[s[1]][s[2]] \in Messages
  BY <1>1, <1>2
<1>4. Message(s).from \in Handles /\ Message(s).says \in Contents
  BY <1>3 DEF Message, Messages
<1> QED
  BY <1>4, ChannelsAssumption DEF Handles

\* The steps that touch neither what is posted nor a loop.
OffIngress ==
  \/ \E s \in Slots : Handle(s)
  \/ \E c \in Channels, chat \in Chats, i \in Approvals : Alert(c, chat, i)
  \/ \E u \in Users, r \in {"approver", "operator", "disabled"} : SetRole(u, r)
  \/ \E i \in Approvals : ParkElsewhere(i)
  \/ UNCHANGED vars

\* They leave the ingress alone.
LEMMA OffIngressKeeps ==
    ASSUME OffIngress
    PROVE  UNCHANGED <<posted, cursor, acked, poller, skipped>>
  BY DEF OffIngress, Handle, Bind, Route, DecideOverChat, Turn, Parked, Alert, SetRole,
     ParkElsewhere, ingress, vars

\* The ingress keeps its types and no position runs ahead of the messages.
LEMMA IngressTyped ==
    ASSUME TypeInv, [Next]_vars
    PROVE  IngressOK' /\ PositionsOK'
<1>0. /\ posted \in [Channels -> Seq(Messages)]
      /\ cursor \in [Channels -> Nat \union {None}]
      /\ acked \in [Channels -> Nat]
      /\ poller \in [Channels -> [pc : LoopStates, next : Nat, upto : Nat]]
      /\ \A c \in Channels : Len(posted[c]) <= MaxPosts
  BY DEF TypeInv, IngressOK
<1>1. \A c \in Channels : Len(posted[c]) \in Nat
  BY <1>0
<1>2. ASSUME NEW c \in Channels, NEW h \in Handles, NEW m \in Contents, Post(c, h, m)
      PROVE  IngressOK' /\ PositionsOK'
  <2>1. PICK x : x = [from |-> h, says |-> m]
    OBVIOUS
  <2>2. /\ Count < MaxPosts /\ posted' = [posted EXCEPT ![c] = Append(@, x)]
        /\ UNCHANGED <<cursor, acked, poller>>
    BY <1>2, <2>1 DEF Post
  <2>3. x \in Messages
    BY <2>1 DEF Messages
  <2>4. posted' \in [Channels -> Seq(Messages)]
    BY <1>0, <2>2, <2>3
  <2>5. /\ Len(posted'[c]) = Len(posted[c]) + 1
        /\ \A d \in Channels : d # c => posted'[d] = posted[d]
    <3>1. posted[c] \in Seq(Messages) /\ posted'[c] = Append(posted[c], x)
      BY <1>0, <2>2
    <3>2. \A d \in Channels : d # c => posted'[d] = posted[d]
      BY <1>0, <2>2
    <3> QED
      BY <2>3, <3>1, <3>2
  <2>6. IngressOK'
    <3>1. Len(posted[c]) + 1 <= MaxPosts
      <4>1. Count \in Nat /\ Len(posted[c]) <= Count
        BY CountBounds DEF TypeInv
      <4> QED
        BY <1>1, <2>2, <4>1, ChannelsAssumption
    <3> QED
      BY <1>0, <1>1, <2>2, <2>4, <2>5, <3>1 DEF IngressOK
  <2>7. PositionsOK'
    <3> SUFFICES ASSUME NEW d \in Channels
                 PROVE  /\ poller[d].next <= poller[d].upto /\ poller[d].upto <= Len(posted'[d])
                        /\ poller[d].pc \in {"dispatch", "handling", "advance"} =>
                             poller[d].next < poller[d].upto
                        /\ acked[d] <= Len(posted'[d])
                        /\ cursor[d] # None => cursor[d] <= Len(posted'[d])
      BY <2>2 DEF PositionsOK
    <3>1. /\ poller[d].next \in Nat /\ poller[d].upto \in Nat /\ acked[d] \in Nat
          /\ cursor[d] # None => cursor[d] \in Nat
          /\ Len(posted[d]) \in Nat /\ Len(posted'[d]) \in Nat
          /\ Len(posted[d]) <= Len(posted'[d])
      <4>1. poller[d] \in [pc : LoopStates, next : Nat, upto : Nat]
        BY <1>0
      <4>2. acked[d] \in Nat /\ cursor[d] \in Nat \union {None}
        BY <1>0
      <4>3. /\ Len(posted[d]) \in Nat /\ Len(posted'[d]) \in Nat
            /\ Len(posted[d]) <= Len(posted'[d])
        BY <1>1, <2>5
      <4> QED
        BY <4>1, <4>2, <4>3
    <3>2. /\ poller[d].next <= poller[d].upto /\ poller[d].upto <= Len(posted[d])
          /\ poller[d].pc \in {"dispatch", "handling", "advance"} =>
               poller[d].next < poller[d].upto
          /\ acked[d] <= Len(posted[d])
          /\ cursor[d] # None => cursor[d] <= Len(posted[d])
      BY DEF TypeInv, PositionsOK
    <3> QED
      BY <3>1, <3>2
  <2> QED
    BY <2>6, <2>7
<1>3. ASSUME NEW c \in Channels, Loop(c) \/ Hang(c)
      PROVE  IngressOK' /\ PositionsOK'
  <2>1. posted' = posted
    BY <1>3 DEF Loop, Start, Poll, Hang, Dispatch, Return, Advance
  <2> DEFINE Loops == [pc : LoopStates, next : Nat, upto : Nat]
             q == poller[c]
             now == Len(posted[c])
             Good(p, k, a) ==
               /\ poller' = [poller EXCEPT ![c] = p]
               /\ cursor' = [cursor EXCEPT ![c] = k]
               /\ acked' = [acked EXCEPT ![c] = a]
               /\ p.next <= p.upto /\ p.upto <= now
               /\ p.pc \in {"dispatch", "handling", "advance"} => p.next < p.upto
               /\ a <= now
               /\ k # None => k <= now
  <2>2. \E p \in Loops, k \in Nat \union {None}, a \in Nat : Good(p, k, a)
    <3>1. /\ q \in Loops
          /\ q.next \in Nat /\ q.upto \in Nat /\ acked[c] \in Nat
          /\ cursor[c] \in Nat \union {None} /\ now \in Nat
          /\ q.next <= q.upto /\ q.upto <= now
          /\ q.pc \in {"dispatch", "handling", "advance"} => q.next < q.upto
          /\ acked[c] <= now
          /\ cursor[c] # None => cursor[c] <= now
          /\ cursor = [cursor EXCEPT ![c] = cursor[c]]
          /\ acked = [acked EXCEPT ![c] = acked[c]]
      BY <1>0, <1>1 DEF TypeInv, PositionsOK
    <3>0. ASSUME NEW l
          PROVE  [q EXCEPT !.pc = l] = [pc |-> l, next |-> q.next, upto |-> q.upto]
      <4>1. PICK a, b, d : q = [pc |-> a, next |-> b, upto |-> d]
        BY <3>1
      <4> QED
        BY <4>1
    <3>2. CASE Start(c)
      <4>1. PICK k \in Nat :
              /\ k <= now
              /\ poller' = [poller EXCEPT ![c] = [pc |-> "poll", next |-> k, upto |-> k]]
              /\ cursor' = cursor \/ cursor' = [cursor EXCEPT ![c] = now]
              /\ acked' = acked
        BY <3>1, <3>2 DEF Start
      <4>2. PICK p : p = [pc |-> "poll", next |-> k, upto |-> k]
        OBVIOUS
      <4>3. p \in Loops /\ p.next = k /\ p.upto = k /\ p.pc = "poll"
        BY <4>2 DEF LoopStates
      <4>4. PICK l \in {cursor[c], now} : cursor' = [cursor EXCEPT ![c] = l]
        BY <3>1, <4>1
      <4>5. Good(p, l, acked[c])
        BY <3>1, <4>1, <4>2, <4>3, <4>4
      <4>6. l \in Nat \union {None} /\ acked[c] \in Nat
        BY <3>1
      <4> HIDE DEF Good, Loops
      <4> QED
        BY <4>3, <4>5, <4>6
    <3>3. CASE Poll(c)
      <4>1. PICK k \in q.next .. now - 1 :
            /\ q.pc = "poll" /\ cursor' = cursor
            /\ poller' = [poller EXCEPT ![c] = [pc |-> "dispatch", next |-> k, upto |-> now]]
            /\ acked' = [acked EXCEPT ![c] = q.next]
        BY <1>0, <3>3 DEF Poll
      <4>2. PICK p : p = [pc |-> "dispatch", next |-> k, upto |-> now]
        OBVIOUS
      <4>3. /\ p \in Loops /\ p.next = k /\ p.upto = now /\ p.pc = "dispatch"
            /\ k \in Nat /\ k < now
        BY <3>1, <4>1, <4>2 DEF LoopStates
      <4>4. Good(p, cursor[c], q.next)
        BY <3>1, <4>1, <4>2, <4>3
      <4> HIDE DEF Good, Loops, q
      <4> QED
        BY <3>1, <4>3, <4>4
    <3>4. CASE Dispatch(c) \/ Return(c)
      <4>1. /\ q.pc \in {"dispatch", "handling"} /\ cursor' = cursor /\ acked' = acked
            /\ \E l \in {"advance", "handling"} : poller' = [poller EXCEPT ![c].pc = l]
        BY <3>4 DEF Dispatch, Return
      <4>2. PICK l \in {"advance", "handling"} :
              poller' = [poller EXCEPT ![c] = [q EXCEPT !.pc = l]]
        BY <1>0, <4>1
      <4>3. PICK p : p = [q EXCEPT !.pc = l]
        OBVIOUS
      <4>4. p \in Loops /\ p.next = q.next /\ p.upto = q.upto /\ p.pc = l
        BY <3>0, <3>1, <4>3 DEF LoopStates
      <4>5. Good(p, cursor[c], acked[c])
        BY <3>1, <4>1, <4>2, <4>3, <4>4
      <4> HIDE DEF Good, Loops, q
      <4> QED
        BY <3>1, <4>4, <4>5
    <3>5. CASE Advance(c)
      <4>1. PICK l \in {"poll", "dispatch"} :
            /\ q.pc = "advance" /\ acked' = acked
            /\ l = IF q.next + 1 = q.upto THEN "poll" ELSE "dispatch"
            /\ poller' = [poller EXCEPT ![c] = [q EXCEPT !.next = q.next + 1, !.pc = l]]
            /\ cursor' = cursor \/ cursor' = [cursor EXCEPT ![c] = q.next + 1]
        BY <1>0, <3>5 DEF Advance
      <4>2. PICK p : p = [q EXCEPT !.next = q.next + 1, !.pc = l]
        OBVIOUS
      <4>3. p \in Loops /\ p.next = q.next + 1 /\ p.upto = q.upto /\ p.pc = l
        <5>1. PICK a, b, d : q = [pc |-> a, next |-> b, upto |-> d]
          BY <3>1
        <5> HIDE DEF q
        <5>2. p = [pc |-> l, next |-> b + 1, upto |-> d]
          BY <4>2, <5>1
        <5> QED
          BY <3>1, <5>1, <5>2 DEF LoopStates
      <4>4. PICK k \in {cursor[c], q.next + 1} : cursor' = [cursor EXCEPT ![c] = k]
        BY <3>1, <4>1
      <4>5. k \in Nat \union {None} /\ (k # None => k <= now)
        <5>1. q.next + 1 \in Nat /\ q.next + 1 <= now
          BY <3>1, <4>1
        <5> QED
          BY <3>1, <5>1
      <4>6. Good(p, k, acked[c])
        BY <3>1, <4>1, <4>2, <4>3, <4>4, <4>5
      <4> HIDE DEF Good, Loops, q
      <4> QED
        BY <3>1, <4>3, <4>5, <4>6
    <3>6. CASE Hang(c)
      <4>1. /\ cursor' = cursor /\ acked' = acked
            /\ poller' = [poller EXCEPT ![c] = [q EXCEPT !.pc = "hung"]]
        BY <1>0, <3>6 DEF Hang
      <4>2. PICK p : p = [q EXCEPT !.pc = "hung"]
        OBVIOUS
      <4>3. p \in Loops /\ p.next = q.next /\ p.upto = q.upto /\ p.pc = "hung"
        BY <3>0, <3>1, <4>2 DEF LoopStates
      <4>4. Good(p, cursor[c], acked[c])
        BY <3>1, <4>1, <4>2, <4>3
      <4> HIDE DEF Good, Loops, q
      <4> QED
        BY <3>1, <4>3, <4>4
    <3> QED
      BY <1>3, <3>2, <3>3, <3>4, <3>5, <3>6 DEF Loop
  <2>3. IngressOK'
    BY <1>0, <2>1, <2>2 DEF IngressOK
  <2>4. PositionsOK'
    <3> SUFFICES ASSUME NEW d \in Channels
                 PROVE  /\ poller'[d].next <= poller'[d].upto
                        /\ poller'[d].upto <= Len(posted[d])
                        /\ poller'[d].pc \in {"dispatch", "handling", "advance"} =>
                             poller'[d].next < poller'[d].upto
                        /\ acked'[d] <= Len(posted[d])
                        /\ cursor'[d] # None => cursor'[d] <= Len(posted[d])
      BY <2>1 DEF PositionsOK
    <3>1. CASE d = c
      BY <1>0, <2>2, <3>1
    <3>2. CASE d # c
      BY <1>0, <2>2, <3>2 DEF TypeInv, PositionsOK
    <3> QED
      BY <3>1, <3>2
  <2> QED
    BY <2>3, <2>4
<1>4. CASE OffIngress
  <2>1. UNCHANGED <<posted, cursor, acked, poller, skipped>>
    BY <1>4, OffIngressKeeps
  <2> QED
    BY <2>1 DEF TypeInv, IngressOK, PositionsOK
<1>5. CASE Crash
  <2>1. /\ UNCHANGED <<posted, cursor, acked>>
        /\ poller' = [c \in Channels |-> [pc |-> "down", next |-> 0, upto |-> 0]]
    BY <1>5 DEF Crash
  <2>2. IngressOK'
    BY <1>0, <2>1 DEF IngressOK, LoopStates
  <2>3. PositionsOK'
    BY <1>1, <2>1 DEF TypeInv, PositionsOK
  <2> QED
    BY <2>2, <2>3
<1> QED
  BY <1>2, <1>3, <1>4, <1>5 DEF Next, Tasks, OffIngress

\* A handler's record changes only to what the step says.
LEMMA TasksTyped ==
    ASSUME TypeInv, TaskInv, [Next]_vars
    PROVE  TasksOK'
<1> DEFINE Records == Plain \union Bound \union Deciding \union Waiting
<1>0. /\ task \in [Slots -> Records]
      /\ roles \in [Users -> Roles]
      /\ \A a \in alerts : a.approval \in Approvals
  BY DEF TypeInv, TasksOK
<1>1. ASSUME UNCHANGED <<roles, alerts>>, NEW x, NEW t \in Records,
             task' = [task EXCEPT ![x] = t]
      PROVE  TasksOK'
  BY <1>0, <1>1 DEF TasksOK
<1>2. ASSUME NEW c \in Channels, NEW h \in Handles, NEW m \in Contents, Post(c, h, m)
      PROVE  TasksOK'
  <2>1. UNCHANGED <<roles, alerts>> /\ [pc |-> "bind"] \in Records
    BY <1>2 DEF Post, inbox, Plain
  <2>2. \/ task' = task
        \/ \E x : task' = [task EXCEPT ![x] = [pc |-> "bind"]]
    BY <1>2 DEF Post
  <2> QED
    BY <1>0, <1>1, <2>1, <2>2 DEF TasksOK
<1>3. ASSUME NEW c \in Channels, Loop(c) \/ Hang(c)
      PROVE  TasksOK'
  <2>1. UNCHANGED <<roles, alerts>> /\ [pc |-> "bind"] \in Records
    BY <1>3 DEF Loop, Start, Poll, Hang, Dispatch, Return, Advance, inbox, Plain
  <2>2. \/ task' = task
        \/ \E x : task' = [task EXCEPT ![x] = [pc |-> "bind"]]
    BY <1>3 DEF Loop, Start, Poll, Hang, Dispatch, Return, Advance
  <2> QED
    BY <1>0, <1>1, <2>1, <2>2 DEF TasksOK
<1>4. ASSUME NEW s \in Slots, Handle(s)
      PROVE  TasksOK'
  <2>1. UNCHANGED <<roles, alerts>>
    BY <1>4 DEF Handle, Bind, Route, DecideOverChat, Turn, Parked, inbox
  <2>2. [pc |-> "done"] \in Records /\ [pc |-> "hung"] \in Records
    BY DEF Plain
  <2>3. CASE Finish(s)
    BY <1>1, <2>1, <2>2, <2>3 DEF Finish
  <2>4. CASE Bind(s) /\ ~ Finish(s)
    <3> DEFINE u == UserOf[Message(s).from]
               t == [pc |-> "route", user |-> u, approver |-> roles[u] = "approver",
                     held |-> roles[u] = "approver"]
    <3>1. task[s].pc = "bind" /\ u # None /\ task' = [task EXCEPT ![s] = t]
      BY <2>4 DEF Bind
    <3>2. u \in Users
      BY <3>1, MessageType DEF TaskInv, HandlerOK
    <3>3. t \in Bound
      BY <3>2 DEF Bound
    <3> HIDE DEF t
    <3> QED
      BY <1>1, <2>1, <3>1, <3>3
  <2>5. CASE Route(s)
    <3> DEFINE says == Message(s).says
               to(i) == [pc |-> "decide", user |-> task[s].user,
                         approver |-> task[s].approver, held |-> task[s].held,
                         id |-> i, via |-> says]
    <3>1. task[s].pc = "route" /\ task[s] \in Bound /\ says \in Contents
      BY <2>5, TaskShape, MessageType DEF Route, TaskInv, HandlerOK
    <3>2. \A i \in Approvals : to(i) \in Deciding
      BY <3>1 DEF Bound, Deciding
    <3>3. \A i \in Replied(s) : i \in Approvals
      BY <1>0 DEF Replied
    <3>4. says.kind = "command" => says.id \in Approvals
      BY <3>1 DEF Contents
    <3>5. [task[s] EXCEPT !.pc = "turn"] \in Bound
      BY <3>1 DEF Bound
    <3>6. task[s].pc = "route" =>
            (task' = [task EXCEPT ![s].pc = "turn"] =>
               task' = [task EXCEPT ![s] = [task[s] EXCEPT !.pc = "turn"]])
      BY <1>0
    <3>7. \/ \E i \in Approvals : task' = [task EXCEPT ![s] = to(i)]
          \/ task' = [task EXCEPT ![s] = [task[s] EXCEPT !.pc = "turn"]]
      BY <2>5, <3>3, <3>4, <3>6 DEF Route
    <3>8. CASE task' = [task EXCEPT ![s] = [task[s] EXCEPT !.pc = "turn"]]
      BY <1>1, <2>1, <3>5, <3>8
    <3>9. ASSUME NEW i \in Approvals, task' = [task EXCEPT ![s] = to(i)] PROVE TasksOK'
      <4>1. to(i) \in Records
        BY <3>2
      <4> HIDE DEF to, Records
      <4> QED
        BY <1>1, <2>1, <3>9, <4>1
    <3> QED
      BY <3>7, <3>8, <3>9
  <2>6. CASE Turn(s) /\ ~ Finish(s)
    <3>1. PICK i \in Approvals : task' = [task EXCEPT ![s] = [pc |-> "parked", id |-> i]]
      BY <2>6 DEF Turn
    <3>2. [pc |-> "parked", id |-> i] \in Waiting
      BY DEF Waiting
    <3> QED
      BY <1>1, <2>1, <3>1, <3>2
  <2> QED
    BY <1>4, <2>3, <2>4, <2>5, <2>6 DEF Handle, DecideOverChat, Parked
<1>5. ASSUME NEW c \in Channels, NEW chat \in Chats, NEW i \in Approvals, Alert(c, chat, i)
      PROVE  TasksOK'
  <2>1. UNCHANGED <<task, roles>>
    BY <1>5 DEF Alert
  <2>2. \A a \in alerts' : a.approval \in Approvals
    <3>1. PICK mid : alerts' = alerts \union
                      {[channel |-> c, chat |-> chat, mid |-> mid, approval |-> i,
                        at |-> Cardinality(alerts)]}
      BY <1>5 DEF Alert
    <3> QED
      BY <1>0, <3>1
  <2> QED
    BY <1>0, <2>1, <2>2 DEF TasksOK
<1>6. ASSUME NEW u \in Users, NEW r \in Roles, SetRole(u, r)
      PROVE  TasksOK'
  <2>1. UNCHANGED alerts /\ roles' \in [Users -> Roles]
    BY <1>0, <1>6 DEF SetRole, inbox
  <2>2. ASSUME NEW s \in Slots PROVE task'[s] \in Records
    <3>1. task[s] \in Records
      BY <1>0
    <3>2. task'[s] \in {task[s], [task[s] EXCEPT !.held = @ \/ r = "approver"]}
      BY <1>6 DEF SetRole
    <3>3. "user" \in DOMAIN task[s] =>
            [task[s] EXCEPT !.held = @ \/ r = "approver"] \in Records
      <4>1. ASSUME task[s] \in Bound
            PROVE  [task[s] EXCEPT !.held = @ \/ r = "approver"] \in Bound
        BY <4>1 DEF Bound
      <4>2. ASSUME task[s] \in Deciding
            PROVE  [task[s] EXCEPT !.held = @ \/ r = "approver"] \in Deciding
        BY <4>2 DEF Deciding
      <4>3. task[s] \in Plain \union Waiting => "user" \notin DOMAIN task[s]
        BY DEF Plain, Waiting
      <4> QED
        BY <3>1, <4>1, <4>2, <4>3
    <3>4. "user" \notin DOMAIN task[s] => task'[s] = task[s]
      BY <1>6 DEF SetRole
    <3> QED
      BY <3>1, <3>2, <3>3, <3>4
  <2>3. task' \in [Slots -> Records]
    BY <1>6, <2>2 DEF SetRole
  <2> QED
    BY <1>0, <2>1, <2>3 DEF TasksOK
<1>7. ASSUME NEW i \in Approvals, ParkElsewhere(i) PROVE TasksOK'
  BY <1>0, <1>7 DEF ParkElsewhere, TasksOK
<1>8. CASE Crash
  BY <1>0, <1>8 DEF Crash, inbox, TasksOK, Plain, Idle
<1>9. CASE UNCHANGED vars
  BY <1>0, <1>9 DEF vars, TasksOK
<1> QED
  BY <1>2, <1>3, <1>4, <1>5, <1>6, <1>7, <1>8, <1>9 DEF Next, Tasks, Roles

-----------------------------------------------------------------------------
(* Nothing below a resume position is lost                                 *)

\* The loop moves past a message only when it was handled or is ignored.
LEMMA CoverStep ==
    ASSUME TypeInv, CoverInv, [Next]_vars
    PROVE  CoverInv'
<1>0. /\ posted \in [Channels -> Seq(Messages)]
      /\ cursor \in [Channels -> Nat \union {None}]
      /\ acked \in [Channels -> Nat]
      /\ poller \in [Channels -> [pc : LoopStates, next : Nat, upto : Nat]]
      /\ task \in [Slots -> Plain \union Bound \union Deciding \union Waiting]
      /\ \A c \in Channels : Len(posted[c]) \in Nat /\ Len(posted[c]) <= MaxPosts
  BY DEF TypeInv, IngressOK, TasksOK
<1>1. ASSUME NEW c \in Channels
      PROVE  /\ poller[c].next \in Nat /\ poller[c].upto \in Nat
             /\ poller[c].next <= Len(posted[c])
             /\ poller[c].pc \in {"dispatch", "handling", "advance"} =>
                  poller[c].next + 1 <= Len(posted[c])
             /\ cursor[c] # None => cursor[c] \in Nat /\ cursor[c] <= Len(posted[c])
             /\ acked[c] \in Nat /\ acked[c] <= Len(posted[c])
  <2>1. poller[c] \in [pc : LoopStates, next : Nat, upto : Nat]
    BY <1>0
  <2>2. /\ poller[c].next <= poller[c].upto /\ poller[c].upto <= Len(posted[c])
        /\ poller[c].pc \in {"dispatch", "handling", "advance"} =>
             poller[c].next < poller[c].upto
        /\ acked[c] <= Len(posted[c])
        /\ cursor[c] # None => cursor[c] <= Len(posted[c])
    BY DEF TypeInv, PositionsOK
  <2>3. Len(posted[c]) \in Nat /\ acked[c] \in Nat /\ cursor[c] \in Nat \union {None}
    BY <1>0
  <2> QED
    BY <2>1, <2>2, <2>3
<1>2. ASSUME NEW c \in Channels
      PROVE  /\ cursor[c] # None => Covered(c, cursor[c])
             /\ Covered(c, acked[c])
             /\ Covered(c, poller[c].next)
             /\ poller[c].pc = "advance" => Covered(c, poller[c].next + 1)
  BY DEF CoverInv
<1>3. ASSUME NEW c \in Channels, NEW k \in Nat, k <= Len(posted[c]), Covered(c, k)
      PROVE  Covered(c, k)'
  BY <1>3, CoveredKeeps
<1> DEFINE ChannelOK(c) ==
             /\ cursor[c] # None => Covered(c, cursor[c])
             /\ Covered(c, acked[c])
             /\ Covered(c, poller[c].next)
             /\ poller[c].pc = "advance" => Covered(c, poller[c].next + 1)
<1>4. ASSUME NEW c \in Channels, cursor'[c] = cursor[c], acked'[c] = acked[c],
             poller'[c] = poller[c]
      PROVE  ChannelOK(c)'
  <2>1. PICK k, a, n : k = cursor[c] /\ a = acked[c] /\ n = poller[c].next
    OBVIOUS
  <2>2. /\ k # None => Covered(c, k)'
        /\ Covered(c, a)'
        /\ Covered(c, n)'
        /\ poller[c].pc = "advance" => Covered(c, n + 1)'
    <3>1. n \in Nat /\ n + 1 \in Nat
      BY <1>1, <2>1
    <3> QED
      BY <1>1, <1>2, <1>3, <2>1, <3>1
  <2> QED
    BY <1>4, <2>1, <2>2
<1>5. ASSUME NEW s \in Slots, task'[s].pc = "done",
             task'[s] = task[s] \/ s \in handled'
      PROVE  s \in handled'
  BY <1>5, Growth DEF CoverInv
<1>6. ASSUME NEW c \in Channels, NEW h \in Handles, NEW m \in Contents, Post(c, h, m)
      PROVE  CoverInv'
  <2>1. UNCHANGED <<cursor, acked, poller>>
    BY <1>6 DEF Post
  <2>2. ASSUME NEW s \in Slots, task'[s].pc = "done" PROVE task'[s] = task[s]
    BY <1>0, <1>6, <2>2 DEF Post
  <2> QED
    BY <1>4, <1>5, <2>1, <2>2 DEF CoverInv
<1>7. ASSUME NEW c \in Channels, Loop(c) \/ Hang(c)
      PROVE  CoverInv'
  <2>1. /\ \A d \in Channels : d # c => /\ cursor'[d] = cursor[d]
                                        /\ acked'[d] = acked[d]
                                        /\ poller'[d] = poller[d]
        /\ posted' = posted /\ handled' = handled
    BY <1>0, <1>7 DEF Loop, Start, Poll, Hang, Dispatch, Return, Advance
  <2>2. ASSUME NEW s \in Slots, task'[s].pc = "done" PROVE task'[s] = task[s]
    <3>1. \/ task' = task
          \/ \E x : task' = [task EXCEPT ![x] = [pc |-> "bind"]]
      BY <1>7 DEF Loop, Start, Poll, Hang, Dispatch, Return, Advance
    <3> QED
      BY <1>0, <2>2, <3>1
  <2>3. ChannelOK(c)'
    <3> DEFINE q == poller[c]
               k == q.next + 1
    <3>0. /\ \A n \in Nat : n <= Len(posted[c]) /\ Covered(c, n) => Covered(c, n)'
          /\ q \in [pc : LoopStates, next : Nat, upto : Nat]
          /\ q.next \in Nat /\ k \in Nat
      BY <1>0, <1>1, <1>3
    <3>1. CASE Start(c)
      <4>1. PICK n :
              /\ poller' = [poller EXCEPT ![c] = [pc |-> "poll", next |-> n, upto |-> n]]
              /\ cursor' = cursor \/ cursor' = [cursor EXCEPT ![c] = n]
              /\ acked' = acked
              /\ Covered(c, n)'
        <5>1. CASE /\ cursor[c] # None
                   /\ poller' = [poller EXCEPT ![c] =
                                   [pc |-> "poll", next |-> cursor[c], upto |-> cursor[c]]]
                   /\ cursor' = cursor
          <6>1. PICK n : n = cursor[c]
            OBVIOUS
          <6>2. Covered(c, n)'
            BY <1>1, <1>2, <3>0, <5>1, <6>1
          <6> QED
            BY <3>1, <5>1, <6>1, <6>2 DEF Start
        <5>2. CASE /\ poller' = [poller EXCEPT ![c] =
                                   [pc |-> "poll", next |-> acked[c], upto |-> acked[c]]]
                   /\ cursor' = cursor
          <6>1. PICK n : n = acked[c]
            OBVIOUS
          <6>2. Covered(c, n)'
            BY <1>1, <1>2, <3>0, <6>1
          <6> QED
            BY <3>1, <5>2, <6>1, <6>2 DEF Start
        <5>3. CASE /\ poller' = [poller EXCEPT ![c] = [pc |-> "poll",
                                   next |-> Len(posted[c]), upto |-> Len(posted[c])]]
                   /\ cursor' = [cursor EXCEPT ![c] = Len(posted[c])]
                   /\ skipped' = skipped \union ({c} \X (1..Len(posted[c])))
          <6>1. PICK n : n = Len(posted[c])
            OBVIOUS
          <6>2. Covered(c, n)'
            BY <5>3, <6>1 DEF Covered
          <6> QED
            BY <3>1, <5>3, <6>1, <6>2 DEF Start
        <5> QED
          BY <3>1, <5>1, <5>2, <5>3 DEF Start
      <4>2. poller'[c].next = n /\ poller'[c].pc = "poll"
        BY <1>0, <4>1
      <4>3. PICK a, l : a = acked[c] /\ l = cursor[c]
        OBVIOUS
      <4>4. Covered(c, a)' /\ (l # None => Covered(c, l)')
        BY <1>1, <1>2, <3>0, <4>3
      <4>5. cursor'[c] = l \/ cursor'[c] = n
        BY <1>0, <4>1, <4>3
      <4> QED
        BY <4>1, <4>2, <4>3, <4>4, <4>5
    <3>2. CASE Poll(c)
      <4>1. PICK n, l : n = q.next /\ l = cursor[c]
        OBVIOUS
      <4>2. Covered(c, n)' /\ (l # None => Covered(c, l)')
        BY <1>1, <1>2, <3>0, <4>1
      <4>3. PICK m \in n .. Len(posted[c]) - 1 :
            /\ poller'[c].next = m /\ poller'[c].pc = "dispatch"
            /\ acked'[c] = n /\ cursor'[c] = l
            /\ skipped' = skipped \union ({c} \X (n + 1 .. m))
        BY <1>0, <3>0, <3>2, <4>1 DEF Poll
      <4>4. Covered(c, m)'
        <5>1. \A j \in 1..m : j \in 1..n \/ j \in n + 1 .. m
          BY <1>0, <3>0, <4>1, <4>3
        <5> QED
          BY <4>2, <4>3, <5>1 DEF Covered
      <4> QED
        BY <4>2, <4>3, <4>4
    <3>3. CASE Dispatch(c) \/ Return(c)
      <4>1. PICK n, l, a : n = q.next /\ l = cursor[c] /\ a = acked[c]
        OBVIOUS
      <4>2. /\ poller'[c].next = n /\ poller'[c].pc \in {"handling", "advance"}
            /\ cursor'[c] = l /\ acked'[c] = a
            /\ q.pc \in {"dispatch", "handling"}
        BY <1>0, <3>0, <3>3, <4>1 DEF Dispatch, Return
      <4>3. Covered(c, n)' /\ Covered(c, a)' /\ (l # None => Covered(c, l)')
        BY <1>1, <1>2, <3>0, <4>1
      <4>4. ASSUME poller'[c].pc = "advance" PROVE Covered(c, n + 1)
        <5>1. <<c, n + 1>> \in handled \/ posted[c][n + 1].says.kind = "noise"
          <6>1. CASE Dispatch(c)
            BY <1>0, <3>0, <4>1, <4>4, <6>1 DEF Dispatch, Ignored
          <6>2. CASE Return(c)
            <7>1. n + 1 \in 1..MaxPosts
              BY <1>0, <1>1, <4>1, <4>2, ChannelsAssumption
            <7>2. <<c, n + 1>> \in Slots /\ task[<<c, n + 1>>].pc = "done"
              BY <4>1, <6>2, <7>1 DEF Return, Slots
            <7> QED
              BY <7>2 DEF CoverInv
          <6> QED
            BY <3>3, <6>1, <6>2
        <5>2. Covered(c, n)
          BY <1>2, <4>1
        <5>3. \A j \in 1..(n + 1) : j \in 1..n \/ j = n + 1
          BY <3>0, <4>1
        <5> QED
          BY <5>1, <5>2, <5>3 DEF Covered
      <4>5. n + 1 \in Nat /\ n + 1 <= Len(posted[c])
        BY <1>1, <3>0, <4>1, <4>2
      <4>6. poller'[c].pc = "advance" => Covered(c, n + 1)'
        BY <3>0, <4>4, <4>5
      <4> QED
        BY <4>2, <4>3, <4>6
    <3>4. CASE Advance(c)
      <4>1. PICK n, l, a : n = q.next + 1 /\ l = cursor[c] /\ a = acked[c]
        OBVIOUS
      <4>2. /\ poller'[c].next = n /\ poller'[c].pc \in {"poll", "dispatch"}
            /\ cursor'[c] = l \/ cursor'[c] = n
            /\ acked'[c] = a /\ q.pc = "advance"
        BY <1>0, <3>0, <3>4, <4>1 DEF Advance
      <4>3. n \in Nat /\ n <= Len(posted[c]) /\ Covered(c, n)
        BY <1>1, <1>2, <3>0, <4>1, <4>2
      <4>4. Covered(c, n)' /\ Covered(c, a)' /\ (l # None => Covered(c, l)')
        BY <1>1, <1>2, <3>0, <4>1, <4>3
      <4> QED
        BY <4>2, <4>4
    <3>5. CASE Hang(c)
      <4>1. PICK n, l, a : n = q.next /\ l = cursor[c] /\ a = acked[c]
        OBVIOUS
      <4>2. /\ poller'[c].next = n /\ poller'[c].pc = "hung"
            /\ cursor'[c] = l /\ acked'[c] = a
        BY <1>0, <3>0, <3>5, <4>1 DEF Hang
      <4>3. Covered(c, n)' /\ Covered(c, a)' /\ (l # None => Covered(c, l)')
        BY <1>1, <1>2, <3>0, <4>1
      <4> QED
        BY <4>2, <4>3
    <3> QED
      BY <1>7, <3>1, <3>2, <3>3, <3>4, <3>5 DEF Loop
  <2> HIDE DEF ChannelOK
  <2>4. \A d \in Channels : ChannelOK(d)'
    BY <1>4, <2>1, <2>3
  <2>5. \A s \in Slots : task'[s].pc = "done" => s \in handled'
    BY <1>5, <2>2
  <2> QED
    BY <2>4, <2>5 DEF CoverInv, ChannelOK
<1>8. CASE OffIngress
  <2>1. UNCHANGED <<cursor, acked, poller>>
    BY <1>8, OffIngressKeeps
  <2>2. ASSUME NEW s \in Slots, task'[s].pc = "done"
        PROVE  task[s].pc = "done" \/ s \in handled'
    <3>1. ASSUME NEW x \in Slots, Handle(x)
          PROVE  \/ task'[s] = task[s] \/ s \in handled'
                 \/ task'[s].pc \in {"hung", "route", "decide", "turn", "parked"}
      <4>1. CASE s # x
        BY <1>0, <3>1, <4>1 DEF Handle, Bind, Route, DecideOverChat, Turn, Parked, Finish
      <4>2. CASE s = x
        <5>1. CASE Finish(x)
          BY <1>0, <4>2, <5>1 DEF Finish
        <5>2. CASE ~ Finish(x)
          <6>1. task[x] \in Plain \union Bound \union Deciding \union Waiting
            BY <1>0
          <6>2. CASE Bind(x)
            BY <1>0, <4>2, <5>2, <6>2 DEF Bind
          <6>3. CASE Route(x)
            <7>1. task[x] \in Bound
              BY <6>3, TaskShape DEF Route
            <7>2. [task[x] EXCEPT !.pc = "turn"].pc = "turn"
              BY <7>1 DEF Bound
            <7>3. CASE task' = [task EXCEPT ![x].pc = "turn"]
              BY <1>0, <4>2, <7>2, <7>3
            <7>4. CASE \E t : t.pc = "decide" /\ task' = [task EXCEPT ![x] = t]
              BY <1>0, <4>2, <7>4
            <7>5. CASE task' # [task EXCEPT ![x].pc = "turn"]
              <8>1. PICK i : task' = [task EXCEPT ![x] =
                        [pc |-> "decide", user |-> task[x].user,
                         approver |-> task[x].approver, held |-> task[x].held,
                         id |-> i, via |-> Message(x).says]]
                BY <6>3, <7>5 DEF Route
              <8> QED
                BY <7>4, <8>1
            <7> QED
              BY <7>3, <7>5
          <6>4. CASE Turn(x)
            BY <1>0, <4>2, <5>2, <6>4 DEF Turn
          <6> QED
            BY <3>1, <5>2, <6>2, <6>3, <6>4 DEF Handle, DecideOverChat, Parked
        <5> QED
          BY <5>1, <5>2
      <4> QED
        BY <4>1, <4>2
    <3>2. ASSUME NEW u \in Users, NEW r \in {"approver", "operator", "disabled"}, SetRole(u, r)
          PROVE  task'[s].pc = task[s].pc
      <4>1. task[s] \in Plain \union Bound \union Deciding \union Waiting
        BY <1>0
      <4> QED
        BY <3>2, <4>1 DEF SetRole, Plain, Bound, Deciding, Waiting
    <3>3. CASE UNCHANGED task
      BY <2>2, <3>3
    <3> QED
      BY <1>8, <2>2, <3>1, <3>2, <3>3 DEF OffIngress, Alert, ParkElsewhere, vars
  <2>3. \A s \in Slots : task'[s].pc = "done" => s \in handled'
    BY <2>2, Growth DEF CoverInv
  <2> QED
    BY <1>4, <2>1, <2>3 DEF CoverInv
<1>9. CASE Crash
  <2>1. /\ UNCHANGED <<cursor, acked, posted, handled>>
        /\ \A c \in Channels : poller'[c].next = 0 /\ poller'[c].pc = "down"
        /\ \A s \in Slots : task'[s].pc = "idle"
    BY <1>9 DEF Crash, Idle
  <2>2. ASSUME NEW c \in Channels PROVE ChannelOK(c)'
    <3>1. PICK k, a : k = cursor[c] /\ a = acked[c]
      OBVIOUS
    <3>2. (k # None => Covered(c, k)') /\ Covered(c, a)'
      BY <1>1, <1>2, <1>3, <3>1
    <3>3. Covered(c, 0)'
      BY DEF Covered
    <3> QED
      BY <2>1, <3>1, <3>2, <3>3
  <2> QED
    BY <2>1, <2>2 DEF CoverInv
<1> QED
  BY <1>6, <1>7, <1>8, <1>9 DEF Next, Tasks, OffIngress

-----------------------------------------------------------------------------
(* Decisions over chat                                                     *)

\* A message that was posted is not changed, an alert is not forgotten.
LEMMA MessageKeeps ==
    ASSUME TypeInv, [Next]_vars, NEW s \in Slots, s[2] <= Len(posted[s[1]])
    PROVE  /\ s[2] <= Len(posted'[s[1]])
           /\ Message(s)' = Message(s)
           /\ Message(s).says.kind = "reply" =>
                \A i : Answers(s, i) => Answers(s, i)'
<1>1. s[1] \in Channels /\ s[2] \in 1..MaxPosts
  BY TaskShape
<1>2. s[2] \in 1..Len(posted[s[1]]) /\ s[2] <= Len(posted'[s[1]])
  BY <1>1, Growth, ChannelsAssumption
<1>3. Message(s)' = Message(s)
  BY <1>1, <1>2, Growth DEF Message
<1>4. ASSUME NEW a PROVE Matches(s, a)' = Matches(s, a)
  BY <1>3 DEF Matches
<1>5. ASSUME Message(s).says.kind = "reply", NEW i, Answers(s, i)
      PROVE  Answers(s, i)'
  <2>1. PICK a \in alerts :
          /\ Matches(s, a) /\ a.approval = i
          /\ \A b \in alerts : Matches(s, b) /\ b.chat = Message(s).says.chat => b.at <= a.at
    BY <1>5 DEF Answers
  <2>2. ASSUME NEW b \in alerts', b \notin alerts, Matches(s, b)
        PROVE  b.chat # Message(s).says.chat
    <3>1. PICK c \in Channels, chat \in Chats, j \in Approvals : Alert(c, chat, j)
      BY <2>2 DEF Next, Post, Tasks, Loop, Handle, Start, Poll, Hang, Dispatch, Return,
         Advance, Bind, Route, DecideOverChat, Turn, Parked, SetRole, ParkElsewhere, Crash,
         vars, inbox
    <3>2. b.channel = c /\ b.chat = chat /\ b.mid \notin Used(c, chat)
      BY <2>2, <3>1 DEF Alert
    <3>3. c = s[1] /\ b.mid = posted[c][s[2]].says.mid
      BY <2>2, <3>2 DEF Matches, Message
    <3>4. s[2] \in DOMAIN posted[c]
      BY <1>1, <1>2, <3>3 DEF TypeInv, IngressOK
    <3>5. ASSUME b.chat = Message(s).says.chat PROVE b.mid \in Used(c, chat)
      BY <1>5, <3>2, <3>3, <3>4, <3>5 DEF Used, Message
    <3> QED
      BY <3>2, <3>5
  <2>3. a \in alerts'
    BY Growth
  <2> QED
    BY <1>3, <1>4, <2>1, <2>2, <2>3 DEF Answers
<1> QED
  BY <1>2, <1>3, <1>5

\* What is known of a handler does not change while it does not move.
LEMMA HandlerFrame ==
    ASSUME TypeInv, [Next]_vars, NEW s \in Slots, HandlerOK(s), task'[s] = task[s]
    PROVE  HandlerOK(s)'
<1>1. CASE task[s].pc = "idle"
  BY <1>1 DEF HandlerOK
<1>2. CASE task[s].pc # "idle"
  <2>1. s[2] <= Len(posted[s[1]])
    BY <1>2 DEF HandlerOK
  <2> QED
    BY <2>1, MessageKeeps DEF HandlerOK
<1> QED
  BY <1>1, <1>2

\* A routed message decides the approval its alert or its command names, or
\* becomes a chat turn.
LEMMA RouteShape ==
    ASSUME TypeInv, NEW s \in Slots, Route(s)
    PROVE  /\ task[s] \in Bound /\ task[s].pc = "route"
           /\ \/ /\ task'[s].pc = "turn" /\ task'[s].user = task[s].user
                 /\ task'[s].approver = task[s].approver /\ task'[s].held = task[s].held
              \/ /\ task'[s].pc = "decide" /\ task'[s].user = task[s].user
                 /\ task'[s].approver = task[s].approver /\ task'[s].held = task[s].held
                 /\ task'[s].via = Message(s).says
                 /\ Message(s).says.kind = "reply" => task'[s].id \in Replied(s)
<1>0. task \in [Slots -> Plain \union Bound \union Deciding \union Waiting]
  BY DEF TypeInv, TasksOK
<1>1. task[s] \in Bound /\ task[s].pc = "route"
  BY TaskShape DEF Route
<1>2. CASE task' = [task EXCEPT ![s].pc = "turn"]
  <2>1. task'[s] = [task[s] EXCEPT !.pc = "turn"]
    BY <1>0, <1>2
  <2> QED
    BY <1>1, <2>1 DEF Bound
<1>3. CASE task' # [task EXCEPT ![s].pc = "turn"]
  <2>1. PICK i : /\ task' = [task EXCEPT ![s] =
                        [pc |-> "decide", user |-> task[s].user,
                         approver |-> task[s].approver, held |-> task[s].held,
                         id |-> i, via |-> Message(s).says]]
                 /\ Message(s).says.kind = "reply" => i \in Replied(s)
    BY <1>3 DEF Route
  <2>2. task'[s] = [pc |-> "decide", user |-> task[s].user,
                    approver |-> task[s].approver, held |-> task[s].held,
                    id |-> i, via |-> Message(s).says]
    BY <1>0, <2>1
  <2> QED
    BY <1>1, <2>1, <2>2
<1> QED
  BY <1>2, <1>3

\* A step of one handler leaves the others where they are.
LEMMA OneHandlerMoves ==
    ASSUME TypeInv, NEW s \in Slots, Handle(s), NEW x \in Slots, x # s
    PROVE  task'[x] = task[x]
<1>0. task \in [Slots -> Plain \union Bound \union Deciding \union Waiting]
  BY DEF TypeInv, TasksOK
<1> QED
  BY <1>0 DEF Handle, Bind, Route, DecideOverChat, Turn, Parked, Finish

\* Every handler's knowledge is kept.
LEMMA TaskStep ==
    ASSUME TypeInv, TaskInv, [Next]_vars
    PROVE  TaskInv'
<1> SUFFICES ASSUME NEW s \in Slots PROVE HandlerOK(s)'
  BY DEF TaskInv
<1>0. /\ task \in [Slots -> Plain \union Bound \union Deciding \union Waiting]
      /\ HandlerOK(s)
      /\ s[1] \in Channels /\ s[2] \in 1..MaxPosts /\ s = <<s[1], s[2]>>
  BY TaskShape DEF TypeInv, TasksOK, TaskInv
<1>1. ASSUME task'[s] = task[s] PROVE HandlerOK(s)'
  BY <1>0, <1>1, HandlerFrame
<1>2. ASSUME task'[s].pc \in {"bind", "done", "hung", "parked"}, s[2] <= Len(posted'[s[1]])
      PROVE  HandlerOK(s)'
  BY <1>2 DEF HandlerOK
<1>3. ASSUME NEW c \in Channels, NEW h \in Handles, NEW m \in Contents, Post(c, h, m)
      PROVE  HandlerOK(s)'
  <2>1. \/ task'[s] = task[s]
        \/ s = <<c, Len(posted'[c])>> /\ task'[s] = [pc |-> "bind"]
    BY <1>0, <1>3 DEF Post
  <2>2. CASE s = <<c, Len(posted'[c])>> /\ task'[s] = [pc |-> "bind"]
    <3>1. s[1] = c /\ s[2] = Len(posted'[c]) /\ Len(posted'[c]) \in Nat
      BY <2>2, Growth
    <3> QED
      BY <1>2, <2>2, <3>1
  <2> QED
    BY <1>1, <2>1, <2>2
<1>4. ASSUME NEW c \in Channels, Loop(c) \/ Hang(c)
      PROVE  HandlerOK(s)'
  <2>1. CASE task' = task
    BY <1>1, <2>1
  <2>2. CASE Dispatch(c)
    <3> DEFINE k == poller[c].next + 1
    <3>1. \/ task'[s] = task[s]
          \/ s = <<c, k>> /\ task'[s] = [pc |-> "bind"]
      BY <1>0, <2>2 DEF Dispatch
    <3>2. CASE s = <<c, k>> /\ task'[s] = [pc |-> "bind"]
      <4>1. poller[c] \in [pc : LoopStates, next : Nat, upto : Nat]
        BY DEF TypeInv, IngressOK
      <4>2. poller[c].next < poller[c].upto /\ poller[c].upto <= Len(posted[c])
        BY <2>2 DEF TypeInv, PositionsOK, Dispatch
      <4>3. Len(posted[c]) \in Nat /\ posted' = posted
        BY <2>2, Growth DEF Dispatch
      <4>4. k <= Len(posted[c])
        BY <4>1, <4>2, <4>3
      <4>5. s[1] = c /\ s[2] = k
        BY <3>2
      <4> QED
        BY <1>2, <3>2, <4>3, <4>4, <4>5
    <3> QED
      BY <1>1, <3>1, <3>2
  <2> QED
    BY <1>4, <2>1, <2>2 DEF Loop, Start, Poll, Hang, Return, Advance
<1>5. ASSUME NEW x \in Slots, Handle(x)
      PROVE  HandlerOK(s)'
  <2>1. CASE x # s
    BY <1>1, <1>5, <2>1, OneHandlerMoves
  <2>2. CASE x = s
    <3>1. Handle(s) /\ task[s].pc # "idle" /\ posted' = posted
      BY <1>5, <2>2 DEF Handle, Bind, Route, DecideOverChat, Turn, Parked, ingress
    <3>2. /\ s[2] <= Len(posted[s[1]]) /\ s[2] <= Len(posted'[s[1]])
          /\ Message(s)' = Message(s)
          /\ Message(s).says.kind = "reply" => \A i : Answers(s, i) => Answers(s, i)'
      BY <1>0, <3>1, MessageKeeps DEF HandlerOK
    <3>3. CASE Finish(s)
      BY <1>0, <1>2, <3>2, <3>3 DEF Finish
    <3>4. CASE Bind(s) /\ ~ Finish(s)
      <4>1. /\ task'[s].pc = "route"
            /\ task'[s].user = UserOf[Message(s).from]
            /\ task'[s].approver => task'[s].held
        BY <1>0, <3>4 DEF Bind
      <4> QED
        BY <3>2, <4>1 DEF HandlerOK
    <3>5. CASE Route(s)
      <4>1. /\ task[s].user = UserOf[Message(s).from]
            /\ task[s].approver => task[s].held
        BY <1>0, <3>5, RouteShape DEF HandlerOK
      <4>2. \A i \in Replied(s) : Answers(s, i)
        BY DEF Replied, Answers, Matches
      <4>3. CASE task'[s].pc = "turn"
        BY <3>2, <3>5, <4>1, <4>3, RouteShape DEF HandlerOK
      <4>4. CASE task'[s].pc = "decide"
        <5>1. /\ task'[s].user = task[s].user
              /\ task'[s].approver = task[s].approver /\ task'[s].held = task[s].held
              /\ task'[s].via = Message(s).says
              /\ Message(s).says.kind = "reply" => task'[s].id \in Replied(s)
          BY <3>5, <4>4, RouteShape
        <5> QED
          BY <3>2, <4>1, <4>2, <4>4, <5>1 DEF HandlerOK
      <4> QED
        BY <3>5, <4>3, <4>4, RouteShape
    <3>6. CASE Turn(s) /\ ~ Finish(s)
      BY <1>0, <1>2, <3>2, <3>6 DEF Turn
    <3> QED
      BY <3>1, <3>3, <3>4, <3>5, <3>6 DEF Handle, DecideOverChat, Parked
  <2> QED
    BY <2>1, <2>2
<1>6. ASSUME NEW u \in Users, NEW r \in Roles, SetRole(u, r)
      PROVE  HandlerOK(s)'
  <2>1. posted' = posted /\ alerts' = alerts
    BY <1>6 DEF SetRole, ingress, inbox
  <2>2. CASE task'[s] # task[s]
    <3>1. "user" \in DOMAIN task[s]
          /\ task'[s] = [task[s] EXCEPT !.held = @ \/ r = "approver"]
      BY <1>6, <2>2 DEF SetRole
    <3>2. task[s] \in Bound \union Deciding
      <4>1. task[s] \in Plain \union Waiting => "user" \notin DOMAIN task[s]
        BY DEF Plain, Waiting
      <4> QED
        BY <1>0, <3>1, <4>1
    <3>3. /\ task'[s].pc = task[s].pc /\ task'[s].user = task[s].user
          /\ task'[s].approver = task[s].approver
          /\ task[s].held => task'[s].held
      BY <3>1, <3>2 DEF Bound, Deciding
    <3>4. task[s].pc = "decide" => task'[s].via = task[s].via /\ task'[s].id = task[s].id
      BY <3>1, <3>2 DEF Bound, Deciding
    <3>5. Message(s)' = Message(s) /\ \A i : Answers(s, i)' = Answers(s, i)
      BY <2>1 DEF Message, Answers, Matches
    <3> QED
      BY <1>0, <2>1, <3>3, <3>4, <3>5 DEF HandlerOK
  <2> QED
    BY <1>1, <2>2
<1>7. CASE Crash
  <2>1. task'[s].pc = "idle"
    BY <1>7 DEF Crash, Idle
  <2> QED
    BY <2>1 DEF HandlerOK
<1>8. CASE UNCHANGED task
  BY <1>1, <1>8
<1> QED
  BY <1>3, <1>4, <1>5, <1>6, <1>7, <1>8 DEF Next, Tasks, Alert, ParkElsewhere, vars, Roles

\* A decision is recorded by decide_over_chat only, for the handler's own
\* message, user and approval.
LEMMA NewDecision ==
    ASSUME TypeInv, [Next]_vars, NEW d \in decisions' \ decisions
    PROVE  /\ d.slot \in Slots /\ DecideOverChat(d.slot)
           /\ task[d.slot].pc = "decide" /\ task[d.slot].approver
           /\ d.user = task[d.slot].user /\ d.id = task[d.slot].id
<1>1. PICK s \in Slots : DecideOverChat(s)
  BY DEF Next, Post, Tasks, Loop, Handle, Start, Poll, Hang, Dispatch, Return, Advance, Bind,
     Route, Turn, Parked, Alert, SetRole, ParkElsewhere, Crash, vars, inbox
<1>2. /\ task[s].pc = "decide" /\ task[s].approver
      /\ d = [slot |-> s, user |-> task[s].user, id |-> task[s].id]
  BY <1>1 DEF DecideOverChat
<1> QED
  BY <1>1, <1>2

\* Decisions stay on record, and so do the alerts they answer.
LEMMA DecisionStep ==
    ASSUME TypeInv, TaskInv, DecisionInv, [Next]_vars
    PROVE  DecisionInv'
<1> DEFINE Good(d) ==
      /\ d.slot \in Slots
      /\ d.slot[2] <= Len(posted[d.slot[1]])
      /\ Message(d.slot).says.kind = "reply" => Answers(d.slot, d.id)
<1>1. ASSUME NEW d, Good(d) PROVE Good(d)'
  <2>1. PICK s \in Slots : s = d.slot
    BY <1>1
  <2>2. /\ s[2] <= Len(posted'[s[1]])
        /\ Message(s)' = Message(s)
        /\ Message(s).says.kind = "reply" => \A i : Answers(s, i) => Answers(s, i)'
    BY <1>1, <2>1, MessageKeeps
  <2>3. s[2] <= Len(posted[s[1]])
    BY <1>1, <2>1
  <2>4. Message(s).says.kind = "reply" => Answers(s, d.id)
    BY <1>1, <2>1
  <2> QED
    BY <2>1, <2>2, <2>3, <2>4
<1>2. ASSUME NEW d \in decisions' \ decisions PROVE Good(d)
  <2>1. /\ d.slot \in Slots /\ task[d.slot].pc = "decide" /\ d.id = task[d.slot].id
    BY <1>2, NewDecision
  <2>2. HandlerOK(d.slot)
    BY <2>1 DEF TaskInv
  <2> QED
    BY <2>1, <2>2 DEF HandlerOK
<1>3. \A d \in decisions : Good(d)
  BY DEF DecisionInv
<1> HIDE DEF Good
<1>4. \A d \in decisions' : Good(d)'
  BY <1>1, <1>2, <1>3
<1> QED
  BY <1>4 DEF DecisionInv, Good

-----------------------------------------------------------------------------
(* Theorems                                                                *)

\* All of the invariants together.
LEMMA Invariant == Spec => [](TypeInv /\ CoverInv /\ TaskInv /\ DecisionInv)
<1>1. TypeInv /\ CoverInv /\ TaskInv /\ DecisionInv /\ [Next]_vars =>
        TypeInv' /\ CoverInv' /\ TaskInv' /\ DecisionInv'
  BY IngressTyped, TasksTyped, CoverStep, TaskStep, DecisionStep DEF TypeInv
<1> QED
  BY <1>1, Initially, PTL DEF Spec

\* At least once: for any channels, messages, crashes and failing saves, a
\* message below the saved resume position was handled to the end, unless the
\* adapters ignore it or the loop was never given it.
THEOREM NothingBelowTheCursorIsLost == Spec => []HandledBelowCursor
<1>1. TypeInv /\ CoverInv => HandledBelowCursor
  <2> SUFFICES ASSUME TypeInv, CoverInv, NEW c \in Pollers, NEW s \in Below(c)
               PROVE  \/ s \in handled \/ s \in skipped
                      \/ Message(s).says.kind = "noise"
    BY DEF HandledBelowCursor
  <2>1. c \in Channels /\ cursor[c] # None
    BY DEF Pollers, Below
  <2>2. PICK j \in 1..cursor[c] : s = <<c, j>>
    BY <2>1 DEF Below
  <2>3. Covered(c, cursor[c])
    BY <2>1 DEF CoverInv
  <2> QED
    BY <2>2, <2>3 DEF Covered, Message
<1> QED
  BY <1>1, Invariant, PTL

\* FR-GW-14: for any chats and message ids, however the alerts, the replies and
\* the handlers interleave, a bare reply decides the approval of an alert of its
\* channel under the id it answers, and none older than its own chat's alert.
THEOREM RepliesDecideTheirAlert == Spec => []ReplyDecidesItsAlert
<1>1. DecisionInv => ReplyDecidesItsAlert
  BY DEF DecisionInv, ReplyDecidesItsAlert, Answered, Answers, Matches
<1> QED
  BY <1>1, Invariant, PTL

\* FR-GW-14: whoever is bound, unbound, promoted or disabled meanwhile, a
\* decision over chat is taken for the user the handle is bound to, who was an
\* approver at some moment since.
THEOREM ChatDecisionsAreAuthorised == Spec => DecisionsAreAuthorised
<1> DEFINE Step == \A d \in decisions' \ decisions :
                     /\ d.user = UserOf[Message(d.slot).from]
                     /\ task[d.slot].held
<1>1. TypeInv /\ TaskInv /\ [Next]_vars => [Step]_vars
  <2> SUFFICES ASSUME TypeInv, TaskInv, [Next]_vars, NEW d \in decisions' \ decisions
               PROVE  d.user = UserOf[Message(d.slot).from] /\ task[d.slot].held
    OBVIOUS
  <2>1. /\ d.slot \in Slots /\ task[d.slot].pc = "decide" /\ task[d.slot].approver
        /\ d.user = task[d.slot].user
    BY NewDecision
  <2>2. HandlerOK(d.slot)
    BY <2>1 DEF TaskInv
  <2> QED
    BY <2>1, <2>2 DEF HandlerOK
<1> QED
  BY <1>1, Invariant, PTL DEF Spec, DecisionsAreAuthorised

-----------------------------------------------------------------------------
(* What goes out over the channels and what leads to it (module Alerting),   *)
(* for any sources, queries, recipients and windows.                         *)

Monitor == INSTANCE Alerting

\* Everyone enrolled while an alert is routed is known to it; who is chosen,
\* and who was sent to, is known.
RoutingOK(a) ==
  /\ a = [alert |-> a.alert, rule |-> a.rule, to |-> a.to, sent |-> a.sent, known |-> a.known]
  /\ a.to \in Seq(a.known) /\ a.sent \subseteq a.known

RouterInv == routing # Nothing => RoutingOK(routing) /\ enrolled \subseteq routing.known

\* Steps that are not the router's and enrol nobody.
RouterRests ==
  \/ Monitor!Wake \/ Monitor!Instant \/ Monitor!Sample \/ Monitor!PushBatch
  \/ \E sig \in Monitor!Signatures : Monitor!Admit(sig) \/ Monitor!Swallow(sig)
  \/ Monitor!CreatePlan \/ Monitor!AwaitingApproval \/ Monitor!Tick
  \/ UNCHANGED Monitor!vars

LEMMA RouterInvInductive == RouterInv /\ [Monitor!Next]_(Monitor!vars) => RouterInv'
<1> SUFFICES ASSUME RouterInv, [Monitor!Next]_(Monitor!vars) PROVE RouterInv'
  OBVIOUS
<1>1. CASE RouterRests
  <2>1. UNCHANGED <<routing, enrolled>>
    BY <1>1 DEF RouterRests, Monitor!Wake, Monitor!Instant, Monitor!Sample, Monitor!PushBatch,
       Monitor!Admit, Monitor!Swallow, Monitor!CreatePlan, Monitor!AwaitingApproval,
       Monitor!Tick, Monitor!vars
  <2> QED
    BY <2>1 DEF RouterInv
<1>2. CASE Monitor!Classify
  <2>1. CASE UNCHANGED routing
    BY <1>2, <2>1 DEF RouterInv, Monitor!Classify
  <2>2. CASE \E e, rule : routing' = [alert |-> e, rule |-> rule, to |-> <<>>, sent |-> {},
                                      known |-> enrolled]
    BY <1>2, <2>2 DEF RouterInv, RoutingOK, Monitor!Classify
  <2> QED
    BY <1>2, <2>1, <2>2 DEF Monitor!Classify
<1>3. CASE Monitor!Resolve
  <2>1. /\ routing # Nothing /\ RoutingOK(routing) /\ enrolled \subseteq routing.known
        /\ UNCHANGED enrolled
    BY <1>3 DEF Monitor!Resolve, RouterInv
  <2>2. CASE routing' = [routing EXCEPT !.rule = Tail(@)]
    BY <2>1, <2>2 DEF RouterInv, RoutingOK
  <2>3. ASSUME NEW r \in enrolled,
               routing' = [routing EXCEPT !.rule = Tail(@), !.to = Append(@, r)]
        PROVE  RouterInv'
    <3>1. Append(routing.to, r) \in Seq(routing.known)
      BY <2>1 DEF RoutingOK
    <3>2. routing' = [alert |-> routing.alert, rule |-> Tail(routing.rule),
                      to |-> Append(routing.to, r), sent |-> routing.sent,
                      known |-> routing.known]
      BY <2>1, <2>3 DEF RoutingOK
    <3> QED
      BY <2>1, <3>1, <3>2 DEF RouterInv, RoutingOK
  <2> QED
    BY <1>3, <2>2, <2>3 DEF Monitor!Resolve
<1>4. CASE Monitor!Deliver
  <2>1. /\ routing # Nothing /\ RoutingOK(routing) /\ enrolled \subseteq routing.known
        /\ UNCHANGED enrolled /\ routing.to # <<>>
    BY <1>4 DEF Monitor!Deliver, RouterInv
  <2>2. Head(routing.to) \in routing.known /\ Tail(routing.to) \in Seq(routing.known)
    BY <2>1 DEF RoutingOK
  <2>3. PICK more \in SUBSET {Head(routing.to)} :
          routing' = [routing EXCEPT !.to = Tail(@), !.sent = @ \cup more]
    <3>1. CASE ChannelOf[Head(routing.to)] \in Monitor!Registered
      BY <1>4, <3>1 DEF Monitor!Deliver
    <3>2. CASE ChannelOf[Head(routing.to)] \notin Monitor!Registered
      <4>1. routing' = [routing EXCEPT !.to = Tail(@), !.sent = @]
        BY <1>4, <3>2 DEF Monitor!Deliver
      <4>2. routing.sent \cup {} = routing.sent
        OBVIOUS
      <4> QED
        BY <4>1, <4>2
    <3> QED
      BY <3>1, <3>2
  <2> QED
    BY <2>1, <2>2, <2>3 DEF RouterInv, RoutingOK
<1>5. CASE Monitor!Routed
  BY <1>5 DEF RouterInv, Monitor!Routed
<1>6. CASE Monitor!Enrolment
  <2>1. PICK R : Monitor!Enrolled(R)
    BY <1>6 DEF Monitor!Enrolment, Monitor!AddBinding, Monitor!DeleteBinding
  <2>2. CASE routing = Nothing
    BY <2>1, <2>2 DEF RouterInv, Monitor!Enrolled
  <2>3. CASE routing # Nothing
    <3>1. /\ routing' = [routing EXCEPT !.known = routing.known \cup R] /\ enrolled' = R
          /\ RoutingOK(routing)
      BY <2>1, <2>3 DEF RouterInv, Monitor!Enrolled
    <3>2. /\ routing' = [alert |-> routing.alert, rule |-> routing.rule, to |-> routing.to,
                         sent |-> routing.sent, known |-> routing.known \cup R]
      BY <3>1 DEF RoutingOK
    <3>3. routing.to \in Seq(routing.known \cup R)
      BY <3>1 DEF RoutingOK
    <3> QED
      BY <3>1, <3>2, <3>3 DEF RouterInv, RoutingOK
  <2> QED
    BY <2>2, <2>3
<1> QED
  BY <1>1, <1>2, <1>3, <1>4, <1>5, <1>6 DEF Monitor!Next, Monitor!Router, RouterRests

\* FR-GW-16: whoever is bound, unbound or disabled while the router works on an
\* alert (resolve_recipients, then one send after the other), it sends to no one
\* who was not enrolled at some moment since it took the alert up.
THEOREM AlertsGoToTheEnrolled == Monitor!Spec => []SentToEnrolled
<1>1. Monitor!Init => RouterInv
  BY DEF Monitor!Init, RouterInv
<1>2. RouterInv => SentToEnrolled
  BY DEF RouterInv, RoutingOK, SentToEnrolled
<1> QED
  BY <1>1, <1>2, RouterInvInductive, PTL DEF Monitor!Spec

-----------------------------------------------------------------------------
\* What is left of a signature's window, and the age of what it let through,
\* add up to the window.
PlanOK(p) ==
  /\ p = [id |-> p.id, sig |-> p.sig, age |-> p.age]
  /\ p.sig \in Monitor!Signatures /\ p.age \in Nat
  /\ p.age < TriageTTL => seen[p.sig] + p.age = TriageTTL

\* The plan that is being opened counts while its window lasts.
Opening == IF triage # Nothing /\ triage.age < TriageTTL THEN {triage} ELSE {}

PlanInv ==
  /\ seen \in [Monitor!Signatures -> Nat]
  /\ \A p \in plans : PlanOK(p) /\ p.age < TriageTTL
  /\ triage # Nothing => PlanOK(triage)
  /\ \A p, q \in plans \cup Opening : p.sig = q.sig => p = q

\* Steps of the observer and the router, and enrolments.
TriageRests ==
  \/ Monitor!Wake \/ Monitor!Instant \/ Monitor!Sample \/ Monitor!PushBatch
  \/ \E sig \in Monitor!Signatures : Monitor!Swallow(sig)
  \/ Monitor!AwaitingApproval \/ Monitor!Router \/ Monitor!Enrolment
  \/ UNCHANGED Monitor!vars

\* A signature that is let through has no plan within the window.
LEMMA AdmitKeeps ==
  ASSUME PlanInv, NEW sig \in Monitor!Signatures, Monitor!Admit(sig)
  PROVE  PlanInv'
<1>1. /\ triage = Nothing /\ seen[sig] = 0 /\ UNCHANGED plans
      /\ seen' = [seen EXCEPT ![sig] = TriageTTL]
      /\ triage' = [id |-> Head(triageBus).id, sig |-> sig, age |-> 0]
  BY DEF Monitor!Admit, Monitor!Take
<1>2. \A p \in plans : p.sig # sig
  BY <1>1 DEF PlanInv, PlanOK
<1>3. seen' \in [Monitor!Signatures -> Nat] /\ seen'[sig] = TriageTTL
      /\ \A z \in Monitor!Signatures \ {sig} : seen'[z] = seen[z]
  BY <1>1, AlertingAssumption DEF PlanInv
<1>4. \A p \in plans : PlanOK(p)' /\ p.age < TriageTTL
  BY <1>2, <1>3 DEF PlanInv, PlanOK
<1>5. PlanOK(triage)'
  BY <1>1, <1>3 DEF PlanOK
<1>6. triage'.sig = sig /\ Opening' \in SUBSET {triage'}
  BY <1>1 DEF Opening
<1>7. \A p, q \in plans \cup Opening' : p.sig = q.sig => p = q
  BY <1>2, <1>6 DEF PlanInv
<1> QED
  BY <1>1, <1>3, <1>4, <1>5, <1>7 DEF PlanInv

\* The clock: what stays within the window was in it, one tick younger.
LEMMA TickKeeps ==
  ASSUME PlanInv, Monitor!Tick
  PROVE  PlanInv'
<1> DEFINE Aged(p) == [p EXCEPT !.age = @ + 1]
<1>1. /\ seen' = [s \in Monitor!Signatures |-> IF seen[s] = 0 THEN 0 ELSE seen[s] - 1]
      /\ plans' = {Aged(p) : p \in {q \in plans : q.age + 1 < TriageTTL}}
      /\ triage' = IF triage = Nothing THEN Nothing
                   ELSE [triage EXCEPT !.age = Monitor!Older(@, TriageTTL)]
  BY DEF Monitor!Tick
<1>2. seen' \in [Monitor!Signatures -> Nat]
  BY <1>1 DEF PlanInv
<1>3. ASSUME NEW p, PlanOK(p), p.age < TriageTTL
      PROVE  /\ Aged(p) = [id |-> p.id, sig |-> p.sig, age |-> p.age + 1]
             /\ seen'[p.sig] + (p.age + 1) = TriageTTL
  BY <1>1, <1>3 DEF PlanOK, PlanInv
<1>4. \A p \in plans' : \E q \in plans : p = [id |-> q.id, sig |-> q.sig, age |-> q.age + 1]
                                         /\ q.age + 1 < TriageTTL
  BY <1>1, <1>3 DEF PlanInv
<1>5. \A p \in plans : PlanOK(p) /\ p.age < TriageTTL
  BY DEF PlanInv
<1>6. ASSUME NEW p \in plans'
      PROVE  PlanOK(p)' /\ p.age < TriageTTL
  <2>1. PICK q \in plans : p = [id |-> q.id, sig |-> q.sig, age |-> q.age + 1]
                             /\ q.age + 1 < TriageTTL
    BY <1>4
  <2>2. PlanOK(q) /\ seen'[q.sig] + (q.age + 1) = TriageTTL
    BY <1>3, <1>5
  <2> QED
    BY <2>1, <2>2 DEF PlanOK
<1>7. ASSUME triage # Nothing
      PROVE  /\ triage' = [id |-> triage.id, sig |-> triage.sig,
                           age |-> Monitor!Older(triage.age, TriageTTL)]
             /\ PlanOK(triage)
  BY <1>1, <1>7 DEF PlanInv, PlanOK
<1>8. ASSUME triage' # Nothing
      PROVE  PlanOK(triage)'
  <2>1. triage # Nothing
    BY <1>1, <1>8
  <2>2. CASE triage.age < TriageTTL
    BY <1>3, <1>7, <2>1, <2>2 DEF PlanOK, Monitor!Older
  <2>3. CASE ~(triage.age < TriageTTL)
    BY <1>7, AlertingAssumption, <2>1, <2>3 DEF PlanOK, Monitor!Older
  <2> QED
    BY <2>2, <2>3
<1>9. ASSUME NEW p \in plans' \cup Opening'
      PROVE  \E q \in plans \cup Opening : p = [id |-> q.id, sig |-> q.sig, age |-> q.age + 1]
  <2>1. CASE p \in plans'
    BY <1>4, <2>1
  <2>2. CASE p \in Opening'
    <3>1. p = triage' /\ triage' # Nothing /\ triage'.age < TriageTTL
      BY <2>2 DEF Opening
    <3>2. triage # Nothing
      BY <1>1, <3>1
    <3>3. triage.age < TriageTTL /\ triage' = [id |-> triage.id, sig |-> triage.sig, age |-> triage.age + 1]
      BY <1>7, AlertingAssumption, <3>1, <3>2 DEF PlanOK, Monitor!Older
    <3>4. triage \in Opening
      BY <3>2, <3>3 DEF Opening
    <3> QED
      BY <3>1, <3>3, <3>4
  <2> QED
    BY <1>9, <2>1, <2>2
<1>10. ASSUME NEW p \in plans' \cup Opening', NEW q \in plans' \cup Opening', p.sig = q.sig
       PROVE  p = q
  <2>1. PICK a \in plans \cup Opening : p = [id |-> a.id, sig |-> a.sig, age |-> a.age + 1]
    BY <1>9
  <2>2. PICK b \in plans \cup Opening : q = [id |-> b.id, sig |-> b.sig, age |-> b.age + 1]
    BY <1>9
  <2>3. a = b
    BY <1>10, <2>1, <2>2 DEF PlanInv
  <2> QED
    BY <2>1, <2>2, <2>3
<1> QED
  BY <1>2, <1>6, <1>8, <1>10 DEF PlanInv

LEMMA PlanInvInductive ==
  ASSUME PlanInv, [Monitor!Next]_(Monitor!vars)
  PROVE  PlanInv'
<1>1. CASE TriageRests
  <2>1. UNCHANGED <<seen, triage, plans>>
    BY <1>1 DEF TriageRests, Monitor!Wake, Monitor!Instant, Monitor!Sample, Monitor!PushBatch,
       Monitor!Swallow, Monitor!AwaitingApproval, Monitor!Router, Monitor!Classify,
       Monitor!Resolve, Monitor!Deliver, Monitor!Routed, Monitor!Enrolment, Monitor!AddBinding,
       Monitor!DeleteBinding, Monitor!Enrolled, Monitor!vars
  <2> QED
    BY <2>1 DEF PlanInv, PlanOK, Opening
<1>2. CASE Monitor!CreatePlan
  <2>1. /\ triage # Nothing /\ triage' = Nothing /\ UNCHANGED seen
        /\ plans' = plans \/ plans' = plans \cup Opening
    BY <1>2 DEF Monitor!CreatePlan, Opening
  <2>2. Opening' = {}
    BY <2>1 DEF Opening
  <2>3. \A p \in plans \cup Opening : PlanOK(p)' /\ p.age < TriageTTL
    BY <2>1 DEF PlanInv, PlanOK, Opening
  <2> QED
    BY <2>1, <2>2, <2>3 DEF PlanInv
<1> QED
  BY <1>1, <1>2, AdmitKeeps, TickKeeps DEF Monitor!Next, TriageRests

\* FR-MON-09, the anti-loop guard: for windows of any length and any number of
\* sources and queries, two plans of one signature are never opened for
\* anomalies the triage agent admitted within one window.
THEOREM OnePlanInAWindow == Monitor!Spec => []OnePlanPerWindow
<1>1. Monitor!Init => PlanInv
  BY DEF Monitor!Init, PlanInv, Opening
<1>2. PlanInv /\ [Monitor!Next]_(Monitor!vars) => PlanInv'
  BY PlanInvInductive
<1>3. PlanInv => OnePlanPerWindow
  BY DEF PlanInv, Opening, OnePlanPerWindow
<1> QED
  BY <1>1, <1>2, <1>3, PTL DEF Monitor!Spec
=============================================================================
