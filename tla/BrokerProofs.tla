---------------------------- MODULE BrokerProofs ----------------------------
(***************************************************************************)
(* Proofs about module Broker, for every set of requests, capabilities,    *)
(* policies, targets and credentials; and, each under a name of its own,   *)
(* about what an operation goes through once the guard has let it pass:    *)
(* the drivers and transports (Drivers) and the credential store with its  *)
(* cache (VaultAdmin).                                                     *)
(***************************************************************************)
EXTENDS Broker, DriversState, VaultState, TLAPS

\* The policy engine always answers with one of its three decisions.
LEMMA EvaluateType ==
    ASSUME NEW rs \in RuleSets \union {<<>>}, NEW name
    PROVE  Evaluate(rs, name) \in Decisions
  BY RulesAssumption DEF Evaluate, Decisions

\* The synchronous part of the guard's pre-flight has five possible verdicts.
LEMMA VerdictType ==
    ASSUME TypeOK, NEW r \in Requests
    PROVE  Verdict(r) \in {"kill", "read"} \union Decisions
  BY EvaluateType DEF Verdict, TypeOK

\* Type correctness: no interleaving of requests, operators, administrators,
\* crashes and faults takes a variable of the broker outside its type.
THEOREM TypeCorrect == Spec => []TypeOK
<1>1. Init => TypeOK
  <2> SUFFICES ASSUME Init PROVE TypeOK
    OBVIOUS
  <2>1. NoEvent \in [result : {"none", "success", "error"}, cred : Creds \union {NoCred}]
    BY DEF NoEvent
  <2>2. crashes \in 0 .. MaxCrashes
    BY BoundsAssumption DEF Init
  <2>3. inventory \in [Targets -> Creds \union {NoCred}]
    BY DEF Init
  <2> QED
    BY <2>1, <2>2, <2>3 DEF Init, TypeOK, Inbox!RowStatus
<1>2. TypeOK /\ [Next]_vars => TypeOK'
  <2> SUFFICES ASSUME TypeOK, [Next]_vars PROVE TypeOK'
    OBVIOUS
  <2> USE DEF TypeOK, worldVars, taskVars
  <2>1. ASSUME NEW rs \in RuleSets, Boot(rs) PROVE TypeOK'
    BY <2>1 DEF Boot
  <2>2. CASE Engage
    BY <2>2 DEF Engage
  <2>3. CASE Release
    BY <2>3 DEF Release
  <2>4. CASE Crash
    <3>1. crashes' \in 0 .. MaxCrashes
      BY <2>4, BoundsAssumption DEF Crash
    <3>2. pc' \in [Requests -> {"idle"} \union InFlight \union Ended]
      BY <2>4 DEF Crash, Ended
    <3>3. abandoned' \in [Requests -> BOOLEAN]
      BY <2>4, Zenon DEF Crash
    <3>4. \A r \in Requests : pc'[r] # "idle" => pc[r] # "idle"
      BY <2>4 DEF Crash, InFlight, Parked, Cleared
    <3> QED
      BY <2>4, <3>1, <3>2, <3>3, <3>4 DEF Crash
  <2>5. ASSUME NEW t \in Targets, NEW cred \in Creds \union {NoCred}, EditTarget(t, cred)
        PROVE TypeOK'
    BY <2>5 DEF EditTarget
  <2>6. ASSUME NEW r \in Requests, NEW status \in Inbox!Verdicts, Decide(r, status)
        PROVE TypeOK'
    BY <2>6 DEF Decide, Inbox!RowStatus, Inbox!Terminal
  <2>7. ASSUME NEW r \in Requests, NEW s \in Shapes, Submit(r, s) PROVE TypeOK'
    BY <2>7 DEF Submit, Goto, InFlight
  <2>8. ASSUME NEW r \in Requests, Task(r) \/ PollFails(r) PROVE TypeOK'
    <3> USE DEF Goto, Fail, InFlight, Parked, Cleared, Ended, Failures
    <3>1. CASE PreFlight(r)
      <4>1. verdict'[r] = Verdict(r) /\ verdict' = [verdict EXCEPT ![r] = Verdict(r)]
        BY <3>1 DEF PreFlight
      <4>2. verdict'[r] \in {"kill", "read"} \union Decisions
        BY <4>1, VerdictType
      <4>3. verdict' \in [Requests -> {"none", "kill", "read"} \union Decisions]
        BY <4>1, <4>2
      <4>4. /\ pc' \in [Requests -> {"idle"} \union InFlight \union Ended]
            /\ outcome' \in [Requests -> {"none", "ok"} \union Failures]
        BY <3>1, <4>2 DEF PreFlight, Decisions
      <4>5. \A q \in Requests : pc'[q] # "idle" => shape'[q] \in Shapes
        BY <3>1, <4>2 DEF PreFlight, Decisions
      <4>6. UNCHANGED <<phase, rules, engaged, inventory, crashes, rows, shape,
                        used, sent, logged, abandoned, announced>>
        BY <3>1 DEF PreFlight
      <4> QED
        BY <4>3, <4>4, <4>5, <4>6
    <3>2. CASE Enqueue(r)
      BY <3>2 DEF Enqueue, Inbox!RowStatus
    <3>3. CASE Publish(r)
      BY <3>3 DEF Publish
    <3>4. CASE PollDecided(r)
      BY <3>4 DEF PollDecided
    <3>5. CASE PollTimesOut(r)
      BY <3>5 DEF PollTimesOut
    <3>6. CASE PollFails(r)
      BY <3>6 DEF PollFails
    <3>7. CASE Expire(r)
      BY <3>7 DEF Expire, Inbox!RowStatus, Inbox!Terminal
    <3>8. CASE ResolveTarget(r)
      <4>1. inventory[shape[r].target] \in Creds \union {NoCred}
        BY <3>8, ShapesAssumption DEF ResolveTarget
      <4> QED
        BY <3>8, <4>1 DEF ResolveTarget
    <3>9. CASE ResolveCredential(r)
      <4>1. pc[r] = "unsealing" /\ shape[r] \in Shapes
        BY <3>9 DEF ResolveCredential
      <4>2. pc' \in [Requests -> {"idle"} \union InFlight \union Ended]
        BY <3>9 DEF ResolveCredential
      <4>3. outcome' \in [Requests -> {"none", "ok"} \union Failures]
        BY <3>9 DEF ResolveCredential
      <4>4. sent' \in [Requests -> BOOLEAN]
        BY <3>9, Zenon DEF ResolveCredential
      <4>5. \A q \in Requests : pc'[q] # "idle" => shape'[q] \in Shapes
        BY <3>9, <4>1 DEF ResolveCredential
      <4>6. UNCHANGED <<worldVars, rows, shape, verdict, used, logged, abandoned, announced>>
        BY <3>9 DEF ResolveCredential
      <4> QED
        BY <4>2, <4>3, <4>4, <4>5, <4>6
    <3>10. CASE Execute(r)
      BY <3>10 DEF Execute
    <3>11. CASE AuditExecute(r)
      <4>1. inventory[shape[r].target] \in Creds \union {NoCred}
        BY <3>11, ShapesAssumption DEF AuditExecute
      <4>2. logged' \in [Requests -> [result : {"none", "success", "error"},
                                      cred : Creds \union {NoCred}]]
        BY <3>11, <4>1 DEF AuditExecute
      <4>3. /\ pc' = [pc EXCEPT ![r] = "done"]
            /\ pc[r] = "auditing"
            /\ UNCHANGED <<worldVars, rows, shape, verdict, used, sent, outcome,
                           abandoned, announced>>
        BY <3>11 DEF AuditExecute
      <4> QED
        BY <4>2, <4>3
    <3> QED
      BY <2>8, <3>1, <3>2, <3>3, <3>4, <3>5, <3>6, <3>7, <3>8, <3>9, <3>10, <3>11
      DEF Task
  <2>9. CASE UNCHANGED vars
    BY <2>9 DEF vars
  <2> QED
    BY <2>1, <2>2, <2>3, <2>4, <2>5, <2>6, <2>7, <2>8, <2>9 DEF Next
<1> QED
  BY <1>1, <1>2, PTL DEF Spec

-----------------------------------------------------------------------------
(* The inductive invariant.  WritesAuthorised speaks of requests that were *)
(* sent; to see that it is never broken one has to know what every earlier *)
(* label of a task guarantees, that the policy in force passed the lint,   *)
(* and that an approved row is never touched again.                        *)

\* The policy in force is one the lint accepted.
Linted ==
    phase = "serving" => rules \in RuleSets /\ LintWriteCapabilities(rules, Caps)

\* Tasks only exist in a serving process.
Served == \A r \in Requests : pc[r] \in InFlight => phase = "serving"

\* Before its pre-flight a request has no verdict, before the insert no row,
\* and nothing is sent from there.
Fresh ==
    \A r \in Requests :
        /\ pc[r] \in {"idle", "submitted"} => verdict[r] = "none"
        /\ pc[r] \in {"idle", "submitted", "enqueuing"} =>
               rows[r] = Inbox!Absent /\ ~ sent[r]

\* What a verdict that needs no approval was based on.
Judged ==
    \A r \in Requests :
        /\ verdict[r] = "read" => ReadOnly(shape[r])
        /\ verdict[r] = "allow" => ReadOnly(shape[r]) \/ shape[r].meta = {}

\* Past the guard, and for ever after, the clearance is on record.
Gated ==
    \A r \in Requests :
        pc[r] \in Cleared \/ sent[r] =>
            verdict[r] \in {"read", "allow"} \/ rows[r] = "approved"

Inv ==
    /\ TypeOK
    /\ Linted
    /\ Served
    /\ Fresh
    /\ Judged
    /\ Gated
    /\ InboxOnlyHoldsLiveRequests

\* The lint covers every write a registered capability can ask for: with a
\* linted policy only a request without descriptor can be waved through.
LEMMA LintedVerdict ==
    ASSUME TypeOK, Linted, phase = "serving", NEW r \in Requests,
           shape[r] \in Shapes, Verdict(r) = "allow"
    PROVE  ReadOnly(shape[r]) \/ shape[r].meta = {}
<1> SUFFICES ASSUME ~ ReadOnly(shape[r]), shape[r].meta # {} PROVE FALSE
  OBVIOUS
<1>1. PICK c \in shape[r].meta : TRUE
  OBVIOUS
<1>2. c \in Caps /\ shape[r].cap = c.name
  BY <1>1, ShapesAssumption
<1>3. ~ IsRead(c)
  BY <1>1 DEF ReadOnly
<1>4. Evaluate(rules, c.name) # "allow"
  BY <1>2, <1>3 DEF Linted, LintWriteCapabilities
<1>5. Evaluate(rules, shape[r].cap) = "allow"
  BY DEF Verdict
<1> QED
  BY <1>2, <1>4, <1>5

\* The invariant is inductive.
LEMMA InvInductive == Inv /\ [Next]_vars /\ TypeOK' => Inv'
<1> SUFFICES ASSUME Inv, [Next]_vars, TypeOK' PROVE Inv'
  OBVIOUS
<1> USE DEF Inv, worldVars, taskVars
<1>1. ASSUME NEW rs \in RuleSets, Boot(rs) PROVE Inv'
  <2>1. Linted'
    BY <1>1 DEF Boot, Linted
  <2> QED
    BY <1>1, <2>1 DEF Boot, Served, Fresh, Judged, Gated, InboxOnlyHoldsLiveRequests
<1>2. CASE Engage \/ Release
  BY <1>2 DEF Engage, Release, Linted, Served, Fresh, Judged, Gated,
              InboxOnlyHoldsLiveRequests
<1>3. CASE Crash
  <2> USE DEF InFlight, Parked, Cleared
  <2>1. Linted' /\ Judged'
    BY <1>3 DEF Crash, Linted, Judged
  <2>2. Served'
    BY <1>3 DEF Crash, Served, TypeOK
  <2>3. Fresh'
    BY <1>3 DEF Crash, Fresh, TypeOK
  <2>4. Gated'
    BY <1>3 DEF Crash, Gated, TypeOK
  <2>5. InboxOnlyHoldsLiveRequests'
    <3> SUFFICES ASSUME NEW r \in Requests, rows'[r] = "pending"
                 PROVE  abandoned'[r]
      BY DEF InboxOnlyHoldsLiveRequests
    <3>1. abandoned'[r] = (abandoned[r] \/ pc[r] \in InFlight)
      BY <1>3, Zenon DEF Crash
    <3>2. rows[r] = "pending"
      BY <1>3 DEF Crash
    <3> QED
      BY <3>1, <3>2 DEF InboxOnlyHoldsLiveRequests
  <2> QED
    BY <2>1, <2>2, <2>3, <2>4, <2>5
<1>4. ASSUME NEW t \in Targets, NEW cred \in Creds \union {NoCred}, EditTarget(t, cred)
      PROVE Inv'
  BY <1>4 DEF EditTarget, Linted, Served, Fresh, Judged, Gated, InboxOnlyHoldsLiveRequests
<1>5. ASSUME NEW r \in Requests, NEW status \in Inbox!Verdicts, Decide(r, status)
      PROVE Inv'
  <2>1. /\ rows' = [rows EXCEPT ![r] = status]
        /\ rows[r] = "pending"
        /\ status \in {"approved", "denied"}
        /\ UNCHANGED <<phase, rules, pc, shape, verdict, sent, abandoned>>
    BY <1>5 DEF Decide, Inbox!Verdicts
  <2>2. \A q \in Requests : rows'[q] = IF q = r THEN status ELSE rows[q]
    BY <2>1 DEF TypeOK
  <2> QED
    BY <2>1, <2>2 DEF Linted, Served, Fresh, Judged, Gated,
       InboxOnlyHoldsLiveRequests, Inbox!Absent
<1>6. ASSUME NEW r \in Requests, NEW s \in Shapes, Submit(r, s) PROVE Inv'
  <2>1. /\ pc[r] = "idle" /\ phase = "serving"
        /\ pc' = [pc EXCEPT ![r] = "submitted"]
        /\ shape' = [shape EXCEPT ![r] = s]
        /\ UNCHANGED <<phase, rules, rows, verdict, sent, abandoned>>
    BY <1>6 DEF Submit, Goto
  <2> QED
    BY <2>1 DEF TypeOK, Linted, Served, Fresh, Judged, Gated,
       InboxOnlyHoldsLiveRequests, InFlight, Parked, Cleared
<1>7. ASSUME NEW r \in Requests, Task(r) \/ PollFails(r) PROVE Inv'
  <2> USE DEF Goto, Fail, TypeOK
  <2>0. pc[r] \in InFlight /\ phase = "serving" /\ shape[r] \in Shapes
    BY <1>7 DEF Served, InFlight, Parked, Cleared, Task, PreFlight, Enqueue,
       Publish, PollDecided, PollTimesOut, PollFails, Expire, ResolveTarget,
       ResolveCredential, Execute, AuditExecute
  <2>1. Linted' /\ Served'
    BY <1>7, <2>0 DEF Linted, Served, Task, PreFlight, Enqueue, Publish,
       PollDecided, PollTimesOut, PollFails, Expire, ResolveTarget,
       ResolveCredential, Execute, AuditExecute
  <2> USE DEF Fresh, Judged, Gated, InboxOnlyHoldsLiveRequests, Parked, Cleared
  <2>2. CASE PreFlight(r)
    <3>1. /\ pc[r] = "submitted"
          /\ verdict' = [verdict EXCEPT ![r] = Verdict(r)]
          /\ Verdict(r) \in {"kill", "read"} \union Decisions
          /\ UNCHANGED <<rows, shape, sent, abandoned>>
      BY <2>2, VerdictType DEF PreFlight
    <3>2. /\ \A q \in Requests : q # r => pc'[q] = pc[q]
          /\ pc'[r] \in {"auditing", "resolving", "enqueuing"}
          /\ pc'[r] = "resolving" => Verdict(r) \in {"read", "allow"}
      <4>1. verdict'[r] = Verdict(r)
        BY <3>1
      <4>2. \E l \in {"auditing", "resolving", "enqueuing"} :
                /\ pc' = [pc EXCEPT ![r] = l]
                /\ l = "resolving" => Verdict(r) \in {"read", "allow"}
        BY <2>2, <3>1, <4>1 DEF PreFlight, Decisions
      <4> QED
        BY <4>2
    <3>3. Verdict(r) = "read" => ReadOnly(shape[r])
      <4>1. Evaluate(rules, shape[r].cap) \in {"allow", "deny", "require_approval"}
        BY EvaluateType DEF Decisions
      <4> QED
        BY <4>1 DEF Verdict
    <3>4. Verdict(r) = "allow" => ReadOnly(shape[r]) \/ shape[r].meta = {}
      BY <2>0, LintedVerdict
    <3>5. \A q \in Requests : verdict'[q] = IF q = r THEN Verdict(r) ELSE verdict[q]
      BY <3>1
    <3>6. \A q \in Requests : ReadOnly(shape[q])' = ReadOnly(shape[q])
      BY <3>1 DEF ReadOnly
    <3>7. Judged'
      BY <3>1, <3>3, <3>4, <3>5, <3>6
    <3>8. Fresh' /\ Gated' /\ InboxOnlyHoldsLiveRequests'
      BY <3>1, <3>2, <3>5
    <3> QED
      BY <2>1, <3>7, <3>8
  <2>3. CASE Enqueue(r)
    <3>1. /\ pc[r] = "enqueuing"
          /\ UNCHANGED <<shape, verdict, sent, abandoned>>
          /\ \/ /\ rows' = [rows EXCEPT ![r] = "pending"]
                /\ pc' = [pc EXCEPT ![r] = "publishing"]
             \/ rows' = rows /\ pc' = [pc EXCEPT ![r] = "auditing"]
      BY <2>3 DEF Enqueue
    <3>2. Judged'
      BY <3>1 DEF ReadOnly
    <3>3. rows[r] = "absent" /\ ~ sent[r]
      BY <3>1 DEF Inbox!Absent
    <3>4. \A q \in Requests : q # r => pc'[q] = pc[q] /\ rows'[q] = rows[q]
      BY <3>1
    <3>5. /\ pc'[r] \in {"publishing", "auditing"}
          /\ rows'[r] \in {"pending", "absent"}
          /\ rows'[r] = "pending" => pc'[r] = "publishing"
      BY <3>1, <3>3
    <3>6. Fresh' /\ Gated'
      BY <3>1, <3>3, <3>4, <3>5
    <3>7. InboxOnlyHoldsLiveRequests'
      BY <3>1, <3>4, <3>5
    <3> QED
      BY <2>1, <3>2, <3>6, <3>7
  <2>4. CASE Publish(r)
    BY <2>4, <2>1 DEF Publish, ReadOnly
  <2>5. CASE PollDecided(r)
    <3>1. /\ pc[r] = "waiting"
          /\ UNCHANGED <<rows, shape, verdict, sent, abandoned>>
          /\ \/ rows[r] = "approved" /\ pc' = [pc EXCEPT ![r] = "resolving"]
             \/ rows[r] = "denied" /\ pc' = [pc EXCEPT ![r] = "auditing"]
      BY <2>5 DEF PollDecided
    <3>2. Judged'
      BY <3>1 DEF ReadOnly
    <3>3. Fresh' /\ Gated' /\ InboxOnlyHoldsLiveRequests'
      BY <3>1
    <3> QED
      BY <2>1, <3>2, <3>3
  <2>6. CASE PollTimesOut(r)
    BY <2>6, <2>1 DEF PollTimesOut, ReadOnly
  <2>7. CASE PollFails(r)
    BY <2>7, <2>1 DEF PollFails, ReadOnly
  <2>8. CASE Expire(r)
    BY <2>8, <2>1 DEF Expire, ReadOnly
  <2>9. CASE ResolveTarget(r)
    <3>1. /\ pc[r] = "resolving"
          /\ UNCHANGED <<rows, shape, verdict, sent, abandoned>>
          /\ \E l \in {"unsealing", "auditing"} : pc' = [pc EXCEPT ![r] = l]
      BY <2>9 DEF ResolveTarget
    <3>2. Judged'
      BY <3>1 DEF ReadOnly
    <3>3. Fresh' /\ Gated' /\ InboxOnlyHoldsLiveRequests'
      BY <3>1
    <3> QED
      BY <2>1, <3>2, <3>3
  <2>10. CASE ResolveCredential(r)
    <3>1. /\ pc[r] = "unsealing"
          /\ UNCHANGED <<rows, shape, verdict, abandoned>>
          /\ sent' \in {sent, [sent EXCEPT ![r] = TRUE]}
          /\ \E l \in {"executing", "auditing"} : pc' = [pc EXCEPT ![r] = l]
      BY <2>10 DEF ResolveCredential
    <3>2. Judged'
      BY <3>1 DEF ReadOnly
    <3>3. Fresh' /\ Gated' /\ InboxOnlyHoldsLiveRequests'
      BY <3>1
    <3> QED
      BY <2>1, <3>2, <3>3
  <2>11. CASE Execute(r)
    BY <2>11, <2>1 DEF Execute, ReadOnly
  <2>12. CASE AuditExecute(r)
    BY <2>12, <2>1 DEF AuditExecute, ReadOnly
  <2> QED
    BY <1>7, <2>2, <2>3, <2>4, <2>5, <2>6, <2>7, <2>8, <2>9, <2>10, <2>11, <2>12
    DEF Task
<1>8. CASE UNCHANGED vars
  BY <1>8 DEF vars, Linted, Served, Fresh, Judged, Gated, InboxOnlyHoldsLiveRequests
<1> QED
  BY <1>1, <1>2, <1>3, <1>4, <1>5, <1>6, <1>7, <1>8 DEF Next

\* The initial states satisfy the invariant.
LEMMA InvInitially == Init /\ TypeOK => Inv
  BY DEF Init, Inv, Linted, Served, Fresh, Judged, Gated,
         InboxOnlyHoldsLiveRequests, InFlight, Parked, Cleared, Inbox!Absent

\* The invariant holds in every state.
LEMMA InvAlways == Spec => []Inv
  BY TypeCorrect, InvInitially, InvInductive, PTL DEF Spec

\* No write reaches a device unless an operator approved that very request,
\* or it names no registered capability and the policy allows it: for any
\* number of requests, any policy the lint accepted and any interleaving.
THEOREM WritesAreAuthorised == Spec => []WritesAuthorised
<1>1. Inv => WritesAuthorised
  BY DEF Inv, Judged, Gated, WritesAuthorised
<1> QED
  BY <1>1, InvAlways, PTL

\* A pending row always has a task that will read its verdict or expire it,
\* unless a fault or a crash took that task away.
THEOREM InboxIsLive == Spec => []InboxOnlyHoldsLiveRequests
<1>1. Inv => InboxOnlyHoldsLiveRequests
  BY DEF Inv
<1> QED
  BY <1>1, InvAlways, PTL

\* The broker's use of public.approvals implements the abstract inbox: rows
\* start pending and are decided or expired exactly once.
THEOREM BrokerImplementsApprovals == Spec => ApprovalRows
<1>1. Init => Inbox!Init
  BY DEF Init, Inbox!Init
<1>2. Inv /\ [Next]_vars => [Inbox!Next]_rows
  <2> SUFFICES ASSUME Inv, [Next]_vars PROVE Inbox!Next \/ rows' = rows
    OBVIOUS
  <2> USE DEF worldVars, taskVars
  <2>1. ASSUME NEW r \in Requests, NEW status \in Inbox!Verdicts, Decide(r, status)
        PROVE Inbox!Next
    BY <2>1 DEF Decide, Inbox!Next, Inbox!Decide
  <2>2. ASSUME NEW r \in Requests, Enqueue(r) PROVE Inbox!Next \/ rows' = rows
    <3>1. rows[r] = Inbox!Absent
      BY <2>2 DEF Inv, Fresh, Enqueue
    <3> QED
      BY <2>2, <3>1 DEF Enqueue, Inbox!Next, Inbox!Enqueue
  <2>3. ASSUME NEW r \in Requests, Expire(r) PROVE Inbox!Next \/ rows' = rows
    BY <2>3 DEF Expire, Inbox!Next, Inbox!Expire
  <2>4. ASSUME NEW r \in Requests, Task(r) \/ PollFails(r), ~ Enqueue(r), ~ Expire(r)
        PROVE rows' = rows
    BY <2>4 DEF Task, PreFlight, Publish, PollDecided, PollTimesOut, PollFails,
       ResolveTarget, ResolveCredential, Execute, AuditExecute
  <2>5. CASE UNCHANGED vars
    BY <2>5 DEF vars
  <2> QED
    BY <2>1, <2>2, <2>3, <2>4, <2>5
    DEF Next, Boot, Engage, Release, Crash, EditTarget, Submit
<1> QED
  BY <1>1, <1>2, InvAlways, PTL DEF Spec, ApprovalRows, Inbox!Spec

-----------------------------------------------------------------------------
(* The drivers and transports a broker operation is carried out by (module *)
(* Drivers), for any catalogue, any devices and any number of calls.       *)

Driver == INSTANCE Drivers

\* One set, known under two names here.
LEMMA SameNames == Driver!ConnectorCaps = ConnectorCaps
  BY DEF Driver!ConnectorCaps, ConnectorCaps

\* Before its command leaves a call has the four fields of its request.
Asking ==
    [pc : {"requested", "submitted", "ssh", "connected", "session", "rest", "snmp", "draining",
           "waiting", "reading", "walking"},
     cap : ConnectorCaps \union DOMAIN RouterOs \union {Unknown}, target : Endpoints,
     params : [Slots -> Driver!Values]]

Unsent == {"idle", "requested", "submitted", "ssh", "connected", "session", "rest", "snmp"}
Sent == {"draining", "waiting"}
Reading == {"reading", "walking"}

\* What a call says, beside what its device does.  A device that is still at
\* work may end either way, so a call that failed while its device works must
\* already have said that the answer was late or unreadable.
CallOK(q, d) ==
    /\ q.pc \in Unsent \union Reading => d = "untouched"
    /\ q.pc \in Sent => d # "untouched"
    /\ q.pc \in (Unsent \ {"idle"}) \union Sent \union Reading => q \in Asking
    /\ q.pc = "result" =>
        /\ d # "untouched"
        /\ q.good => d = "did" \/ q.ground \in {"acceptance", "silence"}
        /\ ~ q.good => d = "refused"
    /\ q.pc \in {"replied", "shown"} =>
        /\ q.success => d # "untouched"
        /\ q.success /\ IsConnector(q.cap) => d = "did" \/ q.ground \in {"acceptance", "silence"}
        /\ q.why = "refused" => d = "untouched"
        /\ ~ q.success => d \in {"untouched", "refused"} \/ q.why \in {"timeout", "io"}

DriverInv ==
    /\ call = [c \in Calls |-> call[c]]
    /\ device \in [Calls -> {"untouched", "working", "did", "refused"}]
    /\ \A c \in Calls : CallOK(call[c], device[c])

\* A step of one call leaves the others alone.
LEMMA OneCall ==
    ASSUME DriverInv, NEW c \in Calls, NEW q, NEW d \in {"untouched", "working", "did", "refused"},
           call' = [call EXCEPT ![c] = q], device' = [device EXCEPT ![c] = d], CallOK(q, d)
    PROVE  DriverInv'
<1>1. /\ call' = [x \in Calls |-> IF x = c THEN q ELSE call[x]]
      /\ device' = [x \in Calls |-> IF x = c THEN d ELSE device[x]]
  BY DEF DriverInv
<1>2. \A x \in Calls : CallOK(call'[x], device'[x])
  BY <1>1 DEF DriverInv
<1> QED
  BY <1>1, <1>2 DEF DriverInv

\* A call that moves on before its command leaves.
LEMMA CallGoes ==
    ASSUME DriverInv, NEW c \in Calls, call[c].pc \in (Unsent \ {"idle"}) \union Reading,
           NEW to \in {"submitted", "ssh", "connected", "session", "rest", "snmp"} \union Reading,
           Driver!Go(c, to), UNCHANGED device
    PROVE  DriverInv'
<1>1. call[c] \in Asking /\ device[c] = "untouched"
  BY DEF DriverInv, CallOK
<1>2. PICK q \in Asking : call' = [call EXCEPT ![c] = q] /\ q.pc = to
  <2>1. [call[c] EXCEPT !.pc = to] \in Asking /\ [call[c] EXCEPT !.pc = to].pc = to
    BY <1>1 DEF Asking, Reading
  <2>2. call' = [call EXCEPT ![c] = [call[c] EXCEPT !.pc = to]]
    BY DEF Driver!Go, DriverInv
  <2> QED
    BY <2>1, <2>2
<1>3. device' = [device EXCEPT ![c] = device[c]]
  BY DEF DriverInv
<1>4. CallOK(q, device[c])
  BY <1>1, <1>2 DEF CallOK, Unsent, Sent, Reading
<1> QED
  BY <1>1, <1>2, <1>3, <1>4, OneCall

\* A command that leaves.
LEMMA CallLeaves ==
    ASSUME DriverInv, NEW c \in Calls, call[c].pc \in Unsent \ {"idle"},
           NEW to \in {"draining", "waiting"},
           Driver!Go(c, to), device' = [device EXCEPT ![c] = "working"]
    PROVE  DriverInv'
<1>1. call[c] \in Asking
  BY DEF DriverInv, CallOK
<1>2. PICK q \in Asking : call' = [call EXCEPT ![c] = q] /\ q.pc = to
  <2>1. [call[c] EXCEPT !.pc = to] \in Asking /\ [call[c] EXCEPT !.pc = to].pc = to
    BY <1>1 DEF Asking
  <2>2. call' = [call EXCEPT ![c] = [call[c] EXCEPT !.pc = to]]
    BY DEF Driver!Go, DriverInv
  <2> QED
    BY <2>1, <2>2
<1>3. CallOK(q, "working")
  BY <1>2 DEF CallOK, Unsent, Sent, Reading
<1> QED
  BY <1>2, <1>3, OneCall

\* A call that fails: refused with its device untouched, or late.
LEMMA CallFails ==
    ASSUME DriverInv, NEW c \in Calls, NEW why \in {"refused", "timeout", "io"},
           Driver!Fail(c, why), UNCHANGED device, why = "refused" => call[c].pc \in Unsent
    PROVE  DriverInv'
<1> DEFINE q == [pc |-> "replied", cap |-> call[c].cap, success |-> FALSE, output |-> FALSE,
                 ground |-> "none", why |-> why]
<1>1. call' = [call EXCEPT ![c] = q] /\ device' = [device EXCEPT ![c] = device[c]]
  BY DEF Driver!Fail, DriverInv
<1>2. why = "refused" => device[c] = "untouched"
  BY DEF DriverInv, CallOK
<1>3. CallOK(q, device[c])
  BY <1>2 DEF CallOK, Unsent, Sent, Reading
<1>4. device[c] \in {"untouched", "working", "did", "refused"}
  BY DEF DriverInv
<1> HIDE DEF q
<1> QED
  BY <1>1, <1>3, <1>4, OneCall

\* An answer is read: the device's own, or none.
LEMMA CallResults ==
    ASSUME DriverInv, NEW c \in Calls, NEW good \in BOOLEAN, NEW ground,
           NEW d \in {"working", "did", "refused"},
           Driver!Result(c, good, ground), device' = [device EXCEPT ![c] = d],
           good => d = "did" \/ ground \in {"acceptance", "silence"}, ~ good => d = "refused"
    PROVE  DriverInv'
<1> DEFINE q == [pc |-> "result", cap |-> call[c].cap, good |-> good, ground |-> ground]
<1>1. call' = [call EXCEPT ![c] = q]
  BY DEF Driver!Result, DriverInv
<1>2. q.pc = "result" /\ (q.good <=> good) /\ q.ground = ground
  OBVIOUS
<1> HIDE DEF q
<1>3. CallOK(q, d)
  BY <1>2 DEF CallOK, Unsent, Sent, Reading
<1> QED
  BY <1>1, <1>3, OneCall

\* The reply to the request, and what the chat shows of it.
LEMMA CallReplies ==
    ASSUME DriverInv, NEW c \in Calls, Driver!Reply(c) \/ Driver!Show(c)
    PROVE  DriverInv'
<1>0. /\ device' = [device EXCEPT ![c] = device[c]]
      /\ device[c] \in {"untouched", "working", "did", "refused"}
  BY DEF DriverInv, Driver!Reply, Driver!Show
<1>1. CASE Driver!Reply(c)
  <2> DEFINE q == [pc |-> "replied", cap |-> call[c].cap, success |-> Driver!Succeeds(c),
                   output |-> TRUE, ground |-> call[c].ground,
                   why |-> IF call[c].good THEN "done" ELSE "device"]
  <2>1. call' = [call EXCEPT ![c] = q]
    BY <1>1 DEF Driver!Reply, DriverInv
  <2>2. /\ device[c] # "untouched"
        /\ call[c].good => device[c] = "did" \/ call[c].ground \in {"acceptance", "silence"}
        /\ ~ call[c].good => device[c] = "refused"
    BY <1>1 DEF Driver!Reply, Driver!At, DriverInv, CallOK
  <2>3. /\ q.pc = "replied" /\ q.cap = call[c].cap /\ q.ground = call[c].ground
        /\ q.why \in {"done", "device"}
        /\ q.success <=> (IsConnector(call[c].cap) => call[c].good)
    BY SameNames DEF Driver!Succeeds, IsConnector, Driver!IsConnector
  <2> HIDE DEF q
  <2>4. CallOK(q, device[c])
    BY <2>2, <2>3 DEF CallOK, Unsent, Sent, Reading
  <2> QED
    BY <1>0, <2>1, <2>4, OneCall
<1>2. CASE Driver!Show(c)
  <2> DEFINE q == [pc |-> "shown", cap |-> call[c].cap, success |-> call[c].success,
                   output |-> call[c].output, ground |-> call[c].ground, why |-> call[c].why,
                   readable |-> Driver!Decodes(c)]
  <2>1. call' = [call EXCEPT ![c] = q]
    BY <1>2 DEF Driver!Show, DriverInv
  <2>2. q.pc = "shown" /\ q.cap = call[c].cap /\ q.ground = call[c].ground /\ q.why = call[c].why
          /\ q.success = call[c].success
    OBVIOUS
  <2> HIDE DEF q
  <2>3. CallOK(call[c], device[c]) /\ call[c].pc = "replied"
    BY <1>2 DEF Driver!Show, Driver!At, DriverInv
  <2>4. CallOK(q, device[c])
    BY <2>2, <2>3 DEF CallOK, Unsent, Sent, Reading
  <2> QED
    BY <1>0, <2>1, <2>4, OneCall
<1> QED
  BY <1>1, <1>2

\* The catalogue is fixed when the connector starts.
CatalogOK == \A cap \in ConnectorCaps : catalog[cap] \in Profiles

LEMMA DriverInvInductive ==
    ASSUME CatalogOK, DriverInv, [Driver!Next]_(Driver!vars)
    PROVE  DriverInv'
<1>1. ASSUME NEW c \in Calls,
             NEW cap \in ConnectorCaps \union DOMAIN RouterOs \union {Unknown},
             NEW target \in Endpoints, NEW params \in [Slots -> Driver!Values],
             Driver!Request(c, cap, target, params)
      PROVE  DriverInv'
  <2> DEFINE q == [pc |-> "requested", cap |-> cap, target |-> target, params |-> params]
  <2>1. call' = [call EXCEPT ![c] = q] /\ device' = [device EXCEPT ![c] = device[c]]
    BY <1>1 DEF Driver!Request, DriverInv
  <2>2. device[c] = "untouched"
    BY <1>1 DEF Driver!Request, Driver!At, DriverInv, CallOK, Unsent
  <2>3. q \in Asking /\ q.pc = "requested"
    BY DEF Asking
  <2> HIDE DEF q
  <2>4. CallOK(q, device[c])
    BY <2>2, <2>3 DEF CallOK, Unsent, Sent, Reading
  <2> QED
    BY <2>1, <2>2, <2>4, OneCall
<1>2. ASSUME NEW c \in Calls, Driver!Dispatch(c) PROVE DriverInv'
  BY <1>2, CallGoes, CallFails DEF Driver!Dispatch, Driver!At, Unsent
<1>3. ASSUME NEW c \in Calls, Driver!Submit(c) PROVE DriverInv'
  <2>1. call[c].pc = "submitted" /\ UNCHANGED device
    BY <1>3 DEF Driver!Submit, Driver!At
  <2>2. CASE Driver!Fail(c, "refused")
    BY <2>1, <2>2, CallFails DEF Unsent
  <2>3. CASE Driver!Go(c, call[c].target.transport)
             /\ call[c].target.transport = Driver!TransportOf(call[c].cap)
    <3>1. call[c].target.transport \in {"ssh", "rest", "snmp"}
      BY <2>3, SameNames, DriversAssumption DEF Driver!TransportOf, Driver!IsConnector, CatalogOK
    <3> QED
      BY <2>1, <2>3, <3>1, CallGoes DEF Unsent
  <2> QED
    BY <1>3, <2>2, <2>3 DEF Driver!Submit
<1>4. ASSUME NEW c \in Calls, Driver!SshConnect(c) PROVE DriverInv'
  <2>1. /\ call[c].pc = "ssh" /\ UNCHANGED device
        /\ Driver!Go(c, "connected") \/ Driver!Fail(c, "refused")
    BY <1>4 DEF Driver!SshConnect, Driver!At
  <2> QED
    BY <2>1, CallGoes, CallFails DEF Unsent
<1>5. ASSUME NEW c \in Calls, Driver!SshAuthenticate(c) PROVE DriverInv'
  BY <1>5, CallGoes, CallFails DEF Driver!SshAuthenticate, Driver!At, Unsent
<1>6. ASSUME NEW c \in Calls, Driver!SshExec(c) PROVE DriverInv'
  BY <1>6, CallLeaves, CallFails DEF Driver!SshExec, Driver!At, Unsent
<1>7. ASSUME NEW c \in Calls, Driver!SshDrain(c) PROVE DriverInv'
  <2>1. /\ device' = [device EXCEPT ![c] = device[c]]
        /\ device[c] \in {"working", "did", "refused"}
    BY <1>7 DEF DriverInv, CallOK, Sent, Driver!SshDrain, Driver!At
  <2>2. CASE Driver!Result(c, TRUE, "silence")
    BY <2>1, <2>2, CallResults
  <2>3. CASE device[c] \in {"did", "refused"} /\ Driver!Result(c, device[c] = "did", "report")
    <3>1. PICK good \in BOOLEAN : good = (device[c] = "did")
      OBVIOUS
    <3>2. Driver!Result(c, good, "report")
      BY <2>3, <3>1
    <3> QED
      BY <2>1, <2>3, <3>1, <3>2, CallResults
  <2> QED
    BY <1>7, <2>2, <2>3 DEF Driver!SshDrain
<1>8. ASSUME NEW c \in Calls, Driver!RestSend(c) PROVE DriverInv'
  BY <1>8, CallLeaves, CallFails DEF Driver!RestSend, Driver!At, Unsent
<1>9. ASSUME NEW c \in Calls, Driver!RestAnswer(c) PROVE DriverInv'
  <2>1. /\ device' = [device EXCEPT ![c] = device[c]] /\ UNCHANGED device
        /\ device[c] \in {"working", "did", "refused"}
    BY <1>9 DEF DriverInv, CallOK, Sent, Driver!RestAnswer, Driver!At
  <2>2. CASE Driver!Fail(c, "io")
    BY <2>1, <2>2, CallFails
  <2>3. CASE device[c] \in {"did", "refused"} /\ Driver!Result(c, device[c] = "did", "report")
    <3>1. PICK good \in BOOLEAN : good = (device[c] = "did")
      OBVIOUS
    <3>2. Driver!Result(c, good, "report")
      BY <2>3, <3>1
    <3> QED
      BY <2>1, <2>3, <3>1, <3>2, CallResults
  <2>4. CASE Driver!Result(c, TRUE, "acceptance")
    BY <2>1, <2>4, CallResults
  <2> QED
    BY <1>9, <2>2, <2>3, <2>4 DEF Driver!RestAnswer
<1>10. ASSUME NEW c \in Calls, Driver!SnmpOpen(c) \/ Driver!SnmpRead(c) \/ Driver!WalkOn(c)
       PROVE  DriverInv'
  <2>1. CASE Driver!SnmpOpen(c)
    BY <2>1, CallGoes, CallFails DEF Driver!SnmpOpen, Driver!At, Unsent, Reading
  <2>2. CASE Driver!WalkOn(c)
    BY <2>2, CallGoes DEF Driver!WalkOn, Driver!At, Reading
  <2>3. CASE Driver!Result(c, TRUE, "report") /\ device' = [device EXCEPT ![c] = "did"]
    BY <2>3, CallResults
  <2>4. CASE Driver!Fail(c, "io") /\ UNCHANGED device
    BY <2>4, CallFails
  <2> QED
    BY <1>10, <2>1, <2>2, <2>3, <2>4 DEF Driver!SnmpRead
<1>11. ASSUME NEW c \in Calls, Driver!Deadline(c) PROVE DriverInv'
  BY <1>11, CallFails DEF Driver!Deadline
<1>12. ASSUME NEW c \in Calls, Driver!DeviceEnds(c) PROVE DriverInv'
  <2>1. PICK d \in {"did", "refused"} : device' = [device EXCEPT ![c] = d]
    BY <1>12 DEF Driver!DeviceEnds
  <2>2. call' = [call EXCEPT ![c] = call[c]]
    BY <1>12 DEF Driver!DeviceEnds, DriverInv
  <2>3. CallOK(call[c], "working")
    BY <1>12 DEF Driver!DeviceEnds, DriverInv
  <2>4. CallOK(call[c], d)
    BY <2>3 DEF CallOK, Unsent, Sent, Reading
  <2> QED
    BY <2>1, <2>2, <2>4, OneCall
<1>13. CASE (\E h \in Driver!Hosts : Driver!Rekey(h) \/ Driver!Record(h)) \/ UNCHANGED Driver!vars
  <2>1. UNCHANGED <<call, device>>
    BY <1>13 DEF Driver!Rekey, Driver!Record, Driver!vars
  <2> QED
    BY <2>1 DEF DriverInv
<1> QED
  BY <1>1, <1>2, <1>3, <1>4, <1>5, <1>6, <1>7, <1>8, <1>9, <1>10, <1>11, <1>12, <1>13, SameNames,
     CallReplies
     DEF Driver!Next

\* The reply of a driver or a connector tells what happened on the device
\* (parse_result, from_output and the transports' execute): a command that the
\* connector reports a success was done there, was accepted there with a 2xx
\* status and may still fail, or ended its SSH channel without a status, and no
\* success is reported for a command that did not reach the device; a refused
\* call left the device alone; and what was done is reported as failed only if its answer was late or lost.
THEOREM RepliesAreTruthful == Driver!Spec => []ReplyIsTruthful
<1>1. Driver!Init => DriverInv /\ CatalogOK
  BY SameNames DEF Driver!Init, DriverInv, CatalogOK, CallOK, Unsent, Sent, Reading
<1>2. CatalogOK /\ [Driver!Next]_(Driver!vars) => CatalogOK'
  <2> SUFFICES ASSUME CatalogOK, [Driver!Next]_(Driver!vars) PROVE CatalogOK'
    OBVIOUS
  <2>1. UNCHANGED catalog
    BY DEF Driver!Next, Driver!vars, Driver!fixed, Driver!Request, Driver!Dispatch, Driver!Submit,
       Driver!SshConnect, Driver!SshAuthenticate, Driver!SshExec, Driver!SshDrain,
       Driver!RestSend, Driver!RestAnswer, Driver!SnmpOpen, Driver!SnmpRead, Driver!WalkOn,
       Driver!Deadline, Driver!Reply, Driver!Show, Driver!DeviceEnds, Driver!Rekey, Driver!Record
  <2> QED
    BY <2>1 DEF CatalogOK
<1>3. CatalogOK /\ DriverInv /\ [Driver!Next]_(Driver!vars) => DriverInv'
  BY DriverInvInductive
<1>4. DriverInv => ReplyIsTruthful
  BY DEF DriverInv, CallOK, ReplyIsTruthful, Answered
<1> QED
  BY <1>1, <1>2, <1>3, <1>4, PTL DEF Driver!Spec

-----------------------------------------------------------------------------
(* The credential a broker operation gets, and the host it gets it for      *)
(* (modules Vault and VaultAdmin), for any rows, edits and cache.           *)

CONSTANTS Pages, MaxRequests, CountFrom
VARIABLES page, request, audited

Store == INSTANCE VaultAdmin

\* Entries with a secret some row has held under the entry's name.
Entries == {[name |-> x[1], secret |-> x[2], age |-> n] : x \in held, n \in Nat}

RowOK(row) == row = [name |-> row.name, secret |-> row.secret] /\ <<row.name, row.secret>> \in held

\* How far an operation is, and what its pieces were taken from.
OpOK(q) ==
    /\ q.pc \in {"resolving", "missed"} =>
        /\ q = [pc |-> q.pc, ref |-> q.ref, url |-> q.url, host |-> q.host, name |-> q.name]
        /\ <<q.host, q.name>> \in bound
    /\ q.pc \in {"fetched", "connecting"} => <<q.name, q.secret>> \in held
    /\ q.pc = "fetched" => <<q.host, q.name>> \in bound
    /\ q.pc = "connecting" => q.host = q.url \/ <<q.host, q.name>> \in bound

StoreInv ==
    /\ \A x \in held : x = <<x[1], x[2]>>
    /\ creds = [i \in Ids |-> creds[i]]
    /\ \A i \in Ids : Store!Live(i) => RowOK(creds[i])
    /\ cache \in Seq(Entries)
    /\ targets = [t \in Refs |-> targets[t]]
    /\ \A t \in Refs : targets[t] # Absent => <<targets[t].host, targets[t].name>> \in bound
    /\ op = [o \in Ops |-> op[o]]
    /\ \A o \in Ops : OpOK(op[o])

LEMMA StoreInitially == ASSUME Store!Init PROVE StoreInv
<1>1. /\ creds = Initial /\ targets = Placed /\ cache = <<>>
      /\ op = [o \in Ops |-> [pc |-> "idle"]]
      /\ \A x \in held : x = <<x[1], x[2]>>
      /\ \A i \in Ids : Initial[i] # Absent => <<Initial[i].name, Initial[i].secret>> \in held
      /\ \A t \in Refs : Placed[t] # Absent => <<Placed[t].host, Placed[t].name>> \in bound
  BY DEF Store!Init, Store!VaultInit, Store!Idle
<1>2. \A i \in Ids : Store!Live(i) => RowOK(creds[i])
  BY <1>1, RowsAssumption DEF Store!Live, RowOK
<1>3. \A o \in Ops : OpOK(op[o])
  BY <1>1 DEF OpOK
<1> QED
  BY <1>1, <1>2, <1>3, RowsAssumption DEF StoreInv

\* An entry of the cache, as a resolve finds it.
LEMMA CacheEntry ==
    ASSUME StoreInv, NEW k \in DOMAIN cache
    PROVE  cache[k] \in Entries /\ <<cache[k].name, cache[k].secret>> \in held
           /\ cache[k].age \in Nat /\ cache[k] = [name |-> cache[k].name, secret |-> cache[k].secret,
                                                  age |-> cache[k].age]
<1>1. cache[k] \in Entries
  BY DEF StoreInv
<1>2. PICK x \in held, n \in Nat : cache[k] = [name |-> x[1], secret |-> x[2], age |-> n]
  BY <1>1 DEF Entries
<1> QED
  BY <1>1, <1>2 DEF StoreInv

\* A step of an operation: it moves on, or the cache does.
LEMMA OperationKeeps ==
    ASSUME StoreInv, UNCHANGED <<creds, held, targets, bound>>, cache' \in Seq(Entries),
           UNCHANGED op \/ \E o \in Ops : \E q : op' = [op EXCEPT ![o] = q] /\ OpOK(q)
    PROVE  StoreInv'
<1>1. Entries' = Entries
  BY DEF Entries
<1>2. \A o \in Ops : OpOK(op'[o]) => OpOK(op[o])'
  BY DEF OpOK
<1>3. op' = [o \in Ops |-> op'[o]] /\ \A o \in Ops : OpOK(op[o])'
  <2>1. CASE UNCHANGED op
    BY <1>2, <2>1 DEF StoreInv
  <2>2. ASSUME NEW o \in Ops, NEW q, op' = [op EXCEPT ![o] = q], OpOK(q)
        PROVE  op' = [x \in Ops |-> op'[x]] /\ \A x \in Ops : OpOK(op[x])'
    <3>1. op' = [x \in Ops |-> IF x = o THEN q ELSE op[x]]
      BY <2>2 DEF StoreInv
    <3> QED
      BY <1>2, <2>2, <3>1 DEF StoreInv
  <2> QED
    BY <2>1, <2>2
<1>4. \A i \in Ids : Store!Live(i)' => RowOK(creds[i])'
  BY DEF StoreInv, Store!Live, RowOK
<1> QED
  BY <1>1, <1>2, <1>3, <1>4 DEF StoreInv

\* An edit of a table: the history grows, and a new row is in it.
LEMMA EditKeeps ==
    ASSUME StoreInv, UNCHANGED op, cache' = cache \/ cache' = <<>>,
           held \subseteq held', \A x \in held' : x = <<x[1], x[2]>>, bound \subseteq bound',
           creds' = [i \in Ids |-> creds'[i]],
           \A i \in Ids : creds'[i] = creds[i] \/ creds'[i] = Gone \/ RowOK(creds[i])',
           targets' = [t \in Refs |-> targets'[t]],
           \A t \in Refs : targets'[t] = targets[t] \/ targets'[t] = Absent
                                \/ <<targets'[t].host, targets'[t].name>> \in bound'
    PROVE  StoreInv'
<1>1. Entries \subseteq Entries'
  BY DEF Entries
<1>2. cache' \in Seq(Entries')
  <2>1. cache \in Seq(Entries)
    BY DEF StoreInv
  <2>2. \A k \in 1 .. Len(cache) : cache[k] \in Entries'
    BY <1>1, <2>1
  <2>3. cache \in Seq(Entries')
    BY <2>1, <2>2
  <2>4. CASE cache' = cache
    BY <2>3, <2>4
  <2>5. CASE cache' = <<>>
    <3>1. <<>> \in Seq(Entries')
      OBVIOUS
    <3> QED
      BY <2>5, <3>1
  <2> QED
    BY <2>4, <2>5
<1>3. \A i \in Ids : Store!Live(i)' => RowOK(creds[i])'
  BY DEF StoreInv, Store!Live, RowOK
<1>4. \A o \in Ops : OpOK(op[o])'
  BY DEF StoreInv, OpOK
<1> QED
  BY <1>2, <1>3, <1>4 DEF StoreInv

\* LruCache::pop and LruCache::put keep entries entries.
LEMMA PopKeeps ==
    ASSUME StoreInv, NEW n
    PROVE  Store!Without(n) \in Seq(Entries)
<1>1. cache \in Seq(Entries)
  BY DEF StoreInv
<1>2. ASSUME NEW k \in DOMAIN cache
      PROVE  SubSeq(cache, 1, k - 1) \o SubSeq(cache, k + 1, Len(cache)) \in Seq(Entries)
  <2>1. Len(cache) \in Nat /\ k \in 1 .. Len(cache)
    BY <1>1
  <2>2. SubSeq(cache, 1, k - 1) \in Seq(Entries)
    <3>1. \A j \in 1 .. k - 1 : cache[j] \in Entries
      BY <1>1, <2>1
    <3> QED
      BY <1>1, <2>1, <3>1
  <2>3. SubSeq(cache, k + 1, Len(cache)) \in Seq(Entries)
    <3>1. \A j \in k + 1 .. Len(cache) : cache[j] \in Entries
      BY <1>1, <2>1
    <3> QED
      BY <1>1, <2>1, <3>1
  <2> QED
    BY <2>2, <2>3
<1>3. CASE Store!Cached(n) = {}
  BY <1>1, <1>3 DEF Store!Without
<1>4. CASE Store!Cached(n) # {}
  <2>1. PICK k \in DOMAIN cache : k = CHOOSE j \in Store!Cached(n) : TRUE
    BY <1>4 DEF Store!Cached
  <2> QED
    BY <1>2, <1>4, <2>1 DEF Store!Without
<1> QED
  BY <1>3, <1>4

LEMMA PutKeeps ==
    ASSUME StoreInv, NEW e \in Entries
    PROVE  Store!PutFront(e) \in Seq(Entries)
<1> DEFINE s == <<e>> \o Store!Without(e.name)
           m == IF Len(s) > CacheSize THEN CacheSize ELSE Len(s)
<1>1. s \in Seq(Entries)
  BY PopKeeps
<1>2. Store!PutFront(e) = SubSeq(s, 1, m)
  BY DEF Store!PutFront
<1> HIDE DEF s
<1>3. m \in Nat /\ m <= Len(s)
  BY <1>1, VaultAssumption
<1> HIDE DEF m
<1>4. \A j \in 1 .. m : s[j] \in Entries
  BY <1>1, <1>3
<1>5. SubSeq(s, 1, m) \in Seq(Entries)
  BY <1>1, <1>3, <1>4
<1> QED
  BY <1>2, <1>5

\* What a hit serves was held under its name.
LEMMA HitServes ==
    ASSUME StoreInv, NEW n, Store!Serves(n)
    PROVE  Store!EntryOf(n) \in Entries /\ <<n, Store!EntryOf(n).secret>> \in held
<1>1. Store!Cached(n) # {}
  BY DEF Store!Serves
<1>2. PICK k \in DOMAIN cache : k = (CHOOSE j \in Store!Cached(n) : TRUE) /\ cache[k].name = n
  BY <1>1 DEF Store!Cached
<1> QED
  BY <1>2, CacheEntry DEF Store!EntryOf

LEMMA OpsKeep ==
    ASSUME StoreInv, Store!OpStep
    PROVE  StoreInv'
<1>0. /\ UNCHANGED <<creds, held, targets, bound>>
      /\ cache \in Seq(Entries)
  BY DEF StoreInv, Store!OpStep, Store!GetManaged, Store!LookUp, Store!Fetch, Store!Put,
     Store!EndOp, Store!Tick, Store!store, Store!inventory
<1>1. ASSUME NEW o \in Ops, NEW t \in Refs, NEW url \in Urls \cup {Absent},
             Store!GetManaged(o, t, url)
      PROVE  StoreInv'
  <2>1. UNCHANGED cache
    BY <1>1 DEF Store!GetManaged
  <2>2. CASE UNCHANGED op
    BY <1>0, <2>1, <2>2, OperationKeeps
  <2>3. CASE targets[t] # Absent /\ op' = [op EXCEPT ![o] = [pc |-> "resolving", ref |-> t, url |-> url,
                                              host |-> targets[t].host, name |-> targets[t].name]]
    <3> DEFINE q == [pc |-> "resolving", ref |-> t, url |-> url, host |-> targets[t].host,
                     name |-> targets[t].name]
    <3>1. OpOK(q)
      BY <2>3 DEF OpOK, StoreInv
    <3>2. op' = [op EXCEPT ![o] = q]
      BY <2>3
    <3> HIDE DEF q
    <3> QED
      BY <1>0, <2>1, <3>1, <3>2, OperationKeeps
  <2> QED
    BY <1>1, <2>2, <2>3 DEF Store!GetManaged
<1>2. ASSUME NEW o \in Ops, NEW secret, op[o].pc \in {"resolving", "fetched"},
             <<op[o].name, secret>> \in held
      PROVE  OpOK(Store!Connect(o, secret))
  <2>1. <<op[o].host, op[o].name>> \in bound
    BY <1>2 DEF StoreInv, OpOK
  <2> QED
    BY <1>2, <2>1 DEF OpOK, Store!Connect
<1>3. ASSUME NEW o \in Ops, Store!LookUp(o) PROVE StoreInv'
  <2> DEFINE n == op[o].name
  <2>1. op[o].pc = "resolving" /\ OpOK(op[o])
    BY <1>3 DEF Store!LookUp, StoreInv
  <2>2. CASE Store!Serves(n)
    <3>1. Store!EntryOf(n) \in Entries /\ <<n, Store!EntryOf(n).secret>> \in held
      BY <2>2, HitServes
    <3>2. /\ cache' = <<Store!EntryOf(n)>> \o Store!Without(n)
          /\ op' = [op EXCEPT ![o] = Store!Connect(o, Store!EntryOf(n).secret)]
      BY <1>3, <2>2 DEF Store!LookUp
    <3>3. cache' \in Seq(Entries)
      BY <3>1, <3>2, PopKeeps
    <3>4. PICK secret : /\ <<op[o].name, secret>> \in held
                        /\ op' = [op EXCEPT ![o] = Store!Connect(o, secret)]
      BY <3>1, <3>2
    <3>5. op[o].pc \in {"resolving", "fetched"}
      BY <2>1
    <3>6. OpOK(Store!Connect(o, secret))
      BY <1>2, <3>4, <3>5
    <3> QED
      BY <1>0, <3>3, <3>4, <3>6, OperationKeeps
  <2>3. CASE ~ Store!Serves(n)
    <3>1. cache' = Store!Without(n) /\ op' = [op EXCEPT ![o].pc = "missed"]
      BY <1>3, <2>3 DEF Store!LookUp
    <3>2. op' = [op EXCEPT ![o] = [pc |-> "missed", ref |-> op[o].ref, url |-> op[o].url,
                                   host |-> op[o].host, name |-> op[o].name]]
      <4>1. PICK a, u, b, c : op[o] = [pc |-> "resolving", ref |-> a, url |-> u, host |-> b, name |-> c]
        BY <2>1 DEF OpOK
      <4>2. [op[o] EXCEPT !.pc = "missed"]
              = [pc |-> "missed", ref |-> a, url |-> u, host |-> b, name |-> c]
        BY <4>1
      <4>3. a = op[o].ref /\ u = op[o].url /\ b = op[o].host /\ c = op[o].name
        BY <4>1
      <4> QED
        BY <3>1, <4>2, <4>3
    <3>3. OpOK([pc |-> "missed", ref |-> op[o].ref, url |-> op[o].url,
               host |-> op[o].host, name |-> op[o].name])
      BY <2>1 DEF OpOK
    <3>4. cache' \in Seq(Entries)
      BY <3>1, PopKeeps
    <3> QED
      BY <1>0, <3>2, <3>3, <3>4, OperationKeeps
  <2> QED
    BY <2>2, <2>3
<1>4. ASSUME NEW o \in Ops, Store!Fetch(o) PROVE StoreInv'
  <2>1. op[o].pc = "missed" /\ OpOK(op[o]) /\ UNCHANGED cache
    BY <1>4 DEF Store!Fetch, StoreInv
  <2>2. CASE Store!Holder(op[o].name) = {}
    <3>1. op' = [op EXCEPT ![o] = [pc |-> "idle"]]
      BY <1>4, <2>2 DEF Store!Fetch, Store!Idle, StoreInv
    <3>2. OpOK([pc |-> "idle"])
      BY DEF OpOK
    <3> QED
      BY <1>0, <2>1, <3>1, <3>2, OperationKeeps
  <2>3. CASE Store!Holder(op[o].name) # {}
    <3>1. PICK i \in Ids : /\ i = CHOOSE j \in Store!Holder(op[o].name) : TRUE
                           /\ Store!Live(i) /\ creds[i].name = op[o].name
      BY <2>3 DEF Store!Holder
    <3> DEFINE q == [pc |-> "fetched", ref |-> op[o].ref, url |-> op[o].url, host |-> op[o].host,
                     name |-> op[o].name, secret |-> creds[i].secret]
    <3>2. op' = [op EXCEPT ![o] = q]
      BY <1>4, <2>3, <3>1 DEF Store!Fetch, StoreInv
    <3>3. <<op[o].name, creds[i].secret>> \in held
      BY <3>1 DEF StoreInv, RowOK
    <3>4. OpOK(q)
      BY <2>1, <3>3 DEF OpOK
    <3> HIDE DEF q
    <3> QED
      BY <1>0, <2>1, <3>2, <3>4, OperationKeeps
  <2> QED
    BY <2>2, <2>3
<1>5. ASSUME NEW o \in Ops, Store!Put(o) PROVE StoreInv'
  <2>1. /\ op[o].pc = "fetched" /\ op' = [op EXCEPT ![o] = Store!Connect(o, op[o].secret)]
        /\ cache' = Store!PutFront([name |-> op[o].name, secret |-> op[o].secret, age |-> 0])
    BY <1>5 DEF Store!Put
  <2>2. <<op[o].name, op[o].secret>> \in held
    BY <2>1 DEF StoreInv, OpOK
  <2>3. [name |-> op[o].name, secret |-> op[o].secret, age |-> 0] \in Entries
    <3>1. PICK x \in held : x = <<op[o].name, op[o].secret>>
      BY <2>2
    <3>2. x[1] = op[o].name /\ x[2] = op[o].secret /\ 0 \in Nat
      BY <3>1
    <3>3. [name |-> x[1], secret |-> x[2], age |-> 0] \in Entries
      BY <3>2 DEF Entries
    <3> QED
      BY <3>2, <3>3
  <2>4. cache' \in Seq(Entries)
    BY <2>1, <2>3, PutKeeps
  <2>5. PICK secret : /\ <<op[o].name, secret>> \in held
                      /\ op' = [op EXCEPT ![o] = Store!Connect(o, secret)]
    BY <2>1, <2>2
  <2>6. op[o].pc \in {"resolving", "fetched"}
    BY <2>1
  <2>7. OpOK(Store!Connect(o, secret))
    BY <1>2, <2>5, <2>6
  <2> QED
    BY <1>0, <2>4, <2>5, <2>7, OperationKeeps
<1>6. ASSUME NEW o \in Ops, Store!EndOp(o) PROVE StoreInv'
  <2>1. op' = [op EXCEPT ![o] = [pc |-> "idle"]] /\ UNCHANGED cache
    BY <1>6 DEF Store!EndOp, Store!Idle
  <2>2. OpOK([pc |-> "idle"])
    BY DEF OpOK
  <2> QED
    BY <1>0, <2>1, <2>2, OperationKeeps
<1>7. CASE Store!Tick
  <2>1. /\ UNCHANGED op
        /\ cache' = [k \in DOMAIN cache |->
                       [cache[k] EXCEPT !.age = IF @ < CacheTtl THEN @ + 1 ELSE @]]
    BY <1>7 DEF Store!Tick
  <2>2. ASSUME NEW k \in DOMAIN cache
        PROVE  cache'[k] \in Entries
    <3>1. PICK x \in held, n \in Nat : cache[k] = [name |-> x[1], secret |-> x[2], age |-> n]
      <4>1. cache[k] \in Entries
        BY CacheEntry
      <4> QED
        BY <4>1 DEF Entries
    <3>2. PICK m \in Nat : m = IF n < CacheTtl THEN n + 1 ELSE n
      OBVIOUS
    <3>3. cache'[k] = [name |-> x[1], secret |-> x[2], age |-> m]
      BY <2>1, <3>1, <3>2
    <3> QED
      BY <3>3 DEF Entries
  <2>3. DOMAIN cache = 1 .. Len(cache) /\ Len(cache) \in Nat
    BY <1>0
  <2>4. cache' = [k \in 1 .. Len(cache) |-> cache'[k]]
    BY <2>1, <2>3
  <2>5. cache' \in Seq(Entries)
    BY <2>2, <2>3, <2>4
  <2> QED
    BY <1>0, <2>1, <2>5, OperationKeeps
<1> QED
  BY <1>1, <1>3, <1>4, <1>5, <1>6, <1>7 DEF Store!OpStep

\* The requests of the admin pages.
LEMMA AdminKeeps ==
    ASSUME StoreInv, NEW r, Store!Serve(r)
    PROVE  StoreInv'
<1>1. /\ creds = [i \in Ids |-> creds[i]] /\ targets = [t \in Refs |-> targets[t]]
      /\ \A x \in held : x = <<x[1], x[2]>>
  BY DEF StoreInv
<1>2. ASSUME NEW i, NEW n, NEW secret, Store!Create(i, n, secret), UNCHANGED <<cache, targets, bound, op>>
      PROVE  StoreInv'
  <2>1. creds' = [j \in Ids |-> IF j = i THEN [name |-> n, secret |-> secret] ELSE creds[j]]
        /\ held' = held \union {<<n, secret>>}
    BY <1>1, <1>2 DEF Store!Create
  <2>2. \A j \in Ids : creds'[j] = creds[j] \/ RowOK(creds[j])'
    BY <2>1 DEF RowOK
  <2> QED
    BY <1>1, <1>2, <2>1, <2>2, EditKeeps
<1>4. CASE Store!CreateCredential(r)
  <2>1. UNCHANGED <<cache, targets, bound, op>>
    BY <1>4 DEF Store!CreateCredential, Store!inventory
  <2>2. CASE UNCHANGED <<creds, held>>
    BY <1>1, <2>1, <2>2, EditKeeps
  <2>3. CASE \E i, n, secret : Store!Create(i, n, secret)
    BY <1>2, <2>1, <2>3
  <2> QED
    BY <1>4, <2>2, <2>3 DEF Store!CreateCredential, Store!store
<1>5. CASE Store!UpdateCredential(r) \/ Store!RenameCredential(r)
  <2>1. UNCHANGED <<cache, targets, bound, op>>
    BY <1>5 DEF Store!UpdateCredential, Store!RenameCredential, Store!inventory
  <2>2. CASE UNCHANGED <<creds, held>>
    BY <1>1, <2>1, <2>2, EditKeeps
  <2>3. ASSUME NEW i, NEW secret, Store!Live(i), Store!Update(i, secret)
        PROVE  StoreInv'
    <3>1. creds' = [creds EXCEPT ![i].secret = secret] /\ held' = held \union {<<creds[i].name, secret>>}
      BY <2>3 DEF Store!Update
    <3>2. CASE i \in Ids
      <4>1. PICK a, b : creds[i] = [name |-> a, secret |-> b]
        BY <2>3, <3>2 DEF StoreInv, RowOK
      <4>a. [creds[i] EXCEPT !.secret = secret] = [name |-> a, secret |-> secret]
        BY <4>1
      <4>2. creds' = [creds EXCEPT ![i] = [name |-> a, secret |-> secret]] /\ creds[i].name = a
        BY <3>1, <4>1, <4>a
      <4> QED
        BY <1>2, <2>1, <3>1, <4>2 DEF Store!Create
    <3>3. CASE i \notin Ids
      <4>1. creds' = [j \in Ids |-> creds[j]]
        BY <1>1, <3>1, <3>3
      <4>2. \A j \in Ids : creds'[j] = creds[j]
        BY <4>1
      <4> QED
        BY <1>1, <2>1, <3>1, <4>1, <4>2, EditKeeps
    <3> QED
      BY <3>2, <3>3
  <2>4. ASSUME NEW i, NEW n, Store!Live(i), Store!Rename(i, n)
        PROVE  StoreInv'
    <3>1. creds' = [creds EXCEPT ![i].name = n] /\ held' = held \union {<<n, creds[i].secret>>}
      BY <2>4 DEF Store!Rename
    <3>2. CASE i \in Ids
      <4>1. PICK a, b : creds[i] = [name |-> a, secret |-> b]
        BY <2>4, <3>2 DEF StoreInv, RowOK
      <4>a. [creds[i] EXCEPT !.name = n] = [name |-> n, secret |-> b]
        BY <4>1
      <4>2. creds' = [creds EXCEPT ![i] = [name |-> n, secret |-> b]] /\ creds[i].secret = b
        BY <3>1, <4>1, <4>a
      <4> QED
        BY <1>2, <2>1, <3>1, <4>2 DEF Store!Create
    <3>3. CASE i \notin Ids
      <4>1. creds' = [j \in Ids |-> creds[j]]
        BY <1>1, <3>1, <3>3
      <4>2. \A j \in Ids : creds'[j] = creds[j]
        BY <4>1
      <4> QED
        BY <1>1, <2>1, <3>1, <4>1, <4>2, EditKeeps
    <3> QED
      BY <3>2, <3>3
  <2> QED
    BY <1>5, <2>2, <2>3, <2>4
       DEF Store!UpdateCredential, Store!RenameCredential, Store!CanRename, Store!store
<1>6. CASE Store!DeleteCredential(r)
  <2>1. UNCHANGED <<cache, targets, bound, op, held>>
    BY <1>6 DEF Store!DeleteCredential, Store!Delete, Store!inventory, Store!store
  <2>2. CASE UNCHANGED creds
    BY <1>1, <2>1, <2>2, EditKeeps
  <2>3. ASSUME NEW i, creds' = [creds EXCEPT ![i] = Gone]
        PROVE  StoreInv'
    <3>1. creds' = [j \in Ids |-> IF j = i THEN Gone ELSE creds[j]]
      BY <1>1, <2>3
    <3>2. \A j \in Ids : creds'[j] = creds[j] \/ creds'[j] = Gone
      BY <3>1
    <3> QED
      BY <1>1, <2>1, <3>1, <3>2, EditKeeps
  <2> QED
    BY <1>6, <2>2, <2>3 DEF Store!DeleteCredential, Store!Delete, Store!store
<1>7. CASE Store!InvalidateCache(r)
  BY <1>1, <1>7, EditKeeps DEF Store!InvalidateCache, Store!store, Store!inventory
<1>8. CASE Store!RevealCredential(r) \/ Store!Answer(r)
  BY <1>1, <1>8, EditKeeps DEF Store!RevealCredential, Store!Answer, Store!vaultVars
<1>9. CASE Store!UpsertTarget(r) \/ Store!RemoveTarget(r)
  <2>1. UNCHANGED <<creds, held, cache, op>>
    BY <1>9 DEF Store!UpsertTarget, Store!RemoveTarget, Store!store
  <2>2. CASE UNCHANGED <<targets, bound>>
    BY <1>1, <2>1, <2>2, EditKeeps
  <2>3. ASSUME NEW t, NEW row, Store!Upsert(t, row)
        PROVE  StoreInv'
    <3>1. /\ targets' = [x \in Refs |-> IF x = t THEN row ELSE targets[x]]
          /\ bound' = bound \union {<<row.host, row.name>>}
      BY <1>1, <2>3 DEF Store!Upsert
    <3>2. \A x \in Refs : targets'[x] = targets[x]
                               \/ <<targets'[x].host, targets'[x].name>> \in bound'
      BY <3>1
    <3> QED
      BY <1>1, <2>1, <3>1, <3>2, EditKeeps
  <2>4. ASSUME NEW t, Store!Remove(t)
        PROVE  StoreInv'
    <3>1. targets' = [x \in Refs |-> IF x = t THEN Absent ELSE targets[x]] /\ UNCHANGED bound
      BY <1>1, <2>4 DEF Store!Remove
    <3>2. \A x \in Refs : targets'[x] = targets[x] \/ targets'[x] = Absent
      BY <3>1
    <3> QED
      BY <1>1, <2>1, <3>1, <3>2, EditKeeps
  <2> QED
    BY <1>9, <2>2, <2>3, <2>4 DEF Store!UpsertTarget, Store!RemoveTarget, Store!inventory
<1> QED
  BY <1>4, <1>5, <1>6, <1>7, <1>8, <1>9 DEF Store!Serve

\* A host only ever receives a secret of the credential its own row named
\* (Broker::execute with resolve of the vault and its cache), whatever rows are
\* edited, renamed or deleted and whatever the cache returns meanwhile, unless
\* the operation's own absolute URL names the host (RestTransport::full_url).
THEOREM SecretsArePaired == Store!Spec => []PairedByARow
<1>1. Store!Init => StoreInv
  BY StoreInitially
<1>2. StoreInv /\ [Store!Next]_(Store!vars) => StoreInv'
  <2> SUFFICES ASSUME StoreInv, [Store!Next]_(Store!vars) PROVE StoreInv'
    OBVIOUS
  <2>1. CASE UNCHANGED Store!vaultVars
    <3>1. /\ creds = [i \in Ids |-> creds[i]] /\ targets = [t \in Refs |-> targets[t]]
          /\ \A x \in held : x = <<x[1], x[2]>>
      BY DEF StoreInv
    <3> QED
      BY <2>1, <3>1, EditKeeps DEF Store!vaultVars
  <2>2. CASE \E p \in Pages : \/ Store!OpenRow(p) \/ Store!Close(p) \/ Store!SaveCredential(p)
                              \/ Store!SaveTarget(p) \/ Store!Hide(p) \/ Store!Countdown(p)
    <3>1. UNCHANGED Store!vaultVars
      BY <2>2 DEF Store!OpenRow, Store!Open, Store!Close, Store!SaveCredential, Store!SaveTarget,
         Store!Submit, Store!Hide, Store!Countdown
    <3> QED
      BY <2>1, <3>1
  <2>3. CASE UNCHANGED Store!vars
    BY <2>1, <2>3 DEF Store!vars
  <2> QED
    BY <2>2, <2>3, OpsKeep, AdminKeeps DEF Store!Next
<1>3. StoreInv => PairedByARow
  BY DEF StoreInv, OpOK, PairedByARow
<1> QED
  BY <1>1, <1>2, <1>3, PTL DEF Store!Spec
=============================================================================
