------------------------------ MODULE Alerting -------------------------------
(***************************************************************************)
(* From a metric sample to a plan and to a notification: the observer's    *)
(* ingest loop (daimon-observer), the triage agent (daimon-triage) and the *)
(* outbound alert router (daimon-app/src/alert_router.rs), which run as    *)
(* three tasks and meet on the agent bus.  The bus is a broadcast channel: *)
(* every subscriber has its own backlog, and one that falls behind loses   *)
(* the oldest envelopes.                                                   *)
(*                                                                         *)
(* The two deduplication windows are kept as the time that is left of      *)
(* them, so that the model is finite without a bound on the run's length;  *)
(* the ids of rows and approvals are drawn from a pool and reused only     *)
(* when nothing refers to them any more.                                   *)
(***************************************************************************)
EXTENDS AlertingState, Sequences, SequencesExt

vars == <<cycle, triageBus, routerBus, seen, triage, plans, dedup, routing,
          enrolled>>
-----------------------------------------------------------------------------
Signatures == Sources \X Queries

\* build_gateways registers the webhook adapters only: a poller adapter is
\* handed to its ingress loop and is not in the registry.
Registered == {c \in DOMAIN Ingress : Ingress[c] = "webhook"}

\* An envelope as the router classifies it: an observer's anomaly (its own
\* signature is the row's id) or a Guard's AwaitingApproval.
Anomaly(i, sig, sev) ==
  [class |-> "anomaly", id |-> i, sig |-> sig, severity |-> sev]
Approval(i) ==
  [class |-> "approval", id |-> i, sig |-> Nothing, severity |-> "default"]

Sleeping == [pc |-> "sleep", queries |-> {}, query |-> Nothing, samples |-> {}]

Init ==
  /\ cycle = Sleeping
  /\ triageBus = <<>> /\ routerBus = <<>>
  /\ seen = [s \in Signatures |-> 0]
  /\ triage = Nothing /\ plans = {}
  /\ dedup = [i \in Ids |-> 0]
  /\ routing = Nothing
  /\ enrolled \in SUBSET Recipients
-----------------------------------------------------------------------------
(* The bus.                                                                *)

\* A broadcast: a backlog at its capacity loses its oldest envelope.
Send(bus, e) == IF Len(bus) = BusCapacity THEN Append(Tail(bus), e)
                                          ELSE Append(bus, e)

InUse ==
  {triageBus[k].id : k \in DOMAIN triageBus}
    \cup {routerBus[k].id : k \in DOMAIN routerBus}
    \cup {p.id : p \in plans}
    \cup (IF triage = Nothing THEN {} ELSE {triage.id})
    \cup (IF routing = Nothing THEN {} ELSE {routing.alert.id})
    \cup {i \in Ids : dedup[i] > 0}

\* A new id: ids carry no information but their identity, so any will do.
Free == Ids \ InUse # {}
NewId == CHOOSE i \in Ids : i \notin InUse
-----------------------------------------------------------------------------
(* The observer.                                                           *)

Breaches(t, v) ==
  \/ t.op \in {"gt", "gte"} /\ v > t.value
  \/ t.op \in {"lt", "lte"} /\ v < t.value
  \/ t.op \in {"gte", "lte"} /\ v = t.value

\* The thresholds are tried in library order and the first that is breached
\* raises the anomaly.
Raised(q, v) ==
  LET hit == {k \in DOMAIN Library[q] : Breaches(Library[q][k], v)}
  IN  IF hit = {} THEN Nothing
      ELSE Library[q][CHOOSE k \in hit : \A j \in hit : k <= j].severity

\* The loop's sleep ends: a cycle over every query of the library.
Wake ==
  /\ cycle.pc = "sleep"
  /\ cycle' = [Sleeping EXCEPT !.pc = "query", !.queries = Queries]
  /\ UNCHANGED <<triageBus, routerBus, seen, triage, plans, dedup, routing,
                 enrolled>>

\* An instant query answers with samples, or fails and is skipped.  The samples
\* of a source (one per disk or interface) raise anomalies of one signature:
\* one of them stands for all.
Instant ==
  /\ cycle.pc = "query" /\ cycle.queries # {}
  /\ \E q \in cycle.queries :
       \/ cycle' = [cycle EXCEPT !.queries = @ \ {q}]
       \/ \E S \in SUBSET Sources \ {{}} : \E v \in [S -> Values] :
            cycle' = [cycle EXCEPT !.queries = @ \ {q}, !.query = q,
                        !.pc = "sample",
                        !.samples = {<<s, v[s]>> : s \in S}]
  /\ UNCHANGED <<triageBus, routerBus, seen, triage, plans, dedup, routing,
                 enrolled>>

\* One sample: nothing breached; or the row is inserted and only then the
\* envelope sent; or the insert fails and nothing is sent.
Sample ==
  /\ cycle.pc = "sample"
  /\ \E x \in cycle.samples :
       LET left == cycle.samples \ {x}
           sev  == Raised(cycle.query, x[2])
       IN  /\ cycle' = [cycle EXCEPT !.samples = left,
                          !.pc = IF left = {} THEN "query" ELSE @]
           /\ \/ UNCHANGED <<triageBus, routerBus>>
              \/ /\ sev # Nothing
                 /\ Free
                 /\ LET e == Anomaly(NewId, <<x[1], cycle.query>>, sev)
                    IN  /\ triageBus' = Send(triageBus, e)
                        /\ routerBus' = Send(routerBus, e)
  /\ UNCHANGED <<seen, triage, plans, dedup, routing, enrolled>>

\* The batch goes to the metric sink.  The loop sleeps again whether the sink
\* took it or run_once returned its error.
PushBatch ==
  /\ cycle.pc = "query" /\ cycle.queries = {}
  /\ cycle' = Sleeping
  /\ UNCHANGED <<triageBus, routerBus, seen, triage, plans, dedup, routing,
                 enrolled>>
-----------------------------------------------------------------------------
(* The triage agent: one envelope at a time.                               *)

Take(sig) == triage = Nothing /\ triageBus # <<>> /\ Head(triageBus).sig = sig

\* Mutant: the signature is let through without being recorded.
AdmitUnrecorded(sig) ==
  /\ Take(sig) /\ seen[sig] = 0
  /\ triage' = [id |-> Head(triageBus).id, sig |-> sig, age |-> 0]
  /\ triageBus' = Tail(triageBus)
  /\ UNCHANGED <<cycle, routerBus, seen, plans, dedup, routing, enrolled>>

\* A signature whose window has passed is recorded and let through.
Admit(sig) ==
  /\ Take(sig) /\ seen[sig] = 0
  /\ seen' = [seen EXCEPT ![sig] = TriageTTL]
  /\ triage' = [id |-> Head(triageBus).id, sig |-> sig, age |-> 0]
  /\ triageBus' = Tail(triageBus)
  /\ UNCHANGED <<cycle, routerBus, plans, dedup, routing, enrolled>>

\* Mutant: a repeat restarts the window.
SwallowAndRestart(sig) ==
  /\ Take(sig) /\ seen[sig] > 0
  /\ seen' = [seen EXCEPT ![sig] = TriageTTL]
  /\ triageBus' = Tail(triageBus)
  /\ UNCHANGED <<cycle, routerBus, triage, plans, dedup, routing, enrolled>>

\* A repeat within the window is swallowed; the window is not extended.
Swallow(sig) ==
  /\ Take(sig) /\ seen[sig] > 0
  /\ triageBus' = Tail(triageBus)
  /\ UNCHANGED <<cycle, routerBus, seen, triage, plans, dedup, routing,
                 enrolled>>

\* create_plan and the incident that is captured for it; the capture's
\* result is ignored.  A failure opens nothing and leaves the window.
CreatePlan ==
  /\ triage # Nothing
  /\ \/ plans' = plans
     \/ plans' = plans \cup (IF triage.age < TriageTTL THEN {triage} ELSE {})
  /\ triage' = Nothing
  /\ UNCHANGED <<cycle, triageBus, routerBus, seen, dedup, routing, enrolled>>
-----------------------------------------------------------------------------
(* The router.                                                             *)

\* The Guard announces a parked call.
AwaitingApproval ==
  /\ Free /\ routerBus' = Send(routerBus, Approval(NewId))
  /\ UNCHANGED <<cycle, triageBus, seen, triage, plans, dedup, routing,
                 enrolled>>

\* classify and DedupCache::admit.  The signature is marked before anything
\* is delivered.  With an empty registry there is no router.
Classify ==
  /\ Registered # {}
  /\ routing = Nothing /\ routerBus # <<>>
  /\ LET e == Head(routerBus)
     IN  \/ /\ dedup[e.id] > 0
            /\ UNCHANGED <<dedup, routing>>
         \/ /\ dedup[e.id] = 0
            /\ dedup' = [dedup EXCEPT ![e.id] = AlertTTL]
            /\ routing' = [alert |-> e, rule |-> Rule[e.class], to |-> <<>>,
                           sent |-> {}, known |-> enrolled]
  /\ routerBus' = Tail(routerBus)
  /\ UNCHANGED <<cycle, triageBus, seen, triage, plans, enrolled>>

\* Mutant: the rule's entries are taken as they are.
ResolveUnchecked ==
  /\ routing # Nothing /\ routing.rule # <<>>
  /\ routing' = [routing EXCEPT !.rule = Tail(@),
                   !.to = Append(@, Head(routing.rule))]
  /\ UNCHANGED <<cycle, triageBus, routerBus, seen, triage, plans, dedup,
                 enrolled>>

\* resolve_recipients, one entry of the rule at a time: kept only if it is
\* bound to an active user now; an error of the query drops it.
Resolve ==
  /\ routing # Nothing /\ routing.rule # <<>>
  /\ LET r == Head(routing.rule)
     IN  \/ routing' = [routing EXCEPT !.rule = Tail(@)]
         \/ /\ r \in enrolled
            /\ routing' = [routing EXCEPT !.rule = Tail(@),
                             !.to = Append(@, r)]
  /\ UNCHANGED <<cycle, triageBus, routerBus, seen, triage, plans, dedup,
                 enrolled>>

\* One recipient: skipped when its channel has no adapter; otherwise the send
\* is attempted, and its outcome recorded, both fail-soft.
Deliver ==
  /\ routing # Nothing /\ routing.rule = <<>> /\ routing.to # <<>>
  /\ LET r == Head(routing.to)
     IN  routing' = [routing EXCEPT !.to = Tail(@),
                       !.sent = IF ChannelOf[r] \in Registered
                               THEN @ \cup {r} ELSE @]
  /\ UNCHANGED <<cycle, triageBus, routerBus, seen, triage, plans, dedup,
                 enrolled>>

Routed ==
  /\ routing # Nothing /\ routing.rule = <<>> /\ routing.to = <<>>
  /\ routing' = Nothing
  /\ UNCHANGED <<cycle, triageBus, routerBus, seen, triage, plans, dedup,
                 enrolled>>
-----------------------------------------------------------------------------
(* The environment.                                                        *)

\* The alert under way knows who was enrolled while it was routed.
Enrolled(R) ==
  /\ enrolled' = R
  /\ routing' = IF routing = Nothing THEN Nothing
                ELSE [routing EXCEPT !.known = @ \cup R]
  /\ UNCHANGED <<cycle, triageBus, routerBus, seen, triage, plans, dedup>>

\* An administrator binds a handle to an active user, or enables its user.
AddBinding(r) == r \notin enrolled /\ Enrolled(enrolled \cup {r})

\* An administrator deletes a binding, or disables its user.
DeleteBinding(r) == r \in enrolled /\ Enrolled(enrolled \ {r})

Enrolment == \E r \in Recipients : AddBinding(r) \/ DeleteBinding(r)

Older(n, ttl) == IF n < ttl THEN n + 1 ELSE ttl

\* Time passes: windows run down, plans age and leave the last window.
Tick ==
  /\ seen'  = [s \in Signatures |-> IF seen[s] = 0 THEN 0 ELSE seen[s] - 1]
  /\ dedup' = [i \in Ids |-> IF dedup[i] = 0 THEN 0 ELSE dedup[i] - 1]
  /\ plans' = {[p EXCEPT !.age = @ + 1] :
                 p \in {q \in plans : q.age + 1 < TriageTTL}}
  /\ triage' = IF triage = Nothing THEN Nothing
               ELSE [triage EXCEPT !.age = Older(@, TriageTTL)]
  /\ UNCHANGED <<cycle, triageBus, routerBus, routing, enrolled>>

Router == Classify \/ Resolve \/ Deliver \/ Routed

Next ==
  \/ Wake \/ Instant \/ Sample \/ PushBatch
  \/ \E sig \in Signatures : Admit(sig) \/ Swallow(sig)
  \/ CreatePlan
  \/ AwaitingApproval \/ Router
  \/ Enrolment \/ Tick

\* Only the clock is assumed to go on.  Nothing is assumed of the router: the
\* webhook and Matrix adapters send without a timeout.
Spec == Init /\ [][Next]_vars /\ WF_vars(Tick)
-----------------------------------------------------------------------------
(* Properties.                                                             *)

(* A metric that keeps breaching is triaged again and again: the repeats   *)
(* that are swallowed do not prolong the window that swallows them.        *)
RepeatedBreachIsTriaged ==
  \A sig \in Signatures :
    []<><<Admit(sig) \/ Swallow(sig)>>_vars
      => []<><<Admit(sig)>>_vars
=============================================================================
