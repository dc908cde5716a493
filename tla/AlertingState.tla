---------------------------- MODULE AlertingState ----------------------------
(***************************************************************************)
(* What the observer, the triage agent and the alert router keep, and what *)
(* must hold of it at every moment.  Module Alerting has their steps.      *)
(***************************************************************************)
EXTENDS Naturals

CONSTANTS
  Sources,       \* values of the label that names a sample's source
  Queries,       \* the named queries of the library
  Library,       \* query -> sequence of thresholds, in library order
  Values,        \* the values a sample can have
  Ids,           \* pool of row ids and approval ids
  Recipients,    \* channel:handle pairs
  Rule,          \* alert class -> the recipients its routing rule lists
  ChannelOf,     \* recipient -> its channel
  Ingress,       \* enabled channel -> "webhook" or "poller"
  TriageTTL,     \* DEDUPE_TTL of the triage agent, in ticks
  AlertTTL,      \* DEDUP_TTL of the router, in ticks
  BusCapacity,   \* IN_PROC_BUS_CAPACITY
  Nothing

ASSUME AlertingAssumption ==
  /\ TriageTTL \in Nat \ {0} /\ AlertTTL \in Nat \ {0}
  /\ BusCapacity \in Nat \ {0}
  /\ Nothing \notin Ids

VARIABLES
  cycle,      \* the observer's run_once: where it stands
  triageBus,  \* envelopes the triage agent has not received yet
  routerBus,  \* envelopes the router has not received yet
  seen,       \* triage: time left in the window of a signature
  triage,     \* the anomaly whose plan is being opened, or Nothing
  plans,      \* plans of anomalies admitted within the last window
  dedup,      \* router: time left in the window of an alert's signature
  routing,    \* the alert being routed, or Nothing
  enrolled    \* recipients bound to an active user
-----------------------------------------------------------------------------
(* FR-MON-09, the anti-loop guard: however the observer, the bus and the   *)
(* plan store interleave, two plans of one (source, metric) signature are  *)
(* never opened for anomalies admitted within one window, nor is a second  *)
(* one being opened.                                                       *)
OnePlanPerWindow ==
  LET recent == plans \cup (IF triage # Nothing /\ triage.age < TriageTTL
                            THEN {triage} ELSE {})
  IN  \A p, q \in recent : p.sig = q.sig => p = q

(* FR-GW-16: a recipient an alert was sent to was bound to an active user  *)
(* at some moment since the router took that alert up.  It need not be so  *)
(* any more when the message leaves: the check and the send are separate   *)
(* steps.                                                                  *)
SentToEnrolled == routing # Nothing => routing.sent \subseteq routing.known
=============================================================================
