------------------------------- MODULE Broker -------------------------------
(***************************************************************************)
(* The protected operation of daimon: Broker::execute.  Every request to   *)
(* touch a managed device is one concurrent task that runs                 *)
(*                                                                         *)
(*   guard pre-flight (KILL flag, read-only, policy) -> approval inbox     *)
(*   (insert, announce, poll, expire) -> inventory -> vault -> transport   *)
(*   -> audit                                                              *)
(*                                                                         *)
(* and suspends at every database or network call, so the tasks interleave *)
(* with each other, with operators deciding approvals, with administrators *)
(* editing targets, with the KILL flag and with a crash of the process.    *)
(*                                                                         *)
(* A step from one await to the next is one action.  Time is abstracted:   *)
(* a deadline may have passed at any poll.                                 *)
(***************************************************************************)
EXTENDS Policy

CONSTANTS
    Requests,    \* ids of the calls to Broker::execute
    Shapes,      \* what a caller may ask for: capability, descriptor, target
    Caps,        \* the capabilities the spawned agents registered
    RuleSets,    \* the contents policy.toml may have when the process boots
    Targets,     \* managed assets
    Creds,       \* credential references
    NoCred,      \* "the target is not in the inventory"
    MaxCrashes   \* bound: how often the process dies

VARIABLES
    phase,       \* "boot" until the policy lint passed, then "serving"
    rules,       \* the loaded policy
    engaged,     \* KillState.engaged
    inventory,   \* target -> credential reference of its row, or NoCred
    rows,        \* public.approvals, one potential row per request
    pc,          \* where each request's task is
    shape,       \* the request's arguments
    verdict,     \* how the guard's pre-flight classified the request
    used,        \* the credential reference the task resolved
    sent,        \* the operation was handed to the transport
    outcome,     \* the Result of execute_inner
    logged,      \* the request's broker.execute audit event
    abandoned,   \* a fault kept the task from watching or expiring its row
    announced,   \* awaiting_approval envelopes published on the bus
    crashes

taskVars  == <<pc, shape, verdict, used, sent, outcome, logged, abandoned, announced>>
worldVars == <<phase, rules, engaged, inventory, crashes>>
vars == <<phase, rules, engaged, inventory, rows, pc, shape, verdict, used,
          sent, outcome, logged, abandoned, announced, crashes>>

Inbox == INSTANCE Approvals WITH Ids <- Requests

-----------------------------------------------------------------------------
(* Types                                                                   *)

NoShape == [cap |-> None, meta |-> {}, target |-> NoCred]

Parked   == {"publishing", "waiting", "expiring"}
Cleared  == {"resolving", "unsealing", "executing"}
InFlight == {"submitted", "enqueuing", "auditing"} \union Parked \union Cleared
Ended    == {"done", "lost"}

Failures ==
    {"kill", "policy_denied", "guard_error", "approval_timeout", "inventory",
     "vault", "no_transport", "transport"}

NoEvent == [result |-> "none", cred |-> NoCred]

\* The capability descriptor a caller attached is a registered one, and the
\* request is named after it (ExecRequest::with_capability_meta).
ASSUME ShapesAssumption ==
    \A s \in Shapes :
        /\ s.target \in Targets
        /\ s.meta \subseteq Caps
        /\ \A c \in s.meta : s.cap = c.name

\* policy.toml parses: every rule carries one of the three decisions.
ASSUME RulesAssumption ==
    \A rs \in RuleSets : \A i \in DOMAIN rs : rs[i].decision \in Decisions

ASSUME BoundsAssumption == MaxCrashes \in Nat /\ NoCred \notin Creds

TypeOK ==
    /\ phase \in {"boot", "serving"}
    /\ rules \in RuleSets \union {<<>>}
    /\ engaged \in BOOLEAN
    /\ inventory \in [Targets -> Creds \union {NoCred}]
    /\ rows \in [Requests -> Inbox!RowStatus]
    /\ pc \in [Requests -> {"idle"} \union InFlight \union Ended]
    /\ shape \in [Requests -> Shapes \union {NoShape}]
    /\ \A r \in Requests : pc[r] # "idle" => shape[r] \in Shapes
    /\ verdict \in [Requests -> {"none", "kill", "read"} \union Decisions]
    /\ used \in [Requests -> Creds \union {NoCred}]
    /\ sent \in [Requests -> BOOLEAN]
    /\ outcome \in [Requests -> {"none", "ok"} \union Failures]
    /\ logged \in [Requests -> [result : {"none", "success", "error"},
                                cred : Creds \union {NoCred}]]
    /\ abandoned \in [Requests -> BOOLEAN]
    /\ announced \in SUBSET Requests
    /\ crashes \in 0 .. MaxCrashes

Init ==
    /\ phase = "boot"
    /\ rules = <<>>
    /\ engaged = FALSE
    /\ inventory \in [Targets -> Creds]
    /\ rows = [r \in Requests |-> Inbox!Absent]
    /\ pc = [r \in Requests |-> "idle"]
    /\ shape = [r \in Requests |-> NoShape]
    /\ verdict = [r \in Requests |-> "none"]
    /\ used = [r \in Requests |-> NoCred]
    /\ sent = [r \in Requests |-> FALSE]
    /\ outcome = [r \in Requests |-> "none"]
    /\ logged = [r \in Requests |-> NoEvent]
    /\ abandoned = [r \in Requests |-> FALSE]
    /\ announced = {}
    /\ crashes = 0

-----------------------------------------------------------------------------
(* The process, the operators and the administrators                       *)

\* main: load policy.toml, spawn the agents, lint, serve.  A policy the lint
\* refuses ends the process (exit 1), which leaves the model in "boot".
Boot(rs) ==
    /\ phase = "boot"
    /\ LintWriteCapabilities(rs, Caps)
    /\ rules' = rs
    /\ phase' = "serving"
    /\ UNCHANGED <<engaged, inventory, rows, crashes, taskVars>>

Engage ==
    /\ engaged' = TRUE
    /\ UNCHANGED <<phase, rules, inventory, rows, crashes, taskVars>>

Release ==
    /\ engaged' = FALSE
    /\ UNCHANGED <<phase, rules, inventory, rows, crashes, taskVars>>

\* An operator decides a listed (pending) row, from the console or a channel.
Decide(r, status) ==
    /\ rows[r] = "pending"
    /\ rows' = [rows EXCEPT ![r] = status]
    /\ UNCHANGED <<worldVars, taskVars>>

\* An administrator re-points a target to another credential, or removes it.
EditTarget(t, cred) ==
    /\ inventory[t] # cred
    /\ inventory' = [inventory EXCEPT ![t] = cred]
    /\ UNCHANGED <<phase, rules, engaged, crashes, rows, taskVars>>

\* The process dies: every task is gone, the tables stay, the KILL flag is a
\* fresh FALSE in the next process.
Crash ==
    /\ phase = "serving"
    /\ crashes < MaxCrashes
    /\ crashes' = crashes + 1
    /\ phase' = "boot"
    /\ engaged' = FALSE
    /\ pc' = [r \in Requests |-> IF pc[r] \in InFlight THEN "lost" ELSE pc[r]]
    /\ abandoned' = [r \in Requests |-> abandoned[r] \/ pc[r] \in InFlight]
    /\ UNCHANGED <<rules, inventory, rows, shape, verdict, used, sent, outcome,
                   logged, announced>>

-----------------------------------------------------------------------------
(* Broker::execute, one await at a time                                    *)

Goto(r, label) == pc' = [pc EXCEPT ![r] = label]

\* execute_inner returned Err: on to audit_execute.
Fail(r, error) ==
    /\ Goto(r, "auditing")
    /\ outcome' = [outcome EXCEPT ![r] = error]

Submit(r, s) ==
    /\ phase = "serving"
    /\ pc[r] = "idle"
    /\ Goto(r, "submitted")
    /\ shape' = [shape EXCEPT ![r] = s]
    /\ UNCHANGED <<worldVars, rows, verdict, used, sent, outcome, logged,
                   abandoned, announced>>

\* Broker::derive_read_only: no descriptor means a write.
ReadOnly(s) == \E c \in s.meta : IsRead(c)

\* The synchronous part of Guard::pre_flight: KILL first, then the read-only
\* shortcut, then the policy.
Verdict(r) ==
    IF engaged THEN "kill"
    ELSE IF ReadOnly(shape[r]) THEN "read"
    ELSE Evaluate(rules, shape[r].cap)

PreFlight(r) ==
    /\ pc[r] = "submitted"
    /\ verdict' = [verdict EXCEPT ![r] = Verdict(r)]
    /\ CASE verdict'[r] = "kill" -> Fail(r, "kill")
         [] verdict'[r] = "deny" -> Fail(r, "policy_denied")
         [] verdict'[r] \in {"read", "allow"} ->
                Goto(r, "resolving") /\ UNCHANGED outcome
         [] verdict'[r] = "require_approval" ->
                Goto(r, "enqueuing") /\ UNCHANGED outcome
    /\ UNCHANGED <<worldVars, rows, shape, used, sent, logged, abandoned, announced>>

\* ApprovalQueue::enqueue
Enqueue(r) ==
    /\ pc[r] = "enqueuing"
    /\ \/ /\ rows' = [rows EXCEPT ![r] = "pending"]
          /\ Goto(r, "publishing")
          /\ UNCHANGED outcome
       \/ Fail(r, "guard_error") /\ UNCHANGED rows
    /\ UNCHANGED <<worldVars, shape, verdict, used, sent, logged, abandoned, announced>>

\* Guard::publish_awaiting_approval: fail-soft.
Publish(r) ==
    /\ pc[r] = "publishing"
    /\ Goto(r, "waiting")
    /\ announced' \in {announced, announced \union {r}}
    /\ UNCHANGED <<worldVars, rows, shape, verdict, used, sent, outcome, logged, abandoned>>

\* wait_for_decision reads a decided row.  A poll that finds it undecided
\* before the deadline goes back to sleep and changes nothing.
PollDecided(r) ==
    /\ pc[r] = "waiting"
    /\ \/ rows[r] = "approved" /\ Goto(r, "resolving") /\ UNCHANGED outcome
       \/ rows[r] = "denied" /\ Fail(r, "policy_denied")
    /\ UNCHANGED <<worldVars, rows, shape, verdict, used, sent, logged, abandoned, announced>>

\* A bug to look for: the deadline is computed inside the loop and never comes.
PollForever(r) ==
    /\ FALSE
    /\ UNCHANGED vars

\* wait_for_decision reads an undecided row and the deadline has passed.
PollTimesOut(r) ==
    /\ pc[r] = "waiting"
    /\ rows[r] \notin Inbox!Verdicts
    /\ Goto(r, "expiring")
    /\ UNCHANGED <<worldVars, rows, shape, verdict, used, sent, outcome, logged,
                   abandoned, announced>>

\* The read itself fails: the error ends the wait and the row stays pending.
PollFails(r) ==
    /\ pc[r] = "waiting"
    /\ Fail(r, "guard_error")
    /\ abandoned' = [abandoned EXCEPT ![r] = TRUE]
    /\ UNCHANGED <<worldVars, rows, shape, verdict, used, sent, logged, announced>>

\* A bug to look for: the UPDATE lost its "AND status = 'pending'".
ExpireAlways(r) ==
    /\ pc[r] = "expiring"
    /\ rows' = [rows EXCEPT ![r] = "expired"]
    /\ Fail(r, "approval_timeout")
    /\ UNCHANGED <<worldVars, shape, verdict, used, sent, logged, abandoned, announced>>

\* A bug to look for: the deadline returns without expiring the row.
ExpireSkipped(r) ==
    /\ pc[r] = "expiring"
    /\ Fail(r, "approval_timeout")
    /\ UNCHANGED <<worldVars, rows, shape, verdict, used, sent, logged, abandoned, announced>>

\* A bug to look for: a status the table does not know.
ExpireMisspelt(r) ==
    /\ pc[r] = "expiring"
    /\ rows' = [rows EXCEPT ![r] = "timeout"]
    /\ Fail(r, "approval_timeout")
    /\ UNCHANGED <<worldVars, shape, verdict, used, sent, logged, abandoned, announced>>

\* expire_if_pending, best-effort, then Err(ApprovalTimeout).  An operator may
\* have decided the row since it was read; the request times out all the same.
Expire(r) ==
    /\ pc[r] = "expiring"
    /\ Fail(r, "approval_timeout")
    /\ \/ /\ rows' = IF rows[r] = "pending"
                     THEN [rows EXCEPT ![r] = "expired"] ELSE rows
          /\ UNCHANGED abandoned
       \/ /\ abandoned' = [abandoned EXCEPT ![r] = TRUE]
          /\ UNCHANGED rows
    /\ UNCHANGED <<worldVars, shape, verdict, used, sent, logged, announced>>

\* Step 1, inventory.get_managed.
ResolveTarget(r) ==
    /\ pc[r] = "resolving"
    /\ \/ /\ inventory[shape[r].target] # NoCred
          /\ used' = [used EXCEPT ![r] = inventory[shape[r].target]]
          /\ Goto(r, "unsealing")
          /\ UNCHANGED outcome
       \/ Fail(r, "inventory") /\ UNCHANGED used
    /\ UNCHANGED <<worldVars, rows, shape, verdict, sent, logged, abandoned, announced>>

\* Steps 2 and 3, vault.resolve and the transport lookup; the operation is
\* then handed to the transport in the same breath.
ResolveCredential(r) ==
    /\ pc[r] = "unsealing"
    /\ \/ /\ Goto(r, "executing")
          /\ sent' = [sent EXCEPT ![r] = TRUE]
          /\ UNCHANGED outcome
       \/ \E error \in {"vault", "no_transport"} : Fail(r, error) /\ UNCHANGED sent
    /\ UNCHANGED <<worldVars, rows, shape, verdict, used, logged, abandoned, announced>>

\* Step 4, transport.execute returns.
Execute(r) ==
    /\ pc[r] = "executing"
    /\ \/ Goto(r, "auditing") /\ outcome' = [outcome EXCEPT ![r] = "ok"]
       \/ Fail(r, "transport")
    /\ UNCHANGED <<worldVars, rows, shape, verdict, used, sent, logged, abandoned, announced>>

\* audit_execute: reads the target's credential reference anew, then appends
\* the event, best-effort.
AuditExecute(r) ==
    /\ pc[r] = "auditing"
    /\ Goto(r, "done")
    /\ \/ logged' = [logged EXCEPT ![r] =
              [result |-> IF outcome[r] = "ok" THEN "success" ELSE "error",
               cred |-> inventory[shape[r].target]]]
       \/ UNCHANGED logged
    /\ UNCHANGED <<worldVars, rows, shape, verdict, used, sent, outcome,
                   abandoned, announced>>

-----------------------------------------------------------------------------
Task(r) ==
    \/ PreFlight(r)
    \/ Enqueue(r)
    \/ Publish(r)
    \/ PollDecided(r)
    \/ PollTimesOut(r)
    \/ Expire(r)
    \/ ResolveTarget(r)
    \/ ResolveCredential(r)
    \/ Execute(r)
    \/ AuditExecute(r)

Next ==
    \/ \E rs \in RuleSets : Boot(rs)
    \/ Engage
    \/ Release
    \/ Crash
    \/ \E t \in Targets, cred \in Creds \union {NoCred} : EditTarget(t, cred)
    \/ \E r \in Requests, status \in Inbox!Verdicts : Decide(r, status)
    \/ \E r \in Requests, s \in Shapes : Submit(r, s)
    \/ \E r \in Requests : Task(r) \/ PollFails(r)

\* A task is a future on the async runtime: while it can take a step it is
\* eventually polled, database and transport calls return (they have client
\* timeouts), and an approval deadline passes.  No fault is relied upon.
Fairness == \A r \in Requests : WF_vars(Task(r))

Spec == Init /\ [][Next]_vars

FairSpec == Spec /\ Fairness

-----------------------------------------------------------------------------
(* Properties                                                              *)

\* Nothing reaches a device as a write unless an operator approved that very
\* request, its row still says so, and the lint's promise holds: the one write
\* policy may wave through is a request that names no registered capability.
\* (guard pre_flight, wait_for_decision, lint_write_capabilities, across
\* policy reloads, crashes, late decisions and expiry.)
WritesAuthorised ==
    \A r \in Requests :
        sent[r] /\ ~ ReadOnly(shape[r]) =>
            \/ rows[r] = "approved"
            \/ shape[r].meta = {} /\ verdict[r] = "allow"

\* A row that nobody watches any more is not left pending, unless a database
\* fault or a crash cut its task off: what an operator sees in the inbox is
\* still worth deciding.  (wait_for_decision, expire_if_pending)
InboxOnlyHoldsLiveRequests ==
    \A r \in Requests :
        rows[r] = "pending" => pc[r] \in Parked \/ abandoned[r]

\* The inbox table behaves as its abstract specification says: rows are
\* decided once, and expiry never overwrites an operator's verdict.
ApprovalRows == Inbox!Spec

\* Every request ends even when no operator ever answers: the approval
\* deadline ends the wait.  (wait_for_decision)
RequestsEnd ==
    \A r \in Requests : (pc[r] \in InFlight) ~> (pc[r] \in Ended)

\* What the guard's documentation says of the KILL switch: "When engaged,
\* every broker.execute is denied."  No request gets past the guard by a step
\* taken while the flag is engaged, a step that reads an approval included.
KillDeniesExecute ==
    [][engaged => \A r \in Requests : pc'[r] \in Cleared => pc[r] \in Cleared]_vars
=============================================================================
