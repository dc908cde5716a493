---------------------------- MODULE Orchestrator ----------------------------
(***************************************************************************)
(* OrchestratorService::run_plan: a plan is a list of steps with           *)
(* dependencies.  A run executes the steps over the bus one at a time, in  *)
(* dependency order, stops at the first failure and then walks the         *)
(* succeeded steps backwards, dispatching each one's compensator.          *)
(*                                                                         *)
(* A run waits for an agent's answer for a bounded time only; the agent    *)
(* does not know, and its operation may take effect later, e.g. when an    *)
(* operator approves it after the run gave up.  Several runs of the same   *)
(* plan may exist: nothing in run_plan looks at the plan's status.         *)
(*                                                                         *)
(* Steps are numbered from 1 (the code's step_index + 1).                  *)
(***************************************************************************)
EXTENDS Naturals, Sequences, SequencesExt

CONSTANTS
    Definitions,   \* step lists create_plan may be given: per step, the
                   \* indices it names as dependencies (valid or not)
    Compensable,   \* steps whose capability declares a compensator
    Runs,          \* ids of the calls of run_plan
    MaxFaults,     \* bound: how many database writes fail
    MaxCrashes     \* bound: how often the process dies

ASSUME DefinitionsAssumption == Definitions \subseteq Seq(SUBSET Nat)

ASSUME OrchestratorBounds == MaxFaults \in Nat /\ MaxCrashes \in Nat

VARIABLES
    planStatus, stepStatus, deps,  \* the rows of plans and plan_steps
    captured,    \* typed records handed to memory on a terminal status
    pc,          \* where each run is
    local,       \* the run's own copy of the step statuses
    order,       \* steps that succeeded in this run, in order
    current,     \* the step being executed
    failed,      \* the run's `failed`
    undoAt,      \* position in order the rollback has come to
    unrolled,    \* steps the rollback left as they were, and why
    working,     \* operations the agents are busy with
    answers,     \* replies sent on the bus
    device,      \* what the step did to the managed device, in the end
    faults, crashes

dbVars  == <<planStatus, stepStatus, deps>>
runVars == <<pc, local, order, current, failed, undoAt, unrolled>>
busVars == <<working, answers, device>>
vars == <<planStatus, stepStatus, deps, captured, pc, local, order, current,
          failed, undoAt, unrolled, working, answers, device, faults, crashes>>

Steps == DOMAIN deps

StepStatus == {"pending", "running", "succeeded", "failed", "compensated"}
PlanStatus == {"none", "planning", "executing", "succeeded", "failed"}

Call(n, s, kind) == [run |-> n, step |-> s, kind |-> kind]
Calls == [run : Runs, step : Steps, kind : {"do", "undo"}]

\* An error is logged; a capability without an agent looks like one without a
\* compensator, and nothing is said.
Unrolled == [step : Steps, why : {"error", "unregistered"}]

Active ==
    {"loading", "picking", "dispatching", "awaiting", "succeeding", "failing",
     "undoing", "undo_waiting", "undo_saving", "finishing"}
Over == {"returned", "aborted"}

RowsOK ==
    /\ planStatus \in PlanStatus
    /\ stepStatus \in [Steps -> StepStatus]
    /\ \A s \in Steps : deps[s] \subseteq Steps
    /\ captured \in SUBSET {"decision", "incident"}
    /\ faults \in 0 .. MaxFaults
    /\ crashes \in 0 .. MaxCrashes

RunsOK ==
    /\ pc \in [Runs -> {"idle"} \union Active \union Over]
    /\ local \in [Runs -> [Steps -> StepStatus] \union {<<>>}]
    /\ order \in [Runs -> Seq(Steps)]
    /\ current \in [Runs -> Steps \union {0}]
    /\ failed \in [Runs -> BOOLEAN]
    /\ undoAt \in [Runs -> Nat]
    /\ unrolled \in [Runs -> SUBSET Unrolled]

\* What the labels of a run say about its own variables.
LabelsOK ==
    \A n \in Runs :
        /\ pc[n] \in Active \ {"loading"} => local[n] \in [Steps -> StepStatus]
        /\ pc[n] \in {"dispatching", "awaiting", "succeeding", "failing"} =>
               current[n] \in Steps
        /\ undoAt[n] <= Len(order[n])
        /\ pc[n] \in {"undo_waiting", "undo_saving"} => undoAt[n] > 0

BusOK ==
    /\ working \subseteq Calls
    /\ answers \subseteq [call : Calls, success : BOOLEAN]
    /\ device \in [Steps -> {"untouched", "applied", "undone"}]

TypeOK == RowsOK /\ RunsOK /\ LabelsOK /\ BusOK

Init ==
    /\ planStatus = "none"
    /\ stepStatus = <<>>
    /\ deps = <<>>
    /\ captured = {}
    /\ pc = [n \in Runs |-> "idle"]
    /\ local = [n \in Runs |-> <<>>]
    /\ order = [n \in Runs |-> <<>>]
    /\ current = [n \in Runs |-> 0]
    /\ failed = [n \in Runs |-> FALSE]
    /\ undoAt = [n \in Runs |-> 0]
    /\ unrolled = [n \in Runs |-> {}]
    /\ working = {}
    /\ answers = {}
    /\ device = <<>>
    /\ faults = 0
    /\ crashes = 0

-----------------------------------------------------------------------------
(* create_plan, in one transaction.  A dependency index outside the list   *)
(* is dropped.                                                             *)

CreatePlan(def) ==
    /\ planStatus = "none"
    /\ planStatus' = "planning"
    /\ deps' = [s \in DOMAIN def |-> def[s] \intersect DOMAIN def]
    /\ stepStatus' = [s \in DOMAIN def |-> "pending"]
    /\ device' = [s \in DOMAIN def |-> "untouched"]
    /\ UNCHANGED <<captured, runVars, working, answers, faults, crashes>>

-----------------------------------------------------------------------------
(* run_plan: the forward pass                                              *)

Goto(n, label) == pc' = [pc EXCEPT ![n] = label]

\* Any status will do.
Start(n) ==
    /\ pc[n] = "idle"
    /\ planStatus # "none"
    /\ planStatus' = "executing"
    /\ Goto(n, "loading")
    /\ UNCHANGED <<stepStatus, deps, captured, local, order, current, failed,
                   undoAt, unrolled, busVars, faults, crashes>>

\* list_steps; an empty plan has succeeded.
Load(n) ==
    /\ pc[n] = "loading"
    /\ local' = [local EXCEPT ![n] = stepStatus]
    /\ Goto(n, IF Steps = {} THEN "finishing" ELSE "picking")
    /\ UNCHANGED <<dbVars, captured, order, current, failed, undoAt, unrolled,
                   busVars, faults, crashes>>

\* A bug to look for: the dependencies are not consulted.
RunnableIgnoringDeps(n) == {s \in Steps : local[n][s] = "pending"}

\* Pending, and every dependency succeeded in this run.
Runnable(n) ==
    {s \in Steps : /\ local[n][s] = "pending"
                   /\ \A d \in deps[s] : d \in ToSet(order[n])}

\* The first runnable step is marked running, then dispatched.
MarkRunning(n) ==
    /\ pc[n] = "picking"
    /\ \E s \in Runnable(n) :
        /\ \A other \in Runnable(n) : s <= other
        /\ stepStatus' = [stepStatus EXCEPT ![s] = "running"]
        /\ local' = [local EXCEPT ![n][s] = "running"]
        /\ current' = [current EXCEPT ![n] = s]
    /\ Goto(n, "dispatching")
    /\ UNCHANGED <<planStatus, deps, captured, order, failed, undoAt, unrolled,
                   busVars, faults, crashes>>

\* A bug to look for: steps that can never run are not a failure.
NoRunnableIsSuccess(n) ==
    /\ pc[n] = "picking"
    /\ Runnable(n) = {}
    /\ Goto(n, "finishing")
    /\ UNCHANGED <<dbVars, captured, local, order, current, failed, undoAt,
                   unrolled, busVars, faults, crashes>>

\* Nothing left to run: a failure if a step is still pending or running.
NoRunnable(n) ==
    /\ pc[n] = "picking"
    /\ Runnable(n) = {}
    /\ failed' = [failed EXCEPT ![n] =
                     \E s \in Steps : local[n][s] \in {"pending", "running"}]
    /\ undoAt' = [undoAt EXCEPT ![n] = Len(order[n])]
    /\ Goto(n, IF failed'[n] THEN "undoing" ELSE "finishing")
    /\ UNCHANGED <<dbVars, captured, local, order, current, unrolled, busVars,
                   faults, crashes>>

\* dispatch_step: a bad version, a missing target or an unknown capability
\* fails at once; otherwise the request is on the bus.
DispatchStep(n) ==
    /\ pc[n] = "dispatching"
    /\ \/ /\ working' = working \union {Call(n, current[n], "do")}
          /\ Goto(n, "awaiting")
       \/ Goto(n, "failing") /\ UNCHANGED working
    /\ UNCHANGED <<dbVars, captured, local, order, current, failed, undoAt,
                   unrolled, answers, device, faults, crashes>>

\* The correlated reply; an explicit success: false is a failure.
StepReplied(n) ==
    /\ pc[n] = "awaiting"
    /\ \E a \in answers :
        /\ a.call = Call(n, current[n], "do")
        /\ Goto(n, IF a.success THEN "succeeding" ELSE "failing")
    /\ UNCHANGED <<dbVars, captured, local, order, current, failed, undoAt,
                   unrolled, busVars, faults, crashes>>

\* STEP_DISPATCH_TIMEOUT ran out.
StepTimesOut(n) ==
    /\ pc[n] = "awaiting"
    /\ Goto(n, "failing")
    /\ UNCHANGED <<dbVars, captured, local, order, current, failed, undoAt,
                   unrolled, busVars, faults, crashes>>

RecordSuccess(n) ==
    /\ pc[n] = "succeeding"
    /\ stepStatus' = [stepStatus EXCEPT ![current[n]] = "succeeded"]
    /\ local' = [local EXCEPT ![n][current[n]] = "succeeded"]
    /\ order' = [order EXCEPT ![n] = Append(@, current[n])]
    /\ Goto(n, "picking")
    /\ UNCHANGED <<planStatus, deps, captured, current, failed, undoAt,
                   unrolled, busVars, faults, crashes>>

RecordFailure(n) ==
    /\ pc[n] = "failing"
    /\ stepStatus' = [stepStatus EXCEPT ![current[n]] = "failed"]
    /\ local' = [local EXCEPT ![n][current[n]] = "failed"]
    /\ failed' = [failed EXCEPT ![n] = TRUE]
    /\ undoAt' = [undoAt EXCEPT ![n] = Len(order[n])]
    /\ Goto(n, "undoing")
    /\ UNCHANGED <<planStatus, deps, captured, order, current, unrolled,
                   busVars, faults, crashes>>

-----------------------------------------------------------------------------
(* run_plan: the rollback                                                  *)

\* A bug to look for: the rollback walks in execution order.
UndoingForwards(n) == order[n][Len(order[n]) + 1 - undoAt[n]]

Undoing(n) == order[n][undoAt[n]]

StepBack(n) == undoAt' = [undoAt EXCEPT ![n] = @ - 1]

Leave(n, why) ==
    unrolled' = [unrolled EXCEPT ![n] = @ \union {[step |-> Undoing(n), why |-> why]}]

\* Bugs to look for: a failed compensation ends the pass, or is retried for
\* ever.
GiveUpStops(n) == Leave(n, "error") /\ StepBack(n) /\ Goto(n, "finishing")

GiveUpRetries(n) == Leave(n, "error") /\ UNCHANGED undoAt /\ Goto(n, "undoing")

\* A failed compensation is logged and does not stop the pass.
GiveUp(n) == Leave(n, "error") /\ StepBack(n) /\ Goto(n, "undoing")

\* compensator_for found no entry for the step's capability: its agent was
\* stopped, or gave up, since the step ran.
PassOver(n) == Leave(n, "unregistered") /\ StepBack(n) /\ UNCHANGED pc

\* dispatch_compensator: nothing to do without a compensator, or when none is
\* found; a bad version or an unknown compensator is an error; otherwise the
\* request is on the bus.
Undo(n) ==
    /\ pc[n] = "undoing"
    /\ undoAt[n] > 0
    /\ \/ Undoing(n) \notin Compensable /\ StepBack(n) /\ UNCHANGED <<pc, unrolled, working>>
       \/ /\ Undoing(n) \in Compensable
          /\ working' = working \union {Call(n, Undoing(n), "undo")}
          /\ Goto(n, "undo_waiting")
          /\ UNCHANGED <<undoAt, unrolled>>
       \/ Undoing(n) \in Compensable /\ GiveUp(n) /\ UNCHANGED working
       \/ Undoing(n) \in Compensable /\ PassOver(n) /\ UNCHANGED working
    /\ UNCHANGED <<dbVars, captured, local, order, current, failed, answers,
                   device, faults, crashes>>

UndoneAll(n) ==
    /\ pc[n] = "undoing"
    /\ undoAt[n] = 0
    /\ Goto(n, "finishing")
    /\ UNCHANGED <<dbVars, captured, local, order, current, failed, undoAt,
                   unrolled, busVars, faults, crashes>>

\* The reply is taken as it is; its success field is not looked at.
UndoReplied(n) ==
    /\ pc[n] = "undo_waiting"
    /\ \E a \in answers : a.call = Call(n, Undoing(n), "undo")
    /\ Goto(n, "undo_saving")
    /\ UNCHANGED <<dbVars, captured, local, order, current, failed, undoAt,
                   unrolled, busVars, faults, crashes>>

UndoTimesOut(n) ==
    /\ pc[n] = "undo_waiting"
    /\ GiveUp(n)
    /\ UNCHANGED <<dbVars, captured, local, order, current, failed, busVars,
                   faults, crashes>>

RecordCompensated(n) ==
    /\ pc[n] = "undo_saving"
    /\ \/ /\ stepStatus' = [stepStatus EXCEPT ![Undoing(n)] = "compensated"]
          /\ local' = [local EXCEPT ![n][Undoing(n)] = "compensated"]
          /\ StepBack(n)
          /\ Goto(n, "undoing")
          /\ UNCHANGED <<unrolled, faults>>
       \/ /\ faults < MaxFaults
          /\ faults' = faults + 1
          /\ GiveUp(n)
          /\ UNCHANGED <<stepStatus, local>>
    /\ UNCHANGED <<planStatus, deps, captured, order, current, failed, busVars, crashes>>

\* finish_plan: the status, then the terminal record for memory (fail-soft).
Finish(n) ==
    /\ pc[n] = "finishing"
    /\ planStatus' = IF failed[n] THEN "failed" ELSE "succeeded"
    /\ captured' \in {captured,
                      captured \union {IF failed[n] THEN "incident" ELSE "decision"}}
    /\ Goto(n, "returned")
    /\ UNCHANGED <<stepStatus, deps, local, order, current, failed, undoAt,
                   unrolled, busVars, faults, crashes>>

-----------------------------------------------------------------------------
(* Faults, and the agents at the other end of the bus                      *)

\* A database call under `?` fails: run_plan returns Err where it stands.
DbFault(n) ==
    /\ pc[n] \in {"loading", "picking", "succeeding", "failing", "finishing"}
    /\ pc[n] = "picking" => Runnable(n) # {}
    /\ faults < MaxFaults
    /\ faults' = faults + 1
    /\ Goto(n, "aborted")
    /\ UNCHANGED <<dbVars, captured, local, order, current, failed, undoAt,
                   unrolled, busVars, crashes>>

\* The process dies with its runs, its agents and its bus.
Crash ==
    /\ crashes < MaxCrashes
    /\ crashes' = crashes + 1
    /\ pc' = [n \in Runs |-> IF pc[n] \in Active THEN "aborted" ELSE pc[n]]
    /\ working' = {}
    /\ answers' = {}
    /\ UNCHANGED <<dbVars, captured, local, order, current, failed, undoAt,
                   unrolled, device, faults>>

\* An agent ends an operation (the guard may refuse it, the device may fail
\* before or after the effect) and replies, whether or not anyone still waits.
AgentEnds(c, success) ==
    /\ c \in working
    /\ working' = working \ {c}
    /\ answers' = answers \union {[call |-> c, success |-> success]}
    /\ \/ c.kind = "do" /\ device' = [device EXCEPT ![c.step] = "applied"]
       \/ /\ c.kind = "undo"
          /\ device' = [device EXCEPT ![c.step] = IF @ = "applied" THEN "undone" ELSE @]
       \/ ~ success /\ UNCHANGED device
    /\ UNCHANGED <<dbVars, captured, runVars, faults, crashes>>

-----------------------------------------------------------------------------
RunStep(n) ==
    \/ Load(n)
    \/ MarkRunning(n)
    \/ NoRunnable(n)
    \/ DispatchStep(n)
    \/ StepReplied(n)
    \/ StepTimesOut(n)
    \/ RecordSuccess(n)
    \/ RecordFailure(n)
    \/ Undo(n)
    \/ UndoneAll(n)
    \/ UndoReplied(n)
    \/ UndoTimesOut(n)
    \/ RecordCompensated(n)
    \/ Finish(n)

\* Nothing is left to happen.
Quiet ==
    /\ \A n \in Runs : pc[n] \in Over
    /\ working = {}
    /\ UNCHANGED vars

Next ==
    \/ \E def \in Definitions : CreatePlan(def)
    \/ \E n \in Runs : Start(n) \/ RunStep(n) \/ DbFault(n)
    \/ \E c \in working, success \in BOOLEAN : AgentEnds(c, success)
    \/ Crash
    \/ Quiet

\* A run is a task of the async runtime and its dispatches time out.
Fairness == \A n \in Runs : WF_vars(RunStep(n))

Spec == Init /\ [][Next]_vars /\ Fairness

-----------------------------------------------------------------------------
(* Properties                                                              *)

\* No step is handed to an agent by a run before everything it depends on has
\* succeeded in that run, in that order.  (run_plan's choice of the next step)
DependenciesFirst ==
    \A n \in Runs :
        /\ \A i \in DOMAIN order[n] : \A d \in deps[order[n][i]] :
               \E j \in DOMAIN order[n] : j < i /\ order[n][j] = d
        /\ \A c \in working : c.run = n /\ c.kind = "do" =>
               deps[c.step] \subseteq ToSet(order[n])

\* The rollback has come to step s of run n: it was compensated, or it is one
\* of the steps the rollback had to leave.
Dealt(n, s) ==
    local[n][s] = "compensated" \/ \E u \in unrolled[n] : u.step = s

\* The rollback reaches every step: when a failed run returns, each step that
\* succeeded in it and has a compensator is compensated, unless the attempt
\* failed or the registry knew the step's capability no more at that moment.
\* Nothing else ends the walk early or leaves a step out.  (the compensation
\* loop of run_plan)
RollbackIsComplete ==
    \A n \in Runs :
        pc[n] = "returned" /\ failed[n] =>
            \A s \in ToSet(order[n]) \intersect Compensable : Dealt(n, s)

\* The rollback runs against the dependencies: a compensator is on the bus only
\* after the rollback has come to every step that builds on its step.  (It may
\* have had to leave that one as it was.)
RollbackAgainstDependencies ==
    \A c \in working : c.kind = "undo" =>
        \A s \in ToSet(order[c.run]) \intersect Compensable :
            c.step \in deps[s] => Dealt(c.run, s)

\* One execution keeps the promises of module Saga.
IsSaga == INSTANCE Saga
SagaSpec == IsSaga!Spec

\* run_plan always comes back, whatever the agents and operators do.
RunsEnd == \A n \in Runs : (pc[n] \in Active) ~> (pc[n] \in Over)
=============================================================================
