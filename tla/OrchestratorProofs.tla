------------------------- MODULE OrchestratorProofs -------------------------
(***************************************************************************)
(* Proofs about module Orchestrator, for plans of any size and shape, any  *)
(* number of concurrent runs, faults and crashes.                          *)
(***************************************************************************)
EXTENDS Orchestrator, TLAPS

\* Until a plan exists nothing has been started.
NoPlanYet ==
    planStatus = "none" =>
        /\ \A n \in Runs :
               /\ pc[n] = "idle" /\ local[n] = <<>> /\ order[n] = <<>>
               /\ current[n] = 0 /\ undoAt[n] = 0 /\ unrolled[n] = {}
        /\ working = {}
        /\ answers = {}

TypeInv == TypeOK /\ NoPlanYet

\* The step the rollback is at joins the ones that stay as they were.
Leaves(n) == \E why \in {"error", "unregistered"} : Leave(n, why)

LEMMA LeavesTyped ==
    ASSUME NEW n \in Runs, Leaves(n) \/ UNCHANGED unrolled,
           unrolled \in [Runs -> SUBSET Unrolled], Undoing(n) \in Steps, Steps' = Steps
    PROVE  unrolled' \in [Runs -> SUBSET Unrolled']
<1>1. Unrolled' = Unrolled
  BY DEF Unrolled
<1> QED
  BY <1>1 DEF Leaves, Leave, Unrolled

\* No plan, no run: the initial state is well typed.
LEMMA TypeInitially == Init => TypeInv
  BY OrchestratorBounds
  DEF Init, TypeInv, NoPlanYet, TypeOK, RowsOK, RunsOK, LabelsOK, BusOK, Steps,
      PlanStatus, StepStatus, Active, Over

\* Creating the plan fixes its steps once and for all.
LEMMA TypeCreate ==
    ASSUME TypeInv, NEW def \in Definitions, CreatePlan(def)
    PROVE  TypeInv'
<1> USE DEF CreatePlan, runVars
<1>1. planStatus = "none" /\ planStatus' = "planning"
  OBVIOUS
<1>2. RowsOK'
  BY <1>1 DEF TypeInv, TypeOK, RowsOK, Steps, PlanStatus, StepStatus
<1>3. RunsOK'
  BY <1>1 DEF TypeInv, TypeOK, RunsOK, NoPlanYet, Steps
<1>4. LabelsOK'
  BY <1>1 DEF TypeInv, TypeOK, LabelsOK, NoPlanYet, Active
<1>5. BusOK'
  BY <1>1 DEF TypeInv, TypeOK, BusOK, NoPlanYet, Steps
<1> QED
  BY <1>1, <1>2, <1>3, <1>4, <1>5 DEF TypeInv, TypeOK, NoPlanYet

\* Where the run stands in its rollback.
LEMMA UndoingType ==
    ASSUME TypeInv, NEW n \in Runs, undoAt[n] > 0
    PROVE  /\ undoAt[n] \in 1 .. Len(order[n])
           /\ Undoing(n) \in Steps
  BY DEF TypeInv, TypeOK, RunsOK, LabelsOK, Undoing

\* One step of a run keeps everything in its type.
LEMMA TypeRun ==
    ASSUME TypeInv, NEW n \in Runs, RunStep(n)
    PROVE  TypeInv'
<1>0. pc[n] \in Active
  BY DEF RunStep, Active, Load, MarkRunning, NoRunnable, DispatchStep, StepReplied,
     StepTimesOut, RecordSuccess, RecordFailure, Undo, UndoneAll, UndoReplied,
     UndoTimesOut, RecordCompensated, Finish
<1>1. planStatus # "none" /\ planStatus' # "none"
  <2>1. planStatus # "none"
    BY <1>0 DEF TypeInv, NoPlanYet, Active
  <2> QED
    BY <2>1 DEF RunStep, Load, MarkRunning, NoRunnable, DispatchStep, StepReplied,
     StepTimesOut, RecordSuccess, RecordFailure, Undo, UndoneAll, UndoReplied,
     UndoTimesOut, RecordCompensated, Finish, dbVars
<1>2. NoPlanYet'
  BY <1>1 DEF NoPlanYet
<1> USE DEF TypeInv, TypeOK, Goto, dbVars, busVars, Active, Over
<1>3. CASE Load(n)
  BY <1>2, <1>3 DEF Load, RowsOK, RunsOK, LabelsOK, BusOK, Steps, Calls, Unrolled
<1>4. CASE MarkRunning(n)
  BY <1>2, <1>4 DEF MarkRunning, Runnable, RowsOK, RunsOK, LabelsOK, BusOK, Steps,
     Unrolled, Calls, StepStatus
<1>5. CASE NoRunnable(n)
  <2>1. failed' \in [Runs -> BOOLEAN]
    BY <1>5, Zenon DEF NoRunnable, RunsOK
  <2>2. /\ pc[n] = "picking"
        /\ undoAt' = [undoAt EXCEPT ![n] = Len(order[n])]
        /\ UNCHANGED <<planStatus, stepStatus, deps, captured, local, order, current,
                       unrolled, working, answers, device, faults, crashes>>
    BY <1>5 DEF NoRunnable
  <2>3. pc' = [pc EXCEPT ![n] = "undoing"] \/ pc' = [pc EXCEPT ![n] = "finishing"]
    <3>1. CASE failed'[n]
      BY <1>5, <3>1, Zenon DEF NoRunnable
    <3>2. CASE ~ failed'[n]
      BY <1>5, <3>2, Zenon DEF NoRunnable
    <3> QED
      BY <3>1, <3>2
  <2>4. RowsOK' /\ BusOK'
    BY <2>2 DEF RowsOK, BusOK, Steps, Calls, Unrolled
  <2>5. RunsOK'
    <3>1. pc' \in [Runs -> {"idle"} \union Active \union Over]
      BY <2>3 DEF RunsOK
    <3>2. undoAt' \in [Runs -> Nat]
      BY <2>2 DEF RunsOK
    <3> QED
      BY <2>1, <2>2, <3>1, <3>2, Zenon DEF RunsOK, Steps, Unrolled
  <2>6. LabelsOK'
    BY <2>2, <2>3 DEF RunsOK, LabelsOK, Steps
  <2> QED
    BY <1>2, <2>4, <2>5, <2>6
<1>6. CASE DispatchStep(n)
  <2>1. /\ pc[n] = "dispatching"
        /\ current[n] \in Steps
        /\ UNCHANGED <<planStatus, stepStatus, deps, captured, local, order, current,
                       failed, undoAt, unrolled, answers, device, faults, crashes>>
    BY <1>6 DEF DispatchStep, LabelsOK
  <2>2. pc' = [pc EXCEPT ![n] = "awaiting"] \/ pc' = [pc EXCEPT ![n] = "failing"]
    BY <1>6 DEF DispatchStep
  <2>3. Call(n, current[n], "do") \in Calls
    BY <2>1 DEF Call, Calls
  <2>4. working' \subseteq Calls /\ Steps' = Steps /\ Calls' = Calls
    BY <1>6, <2>1, <2>3 DEF DispatchStep, BusOK, Steps, Calls, Unrolled
  <2>5. RowsOK' /\ BusOK'
    BY <2>1, <2>4 DEF RowsOK, BusOK
  <2>6. RunsOK'
    BY <2>1, <2>2, <2>4 DEF RunsOK, Unrolled
  <2>7. LabelsOK'
    BY <2>1, <2>2, <2>4 DEF LabelsOK, RunsOK
  <2> QED
    BY <1>2, <2>5, <2>6, <2>7
<1>7. CASE StepReplied(n) \/ StepTimesOut(n)
  BY <1>2, <1>7 DEF StepReplied, StepTimesOut, RowsOK, RunsOK, LabelsOK, BusOK, Steps, Calls, Unrolled
<1>8. CASE RecordSuccess(n)
  BY <1>2, <1>8 DEF RecordSuccess, RowsOK, RunsOK, LabelsOK, BusOK, Steps, Calls, Unrolled, StepStatus
<1>9. CASE RecordFailure(n)
  BY <1>2, <1>9 DEF RecordFailure, RowsOK, RunsOK, LabelsOK, BusOK, Steps, Calls, Unrolled, StepStatus
<1>10. CASE Undo(n)
  <2>1. /\ pc[n] = "undoing" /\ undoAt[n] > 0 /\ Undoing(n) \in Steps
        /\ UNCHANGED <<dbVars, captured, local, order, current, failed, answers,
                       device, faults, crashes>>
    BY <1>10, UndoingType DEF Undo
  <2>2. Steps' = Steps /\ Calls' = Calls /\ Call(n, Undoing(n), "undo") \in Calls
    BY <2>1 DEF Steps, Call, Calls
  <2>3. \/ /\ pc' = pc \/ pc' = [pc EXCEPT ![n] = "undoing"]
           /\ undoAt' = [undoAt EXCEPT ![n] = @ - 1]
        \/ /\ pc' = [pc EXCEPT ![n] = "undo_waiting"]
           /\ undoAt' = undoAt
    BY <1>10, <2>1 DEF Undo, GiveUp, PassOver, Leave, Leaves, StepBack
  <2>4. unrolled' \in [Runs -> SUBSET Unrolled']
    BY <1>10, <2>1, <2>2, LeavesTyped DEF Undo, GiveUp, PassOver, Leaves, RunsOK
  <2>5. working' \subseteq Calls
    BY <1>10, <2>2 DEF Undo, BusOK
  <2>6. RowsOK' /\ BusOK'
    BY <2>1, <2>2, <2>5 DEF RowsOK, BusOK
  <2>7. RunsOK'
    <3>1. pc' \in [Runs -> {"idle"} \union Active \union Over]
      BY <2>3 DEF RunsOK
    <3>2. undoAt \in [Runs -> Nat] /\ undoAt[n] - 1 \in Nat
      BY <2>1 DEF RunsOK
    <3>3. undoAt' \in [Runs -> Nat]
      BY <2>3, <3>2
    <3> QED
      BY <2>1, <2>2, <2>4, <3>1, <3>3, Zenon DEF RunsOK
  <2>8. LabelsOK'
    <3>1. ASSUME NEW m \in Runs, m # n
          PROVE  pc'[m] = pc[m] /\ undoAt'[m] = undoAt[m]
      BY <2>3, <3>1 DEF RunsOK
    <3>2. pc'[n] \in {"undoing", "undo_waiting"} /\ undoAt'[n] <= undoAt[n]
      BY <2>1, <2>3 DEF RunsOK
    <3>3. pc'[n] = "undo_waiting" => undoAt'[n] > 0
      BY <2>1, <2>3 DEF RunsOK
    <3>4. undoAt'[n] \in Nat /\ undoAt[n] \in Nat /\ Len(order[n]) \in Nat
      BY <2>7 DEF RunsOK
    <3> QED
      BY <2>1, <2>2, <3>1, <3>2, <3>3, <3>4 DEF LabelsOK
  <2> QED
    BY <1>2, <2>6, <2>7, <2>8
<1>11. CASE UndoneAll(n) \/ UndoReplied(n)
  BY <1>2, <1>11 DEF UndoneAll, UndoReplied, RowsOK, RunsOK, LabelsOK, BusOK, Steps, Calls, Unrolled
<1>12. CASE UndoTimesOut(n)
  BY <1>2, <1>12, UndoingType DEF UndoTimesOut, GiveUp, PassOver, Leave, Leaves, StepBack, RowsOK, RunsOK,
     LabelsOK, BusOK, Steps, Calls, Unrolled
<1>13. CASE RecordCompensated(n)
  <2>1. /\ pc[n] = "undo_saving" /\ undoAt[n] > 0 /\ Undoing(n) \in Steps
        /\ UNCHANGED <<planStatus, deps, captured, order, current, failed, busVars, crashes>>
    BY <1>13, UndoingType DEF RecordCompensated, LabelsOK
  <2>2. Steps' = Steps /\ Calls' = Calls
    BY <2>1 DEF Steps, Calls, Unrolled
  <2>3. /\ pc' = [pc EXCEPT ![n] = "undoing"]
        /\ undoAt' = [undoAt EXCEPT ![n] = @ - 1]
    BY <1>13 DEF RecordCompensated, GiveUp, PassOver, Leave, Leaves, StepBack
  <2>4. /\ stepStatus' \in [Steps -> StepStatus]
        /\ local' \in [Runs -> [Steps -> StepStatus] \union {<<>>}]
        /\ \A m \in Runs : local[m] \in [Steps -> StepStatus] =>
                              local'[m] \in [Steps -> StepStatus]
    <3>1. local[n] \in [Steps -> StepStatus]
      BY <2>1 DEF LabelsOK
    <3>2. \/ /\ stepStatus' = [stepStatus EXCEPT ![Undoing(n)] = "compensated"]
             /\ local' = [local EXCEPT ![n][Undoing(n)] = "compensated"]
          \/ stepStatus' = stepStatus /\ local' = local
      BY <1>13 DEF RecordCompensated
    <3> HIDE DEF TypeInv
    <3>3. /\ stepStatus \in [Steps -> StepStatus]
          /\ local \in [Runs -> [Steps -> StepStatus] \union {<<>>}]
      BY DEF TypeInv, RowsOK, RunsOK
    <3> QED
      BY <2>1, <3>1, <3>2, <3>3 DEF StepStatus
  <2>5. unrolled' \in [Runs -> SUBSET Unrolled']
    <3>1. unrolled \in [Runs -> SUBSET Unrolled]
      BY DEF RunsOK
    <3>2. Leaves(n) \/ UNCHANGED unrolled
      BY <1>13 DEF RecordCompensated, GiveUp, Leaves
    <3> QED
      BY <2>1, <2>2, <3>1, <3>2, LeavesTyped
  <2>6. faults' \in 0 .. MaxFaults
    BY <1>13, OrchestratorBounds DEF RecordCompensated, RowsOK
  <2>7. RowsOK' /\ BusOK'
    BY <2>1, <2>2, <2>4, <2>6 DEF RowsOK, BusOK
  <2>8. RunsOK'
    <3>1. pc' \in [Runs -> {"idle"} \union Active \union Over]
      BY <2>3 DEF RunsOK
    <3>2. undoAt \in [Runs -> Nat] /\ undoAt[n] - 1 \in Nat
      BY <2>1 DEF RunsOK
    <3>3. undoAt' \in [Runs -> Nat]
      BY <2>3, <3>2
    <3> QED
      BY <2>1, <2>2, <2>4, <2>5, <3>1, <3>3, Zenon DEF RunsOK
  <2>9. LabelsOK'
    BY <2>1, <2>2, <2>3, <2>4 DEF LabelsOK, RunsOK
  <2> QED
    BY <1>2, <2>7, <2>8, <2>9
<1>14. CASE Finish(n)
  BY <1>2, <1>14 DEF Finish, RowsOK, RunsOK, LabelsOK, BusOK, Steps, Calls, Unrolled, PlanStatus
<1> QED
  BY <1>3, <1>4, <1>5, <1>6, <1>7, <1>8, <1>9, <1>10, <1>11, <1>12, <1>13, <1>14 DEF RunStep

\* The remaining steps: starting a run, faults, a crash, an agent's answer.
LEMMA TypeOther ==
    ASSUME TypeInv,
           \/ \E n \in Runs : Start(n) \/ DbFault(n)
           \/ \E c \in working, success \in BOOLEAN : AgentEnds(c, success)
           \/ Crash
           \/ Quiet
           \/ UNCHANGED vars
    PROVE  TypeInv'
<1> USE DEF TypeInv, TypeOK, Goto, dbVars, busVars, runVars, Active, Over
<1>1. ASSUME NEW n \in Runs, Start(n) PROVE TypeInv'
  BY <1>1 DEF Start, RowsOK, RunsOK, LabelsOK, BusOK, NoPlanYet, Steps, Calls, Unrolled, PlanStatus
<1>2. ASSUME NEW n \in Runs, DbFault(n) PROVE TypeInv'
  BY <1>2, OrchestratorBounds DEF DbFault, RowsOK, RunsOK, LabelsOK, BusOK, NoPlanYet,
     Steps, Calls, Unrolled
<1>3. ASSUME NEW c \in working, NEW success \in BOOLEAN, AgentEnds(c, success)
      PROVE TypeInv'
  <2>1. c \in Calls /\ c.step \in Steps
    BY DEF BusOK, Calls
  <2>2. BusOK'
    BY <1>3, <2>1 DEF AgentEnds, BusOK, Steps, Calls, Unrolled
  <2>3. planStatus # "none"
    BY DEF NoPlanYet
  <2> QED
    BY <1>3, <2>2, <2>3 DEF AgentEnds, RowsOK, RunsOK, LabelsOK, NoPlanYet, Steps, Unrolled
<1>4. CASE Crash
  BY <1>4, OrchestratorBounds DEF Crash, RowsOK, RunsOK, LabelsOK, BusOK, NoPlanYet,
     Steps, Calls, Unrolled
<1>5. CASE UNCHANGED vars
  BY <1>5 DEF vars, RowsOK, RunsOK, LabelsOK, BusOK, NoPlanYet, Steps, Calls, Unrolled
<1> QED
  BY <1>1, <1>2, <1>3, <1>4, <1>5 DEF Quiet

\* Type correctness, and what each label of a run guarantees about the run's
\* own variables, whatever the other runs, the agents and the faults do.
THEOREM TypeCorrect == Spec => []TypeOK
<1>1. TypeInv /\ [Next]_vars => TypeInv'
  BY TypeCreate, TypeRun, TypeOther DEF Next
<1>2. TypeInv => TypeOK
  BY DEF TypeInv
<1> QED
  BY <1>1, <1>2, TypeInitially, PTL DEF Spec
-----------------------------------------------------------------------------
(* Steps run after the ones they depend on                                 *)

\* Every step of this run's order comes after its dependencies.
OrderOK(n) ==
    \A i \in DOMAIN order[n] : \A d \in deps[order[n][i]] :
        \E j \in DOMAIN order[n] : j < i /\ order[n][j] = d

\* While a step is chosen, dispatched or awaited its dependencies have succeeded.
ChosenOK(n) ==
    pc[n] \in {"dispatching", "awaiting", "succeeding", "failing"} =>
        deps[current[n]] \subseteq ToSet(order[n])

\* The same for the steps agents are busy with.
WorkingOK ==
    \A c \in working : c.kind = "do" => deps[c.step] \subseteq ToSet(order[c.run])

DepInv == (\A n \in Runs : OrderOK(n) /\ ChosenOK(n)) /\ WorkingOK

\* Appending a step keeps the ones before it.
LEMMA AppendKeeps ==
    ASSUME NEW S, NEW q \in Seq(S), NEW e \in S
    PROVE  /\ ToSet(q) \subseteq ToSet(Append(q, e))
           /\ DOMAIN Append(q, e) = DOMAIN q \union {Len(q) + 1}
           /\ \A i \in DOMAIN q : Append(q, e)[i] = q[i]
           /\ Append(q, e)[Len(q) + 1] = e
<1>1. /\ DOMAIN Append(q, e) = DOMAIN q \union {Len(q) + 1}
      /\ \A i \in DOMAIN q : Append(q, e)[i] = q[i]
      /\ Append(q, e)[Len(q) + 1] = e
  OBVIOUS
<1> QED
  BY <1>1, Zenon DEF ToSet

\* The step a run chooses has its dependencies in the run's order already.
LEMMA DepRun ==
    ASSUME TypeInv, DepInv, NEW n \in Runs, RunStep(n)
    PROVE  DepInv'
<1> USE DEF DepInv, Goto, dbVars, busVars
<1>0. pc \in [Runs -> {"idle"} \union Active \union Over]
  BY DEF TypeInv, TypeOK, RunsOK
<1>1. CASE MarkRunning(n)
  <2>1. PICK s \in Runnable(n) : current' = [current EXCEPT ![n] = s]
    BY <1>1 DEF MarkRunning
  <2>2. deps[s] \subseteq ToSet(order[n])
    BY DEF Runnable
  <2>3. /\ UNCHANGED <<deps, order, working>>
        /\ pc' = [pc EXCEPT ![n] = "dispatching"]
        /\ current \in [Runs -> Steps \union {0}]
    BY <1>1 DEF MarkRunning, TypeInv, TypeOK, RunsOK
  <2>4. ASSUME NEW m \in Runs PROVE OrderOK(m)' /\ ChosenOK(m)'
    <3>1. OrderOK(m)'
      BY <2>3 DEF OrderOK
    <3>2. CASE m = n
      BY <1>0, <2>1, <2>2, <2>3, <3>1, <3>2 DEF ChosenOK
    <3>3. CASE m # n
      BY <1>0, <2>1, <2>3, <3>1, <3>3 DEF ChosenOK
    <3> QED
      BY <3>2, <3>3
  <2>5. WorkingOK'
    BY <2>3 DEF WorkingOK
  <2> QED
    BY <2>4, <2>5
<1>2. CASE RecordSuccess(n)
  <2>1. /\ UNCHANGED <<deps, working, current>>
        /\ pc' = [pc EXCEPT ![n] = "picking"]
        /\ order' = [order EXCEPT ![n] = Append(@, current[n])]
        /\ current[n] \in Steps
        /\ deps[current[n]] \subseteq ToSet(order[n])
        /\ order \in [Runs -> Seq(Steps)]
    BY <1>2 DEF RecordSuccess, ChosenOK, TypeInv, TypeOK, LabelsOK, RunsOK
  <2>2. /\ order'[n] = Append(order[n], current[n])
        /\ order[n] \in Seq(Steps)
        /\ \A m \in Runs : m # n => order'[m] = order[m]
    BY <2>1
  <2>3. \A m \in Runs : ToSet(order[m]) \subseteq ToSet(order'[m])
    BY <2>1, <2>2, AppendKeeps
  <2>4. ASSUME NEW m \in Runs PROVE ChosenOK(m)'
    BY <1>0, <2>1, <2>3 DEF ChosenOK
  <2>5. \A m \in Runs : m # n => OrderOK(m)'
    BY <2>1, <2>2 DEF OrderOK
  <2>6. OrderOK(n)'
    <3> DEFINE q == order[n]
               e == current[n]
    <3>1. /\ DOMAIN Append(q, e) = DOMAIN q \union {Len(q) + 1}
          /\ \A i \in DOMAIN q : Append(q, e)[i] = q[i]
          /\ Append(q, e)[Len(q) + 1] = e
      BY <2>1, <2>2, AppendKeeps
    <3>2. ASSUME NEW i \in DOMAIN q, NEW d \in deps[q[i]]
          PROVE  \E j \in DOMAIN Append(q, e) : j < i /\ Append(q, e)[j] = d
      <4>1. PICK j \in DOMAIN q : j < i /\ q[j] = d
        BY Zenon DEF OrderOK
      <4>2. j \in DOMAIN Append(q, e) /\ Append(q, e)[j] = d
        BY <3>1, <4>1, Zenon
      <4> QED
        BY <4>1, <4>2, Zenon
    <3>3. ASSUME NEW d \in deps[e]
          PROVE  \E j \in DOMAIN Append(q, e) :
                     j < Len(q) + 1 /\ Append(q, e)[j] = d
      <4>1. PICK j \in DOMAIN q : q[j] = d
        BY <2>1 DEF ToSet
      <4>2. j < Len(q) + 1
        BY <2>2
      <4> QED
        BY <3>1, <4>1, <4>2
    <3>4. ASSUME NEW i \in DOMAIN Append(q, e), NEW d \in deps[Append(q, e)[i]]
          PROVE  \E j \in DOMAIN Append(q, e) : j < i /\ Append(q, e)[j] = d
      <4>1. CASE i \in DOMAIN q
        BY <3>1, <3>2, <4>1, Zenon
      <4>2. CASE i = Len(q) + 1
        BY <3>1, <3>3, <4>2, Zenon
      <4> QED
        BY <3>1, <4>1, <4>2, Zenon
    <3>5. order'[n] = Append(q, e) /\ deps' = deps
      BY <2>1, <2>2
    <3>6. \A i \in DOMAIN order'[n] : \A d \in deps[order'[n][i]] :
              \E j \in DOMAIN order'[n] : j < i /\ order'[n][j] = d
      <4> HIDE DEF q, e
      <4> QED
        BY <3>4, <3>5
    <3> QED
      BY <3>5, <3>6 DEF OrderOK
  <2>7. WorkingOK'
    BY <2>1, <2>3 DEF WorkingOK, TypeInv, TypeOK, BusOK, Calls
  <2> QED
    BY <2>4, <2>5, <2>6, <2>7
<1>3. CASE DispatchStep(n)
  <2>1. /\ UNCHANGED <<deps, order, current>>
        /\ pc[n] = "dispatching"
        /\ \/ pc' = [pc EXCEPT ![n] = "awaiting"]
           \/ pc' = [pc EXCEPT ![n] = "failing"]
    BY <1>3 DEF DispatchStep
  <2>2. deps[current[n]] \subseteq ToSet(order[n])
    BY <2>1 DEF ChosenOK
  <2>3. WorkingOK'
    BY <1>3, <2>1, <2>2 DEF DispatchStep, WorkingOK, Call
  <2>4. \A m \in Runs : OrderOK(m)' /\ ChosenOK(m)'
    BY <1>0, <2>1, <2>2 DEF OrderOK, ChosenOK
  <2> QED
    BY <2>3, <2>4
<1>4. CASE Undo(n)
  <2>1. /\ UNCHANGED <<deps, order, current>>
        /\ pc[n] = "undoing"
        /\ \/ pc' = pc
           \/ pc' = [pc EXCEPT ![n] = "undo_waiting"]
           \/ pc' = [pc EXCEPT ![n] = "undoing"]
    BY <1>4 DEF Undo, GiveUp, PassOver, Leave, Leaves
  <2>2. WorkingOK'
    BY <1>4, <2>1 DEF Undo, WorkingOK, Call
  <2>3. \A m \in Runs : OrderOK(m)' /\ ChosenOK(m)'
    BY <1>0, <2>1 DEF OrderOK, ChosenOK
  <2> QED
    BY <2>2, <2>3
<1>5. CASE \/ StepReplied(n) \/ StepTimesOut(n) \/ Load(n) \/ UndoneAll(n)
           \/ RecordFailure(n) \/ UndoReplied(n) \/ UndoTimesOut(n)
           \/ RecordCompensated(n) \/ Finish(n) \/ NoRunnable(n)
  <2>1. UNCHANGED <<deps, order, current, working>>
    BY <1>5 DEF StepReplied, StepTimesOut, Load, UndoneAll, RecordFailure, UndoReplied,
       UndoTimesOut, RecordCompensated, Finish, NoRunnable
  <2>2. \/ pc[n] = "awaiting"
        \/ pc'[n] \notin {"dispatching", "awaiting", "succeeding", "failing"}
    BY <1>0, <1>5 DEF StepReplied, StepTimesOut, Load, UndoneAll, RecordFailure,
       UndoReplied, UndoTimesOut, RecordCompensated, Finish, NoRunnable, GiveUp
  <2>3. \A m \in Runs : m # n => pc'[m] = pc[m]
    BY <1>0, <1>5 DEF StepReplied, StepTimesOut, Load, UndoneAll, RecordFailure,
       UndoReplied, UndoTimesOut, RecordCompensated, Finish, NoRunnable, GiveUp
  <2>4. \A m \in Runs : OrderOK(m)' /\ ChosenOK(m)'
    BY <2>1, <2>2, <2>3 DEF OrderOK, ChosenOK
  <2> QED
    BY <2>1, <2>4 DEF WorkingOK
<1> QED
  BY <1>1, <1>2, <1>3, <1>4, <1>5 DEF RunStep

\* No other step touches a run's order or hands a step to an agent.
LEMMA DepOther ==
    ASSUME TypeInv, DepInv,
           \/ \E def \in Definitions : CreatePlan(def)
           \/ \E n \in Runs : Start(n) \/ DbFault(n)
           \/ \E c \in working, success \in BOOLEAN : AgentEnds(c, success)
           \/ Crash
           \/ Quiet
           \/ UNCHANGED vars
    PROVE  DepInv'
<1> USE DEF DepInv, Goto, dbVars, busVars, runVars
<1>1. ASSUME NEW def \in Definitions, CreatePlan(def) PROVE DepInv'
  <2>1. /\ UNCHANGED <<pc, order, working>>
        /\ working = {}
        /\ \A n \in Runs : pc[n] = "idle" /\ order[n] = <<>>
    BY <1>1 DEF CreatePlan, TypeInv, NoPlanYet
  <2> QED
    BY <2>1 DEF OrderOK, ChosenOK, WorkingOK
<1>2. ASSUME NEW n \in Runs, Start(n) \/ DbFault(n) PROVE DepInv'
  <2>1. /\ UNCHANGED <<deps, order, current, working>>
        /\ pc' \in {[pc EXCEPT ![n] = "loading"], [pc EXCEPT ![n] = "aborted"]}
        /\ pc \in [Runs -> {"idle"} \union Active \union Over]
    BY <1>2 DEF Start, DbFault, TypeInv, TypeOK, RunsOK
  <2> QED
    BY <2>1 DEF OrderOK, ChosenOK, WorkingOK
<1>3. ASSUME NEW c \in working, NEW success \in BOOLEAN, AgentEnds(c, success)
      PROVE DepInv'
  <2>1. UNCHANGED <<deps, order, current, pc>> /\ working' \subseteq working
    BY <1>3 DEF AgentEnds
  <2> QED
    BY <2>1 DEF OrderOK, ChosenOK, WorkingOK
<1>4. CASE Crash
  BY <1>4 DEF Crash, OrderOK, ChosenOK, WorkingOK, Active
<1>5. CASE UNCHANGED vars
  BY <1>5 DEF vars, OrderOK, ChosenOK, WorkingOK
<1> QED
  BY <1>1, <1>2, <1>3, <1>4, <1>5 DEF Quiet

\* The invariant of the typing and of the order of the steps.
LEMMA DepInvAlways == Spec => [](TypeInv /\ DepInv)
<1>1. Init => DepInv
  BY DEF Init, DepInv, OrderOK, ChosenOK, WorkingOK
<1>2. TypeInv /\ DepInv /\ [Next]_vars => TypeInv' /\ DepInv'
  BY TypeCreate, TypeRun, TypeOther, DepRun, DepOther DEF Next
<1> QED
  BY <1>1, <1>2, TypeInitially, PTL DEF Spec

\* However many runs of the plan interleave, each hands a step to an agent
\* only after all the step depends on has succeeded in that run.
THEOREM StepsFollowDependencies == Spec => []DependenciesFirst
<1>1. TypeInv /\ DepInv => DependenciesFirst
  BY DEF TypeInv, TypeOK, BusOK, Calls, DepInv, OrderOK, WorkingOK, DependenciesFirst
<1> QED
  BY <1>1, DepInvAlways, PTL
-----------------------------------------------------------------------------
(* The rollback leaves no step out                                         *)

RollingBack == {"undoing", "undo_waiting", "undo_saving"}
Leaving == {"finishing", "returned"}

\* Nothing is left to do about this step in the run's rollback.
Settled(n, s) == s \in Compensable => Dealt(n, s)

\* Leaving a step settles it and unsettles none.
LEMMA LeaveSettles ==
    ASSUME unrolled \in [Runs -> SUBSET Unrolled], NEW n \in Runs, Leaves(n), UNCHANGED local,
           NEW e, e = Undoing(n)
    PROVE  /\ Settled(n, e)'
           /\ \A s : Settled(n, s) => Settled(n, s)'
           /\ \A m \in Runs : m # n => unrolled'[m] = unrolled[m]
<1>1. PICK why : unrolled' = [unrolled EXCEPT ![n] = @ \union {[step |-> e, why |-> why]}]
  BY DEF Leaves, Leave
<1>2. unrolled'[n] = unrolled[n] \union {[step |-> e, why |-> why]}
  BY <1>1
<1>3. [step |-> e, why |-> why].step = e
  OBVIOUS
<1> QED
  BY <1>1, <1>2, <1>3 DEF Settled, Dealt

\* The rollback walks down the run's order and leaves nothing above it.
AboveDealt(n) ==
    \A i \in DOMAIN order[n] : i > undoAt[n] => Settled(n, order[n][i])

RollOK(n) ==
    /\ failed[n] => pc[n] \in RollingBack \union Leaving \union Over
    /\ pc[n] \in RollingBack => AboveDealt(n)
    /\ pc[n] \in Leaving /\ failed[n] => AboveDealt(n) /\ undoAt[n] = 0

RollInv == \A n \in Runs : RollOK(n)

\* What RollOK(m) says does not change when the run's own variables do not.
LEMMA RollFrame ==
    ASSUME NEW m \in Runs, RollOK(m), pc'[m] = pc[m], failed'[m] = failed[m],
           order'[m] = order[m], local'[m] = local[m], undoAt'[m] = undoAt[m],
           unrolled'[m] = unrolled[m]
    PROVE  RollOK(m)'
  BY DEF RollOK, AboveDealt, Settled, Dealt

\* One step down: the step passed has been dealt with.
LEMMA StepDown ==
    ASSUME TypeInv, NEW n \in Runs, AboveDealt(n), undoAt[n] > 0,
           undoAt' = [undoAt EXCEPT ![n] = @ - 1], order' = order,
           NEW e, e = Undoing(n), Settled(n, e)',
           \A s \in Steps : Settled(n, s) => Settled(n, s)'
    PROVE  AboveDealt(n)'
<1>1. /\ undoAt[n] \in Nat /\ undoAt'[n] = undoAt[n] - 1
      /\ order[n] \in Seq(Steps)
  BY DEF TypeInv, TypeOK, RunsOK
<1> SUFFICES ASSUME NEW i \in DOMAIN order[n], i > undoAt'[n]
             PROVE  Settled(n, order[n][i])'
  BY DEF AboveDealt
<1>2. i \in Nat /\ order[n][i] \in Steps
  BY <1>1
<1>3. CASE i > undoAt[n]
  BY <1>2, <1>3 DEF AboveDealt
<1>4. CASE i = undoAt[n]
  BY <1>4 DEF Undoing
<1> QED
  BY <1>1, <1>2, <1>3, <1>4

\* Each step of a run keeps what the rollback has covered.
LEMMA RollRun ==
    ASSUME TypeInv, RollInv, NEW n \in Runs, RunStep(n)
    PROVE  RollInv'
<1> USE DEF Goto, dbVars, busVars
<1>0. /\ pc \in [Runs -> {"idle"} \union Active \union Over]
      /\ local \in [Runs -> [Steps -> StepStatus] \union {<<>>}]
      /\ failed \in [Runs -> BOOLEAN]
      /\ order \in [Runs -> Seq(Steps)]
      /\ undoAt \in [Runs -> Nat]
      /\ unrolled \in [Runs -> SUBSET Unrolled]
      /\ RollOK(n)
  BY DEF TypeInv, TypeOK, RunsOK, RollInv
<1> DEFINE Others == \A m \in Runs : m # n =>
               /\ pc'[m] = pc[m] /\ failed'[m] = failed[m] /\ order'[m] = order[m]
               /\ local'[m] = local[m] /\ undoAt'[m] = undoAt[m]
               /\ unrolled'[m] = unrolled[m]
<1>1. ASSUME Others, RollOK(n)' PROVE RollInv'
  <2>1. ASSUME NEW m \in Runs, m # n PROVE RollOK(m)'
    BY <1>1, <2>1, RollFrame DEF RollInv
  <2> QED
    BY <1>1, <2>1 DEF RollInv
<1>2. CASE \/ Load(n) \/ MarkRunning(n) \/ DispatchStep(n) \/ StepReplied(n)
           \/ StepTimesOut(n) \/ RecordSuccess(n)
  <2>1. /\ UNCHANGED <<failed, undoAt, unrolled>>
        /\ pc[n] \in {"loading", "picking", "dispatching", "awaiting", "succeeding"}
        /\ \E label \in {"finishing", "picking", "dispatching", "awaiting", "failing",
                         "succeeding"} : pc' = [pc EXCEPT ![n] = label]
    BY <1>2 DEF Load, MarkRunning, DispatchStep, StepReplied, StepTimesOut, RecordSuccess
  <2>2. \A m \in Runs : m # n => local'[m] = local[m] /\ order'[m] = order[m]
    BY <1>0, <1>2 DEF Load, MarkRunning, DispatchStep, StepReplied, StepTimesOut,
       RecordSuccess
  <2>3. ~ failed[n]
    BY <1>0, <2>1 DEF RollOK, RollingBack, Leaving, Over
  <2>4. RollOK(n)'
    BY <1>0, <2>1, <2>3 DEF RollOK, RollingBack, Leaving, Over
  <2>5. Others
    BY <1>0, <2>1, <2>2
  <2> QED
    BY <1>1, <2>4, <2>5
<1>3. CASE NoRunnable(n) \/ RecordFailure(n)
  <2>1. /\ undoAt' = [undoAt EXCEPT ![n] = Len(order[n])]
        /\ UNCHANGED <<order, unrolled>>
        /\ \E e \in BOOLEAN : failed' = [failed EXCEPT ![n] = e]
        /\ pc[n] \in {"picking", "failing"}
    BY <1>3, Zenon DEF NoRunnable, RecordFailure
  <2>2. \/ failed'[n] /\ pc' = [pc EXCEPT ![n] = "undoing"]
        \/ ~ failed'[n] /\ pc' = [pc EXCEPT ![n] = "finishing"]
    <3>1. CASE NoRunnable(n)
      BY <3>1, Zenon DEF NoRunnable
    <3>2. CASE RecordFailure(n)
      BY <1>0, <3>2, Zenon DEF RecordFailure
    <3> QED
      BY <1>3, <3>1, <3>2
  <2>3. \A m \in Runs : m # n => local'[m] = local[m]
    BY <1>0, <1>3 DEF NoRunnable, RecordFailure
  <2>4. AboveDealt(n)'
    BY <1>0, <2>1 DEF AboveDealt
  <2>5. pc'[n] = "undoing" \/ (~ failed'[n] /\ pc'[n] = "finishing")
    BY <1>0, <2>2
  <2>6. RollOK(n)'
    BY <2>4, <2>5 DEF RollOK, RollingBack, Leaving, Over
  <2>7. \A m \in Runs : m # n => failed'[m] = failed[m]
    BY <1>0, <2>1, Zenon
  <2>8. \A m \in Runs : m # n => pc'[m] = pc[m] /\ undoAt'[m] = undoAt[m]
    BY <1>0, <2>1, <2>2
  <2> QED
    BY <1>1, <2>1, <2>3, <2>6, <2>7, <2>8
<1>4. CASE UndoReplied(n) \/ UndoneAll(n)
  <2>1. /\ UNCHANGED <<failed, undoAt, unrolled, order, local>>
        /\ pc[n] \in RollingBack
        /\ \/ pc' = [pc EXCEPT ![n] = "undo_saving"]
           \/ pc' = [pc EXCEPT ![n] = "finishing"] /\ undoAt[n] = 0
    BY <1>4 DEF UndoReplied, UndoneAll, RollingBack
  <2>2. AboveDealt(n)'
    BY <1>0, <2>1 DEF RollOK, AboveDealt, Settled, Dealt
  <2>3. RollOK(n)'
    BY <1>0, <2>1, <2>2 DEF RollOK, RollingBack, Leaving, Over
  <2>4. Others
    BY <1>0, <2>1
  <2> QED
    BY <1>1, <2>3, <2>4
<1>5. CASE Undo(n) \/ UndoTimesOut(n) \/ RecordCompensated(n)
  <2>1. /\ pc[n] \in RollingBack /\ undoAt[n] > 0
        /\ UNCHANGED <<failed, order>>
        /\ AboveDealt(n)
        /\ Undoing(n) \in Steps
    <3>1. pc[n] \in RollingBack /\ undoAt[n] > 0 /\ UNCHANGED <<failed, order>>
      BY <1>5 DEF Undo, UndoTimesOut, RecordCompensated, RollingBack, TypeInv, TypeOK,
         LabelsOK
    <3> QED
      BY <1>0, <3>1, UndoingType DEF RollOK
  <2>2. \E label \in RollingBack : pc' = [pc EXCEPT ![n] = label]
    <3>1. pc = [pc EXCEPT ![n] = pc[n]]
      BY <1>0
    <3> QED
      BY <1>5, <2>1, <3>1 DEF Undo, UndoTimesOut, RecordCompensated, GiveUp, PassOver, Leave, Leaves, RollingBack
  <2>3. CASE UNCHANGED <<undoAt, unrolled, local>>
    <3>1. AboveDealt(n)'
      BY <2>1, <2>3 DEF AboveDealt, Settled, Dealt
    <3>2. RollOK(n)'
      BY <1>0, <2>1, <2>2, <3>1 DEF RollOK, RollingBack, Leaving, Over
    <3>3. Others
      BY <1>0, <2>1, <2>2, <2>3
    <3> QED
      BY <1>1, <3>2, <3>3
  <2>4. CASE undoAt' = [undoAt EXCEPT ![n] = @ - 1]
    <3>1. \/ UNCHANGED <<local, unrolled>> /\ Undoing(n) \notin Compensable
          \/ /\ UNCHANGED local
             /\ Leaves(n)
          \/ /\ UNCHANGED unrolled
             /\ local' = [local EXCEPT ![n][Undoing(n)] = "compensated"]
      <4>1. undoAt' # undoAt
        BY <1>0, <2>1, <2>4
      <4> QED
        BY <1>5, <4>1 DEF Undo, UndoTimesOut, RecordCompensated, GiveUp, PassOver, Leave, Leaves
    <3>2. PICK e : e = Undoing(n)
      OBVIOUS
    <3>3. local[n] \in [Steps -> StepStatus]
      BY <2>1 DEF TypeInv, TypeOK, LabelsOK, RollingBack, Active
    <3>4. /\ Settled(n, e)'
          /\ \A s \in Steps : Settled(n, s) => Settled(n, s)'
          /\ \A m \in Runs : m # n => unrolled'[m] = unrolled[m]
      <4>1. CASE UNCHANGED local /\ Leaves(n)
        BY <1>0, <3>2, <4>1, LeaveSettles
      <4>2. CASE ~ (UNCHANGED local /\ Leaves(n))
        BY <1>0, <2>1, <3>1, <3>2, <3>3, <4>2 DEF Settled, Dealt
      <4> QED
        BY <4>1, <4>2
    <3>6. AboveDealt(n)'
      BY <2>1, <2>4, <3>2, <3>4, StepDown
    <3>7. RollOK(n)'
      BY <1>0, <2>1, <2>2, <3>6 DEF RollOK, RollingBack, Leaving, Over
    <3>8. Others
      BY <1>0, <2>1, <2>2, <2>4, <3>1, <3>4
    <3> QED
      BY <1>1, <3>7, <3>8
  <2> QED
    BY <1>5, <2>3, <2>4 DEF Undo, UndoTimesOut, RecordCompensated, GiveUp, PassOver, Leave, Leaves, StepBack
<1>6. CASE Finish(n)
  <2>1. /\ UNCHANGED <<failed, undoAt, unrolled, order, local>>
        /\ pc[n] = "finishing" /\ pc' = [pc EXCEPT ![n] = "returned"]
    BY <1>6 DEF Finish
  <2>2. AboveDealt(n)' = AboveDealt(n)
    BY <2>1 DEF AboveDealt, Settled, Dealt
  <2>3. RollOK(n)'
    BY <1>0, <2>1, <2>2 DEF RollOK, RollingBack, Leaving, Over
  <2>4. Others
    BY <1>0, <2>1
  <2> QED
    BY <1>1, <2>3, <2>4
<1> QED
  BY <1>2, <1>3, <1>4, <1>5, <1>6 DEF RunStep

\* Starting, faults, crashes and agents do not touch a rollback.
LEMMA RollOther ==
    ASSUME TypeInv, RollInv,
           \/ \E def \in Definitions : CreatePlan(def)
           \/ \E n \in Runs : Start(n) \/ DbFault(n)
           \/ \E c \in working, success \in BOOLEAN : AgentEnds(c, success)
           \/ Crash
           \/ Quiet
           \/ UNCHANGED vars
    PROVE  RollInv'
<1> SUFFICES ASSUME NEW m \in Runs PROVE RollOK(m)'
  BY DEF RollInv
<1>0. /\ pc \in [Runs -> {"idle"} \union Active \union Over]
      /\ RollOK(m)
  BY DEF TypeInv, TypeOK, RunsOK, RollInv
<1>1. UNCHANGED <<local, order, failed, undoAt, unrolled>>
  BY DEF CreatePlan, Start, DbFault, AgentEnds, Crash, Quiet, vars, runVars, dbVars
<1>2. \/ pc'[m] = pc[m]
      \/ pc'[m] = "aborted"
      \/ pc[m] = "idle" /\ pc'[m] = "loading"
  BY <1>0 DEF CreatePlan, Start, DbFault, AgentEnds, Crash, Quiet, vars, runVars, dbVars,
     Goto
<1>3. CASE pc'[m] = pc[m]
  BY <1>0, <1>1, <1>3, RollFrame
<1>4. CASE pc'[m] = "aborted"
  BY <1>4 DEF RollOK, RollingBack, Leaving, Over
<1>5. CASE pc[m] = "idle" /\ pc'[m] = "loading"
  BY <1>0, <1>1, <1>5 DEF RollOK, RollingBack, Leaving, Over
<1> QED
  BY <1>2, <1>3, <1>4, <1>5

\* When a failed run returns, every step of it that has a compensator was
\* compensated, or its attempt failed, or its capability was registered no more
\* when the rollback came to it, whatever happened along the way.
THEOREM RollbackLeavesNothingOut == Spec => []RollbackIsComplete
<1>1. Init => RollInv
  BY DEF Init, RollInv, RollOK, RollingBack, Leaving
<1>2. TypeInv /\ RollInv /\ [Next]_vars => TypeInv' /\ RollInv'
  BY TypeCreate, TypeRun, TypeOther, RollRun, RollOther DEF Next
<1>3. TypeInv /\ RollInv => RollbackIsComplete
  <2> SUFFICES ASSUME TypeInv, RollInv, NEW n \in Runs, pc[n] = "returned", failed[n],
                      NEW i \in DOMAIN order[n], order[n][i] \in Compensable
               PROVE  Dealt(n, order[n][i])
    BY DEF RollbackIsComplete, ToSet
  <2>1. order[n] \in Seq(Steps) /\ AboveDealt(n) /\ undoAt[n] = 0
    BY DEF RollInv, RollOK, Leaving, TypeInv, TypeOK, RunsOK
  <2>2. i > undoAt[n]
    BY <2>1
  <2> QED
    BY <2>1, <2>2 DEF AboveDealt, Settled, Dealt
<1> QED
  BY <1>1, <1>2, <1>3, TypeInitially, PTL DEF Spec
-----------------------------------------------------------------------------
(* The rollback runs against the dependencies                              *)

Chosen == {"dispatching", "awaiting", "succeeding", "failing"}

\* A run's order lists different steps, each done in this run; the step it is
\* busy with is not among them.
OwnOK(n) ==
    /\ pc[n] \in {"idle", "loading"} => order[n] = <<>>
    /\ \A i, j \in DOMAIN order[n] : order[n][i] = order[n][j] => i = j
    /\ \A i \in DOMAIN order[n] :
           local[n][order[n][i]] \in {"succeeded", "compensated"}
    /\ pc[n] \in Chosen => local[n][current[n]] = "running"

\* A compensator on the bus is for a step of the run's order, and everything
\* after that step has been dealt with; the order is final by then.
UndoCallOK(c) ==
    c.kind = "undo" =>
        /\ pc[c.run] \in RollingBack \union Leaving \union Over
        /\ \E i \in DOMAIN order[c.run] :
               /\ order[c.run][i] = c.step
               /\ \A k \in DOMAIN order[c.run] :
                      k > i => Settled(c.run, order[c.run][k])

OwnInv == \A n \in Runs : OwnOK(n)
UndoInv == \A c \in working : UndoCallOK(c)

\* A step of one run changes nothing that belongs to another, and no plan.
LEMMA OthersKeep ==
    ASSUME TypeInv, NEW n \in Runs, RunStep(n)
    PROVE  /\ deps' = deps
           /\ \A m \in Runs : m # n =>
                  /\ pc'[m] = pc[m] /\ local'[m] = local[m] /\ order'[m] = order[m]
                  /\ current'[m] = current[m] /\ undoAt'[m] = undoAt[m]
                  /\ unrolled'[m] = unrolled[m]
<1>0. /\ pc \in [Runs -> {"idle"} \union Active \union Over]
      /\ local \in [Runs -> [Steps -> StepStatus] \union {<<>>}]
      /\ order \in [Runs -> Seq(Steps)]
      /\ current \in [Runs -> Steps \union {0}]
      /\ undoAt \in [Runs -> Nat]
      /\ unrolled \in [Runs -> SUBSET Unrolled]
  BY DEF TypeInv, TypeOK, RunsOK
<1> USE DEF Goto, dbVars, busVars
<1>1. CASE Load(n) \/ MarkRunning(n) \/ NoRunnable(n) \/ DispatchStep(n)
  BY <1>0, <1>1 DEF Load, MarkRunning, NoRunnable, DispatchStep
<1>2. CASE StepReplied(n) \/ StepTimesOut(n) \/ RecordSuccess(n) \/ RecordFailure(n)
  BY <1>0, <1>2 DEF StepReplied, StepTimesOut, RecordSuccess, RecordFailure
<1>3. CASE Undo(n) \/ UndoneAll(n) \/ UndoReplied(n) \/ UndoTimesOut(n)
  BY <1>0, <1>3 DEF Undo, UndoneAll, UndoReplied, UndoTimesOut, GiveUp, PassOver, Leave, Leaves, StepBack
<1>4. CASE RecordCompensated(n) \/ Finish(n)
  BY <1>0, <1>4 DEF RecordCompensated, Finish, GiveUp, PassOver, Leave, Leaves, StepBack
<1> QED
  BY <1>1, <1>2, <1>3, <1>4 DEF RunStep

\* Once a run has left the forward pass its order is final, and a step that
\* was dealt with stays so.
LEMMA BackwardOnly ==
    ASSUME TypeInv, NEW n \in Runs, RunStep(n), pc[n] \in RollingBack \union Leaving
    PROVE  /\ pc'[n] \in RollingBack \union Leaving
           /\ order' = order
           /\ \A s \in Steps : Settled(n, s) => Settled(n, s)'
<1>0. /\ pc \in [Runs -> {"idle"} \union Active \union Over]
      /\ local \in [Runs -> [Steps -> StepStatus] \union {<<>>}]
      /\ unrolled \in [Runs -> SUBSET Unrolled]
  BY DEF TypeInv, TypeOK, RunsOK
<1> USE DEF Goto, dbVars, busVars, RollingBack, Leaving
<1>1. CASE Undo(n)
  <2>1. /\ order' = order /\ local' = local
        /\ \/ unrolled' = unrolled
           \/ Leaves(n)
        /\ pc'[n] \in RollingBack
    BY <1>0, <1>1 DEF Undo, GiveUp, PassOver, Leave, Leaves
  <2> QED
    BY <1>0, <2>1, LeaveSettles DEF Settled, Dealt
<1>2. CASE UndoneAll(n) \/ UndoReplied(n) \/ Finish(n)
  BY <1>0, <1>2 DEF UndoneAll, UndoReplied, Finish, Settled, Dealt
<1>3. CASE UndoTimesOut(n)
  <2>1. /\ order' = order /\ local' = local
        /\ Leaves(n)
        /\ pc'[n] \in RollingBack
    BY <1>0, <1>3 DEF UndoTimesOut, GiveUp, PassOver, Leave, Leaves
  <2> QED
    BY <1>0, <2>1, LeaveSettles
<1>4. CASE RecordCompensated(n)
  <2>1. local[n] \in [Steps -> StepStatus]
    BY <1>4 DEF RecordCompensated, TypeInv, TypeOK, LabelsOK, Active
  <2>2. /\ order' = order /\ pc'[n] \in RollingBack
        /\ \/ unrolled' = unrolled /\ local' = [local EXCEPT ![n][Undoing(n)] = "compensated"]
           \/ /\ Leaves(n)
              /\ local' = local
    BY <1>0, <1>4 DEF RecordCompensated, GiveUp, PassOver, Leave, Leaves
  <2> QED
    BY <1>0, <2>1, <2>2, LeaveSettles DEF Settled, Dealt
<1>5. ~ (\/ Load(n) \/ MarkRunning(n) \/ NoRunnable(n) \/ DispatchStep(n)
         \/ StepReplied(n) \/ StepTimesOut(n) \/ RecordSuccess(n) \/ RecordFailure(n))
  BY DEF Load, MarkRunning, NoRunnable, DispatchStep, StepReplied, StepTimesOut,
     RecordSuccess, RecordFailure
<1> QED
  BY <1>1, <1>2, <1>3, <1>4, <1>5 DEF RunStep

\* No step enters a run's order twice.
LEMMA OwnRun ==
    ASSUME TypeInv, OwnInv, NEW n \in Runs, RunStep(n)
    PROVE  OwnInv'
<1>0. /\ pc \in [Runs -> {"idle"} \union Active \union Over]
      /\ local \in [Runs -> [Steps -> StepStatus] \union {<<>>}]
      /\ order \in [Runs -> Seq(Steps)]
      /\ current \in [Runs -> Steps \union {0}]
      /\ OwnOK(n)
  BY DEF TypeInv, TypeOK, RunsOK, OwnInv
<1>1. ASSUME NEW m \in Runs, m # n PROVE OwnOK(m)'
  BY <1>1, OthersKeep DEF OwnInv, OwnOK
<1> SUFFICES OwnOK(n)'
  BY <1>1 DEF OwnInv
<1> USE DEF Goto, dbVars, busVars, Chosen
<1>2. CASE Load(n)
  BY <1>0, <1>2 DEF Load, OwnOK
<1>3. CASE MarkRunning(n)
  <2>1. PICK s \in Runnable(n) :
            /\ local' = [local EXCEPT ![n][s] = "running"]
            /\ current' = [current EXCEPT ![n] = s]
    BY <1>3 DEF MarkRunning
  <2>2. s \in Steps /\ local[n][s] = "pending"
    BY DEF Runnable
  <2>3. local[n] \in [Steps -> StepStatus] /\ order[n] \in Seq(Steps)
    BY <1>0, <1>3 DEF MarkRunning, TypeInv, TypeOK, LabelsOK, Active
  <2>4. /\ local'[n] = [local[n] EXCEPT ![s] = "running"]
        /\ current'[n] = s
        /\ pc'[n] = "dispatching"
        /\ order' = order
    BY <1>0, <1>3, <2>1 DEF MarkRunning
  <2> QED
    BY <1>0, <2>2, <2>3, <2>4 DEF OwnOK
<1>4. CASE RecordSuccess(n)
  <2>1. /\ local[n] \in [Steps -> StepStatus] /\ order[n] \in Seq(Steps)
        /\ current[n] \in Steps
        /\ local[n][current[n]] = "running"
    BY <1>0, <1>4 DEF RecordSuccess, TypeInv, TypeOK, LabelsOK, Active, OwnOK
  <2>2. /\ local'[n] = [local[n] EXCEPT ![current[n]] = "succeeded"]
        /\ order'[n] = Append(order[n], current[n])
        /\ pc'[n] = "picking"
    BY <1>0, <1>4 DEF RecordSuccess
  <2> DEFINE q == order[n]
             e == current[n]
  <2>3. /\ DOMAIN Append(q, e) = DOMAIN q \union {Len(q) + 1}
        /\ \A i \in DOMAIN q : Append(q, e)[i] = q[i] /\ q[i] \in Steps
        /\ Append(q, e)[Len(q) + 1] = e
    BY <2>1, AppendKeeps
  <2>4. \A i \in DOMAIN q : q[i] # e
    BY <1>0, <2>1 DEF OwnOK
  <2>5. \A i, j \in DOMAIN Append(q, e) : Append(q, e)[i] = Append(q, e)[j] => i = j
    <3> HIDE DEF q, e
    <3>1. \A i, j \in DOMAIN q : q[i] = q[j] => i = j
      BY <1>0 DEF OwnOK, q
    <3> QED
      BY <2>3, <2>4, <3>1
  <2>6. \A i \in DOMAIN Append(q, e) :
            local'[n][Append(q, e)[i]] \in {"succeeded", "compensated"}
    <3>1. \A i \in DOMAIN q : local[n][q[i]] \in {"succeeded", "compensated"}
      BY <1>0 DEF OwnOK
    <3>2. e \in Steps
      BY <2>1
    <3> HIDE DEF q, e
    <3>3. local'[n] = [local[n] EXCEPT ![e] = "succeeded"]
      BY <2>2 DEF e
    <3> QED
      BY <2>1, <2>3, <3>1, <3>2, <3>3
  <2> QED
    BY <2>2, <2>5, <2>6 DEF OwnOK
<1>5. CASE RecordFailure(n)
  <2>1. /\ local[n] \in [Steps -> StepStatus] /\ order[n] \in Seq(Steps)
        /\ current[n] \in Steps
        /\ local[n][current[n]] = "running"
    BY <1>0, <1>5 DEF RecordFailure, TypeInv, TypeOK, LabelsOK, Active, OwnOK
  <2>2. /\ local'[n] = [local[n] EXCEPT ![current[n]] = "failed"]
        /\ order'[n] = order[n]
        /\ pc'[n] = "undoing"
    BY <1>0, <1>5 DEF RecordFailure
  <2> QED
    BY <1>0, <2>1, <2>2 DEF OwnOK
<1>6. CASE DispatchStep(n) \/ StepReplied(n) \/ StepTimesOut(n)
  <2>1. UNCHANGED <<local, order, current>>
    BY <1>6 DEF DispatchStep, StepReplied, StepTimesOut
  <2>2. pc[n] \in Chosen /\ pc'[n] \in Chosen
    BY <1>0, <1>6 DEF DispatchStep, StepReplied, StepTimesOut
  <2> QED
    BY <1>0, <2>1, <2>2 DEF OwnOK
<1>7. CASE RecordCompensated(n)
  <2>1. /\ local[n] \in [Steps -> StepStatus] /\ order[n] \in Seq(Steps)
        /\ order' = order /\ pc'[n] = "undoing"
    BY <1>0, <1>7 DEF RecordCompensated, GiveUp, PassOver, Leave, Leaves, TypeInv, TypeOK, LabelsOK, Active
  <2>2. Undoing(n) \in Steps
    BY <1>7, UndoingType DEF RecordCompensated, TypeInv, TypeOK, LabelsOK
  <2>3. \/ local'[n] = [local[n] EXCEPT ![Undoing(n)] = "compensated"]
        \/ local'[n] = local[n]
    BY <1>0, <1>7 DEF RecordCompensated
  <2>4. \A i \in DOMAIN order[n] : order[n][i] \in Steps
    BY <2>1
  <2>5. \A i \in DOMAIN order[n] :
            local'[n][order[n][i]] \in {"succeeded", "compensated"}
    <3>1. \A i \in DOMAIN order[n] :
              local[n][order[n][i]] \in {"succeeded", "compensated"}
      BY <1>0 DEF OwnOK
    <3>2. \A s \in Steps : local'[n][s] \in {local[n][s], "compensated"}
      BY <2>1, <2>2, <2>3
    <3> QED
      BY <2>4, <3>1, <3>2
  <2> QED
    BY <1>0, <2>1, <2>5 DEF OwnOK
<1>8. CASE \/ NoRunnable(n) \/ Undo(n) \/ UndoneAll(n) \/ UndoReplied(n)
           \/ UndoTimesOut(n) \/ Finish(n)
  <2>1. UNCHANGED <<local, order>>
    BY <1>8 DEF NoRunnable, Undo, UndoneAll, UndoReplied, UndoTimesOut, Finish
  <2>2. pc'[n] \in RollingBack \union Leaving
    <3>1. CASE NoRunnable(n)
      BY <1>0, <3>1 DEF NoRunnable, RollingBack, Leaving
    <3>2. CASE Undo(n) \/ UndoneAll(n) \/ UndoReplied(n) \/ UndoTimesOut(n) \/ Finish(n)
      BY <1>0, <3>2 DEF Undo, UndoneAll, UndoReplied, UndoTimesOut, Finish, GiveUp, PassOver, Leave, Leaves,
         RollingBack, Leaving
    <3> QED
      BY <1>8, <3>1, <3>2
  <2> QED
    BY <1>0, <2>1, <2>2 DEF OwnOK, RollingBack, Leaving
<1> QED
  BY <1>2, <1>3, <1>4, <1>5, <1>6, <1>7, <1>8 DEF RunStep

\* A compensator is sent for the step the rollback has come to, and what it
\* has passed stays dealt with.
LEMMA UndoRun ==
    ASSUME TypeInv, RollInv, UndoInv, NEW n \in Runs, RunStep(n)
    PROVE  UndoInv'
<1> SUFFICES ASSUME NEW c \in working', c.kind = "undo" PROVE UndoCallOK(c)'
  BY DEF UndoInv, UndoCallOK
<1>0. /\ working \subseteq Calls
      /\ order \in [Runs -> Seq(Steps)]
      /\ pc[n] \in Active
  <2>1. pc[n] \in Active
    BY DEF RunStep, Active, Load, MarkRunning, NoRunnable, DispatchStep, StepReplied,
       StepTimesOut, RecordSuccess, RecordFailure, Undo, UndoneAll, UndoReplied,
       UndoTimesOut, RecordCompensated, Finish
  <2> QED
    BY <2>1 DEF TypeInv, TypeOK, BusOK, RunsOK
<1>1. \/ c \in working
      \/ pc[n] = "undoing" /\ undoAt[n] > 0 /\ c = Call(n, Undoing(n), "undo")
  BY DEF RunStep, busVars, Load, MarkRunning, NoRunnable, DispatchStep, StepReplied,
     StepTimesOut, RecordSuccess, RecordFailure, Undo, UndoneAll, UndoReplied,
     UndoTimesOut, RecordCompensated, Finish, Call
<1>2. CASE c \in working /\ c.run # n
  <2>1. /\ c.run \in Runs /\ UndoCallOK(c)
        /\ pc'[c.run] = pc[c.run] /\ order'[c.run] = order[c.run]
        /\ local'[c.run] = local[c.run] /\ unrolled'[c.run] = unrolled[c.run]
    BY <1>0, <1>2, OthersKeep DEF Calls, UndoInv
  <2>2. \A s : Settled(c.run, s) => Settled(c.run, s)'
    BY <2>1 DEF Settled, Dealt
  <2> QED
    BY <2>1, <2>2 DEF UndoCallOK
<1>3. CASE c \in working /\ c.run = n
  <2>1. pc[n] \in RollingBack \union Leaving
    BY <1>0, <1>3 DEF UndoInv, UndoCallOK, Active, Over
  <2>2. /\ pc'[n] \in RollingBack \union Leaving /\ order' = order
        /\ \A s \in Steps : Settled(n, s) => Settled(n, s)'
    BY <2>1, BackwardOnly
  <2>3. PICK i \in DOMAIN order[n] :
            /\ order[n][i] = c.step
            /\ \A k \in DOMAIN order[n] : k > i => Settled(n, order[n][k])
    BY <1>3 DEF UndoInv, UndoCallOK
  <2>4. \A k \in DOMAIN order[n] : order[n][k] \in Steps
    BY <1>0
  <2>5. \A k \in DOMAIN order[n] : k > i => Settled(n, order[n][k])'
    BY <2>2, <2>3, <2>4
  <2> QED
    BY <1>3, <2>2, <2>3, <2>5 DEF UndoCallOK
<1>4. CASE pc[n] = "undoing" /\ undoAt[n] > 0 /\ c = Call(n, Undoing(n), "undo")
  <2>1. pc[n] \in RollingBack /\ AboveDealt(n)
    BY <1>4 DEF RollInv, RollOK, RollingBack
  <2>2. /\ pc'[n] \in RollingBack \union Leaving /\ order' = order
        /\ \A s \in Steps : Settled(n, s) => Settled(n, s)'
    BY <2>1, BackwardOnly
  <2>3. undoAt[n] \in DOMAIN order[n] /\ c.run = n /\ c.step = order[n][undoAt[n]]
    BY <1>0, <1>4, UndoingType DEF Call, Undoing
  <2>4. \A k \in DOMAIN order[n] : order[n][k] \in Steps
    BY <1>0
  <2>5. \A k \in DOMAIN order[n] : k > undoAt[n] => Settled(n, order[n][k])'
    BY <2>1, <2>2, <2>4 DEF AboveDealt
  <2> QED
    BY <2>2, <2>3, <2>5 DEF UndoCallOK
<1> QED
  BY <1>1, <1>2, <1>3, <1>4

\* No other step changes an order or sends a compensator.
LEMMA UndoOther ==
    ASSUME TypeInv, OwnInv, UndoInv,
           \/ \E def \in Definitions : CreatePlan(def)
           \/ \E n \in Runs : Start(n) \/ DbFault(n)
           \/ \E c \in working, success \in BOOLEAN : AgentEnds(c, success)
           \/ Crash
           \/ Quiet
           \/ UNCHANGED vars
    PROVE  OwnInv' /\ UndoInv'
<1>0. /\ pc \in [Runs -> {"idle"} \union Active \union Over]
      /\ working \subseteq Calls
  BY DEF TypeInv, TypeOK, RunsOK, BusOK
<1>1. /\ UNCHANGED <<local, order, current, undoAt, unrolled>>
      /\ working' \subseteq working
  BY DEF CreatePlan, Start, DbFault, AgentEnds, Crash, Quiet, vars, runVars, dbVars,
     busVars
<1>2. ASSUME NEW m \in Runs
      PROVE  \/ pc'[m] = pc[m]
             \/ pc'[m] = "aborted"
             \/ pc[m] = "idle" /\ pc'[m] = "loading"
  BY <1>0 DEF CreatePlan, Start, DbFault, AgentEnds, Crash, Quiet, vars, runVars, dbVars,
     Goto
<1>3. OwnInv'
  BY <1>1, <1>2 DEF OwnInv, OwnOK, Chosen
<1>4. ASSUME NEW c \in working' PROVE UndoCallOK(c)'
  <2>1. c \in working /\ c.run \in Runs /\ UndoCallOK(c)
    BY <1>0, <1>1 DEF Calls, UndoInv
  <2>2. c.kind = "undo" => pc'[c.run] \in RollingBack \union Leaving \union Over
    BY <1>2, <2>1 DEF UndoCallOK, RollingBack, Leaving, Over
  <2> QED
    BY <1>1, <2>1, <2>2 DEF UndoCallOK, Settled, Dealt
<1> QED
  BY <1>3, <1>4 DEF UndoInv

\* Everything known about a run's order and its rollback.
LEMMA RollbackInvariant == Spec => [](TypeInv /\ DepInv /\ RollInv /\ OwnInv /\ UndoInv)
<1>1. Init => RollInv /\ OwnInv /\ UndoInv
  BY DEF Init, RollInv, RollOK, RollingBack, Leaving, OwnInv, OwnOK, Chosen, UndoInv
<1>2. TypeInv /\ RollInv /\ OwnInv /\ UndoInv /\ [Next]_vars =>
          RollInv' /\ OwnInv' /\ UndoInv'
  BY RollRun, RollOther, OwnRun, UndoRun, UndoOther DEF Next
<1> QED
  BY <1>1, <1>2, DepInvAlways, PTL DEF Spec

\* However long an agent takes over a compensator, no step that builds on the
\* step being undone is still to be undone: the rollback of every run goes
\* against the dependencies.
THEOREM RollbackGoesBackwards == Spec => []RollbackAgainstDependencies
<1>1. TypeInv /\ DepInv /\ OwnInv /\ UndoInv => RollbackAgainstDependencies
  <2> SUFFICES ASSUME TypeInv, DepInv, OwnInv, UndoInv,
                      NEW c \in working, c.kind = "undo",
                      NEW s \in ToSet(order[c.run]) \intersect Compensable,
                      c.step \in deps[s]
               PROVE  Settled(c.run, s)
    BY DEF RollbackAgainstDependencies, Settled, Dealt
  <2>1. c.run \in Runs /\ OrderOK(c.run) /\ OwnOK(c.run) /\ order[c.run] \in Seq(Steps)
    BY DEF TypeInv, TypeOK, BusOK, RunsOK, Calls, DepInv, OwnInv
  <2>2. PICK k \in DOMAIN order[c.run] : order[c.run][k] = s
    BY DEF ToSet
  <2>3. PICK j \in DOMAIN order[c.run] : j < k /\ order[c.run][j] = c.step
    BY <2>1, <2>2 DEF OrderOK
  <2>4. PICK i \in DOMAIN order[c.run] :
            /\ order[c.run][i] = c.step
            /\ \A l \in DOMAIN order[c.run] : l > i => Settled(c.run, order[c.run][l])
    BY DEF UndoInv, UndoCallOK
  <2>5. i = j
    BY <2>1, <2>3, <2>4 DEF OwnOK
  <2>6. k > i
    BY <2>1, <2>3, <2>5
  <2> QED
    BY <2>2, <2>4, <2>6
<1> QED
  BY <1>1, RollbackInvariant, PTL
-----------------------------------------------------------------------------
(* One execution of a plan keeps the promises of module Saga               *)

\* How the rows of the plan correspond to the state of its only run.
PlanRowOK(n) ==
    /\ pc[n] = "idle" => planStatus \in {"none", "planning"}
    /\ pc[n] \in Active => planStatus = "executing"

StepRowsOK(n) ==
    /\ pc[n] \in {"idle", "loading"} => \A s \in Steps : stepStatus[s] = "pending"
    /\ pc[n] \in Active \ {"loading"} => local[n] = stepStatus
    /\ pc[n] \in Active => \A s \in Steps :
           /\ stepStatus[s] = "running" => pc[n] \in Chosen /\ s = current[n]
           /\ stepStatus[s] \in {"failed", "compensated"} => failed[n]

\* A rollback has a reason that stays on the rows, and has not yet touched the
\* steps below its position.
ReasonOK(n) ==
    /\ pc[n] \in RollingBack => failed[n]
    /\ failed[n] /\ pc[n] \in Active =>
           \E s \in Steps : stepStatus[s] \in {"failed", "pending"}
    /\ pc[n] = "finishing" /\ ~ failed[n] =>
           \A s \in Steps : stepStatus[s] = "succeeded"
    /\ pc[n] \in RollingBack =>
           \A i \in DOMAIN order[n] :
               i <= undoAt[n] => stepStatus[order[n][i]] = "succeeded"

SagaOK(n) == PlanRowOK(n) /\ StepRowsOK(n) /\ ReasonOK(n)

\* The step a run picks is one that Saga lets run.
LEMMA SagaPicks ==
    ASSUME TypeInv, RollInv, OwnInv, NEW n \in Runs, SagaOK(n), MarkRunning(n)
    PROVE  SagaOK(n)' /\ \E s \in IsSaga!Steps : IsSaga!Run(s)
<1>0. /\ stepStatus \in [Steps -> StepStatus] /\ pc \in [Runs -> {"idle"} \union Active \union Over]
      /\ local[n] = stepStatus /\ local \in [Runs -> [Steps -> StepStatus] \union {<<>>}]
      /\ current \in [Runs -> Steps \union {0}]
      /\ pc[n] = "picking" /\ planStatus = "executing" /\ ~ failed[n]
  BY DEF TypeInv, TypeOK, RowsOK, RunsOK, RollInv, RollOK, RollingBack, Leaving, Over,
     SagaOK, PlanRowOK, StepRowsOK, Active, MarkRunning
<1>1. \A s \in Steps : stepStatus[s] \notin {"running", "failed", "compensated"}
  BY <1>0 DEF SagaOK, StepRowsOK, Active, Chosen
<1>2. PICK s \in Runnable(n) :
          /\ stepStatus' = [stepStatus EXCEPT ![s] = "running"]
          /\ local' = [local EXCEPT ![n][s] = "running"]
          /\ current' = [current EXCEPT ![n] = s]
  BY DEF MarkRunning
<1>3. s \in Steps /\ stepStatus[s] = "pending" /\ deps[s] \subseteq ToSet(order[n])
  BY <1>0 DEF Runnable
<1>4. \A d \in deps[s] : stepStatus[d] = "succeeded"
  <2> SUFFICES ASSUME NEW d \in deps[s] PROVE stepStatus[d] = "succeeded"
    OBVIOUS
  <2>1. d \in Steps
    BY <1>3 DEF TypeInv, TypeOK, RowsOK
  <2>2. PICK i \in DOMAIN order[n] : order[n][i] = d
    BY <1>3 DEF ToSet
  <2>3. stepStatus[d] \in {"succeeded", "compensated"}
    BY <1>0, <2>2 DEF OwnInv, OwnOK
  <2> QED
    BY <1>1, <2>1, <2>3
<1>5. UNCHANGED <<planStatus, deps, failed, order, undoAt>> /\ pc'[n] = "dispatching"
  BY <1>0 DEF MarkRunning, Goto
<1>6. IsSaga!Run(s) /\ s \in IsSaga!Steps
  BY <1>0, <1>1, <1>2, <1>3, <1>4, <1>5 DEF IsSaga!Run, IsSaga!Has, IsSaga!Steps
<1>7. local'[n] = stepStatus' /\ current'[n] = s
  BY <1>0, <1>2
<1>8. SagaOK(n)'
  BY <1>0, <1>1, <1>2, <1>3, <1>5, <1>7
  DEF SagaOK, PlanRowOK, StepRowsOK, ReasonOK, Active, Chosen, RollingBack, Steps
<1> QED
  BY <1>6, <1>8

\* The result of a step is the end Saga gives it.
LEMMA SagaEnds ==
    ASSUME TypeInv, RollInv, OwnInv, NEW n \in Runs, SagaOK(n),
           RecordSuccess(n) \/ RecordFailure(n)
    PROVE  SagaOK(n)' /\ \E s \in IsSaga!Steps : IsSaga!End(s)
<1>0. /\ stepStatus \in [Steps -> StepStatus] /\ pc \in [Runs -> {"idle"} \union Active \union Over]
      /\ local[n] = stepStatus /\ local \in [Runs -> [Steps -> StepStatus] \union {<<>>}]
      /\ order \in [Runs -> Seq(Steps)] /\ undoAt \in [Runs -> Nat]
      /\ failed \in [Runs -> BOOLEAN]
      /\ pc[n] \in {"succeeding", "failing"} /\ planStatus = "executing" /\ ~ failed[n]
      /\ current[n] \in Steps
  BY DEF TypeInv, TypeOK, RowsOK, RunsOK, LabelsOK, RollInv, RollOK, RollingBack, Leaving,
     Over, SagaOK, PlanRowOK, StepRowsOK, Active, RecordSuccess, RecordFailure
<1>1. /\ \A s \in Steps : stepStatus[s] \notin {"failed", "compensated"}
      /\ \A s \in Steps : stepStatus[s] = "running" => s = current[n]
      /\ stepStatus[current[n]] = "running"
  BY <1>0 DEF SagaOK, StepRowsOK, Active, Chosen, OwnInv, OwnOK
<1>2. PICK status \in {"succeeded", "failed"} :
          /\ stepStatus' = [stepStatus EXCEPT ![current[n]] = status]
          /\ local' = [local EXCEPT ![n][current[n]] = status]
          /\ status = "succeeded" => UNCHANGED failed /\ pc'[n] = "picking"
          /\ status = "failed" => /\ failed'[n] /\ pc'[n] = "undoing" /\ UNCHANGED order
                                  /\ undoAt'[n] = Len(order[n])
  BY <1>0 DEF RecordSuccess, RecordFailure, Goto
<1>3. UNCHANGED <<planStatus, deps, current>> /\ local'[n] = stepStatus'
  BY <1>0, <1>2 DEF RecordSuccess, RecordFailure
<1>4. IsSaga!End(current[n]) /\ current[n] \in IsSaga!Steps
  BY <1>0, <1>1, <1>2, <1>3 DEF IsSaga!End, IsSaga!Steps
<1>5. PlanRowOK(n)' /\ StepRowsOK(n)'
  BY <1>0, <1>1, <1>2, <1>3 DEF PlanRowOK, StepRowsOK, Active, Chosen, Steps
<1>6. ReasonOK(n)'
  <2>1. CASE status = "succeeded"
    BY <1>0, <1>2, <2>1 DEF ReasonOK, RollingBack
  <2>2. CASE status = "failed"
    <3>1. stepStatus'[current[n]] = "failed"
      BY <1>0, <1>2, <2>2
    <3>2. ASSUME NEW i \in DOMAIN order[n] PROVE stepStatus'[order[n][i]] = "succeeded"
      <4>1. order[n][i] \in Steps /\ stepStatus[order[n][i]] \in {"succeeded", "compensated"}
        BY <1>0 DEF OwnInv, OwnOK
      <4>2. stepStatus[order[n][i]] = "succeeded" /\ order[n][i] # current[n]
        BY <1>1, <4>1
      <4> QED
        BY <1>0, <1>2, <4>1, <4>2
    <3> QED
      BY <1>0, <1>2, <1>3, <2>2, <3>1, <3>2 DEF ReasonOK, RollingBack, Steps
  <2> QED
    BY <2>1, <2>2
<1> QED
  BY <1>4, <1>5, <1>6 DEF SagaOK

\* Loading the rows, finding nothing to run and waiting change no row.
LEMMA SagaWaits ==
    ASSUME TypeInv, RollInv, OwnInv, NEW n \in Runs, SagaOK(n),
           \/ Load(n) \/ NoRunnable(n) \/ DispatchStep(n) \/ StepReplied(n)
           \/ StepTimesOut(n) \/ UndoneAll(n) \/ UndoReplied(n)
    PROVE  SagaOK(n)' /\ UNCHANGED dbVars
<1>0. /\ stepStatus \in [Steps -> StepStatus] /\ pc \in [Runs -> {"idle"} \union Active \union Over]
      /\ local \in [Runs -> [Steps -> StepStatus] \union {<<>>}]
      /\ order \in [Runs -> Seq(Steps)] /\ undoAt \in [Runs -> Nat]
      /\ failed \in [Runs -> BOOLEAN]
      /\ PlanRowOK(n) /\ StepRowsOK(n) /\ ReasonOK(n) /\ RollOK(n) /\ OwnOK(n)
  BY DEF TypeInv, TypeOK, RowsOK, RunsOK, RollInv, OwnInv, SagaOK
<1>1. UNCHANGED <<planStatus, stepStatus, deps, order, current>>
  BY DEF Load, NoRunnable, DispatchStep, StepReplied, StepTimesOut, UndoneAll,
     UndoReplied, dbVars
<1> USE DEF Goto, Active, Chosen, RollingBack, Leaving, Over
<1>2. CASE Load(n)
  <2>1. /\ local'[n] = stepStatus /\ pc[n] = "loading" /\ UNCHANGED failed /\ ~ failed[n]
        /\ pc'[n] = "picking" \/ (pc'[n] = "finishing" /\ Steps = {})
    BY <1>0, <1>2 DEF Load, RollOK
  <2>2. PlanRowOK(n)' /\ StepRowsOK(n)'
    BY <1>0, <1>1, <2>1 DEF PlanRowOK, StepRowsOK, Steps
  <2>3. ReasonOK(n)'
    BY <1>0, <1>1, <2>1 DEF ReasonOK, Steps
  <2> QED
    BY <1>1, <2>2, <2>3 DEF SagaOK, dbVars
<1>3. CASE NoRunnable(n)
  <2>1. /\ pc[n] = "picking" /\ local' = local /\ ~ failed[n] /\ local[n] = stepStatus
        /\ undoAt'[n] = Len(order[n])
    BY <1>0, <1>3 DEF NoRunnable, RollOK, StepRowsOK
  <2>2. \A s \in Steps : stepStatus[s] \notin {"running", "failed", "compensated"}
    BY <1>0, <2>1 DEF StepRowsOK
  <2>3. \/ /\ failed'[n] /\ pc'[n] = "undoing"
           /\ \E s \in Steps : stepStatus[s] \in {"pending", "running"}
        \/ /\ ~ failed'[n] /\ pc'[n] = "finishing"
           /\ \A s \in Steps : stepStatus[s] \notin {"pending", "running"}
    <3>1. failed'[n] = \E s \in Steps : stepStatus[s] \in {"pending", "running"}
      BY <1>0, <1>3, <2>1, Zenon DEF NoRunnable
    <3>2. pc' = [pc EXCEPT ![n] = IF failed'[n] THEN "undoing" ELSE "finishing"]
      BY <1>3, Zenon DEF NoRunnable
    <3>3. pc'[n] = IF failed'[n] THEN "undoing" ELSE "finishing"
      BY <1>0, <3>2, Zenon
    <3> QED
      BY <3>1, <3>3, Zenon
  <2>4. PlanRowOK(n)' /\ StepRowsOK(n)'
    BY <1>0, <1>1, <2>1, <2>2, <2>3 DEF PlanRowOK, StepRowsOK, Steps
  <2>5. ASSUME NEW i \in DOMAIN order[n] PROVE stepStatus[order[n][i]] = "succeeded"
    <3>1. order[n][i] \in Steps /\ stepStatus[order[n][i]] \in {"succeeded", "compensated"}
      BY <1>0, <2>1 DEF OwnOK
    <3> QED
      BY <2>2, <3>1
  <2>6. ~ failed'[n] => \A s \in Steps : stepStatus[s] = "succeeded"
    BY <1>0, <2>2, <2>3 DEF StepStatus
  <2>7. failed'[n] => \E s \in Steps : stepStatus[s] \in {"failed", "pending"}
    BY <2>2, <2>3
  <2>8. ReasonOK(n)'
    BY <1>1, <2>1, <2>3, <2>5, <2>6, <2>7 DEF ReasonOK, Steps
  <2> QED
    BY <1>1, <2>4, <2>8 DEF SagaOK, dbVars
<1>4. CASE DispatchStep(n) \/ StepReplied(n) \/ StepTimesOut(n)
  <2>1. /\ pc[n] \in Chosen /\ pc'[n] \in Chosen
        /\ UNCHANGED <<local, failed, undoAt>>
    BY <1>0, <1>4 DEF DispatchStep, StepReplied, StepTimesOut
  <2>2. PlanRowOK(n)' /\ StepRowsOK(n)' /\ ReasonOK(n)'
    BY <1>0, <1>1, <2>1 DEF PlanRowOK, StepRowsOK, ReasonOK, Steps, RollOK
  <2> QED
    BY <1>1, <2>2 DEF SagaOK, dbVars
<1>5. CASE UndoneAll(n) \/ UndoReplied(n)
  <2>1. /\ pc[n] \in RollingBack /\ pc'[n] \in {"undo_saving", "finishing"}
        /\ UNCHANGED <<local, failed, undoAt>>
    BY <1>0, <1>5 DEF UndoneAll, UndoReplied
  <2>2. PlanRowOK(n)' /\ StepRowsOK(n)' /\ ReasonOK(n)'
    BY <1>0, <1>1, <2>1 DEF PlanRowOK, StepRowsOK, ReasonOK, Steps
  <2> QED
    BY <1>1, <2>2 DEF SagaOK, dbVars
<1> QED
  BY <1>2, <1>3, <1>4, <1>5

\* A step is undone at most once, from succeeded, and only for a reason.
LEMMA SagaUndoes ==
    ASSUME TypeInv, RollInv, OwnInv, NEW n \in Runs, SagaOK(n),
           Undo(n) \/ UndoTimesOut(n) \/ RecordCompensated(n)
    PROVE  /\ SagaOK(n)'
           /\ UNCHANGED dbVars \/ \E s \in IsSaga!Steps : IsSaga!Compensate(s)
<1>0. /\ stepStatus \in [Steps -> StepStatus] /\ pc \in [Runs -> {"idle"} \union Active \union Over]
      /\ local \in [Runs -> [Steps -> StepStatus] \union {<<>>}]
      /\ order \in [Runs -> Seq(Steps)] /\ undoAt \in [Runs -> Nat]
      /\ PlanRowOK(n) /\ StepRowsOK(n) /\ ReasonOK(n) /\ OwnOK(n)
  BY DEF TypeInv, TypeOK, RowsOK, RunsOK, OwnInv, SagaOK
<1>1. /\ UNCHANGED <<planStatus, deps, order, current, failed>>
      /\ pc[n] \in RollingBack /\ pc'[n] \in RollingBack /\ undoAt[n] > 0
  BY <1>0 DEF Undo, UndoTimesOut, RecordCompensated, GiveUp, PassOver, Leave, Leaves, Goto, dbVars, RollingBack,
     TypeInv, TypeOK, LabelsOK
<1>2. /\ planStatus = "executing" /\ local[n] = stepStatus /\ failed[n]
      /\ \A s \in Steps : stepStatus[s] # "running"
      /\ \E s \in Steps : stepStatus[s] \in {"failed", "pending"}
      /\ undoAt[n] \in DOMAIN order[n] /\ Undoing(n) \in Steps
      /\ stepStatus[Undoing(n)] = "succeeded"
  <2>1. undoAt[n] \in 1 .. Len(order[n]) /\ Undoing(n) \in Steps
    BY <1>1, UndoingType
  <2>2. undoAt[n] \in DOMAIN order[n]
    BY <1>0, <2>1
  <2>3. stepStatus[Undoing(n)] = "succeeded"
    BY <1>0, <1>1, <2>1, <2>2 DEF ReasonOK, Undoing
  <2> QED
    BY <1>0, <1>1, <2>1, <2>2, <2>3
    DEF PlanRowOK, StepRowsOK, ReasonOK, RollingBack, Active, Chosen
<1>3. undoAt'[n] \in {undoAt[n], undoAt[n] - 1}
  BY <1>0 DEF Undo, UndoTimesOut, RecordCompensated, GiveUp, PassOver, Leave, Leaves, StepBack
<1>4. CASE UNCHANGED <<stepStatus, local>>
  <2>1. PlanRowOK(n)' /\ StepRowsOK(n)'
    BY <1>0, <1>1, <1>2, <1>4 DEF PlanRowOK, StepRowsOK, RollingBack, Active, Steps
  <2>2. ASSUME NEW i \in DOMAIN order[n], i <= undoAt'[n]
        PROVE  stepStatus[order[n][i]] = "succeeded"
    <3>1. i <= undoAt[n]
      BY <1>0, <1>3, <2>2
    <3> QED
      BY <1>0, <1>1, <3>1 DEF ReasonOK
  <2>3. ReasonOK(n)'
    BY <1>0, <1>1, <1>2, <1>4, <2>2 DEF ReasonOK, RollingBack, Active, Steps
  <2> QED
    BY <1>1, <1>4, <2>1, <2>3 DEF SagaOK, dbVars
<1>5. CASE /\ stepStatus' = [stepStatus EXCEPT ![Undoing(n)] = "compensated"]
           /\ local' = [local EXCEPT ![n][Undoing(n)] = "compensated"]
           /\ undoAt' = [undoAt EXCEPT ![n] = @ - 1]
  <2>1. IsSaga!Compensate(Undoing(n)) /\ Undoing(n) \in IsSaga!Steps
    BY <1>0, <1>1, <1>2, <1>5 DEF IsSaga!Compensate, IsSaga!Has, IsSaga!Steps
  <2>2. local'[n] = stepStatus'
    BY <1>0, <1>2, <1>5
  <2>3. PlanRowOK(n)' /\ StepRowsOK(n)'
    BY <1>0, <1>1, <1>2, <1>5, <2>2 DEF PlanRowOK, StepRowsOK, RollingBack, Active, Steps
  <2>4. ASSUME NEW i \in DOMAIN order[n], i <= undoAt'[n]
        PROVE  stepStatus'[order[n][i]] = "succeeded"
    <3>1. i <= undoAt[n] /\ i # undoAt[n]
      BY <1>0, <1>5, <2>4
    <3>2. order[n][i] # Undoing(n)
      BY <1>0, <1>2, <3>1 DEF OwnOK, Undoing
    <3>3. order[n][i] \in Steps /\ stepStatus[order[n][i]] = "succeeded"
      BY <1>0, <1>1, <3>1 DEF ReasonOK
    <3> QED
      BY <1>0, <1>5, <3>2, <3>3
  <2>5. \E s \in Steps : stepStatus'[s] \in {"failed", "pending"}
    BY <1>0, <1>2, <1>5
  <2>6. ReasonOK(n)'
    BY <1>1, <1>2, <2>4, <2>5 DEF ReasonOK, RollingBack, Active, Steps
  <2> QED
    BY <2>1, <2>3, <2>6 DEF SagaOK
<1> QED
  BY <1>4, <1>5 DEF Undo, UndoTimesOut, RecordCompensated, StepBack, dbVars

\* The plan's final status is the one Saga allows.
LEMMA SagaFinishes ==
    ASSUME TypeInv, NEW n \in Runs, SagaOK(n), Finish(n)
    PROVE  SagaOK(n)' /\ (IsSaga!Succeed \/ IsSaga!Fail)
<1>0. /\ stepStatus \in [Steps -> StepStatus] /\ pc \in [Runs -> {"idle"} \union Active \union Over]
      /\ PlanRowOK(n) /\ StepRowsOK(n) /\ ReasonOK(n)
  BY DEF TypeInv, TypeOK, RowsOK, RunsOK, SagaOK
<1>1. /\ UNCHANGED <<stepStatus, deps, local, order, current, failed, undoAt>>
      /\ pc[n] = "finishing" /\ pc'[n] = "returned" /\ planStatus = "executing"
      /\ planStatus' = IF failed[n] THEN "failed" ELSE "succeeded"
  BY <1>0 DEF Finish, Goto, PlanRowOK, Active
<1>2. SagaOK(n)'
  BY <1>0, <1>1 DEF SagaOK, PlanRowOK, StepRowsOK, ReasonOK, Active, RollingBack
<1>3. CASE failed[n]
  <2>1. /\ \A s \in Steps : stepStatus[s] # "running"
        /\ \E s \in Steps : stepStatus[s] \in {"failed", "pending"}
    BY <1>0, <1>1, <1>3 DEF StepRowsOK, ReasonOK, Active, Chosen
  <2>2. IsSaga!Fail
    BY <1>0, <1>1, <1>3, <2>1 DEF IsSaga!Fail, IsSaga!Has, IsSaga!Steps
  <2> QED
    BY <1>2, <2>2
<1>4. CASE ~ failed[n]
  <2>1. IsSaga!Succeed
    BY <1>0, <1>1, <1>4 DEF ReasonOK, IsSaga!Succeed, IsSaga!Steps
  <2> QED
    BY <1>2, <2>1
<1> QED
  BY <1>3, <1>4

\* The steps that are not the run's own: creation is Saga's, starting is its
\* beginning, the others change no row.
LEMMA SagaOther ==
    ASSUME NEW r, Runs = {r}, TypeInv, RollInv, SagaOK(r),
           \/ \E def \in Definitions : CreatePlan(def)
           \/ \E n \in Runs : Start(n) \/ DbFault(n)
           \/ \E c \in working, success \in BOOLEAN : AgentEnds(c, success)
           \/ Crash
           \/ Quiet
           \/ UNCHANGED vars
    PROVE  SagaOK(r)' /\ (UNCHANGED dbVars \/ IsSaga!Create \/ IsSaga!Begin)
<1>0. /\ stepStatus \in [Steps -> StepStatus] /\ pc \in [Runs -> {"idle"} \union Active \union Over]
      /\ PlanRowOK(r) /\ StepRowsOK(r) /\ ReasonOK(r) /\ RollOK(r)
      /\ r \in Runs
  BY DEF TypeInv, TypeOK, RowsOK, RunsOK, SagaOK, RollInv
<1>1. ASSUME NEW def \in Definitions, CreatePlan(def) PROVE SagaOK(r)' /\ IsSaga!Create
  <2>1. /\ planStatus = "none" /\ planStatus' = "planning"
        /\ deps' = [s \in DOMAIN def |-> def[s] \intersect DOMAIN def]
        /\ stepStatus' = [s \in DOMAIN def |-> "pending"]
        /\ UNCHANGED <<pc, failed>> /\ pc[r] = "idle"
    BY <1>0, <1>1 DEF CreatePlan, runVars, TypeInv, NoPlanYet
  <2>2. SagaOK(r)'
    BY <2>1 DEF SagaOK, PlanRowOK, StepRowsOK, ReasonOK, Active, RollingBack, Steps
  <2> QED
    BY <2>1, <2>2 DEF IsSaga!Create
<1>2. CASE Start(r)
  <2>1. /\ pc[r] = "idle" /\ pc'[r] = "loading" /\ planStatus' = "executing"
        /\ planStatus = "planning" /\ UNCHANGED <<stepStatus, deps, failed>> /\ ~ failed[r]
    BY <1>0, <1>2 DEF Start, Goto, PlanRowOK, RollOK, RollingBack, Leaving, Over
  <2>2. SagaOK(r)'
    BY <1>0, <2>1
    DEF SagaOK, PlanRowOK, StepRowsOK, ReasonOK, Active, RollingBack, Steps
  <2> QED
    BY <2>1, <2>2 DEF IsSaga!Begin
<1>3. CASE DbFault(r) \/ Crash \/ Quiet \/ UNCHANGED vars
           \/ \E c \in working, success \in BOOLEAN : AgentEnds(c, success)
  <2>1. /\ UNCHANGED <<planStatus, stepStatus, deps, local, order, current, failed, undoAt>>
        /\ pc'[r] = pc[r] \/ pc'[r] = "aborted"
    BY <1>0, <1>3 DEF DbFault, Crash, Quiet, vars, AgentEnds, runVars, dbVars, Goto
  <2>2. SagaOK(r)'
    BY <1>0, <2>1
    DEF SagaOK, PlanRowOK, StepRowsOK, ReasonOK, Active, Chosen, RollingBack, Steps
  <2> QED
    BY <2>1, <2>2 DEF dbVars
<1> QED
  BY <1>1, <1>2, <1>3

\* When run_plan is called once for a plan, the rows of public.plans and
\* public.plan_steps evolve as module Saga says, through faults, crashes,
\* timeouts and late answers.  With a second call they need not: nothing in
\* run_plan looks at the plan's status before it starts.
THEOREM OneRunIsASaga ==
    ASSUME NEW r, Runs = {r}
    PROVE  Spec => SagaSpec
<1>1. Init => SagaOK(r) /\ IsSaga!Init
  BY DEF Init, SagaOK, PlanRowOK, StepRowsOK, ReasonOK, IsSaga!Init, Steps, Active,
     RollingBack
<1>2. TypeInv /\ RollInv /\ OwnInv /\ SagaOK(r) /\ [Next]_vars =>
          SagaOK(r)' /\ [IsSaga!Next]_(IsSaga!vars)
  <2> SUFFICES ASSUME TypeInv, RollInv, OwnInv, SagaOK(r), [Next]_vars
               PROVE  SagaOK(r)' /\ (IsSaga!Next \/ UNCHANGED dbVars)
    BY DEF IsSaga!vars, dbVars
  <2>1. CASE RunStep(r)
    <3>1. r \in Runs
      OBVIOUS
    <3>2. CASE \/ Load(r) \/ NoRunnable(r) \/ DispatchStep(r) \/ StepReplied(r)
               \/ StepTimesOut(r) \/ UndoneAll(r) \/ UndoReplied(r)
      BY <3>1, <3>2, SagaWaits
    <3>3. CASE Undo(r) \/ UndoTimesOut(r) \/ RecordCompensated(r)
      BY <3>1, <3>3, SagaUndoes DEF IsSaga!Next
    <3>4. CASE RecordSuccess(r) \/ RecordFailure(r)
      BY <3>1, <3>4, SagaEnds DEF IsSaga!Next
    <3>5. CASE MarkRunning(r)
      BY <3>1, <3>5, SagaPicks DEF IsSaga!Next
    <3>6. CASE Finish(r)
      BY <3>1, <3>6, SagaFinishes DEF IsSaga!Next
    <3> QED
      BY <2>1, <3>2, <3>3, <3>4, <3>5, <3>6 DEF RunStep
  <2>2. CASE \/ \E def \in Definitions : CreatePlan(def)
             \/ \E n \in Runs : Start(n) \/ DbFault(n)
             \/ \E c \in working, success \in BOOLEAN : AgentEnds(c, success)
             \/ Crash
             \/ Quiet
             \/ UNCHANGED vars
    BY <2>2, SagaOther DEF IsSaga!Next
  <2> QED
    BY <2>1, <2>2 DEF Next
<1> QED
  BY <1>1, <1>2, RollbackInvariant, PTL DEF Spec, SagaSpec, IsSaga!Spec
=============================================================================
