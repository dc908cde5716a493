-------------------------------- MODULE Saga --------------------------------
(***************************************************************************)
(* What one execution of a plan promises on the rows of public.plans and   *)
(* public.plan_steps: steps run one at a time, a step runs only after the  *)
(* ones it depends on, nothing runs after a failure, only a plan that      *)
(* cannot succeed any more is rolled back, and a plan ends succeeded only  *)
(* when every step did.                                                    *)
(***************************************************************************)
VARIABLES planStatus, stepStatus, deps

vars == <<planStatus, stepStatus, deps>>

Steps == DOMAIN stepStatus

Has(status) == \E s \in Steps : stepStatus[s] = status

Init ==
    /\ planStatus = "none"
    /\ stepStatus = <<>>
    /\ deps = <<>>

Create ==
    /\ planStatus = "none"
    /\ planStatus' = "planning"
    /\ DOMAIN stepStatus' = DOMAIN deps'
    /\ \A s \in DOMAIN deps' : stepStatus'[s] = "pending" /\ deps'[s] \subseteq DOMAIN deps'

Begin ==
    /\ planStatus = "planning"
    /\ planStatus' = "executing"
    /\ UNCHANGED <<stepStatus, deps>>

Run(s) ==
    /\ planStatus = "executing"
    /\ stepStatus[s] = "pending"
    /\ \A d \in deps[s] : stepStatus[d] = "succeeded"
    /\ ~ Has("running") /\ ~ Has("failed") /\ ~ Has("compensated")
    /\ stepStatus' = [stepStatus EXCEPT ![s] = "running"]
    /\ UNCHANGED <<planStatus, deps>>

End(s) ==
    /\ planStatus = "executing"
    /\ stepStatus[s] = "running"
    /\ \E status \in {"succeeded", "failed"} :
           stepStatus' = [stepStatus EXCEPT ![s] = status]
    /\ UNCHANGED <<planStatus, deps>>

\* A step may stay succeeded in a rollback: nothing undoes it, or the attempt
\* failed.
Compensate(s) ==
    /\ planStatus = "executing"
    /\ stepStatus[s] = "succeeded"
    /\ Has("failed") \/ Has("pending")
    /\ ~ Has("running")
    /\ stepStatus' = [stepStatus EXCEPT ![s] = "compensated"]
    /\ UNCHANGED <<planStatus, deps>>

Succeed ==
    /\ planStatus = "executing"
    /\ \A s \in Steps : stepStatus[s] = "succeeded"
    /\ planStatus' = "succeeded"
    /\ UNCHANGED <<stepStatus, deps>>

Fail ==
    /\ planStatus = "executing"
    /\ Has("failed") \/ Has("pending")
    /\ ~ Has("running")
    /\ planStatus' = "failed"
    /\ UNCHANGED <<stepStatus, deps>>

Next ==
    \/ Create
    \/ Begin
    \/ \E s \in Steps : Run(s) \/ End(s) \/ Compensate(s)
    \/ Succeed
    \/ Fail

Spec == Init /\ [][Next]_vars
=============================================================================
