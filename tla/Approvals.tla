------------------------------ MODULE Approvals ------------------------------
(***************************************************************************)
(* What the approval inbox (table public.approvals) promises, whatever the *)
(* guard, the operators, the deadline and crashes do: a row is inserted    *)
(* pending, and is then approved, denied or expired once and for all.      *)
(***************************************************************************)
CONSTANT Ids

VARIABLE rows

Absent == "absent"
Verdicts == {"approved", "denied"}
Terminal == Verdicts \union {"expired"}
RowStatus == {Absent, "pending"} \union Terminal

Init == rows = [i \in Ids |-> Absent]

Enqueue(i) ==
    /\ rows[i] = Absent
    /\ rows' = [rows EXCEPT ![i] = "pending"]

Decide(i, verdict) ==
    /\ rows[i] = "pending"
    /\ rows' = [rows EXCEPT ![i] = verdict]

Expire(i) ==
    /\ rows[i] = "pending"
    /\ rows' = [rows EXCEPT ![i] = "expired"]

Next ==
    \E i \in Ids :
        \/ Enqueue(i)
        \/ \E verdict \in Verdicts : Decide(i, verdict)
        \/ Expire(i)

Spec == Init /\ [][Next]_rows
=============================================================================
