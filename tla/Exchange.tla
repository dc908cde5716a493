------------------------------ MODULE Exchange ------------------------------
(***************************************************************************)
(* What a caller of the bus may rely on: a call is refused before anything *)
(* is sent, or it is sent and then ends with an answer or a timeout; only  *)
(* a call that was sent is taken up by an agent, perhaps after the caller  *)
(* stopped waiting; only a call that was taken up is answered.             *)
(***************************************************************************)
CONSTANT Calls

VARIABLES
    state,   \* "idle", "waiting", "answered", "timed_out" or "refused"
    taken    \* calls some agent has taken up

vars == <<state, taken>>

Init ==
    /\ state = [c \in Calls |-> "idle"]
    /\ taken = {}

Move(c, from, to) ==
    /\ state[c] = from
    /\ state' = [state EXCEPT ![c] = to]
    /\ UNCHANGED taken

TakeUp(c) ==
    /\ state[c] \in {"waiting", "answered", "timed_out"}
    /\ taken' = taken \union {c}
    /\ UNCHANGED state

Next ==
    \E c \in Calls :
        \/ Move(c, "idle", "refused")
        \/ Move(c, "idle", "waiting")
        \/ Move(c, "waiting", "timed_out")
        \/ c \in taken /\ Move(c, "waiting", "answered")
        \/ TakeUp(c)

Spec == Init /\ [][Next]_vars
=============================================================================
