----------------------------- MODULE MCRuntime ------------------------------
(* Bounded instance of Runtime.                                            *)
EXTENDS Runtime

CONSTANTS l1, l2, a, c1, c2, read

\* One agent that is spawned, stopped and spawned again.
MCSameId   == [l \in Lives |-> a]
MCProvides == [x \in AgentIds |-> {read}]
MCCapOf    == [c \in Calls |-> read]
=============================================================================
