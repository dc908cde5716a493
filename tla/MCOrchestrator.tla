--------------------------- MODULE MCOrchestrator ---------------------------
(* Bounded instance of Orchestrator.                                       *)
EXTENDS Orchestrator

CONSTANTS n1

\* An empty plan; a chain whose middle step cannot be undone; a fork listed
\* against its dependencies, with an index out of range; a cycle behind a
\* step that can run.
MCDefinitions ==
    {<<>>,
     <<{}, {1}, {2}>>,
     <<{3, 9}, {3}, {}>>,
     <<{}, {3}, {2}>>}
MCCompensable == {1, 3}
=============================================================================
