------------------------------- MODULE Policy -------------------------------
(***************************************************************************)
(* Who may do what: the server-side read/write classification of a         *)
(* capability (daimon-core), the first-match policy engine (daimon-guard)  *)
(* and the boot-time coherence lint (daimon-broker).  All pure.            *)
(*                                                                         *)
(* A dotted capability name is the sequence of its segments:               *)
(* "network.routeros.firewall_add_drop_rule" is                            *)
(* <<"network", "routeros", "firewall_add_drop_rule">>.                    *)
(***************************************************************************)
EXTENDS Naturals, Sequences, SequencesExt

CONSTANTS
    MarkedAnywhere,  \* segments that contain a dotless read marker ("_list", "describe", ...)
    MarkedAfterDot   \* segments that start with the tail of a dotted one (".list", ".read", ...)

Decisions == {"allow", "deny", "require_approval"}

\* A request that names no capability is judged under this name.
BrokerExecute == <<"broker", "execute">>

\* The absence of a compensating capability, and of a capability descriptor.
None == <<>>

\* A descriptor: its name, the name of its compensator (or None), irreversible.
Descriptor(name, compensating, irreversible) ==
    [name |-> name, compensating |-> compensating, irreversible |-> irreversible]

-----------------------------------------------------------------------------
(* Capability::is_read                                                     *)

NameIsRead(name) ==
    \E i \in DOMAIN name :
        \/ name[i] \in MarkedAnywhere
        \/ i > 1 /\ name[i] \in MarkedAfterDot

IsRead(cap) ==
    /\ cap.compensating = None
    /\ ~ cap.irreversible
    /\ NameIsRead(cap.name)

-----------------------------------------------------------------------------
(* PolicyEngine: a pattern is an exact name, "prefix.*" or "*".            *)

Exact(name) == [kind |-> "exact", name |-> name]
Under(name) == [kind |-> "under", name |-> name]
Anything    == [kind |-> "any", name |-> None]

GlobMatch(pattern, name) ==
    \/ pattern.kind = "exact" /\ pattern.name = name
    \/ pattern.kind = "under" /\ IsPrefix(pattern.name, name)
    \/ pattern.kind = "any"

\* Rule i matches and no rule listed before it does.
DecidedBy(rules, name, i) ==
    /\ GlobMatch(rules[i].capability, name)
    /\ \A j \in 1 .. i - 1 : ~ GlobMatch(rules[j].capability, name)

\* PolicyEngine::evaluate: the first matching rule decides; no match denies.
Evaluate(rules, name) ==
    IF \E i \in DOMAIN rules : DecidedBy(rules, name, i)
    THEN rules[CHOOSE i \in DOMAIN rules : DecidedBy(rules, name, i)].decision
    ELSE "deny"

-----------------------------------------------------------------------------
(* Broker::lint_write_capabilities, over the live capability set.          *)

\* A bug to look for: the lint looks at compensators only.
LintIgnoresWrites(rules, caps) ==
    \A cap \in caps :
        \/ cap.compensating = None
        \/ \E c \in caps : c.name = cap.compensating

LintWriteCapabilities(rules, caps) ==
    \A cap \in caps :
        /\ \/ cap.compensating = None
           \/ \E c \in caps : c.name = cap.compensating
        /\ IsRead(cap) \/ Evaluate(rules, cap.name) # "allow"
=============================================================================
