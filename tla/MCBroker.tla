------------------------------ MODULE MCBroker ------------------------------
(* Bounded instance of Broker.                                             *)
EXTENDS Broker

CONSTANTS r1, r2, t1, c1

MCAnywhere == {"system_info"}
MCAfterDot == {"read"}

InfoCap   == Descriptor(<<"network", "routeros", "system_info">>, None, FALSE)
RemoveCap == Descriptor(<<"network", "routeros", "remove_rule">>, None, TRUE)
AddCap    == Descriptor(<<"network", "routeros", "add_rule">>, RemoveCap.name, FALSE)
MCCaps    == {InfoCap, RemoveCap, AddCap}

ShapeOf(cap) == [cap |-> cap.name, meta |-> {cap}, target |-> t1]
MCShapes == {ShapeOf(InfoCap), ShapeOf(AddCap),
             [cap |-> BrokerExecute, meta |-> {}, target |-> t1]}

Rule(pattern, decision) == [capability |-> pattern, decision |-> decision]

\* The shipped order; a policy that also waves unnamed requests through; and
\* the policy-shadowing mistake the lint exists for.
MCRuleSets ==
    {<<Rule(Under(<<"network", "routeros">>), "require_approval"),
       Rule(Exact(BrokerExecute), "allow")>>,
     <<Rule(Exact(AddCap.name), "allow"),
       Rule(Under(<<"network">>), "require_approval")>>}
=============================================================================
