------------------------------ MODULE MCDrivers ------------------------------
(* One call to each kind of capability: a RouterOS write, connector writes   *)
(* over SSH and REST (one name in two profiles, one endpoint that answers    *)
(* before it is done), an SNMP read and an SNMP walk, a template with an     *)
(* undeclared slot and an undeclared name; targets of every transport, with  *)
(* a fitting credential and without.                                         *)
EXTENDS Drivers, TLC

Plain == [params |-> {}, optional |-> {}, slots |-> {}, mode |-> "once"]
OneSlot == [Plain EXCEPT !.params = {"n"}, !.slots = {"n"}]

MCRouterOs == "ros.add" :> OneSlot
           @@ "ros.drop" :> [OneSlot EXCEPT !.optional = {"n"}]
MCProfiles ==
  {[transport |-> "rest", caps |-> "scale" :> OneSlot @@ "restart" :> Plain
                                @@ "start" :> [Plain EXCEPT !.mode = "later"]],
   [transport |-> "ssh",
    caps |-> "restart" :> OneSlot @@ "broken" :> [Plain EXCEPT !.slots = {"n"}]],
   [transport |-> "snmp",
    caps |-> "uptime" :> Plain @@ "system" :> [Plain EXCEPT !.mode = "walk"]]}
MCEndpoints ==
  {[transport |-> "ssh", kind |-> "ssh_key", host |-> "h1"],
   [transport |-> "ssh", kind |-> "api_token", host |-> "h1"],
   [transport |-> "rest", kind |-> "api_token", host |-> "h2"],
   [transport |-> "rest", kind |-> "generic", host |-> "h2"],
   [transport |-> "snmp", kind |-> "generic", host |-> "h2"]}
=============================================================================
