------------------------------- MODULE Drivers -------------------------------
(***************************************************************************)
(* A capability call from its request envelope to its reply: the RouterOS  *)
(* driver (daimon-driver-firewall-routeros), the profile-driven connector  *)
(* (daimon-driver/src/connector.rs), the SSH, REST and SNMP transports     *)
(* (daimon-transport), and what the chat makes of the reply.               *)
(*                                                                         *)
(* The broker between driver and transport (modules Broker and Vault) may  *)
(* refuse a call; here that is a choice.  The device is the environment:   *)
(* it may work on a command for as long as it likes, also after the call   *)
(* has given up or the device itself has said that it took the command on, *)
(* and it may or may not manage to report how that went.                   *)
(***************************************************************************)
EXTENDS DriversState

vars == <<catalog, policy, known, key, call, device>>
fixed == <<catalog, policy>>
-----------------------------------------------------------------------------
Hosts == {e.host : e \in Endpoints}
Values == {"fits", "unfit", Missing}

Template(cap) == IF IsConnector(cap) THEN catalog[cap].caps[cap]
                 ELSE RouterOs[cap]
TransportOf(cap) == IF IsConnector(cap) THEN catalog[cap].transport ELSE "ssh"

\* from_dir and from_profiles: of two profiles that declare one name, the
\* one whose file is read last serves it, and files are read in no order.
Init ==
  /\ catalog \in {f \in [ConnectorCaps -> Profiles] :
                    \A cap \in ConnectorCaps : cap \in DOMAIN f[cap].caps}
  /\ policy \in {"known_hosts", "accept_any", "accept_any_and_learn"}
  /\ known = [h \in Hosts |-> {}]
  /\ key \in [Hosts -> Keys]
  /\ call = [c \in Calls |-> [pc |-> "idle"]]
  /\ device = [c \in Calls |-> "untouched"]

At(c, pc) == call[c].pc = pc
Go(c, pc) == call' = [call EXCEPT ![c].pc = pc]

\* Where a call can end without a result, and why.
Fail(c, why) ==
  call' = [call EXCEPT ![c] = [pc |-> "replied", cap |-> @.cap,
             success |-> FALSE, output |-> FALSE, ground |-> "none", why |-> why]]
-----------------------------------------------------------------------------
(* The driver.                                                             *)

Request(c, cap, target, params) ==
  /\ At(c, "idle")
  /\ call' = [call EXCEPT ![c] = [pc |-> "requested", cap |-> cap,
                                  target |-> target, params |-> params]]
  /\ UNCHANGED <<fixed, known, key, device>>

Declared(c) == IsConnector(call[c].cap) \/ call[c].cap \in DOMAIN RouterOs

\* Every declared parameter is present, unless it is optional, and in its
\* class, and the template has no slot without a declared parameter.
Renders(c) ==
  /\ Declared(c)
  /\ \A s \in Template(call[c].cap).params :
       \/ call[c].params[s] = "fits"
       \/ call[c].params[s] = Missing /\ s \in Template(call[c].cap).optional
  /\ Template(call[c].cap).slots \subseteq Template(call[c].cap).params

\* dispatch: the operation is built, or nothing is.
Dispatch(c) ==
  /\ At(c, "requested")
  /\ IF Renders(c) THEN Go(c, "submitted") ELSE Fail(c, "refused")
  /\ UNCHANGED <<fixed, known, key, device>>

\* Broker::execute refuses, or calls the transport of the target's row.  A
\* transport rejects an operation of another kind.
Submit(c) ==
  /\ At(c, "submitted")
  /\ \/ Fail(c, "refused")
     \/ IF call[c].target.transport = TransportOf(call[c].cap)
        THEN Go(c, call[c].target.transport)
        ELSE Fail(c, "refused")
  /\ UNCHANGED <<fixed, known, key, device>>
-----------------------------------------------------------------------------
(* SSH.                                                                    *)

\* check_server_key.
Accepts(h) == policy = "known_hosts" => key[h] \in known[h]

SshConnect(c) ==
  /\ At(c, "ssh")
  /\ LET h == call[c].target.host
     IN  \/ /\ Accepts(h)
            /\ known' = IF policy = "accept_any_and_learn"
                        THEN [known EXCEPT ![h] = @ \cup {key[h]}] ELSE known
            /\ Go(c, "connected")
         \/ Fail(c, "refused") /\ UNCHANGED known
  /\ UNCHANGED <<fixed, key, device>>

\* Key or password; another kind of credential is a mismatch.
SshAuthenticate(c) ==
  /\ At(c, "connected")
  /\ \/ call[c].target.kind \in {"ssh_key", "ssh_password"} /\ Go(c, "session")
     \/ Fail(c, "refused")
  /\ UNCHANGED <<fixed, known, key, device>>

SshExec(c) ==
  /\ At(c, "session")
  /\ \/ Go(c, "draining") /\ device' = [device EXCEPT ![c] = "working"]
     \/ Fail(c, "refused") /\ UNCHANGED device
  /\ UNCHANGED <<fixed, known, key>>

\* An answer, and what it rests on.
Result(c, good, ground) ==
  call' = [call EXCEPT ![c] = [pc |-> "result", cap |-> @.cap, good |-> good,
                               ground |-> ground]]

\* The exit status arrives, or the channel ends without one (closed by the
\* device, or the connection is gone): the status then stays 0.
SshDrain(c) ==
  /\ At(c, "draining")
  /\ \/ device[c] \in {"did", "refused"} /\ Result(c, device[c] = "did", "report")
     \/ Result(c, TRUE, "silence")
  /\ UNCHANGED <<fixed, known, key, device>>
-----------------------------------------------------------------------------
(* REST and SNMP.                                                          *)

\* Only a token authenticates.  The request may not leave.
RestSend(c) ==
  /\ At(c, "rest")
  /\ \/ /\ call[c].target.kind = "api_token" /\ Go(c, "waiting")
        /\ device' = [device EXCEPT ![c] = "working"]
     \/ Fail(c, "refused") /\ UNCHANGED device
  /\ UNCHANGED <<fixed, known, key>>

\* A response of any status, or none that can be read.  An endpoint that
\* answers later says 2xx (202, or 200 with a task id) as soon as it has taken
\* the command on, whatever becomes of it.
RestAnswer(c) ==
  /\ At(c, "waiting")
  /\ \/ device[c] \in {"did", "refused"} /\ Result(c, device[c] = "did", "report")
     \/ Template(call[c].cap).mode = "later" /\ Result(c, TRUE, "acceptance")
     \/ Fail(c, "io")
  /\ UNCHANGED <<fixed, known, key, device>>

\* A community string, and a client for the target's address.
SnmpOpen(c) ==
  /\ At(c, "snmp")
  /\ \/ call[c].target.kind \in {"api_token", "generic"} /\ Go(c, "reading")
     \/ Fail(c, "refused")
  /\ UNCHANGED <<fixed, known, key, device>>

\* The last response, or none to one request within its timeout and retries.
SnmpRead(c) ==
  /\ At(c, "reading") \/ At(c, "walking")
  /\ \/ Result(c, TRUE, "report") /\ device' = [device EXCEPT ![c] = "did"]
     \/ Fail(c, "io") /\ UNCHANGED device
  /\ UNCHANGED <<fixed, known, key>>

\* A walk goes on for as long as the device has another row; nothing but the
\* single request has a deadline.  The two places tell one row from the next.
WalkOn(c) ==
  /\ At(c, "reading") \/ At(c, "walking")
  /\ Template(call[c].cap).mode = "walk"
  /\ Go(c, IF At(c, "reading") THEN "walking" ELSE "reading")
  /\ UNCHANGED <<fixed, known, key, device>>
-----------------------------------------------------------------------------
\* The deadline of an SSH operation covers it from connect to close, the
\* deadline of a REST request from send to response.
Deadlined == {"ssh", "connected", "session", "draining", "waiting"}

DeadlineUntilExec(c) ==
  /\ call[c].pc \in {"ssh", "connected", "session", "waiting"}
  /\ Fail(c, "timeout")
  /\ UNCHANGED <<fixed, known, key, device>>

Deadline(c) ==
  /\ call[c].pc \in Deadlined
  /\ Fail(c, "timeout")
  /\ UNCHANGED <<fixed, known, key, device>>

\* parse_result and from_output; NetworkResponse::ok for RouterOS.
AnyStatus(c) == TRUE

Succeeds(c) == IsConnector(call[c].cap) => call[c].good

Reply(c) ==
  /\ At(c, "result")
  /\ call' = [call EXCEPT ![c] = [pc |-> "replied", cap |-> @.cap,
                success |-> Succeeds(c), output |-> TRUE, ground |-> @.ground,
                why |-> IF @.good THEN "done" ELSE "device"]]
  /\ UNCHANGED <<fixed, known, key, device>>

\* Only the RouterOS output carries the field `command`, without which the
\* chat cannot decode an output.
Decodes(c) == ~call[c].output \/ ~IsConnector(call[c].cap)

\* The chat shows the reply, or a decode error in its place.
Show(c) ==
  /\ At(c, "replied")
  /\ call' = [call EXCEPT ![c] = [pc |-> "shown", cap |-> @.cap,
                success |-> @.success, output |-> @.output, ground |-> @.ground,
                why |-> @.why, readable |-> Decodes(c)]]
  /\ UNCHANGED <<fixed, known, key, device>>
-----------------------------------------------------------------------------
(* The devices.                                                            *)

DeviceEnds(c) ==
  /\ device[c] = "working"
  /\ \E end \in {"did", "refused"} : device' = [device EXCEPT ![c] = end]
  /\ UNCHANGED <<fixed, known, key, call>>

\* A host is reinstalled with another key, or the operator records its key.
Rekey(h) ==
  /\ \E k \in Keys \ {key[h]} : key' = [key EXCEPT ![h] = k]
  /\ UNCHANGED <<fixed, known, call, device>>

Record(h) ==
  /\ key[h] \notin known[h]
  /\ known' = [known EXCEPT ![h] = {key[h]}]
  /\ UNCHANGED <<fixed, key, call, device>>

Next ==
  \/ \E c \in Calls :
       \/ \E cap \in ConnectorCaps \cup DOMAIN RouterOs \cup {Unknown},
             target \in Endpoints, params \in [Slots -> Values] :
            Request(c, cap, target, params)
       \/ Dispatch(c) \/ Submit(c)
       \/ SshConnect(c) \/ SshAuthenticate(c) \/ SshExec(c) \/ SshDrain(c)
       \/ RestSend(c) \/ RestAnswer(c)
       \/ SnmpOpen(c) \/ SnmpRead(c) \/ WalkOn(c)
       \/ Deadline(c) \/ Reply(c) \/ Show(c)
       \/ DeviceEnds(c)
  \/ \E h \in Hosts : Rekey(h) \/ Record(h)

\* The driver's task runs and its timers fire.  The devices promise nothing.
Spec ==
  /\ Init /\ [][Next]_vars
  /\ \A c \in Calls :
       WF_vars(\/ Dispatch(c) \/ Submit(c) \/ RestSend(c)
               \/ SnmpOpen(c) \/ SnmpRead(c) \/ WalkOn(c)
               \/ Deadline(c) \/ Reply(c) \/ Show(c))
-----------------------------------------------------------------------------
\* Every call is answered, even by a device that never finishes and a
\* connection that stays silent: some deadline covers every wait.  The
\* exception is an SNMP walk whose device always has another row.
EveryCallReplies ==
  \A c \in Calls : \/ call[c].pc # "idle" ~> Answered(c)
                   \/ []<><<WalkOn(c)>>_vars
=============================================================================
