----------------------------- MODULE DriversState ----------------------------
(***************************************************************************)
(* The capability calls under way, the devices they are for, and what must *)
(* hold between the two at every moment.  Module Drivers has their steps.  *)
(***************************************************************************)
EXTENDS Naturals

CONSTANTS
  Calls,
  Profiles,   \* connector profiles: [transport, caps], caps: name -> template
  RouterOs,   \* the RouterOS catalogue: capability name -> its template
  Unknown,    \* a capability name that nobody declares
  Endpoints,  \* managed targets: [transport, kind, host]
  Slots,      \* parameter names
  Keys,       \* SSH host keys
  Missing     \* an absent parameter

\* A template names its declared parameters, those of them that may be absent,
\* the slots it substitutes, and how its device answers: once it is done, with
\* an acceptance before it is done ("later"), or row by row ("walk").
ConnectorCaps == UNION {DOMAIN p.caps : p \in Profiles}

ASSUME DriversAssumption ==
  /\ \A p \in Profiles : p.transport \in {"ssh", "rest", "snmp"}
  /\ DOMAIN RouterOs \cap ConnectorCaps = {}
  /\ \A p \in Profiles : \A cap \in DOMAIN p.caps :
       p.caps[cap].mode \in {"once", "later", "walk"}

VARIABLES
  catalog,  \* capability -> the profile that serves it
  policy,   \* HostKeyPolicy of the SSH transport
  known,    \* known_hosts: host -> recorded keys
  key,      \* host -> the key it presents
  call,     \* call -> its progress
  device    \* call -> what the device has made of its command
-----------------------------------------------------------------------------
IsConnector(cap) == cap \in ConnectorCaps
Answered(c) == call[c].pc \in {"replied", "shown"}

\* A reply tells what happened on the device.  The connector reports success
\* only for a command that the device reports done, that it has accepted with
\* a 2xx status and may still fail, or whose SSH channel ended without a
\* status, and never for one that did not reach the device; a call that was
\* refused on the way has left the device alone; and a command that the device
\* did carry out is reported as failed only when its answer was lost or late.
ReplyIsTruthful ==
  \A c \in Calls : Answered(c) =>
    /\ (call[c].success /\ IsConnector(call[c].cap)) =>
         device[c] = "did" \/ call[c].ground \in {"acceptance", "silence"}
    /\ call[c].success => device[c] # "untouched"
    /\ call[c].why = "refused" => device[c] = "untouched"
    /\ (~call[c].success /\ device[c] = "did") => call[c].why \in {"timeout", "io"}
=============================================================================
