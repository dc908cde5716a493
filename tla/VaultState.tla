------------------------------ MODULE VaultState -----------------------------
(***************************************************************************)
(* The credential store, its cache, the inventory and the operations that  *)
(* use them, and what must hold of them at every moment.  Modules Vault    *)
(* and VaultAdmin have their steps.                                        *)
(***************************************************************************)
EXTENDS Naturals

CONSTANTS
  Ids,        \* row ids of vault.credentials, each used at most once
  Names,      \* credential names
  Hosts,
  Urls,       \* hosts that the absolute URLs of operations may name
  Refs,       \* refs of inventory.targets
  Ops,        \* broker operations that may run at the same time
  CacheSize,  \* DEFAULT_CACHE_SIZE
  CacheTtl,   \* DEFAULT_CACHE_TTL, in ticks
  Absent,
  Gone,       \* the state of a deleted row
  Initial,    \* the rows of vault.credentials at the start
  Placed      \* the rows of inventory.targets at the start

ASSUME VaultAssumption ==
  /\ CacheSize \in Nat \ {0} /\ CacheTtl \in Nat \ {0}
  /\ Absent \notin Names \cup Urls /\ Absent # Gone

ASSUME RowsAssumption ==
  /\ Initial = [i \in Ids |-> Initial[i]]
  /\ \A i \in Ids : Initial[i] # Absent =>
       Initial[i] = [name |-> Initial[i].name, secret |-> Initial[i].secret]
  /\ Placed = [t \in Refs |-> Placed[t]]

VARIABLES
  creds,    \* vault.credentials: id -> [name, secret], Absent or Gone
  cache,    \* most recently used first: [name, secret, age]
  targets,  \* inventory.targets: ref -> [host, name] or Absent
  op,       \* operation -> its progress
  held,     \* <<name, secret>> pairs that some row has had (history)
  bound     \* <<host, name>> pairs that some row has had (history)
-----------------------------------------------------------------------------
\* A host only ever receives a secret of the credential that its own
\* inventory row named: the receiving host and the credential name were
\* together in one row, and the secret was held under that name, whatever
\* was edited while the operation ran and whatever the cache returned.  The
\* exception is an operation whose path is an absolute URL: the host of that
\* URL receives the secret of the target's credential (RestTransport::full_url).
PairedByARow ==
  \A o \in Ops :
    op[o].pc = "connecting" =>
      /\ <<op[o].name, op[o].secret>> \in held
      /\ op[o].host = op[o].url \/ <<op[o].host, op[o].name>> \in bound
=============================================================================
