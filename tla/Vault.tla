-------------------------------- MODULE Vault --------------------------------
(***************************************************************************)
(* The credential store (daimon-vault), its cache, the inventory of        *)
(* targets (daimon-inventory), and what a broker operation does with them: *)
(* it reads the target's row, resolves the credential that the row names   *)
(* and hands the secret to the transport for the row's host, or for the    *)
(* host that the operation's own absolute URL names.                       *)
(*                                                                         *)
(* A secret is a model value.  Sealing is a bijection under one master key *)
(* that never leaves the process, so a row is shown with its plain secret. *)
(***************************************************************************)
EXTENDS VaultState, Sequences

store == <<creds, held>>
inventory == <<targets, bound>>
vaultVars == <<creds, cache, targets, op, held, bound>>
-----------------------------------------------------------------------------
Live(i) == creds[i] \notin {Absent, Gone}

\* credentials_name_idx keeps names unique.
Holder(n) == {i \in Ids : Live(i) /\ creds[i].name = n}

Cached(n) == {k \in DOMAIN cache : cache[k].name = n}
AlwaysFresh(e) == TRUE

Fresh(e) == e.age < CacheTtl

Serves(n) == \E k \in Cached(n) : Fresh(cache[k])
EntryOf(n) == cache[CHOOSE k \in Cached(n) : TRUE]

\* LruCache::pop: a name has one entry at most.
Without(n) ==
  IF Cached(n) = {} THEN cache
  ELSE LET k == CHOOSE j \in Cached(n) : TRUE
       IN  SubSeq(cache, 1, k - 1) \o SubSeq(cache, k + 1, Len(cache))

\* LruCache::put: in front, and the least recently used entry falls out.
PutFront(e) ==
  LET entries == <<e>> \o Without(e.name)
  IN  SubSeq(entries, 1, IF Len(entries) > CacheSize THEN CacheSize
                         ELSE Len(entries))

Idle == [pc |-> "idle"]

VaultInit(initial, placed) ==
  /\ creds = initial
  /\ cache = <<>>
  /\ targets = placed
  /\ op = [o \in Ops |-> Idle]
  /\ held = {<<initial[i].name, initial[i].secret>> :
               i \in {j \in Ids : initial[j] # Absent}}
  /\ bound = {<<placed[t].host, placed[t].name>> :
                t \in {u \in Refs : placed[u] # Absent}}
-----------------------------------------------------------------------------
(* A broker operation.                                                     *)

\* The row is read once.  An unknown target ends the operation, and so does
\* a row whose credential reference names nothing (empty, malformed, or the
\* uuid form).  url is the host of the operation's path, when that is an
\* absolute URL.
GetManaged(o, t, url) ==
  /\ op[o].pc = "idle"
  /\ op' = IF targets[t] = Absent \/ targets[t].name = Absent THEN op
           ELSE [op EXCEPT ![o] = [pc |-> "resolving", ref |-> t, url |-> url,
                                   host |-> targets[t].host,
                                   name |-> targets[t].name]]
  /\ UNCHANGED <<store, cache, inventory>>

\* Mutant: the row is read again for the host.
ConnectRereading(o, secret) ==
  [pc |-> "connecting", name |-> op[o].name, secret |-> secret, url |-> op[o].url,
   host |-> IF op[o].url # Absent THEN op[o].url
            ELSE IF targets[op[o].ref] = Absent THEN op[o].host
            ELSE targets[op[o].ref].host]

\* The transport gets the secret for the host of the row that was read, and
\* sends it there unless the operation's path is an absolute URL (full_url).
Connect(o, secret) ==
  [pc |-> "connecting", name |-> op[o].name, secret |-> secret, url |-> op[o].url,
   host |-> IF op[o].url = Absent THEN op[o].host ELSE op[o].url]

\* resolve, first part: the cache, under its lock.  A hit becomes the most
\* recently used entry, an entry past its time is dropped.
LookUp(o) ==
  /\ op[o].pc = "resolving"
  /\ LET n == op[o].name
     IN  IF Serves(n)
         THEN /\ cache' = <<EntryOf(n)>> \o Without(n)
              /\ op' = [op EXCEPT ![o] = Connect(o, EntryOf(n).secret)]
         ELSE /\ cache' = Without(n)
              /\ op' = [op EXCEPT ![o].pc = "missed"]
  /\ UNCHANGED <<store, inventory>>

\* resolve, second part: the row, outside the lock.
Fetch(o) ==
  /\ op[o].pc = "missed"
  /\ op' = [op EXCEPT ![o] =
              IF Holder(@.name) = {} THEN Idle
              ELSE [pc |-> "fetched", ref |-> @.ref, url |-> @.url,
                    host |-> @.host, name |-> @.name,
                    secret |-> creds[CHOOSE i \in Holder(@.name) : TRUE].secret]]
  /\ UNCHANGED <<store, cache, inventory>>

\* resolve, third part: the cache again.
Put(o) ==
  /\ op[o].pc = "fetched"
  /\ cache' = PutFront([name |-> op[o].name, secret |-> op[o].secret,
                        age |-> 0])
  /\ op' = [op EXCEPT ![o] = Connect(o, op[o].secret)]
  /\ UNCHANGED <<store, inventory>>

\* The transport call ends; the secret is wiped.
EndOp(o) ==
  /\ op[o].pc = "connecting"
  /\ op' = [op EXCEPT ![o] = Idle]
  /\ UNCHANGED <<store, cache, inventory>>

\* Time passes.
Tick ==
  /\ \E k \in DOMAIN cache : cache[k].age < CacheTtl
  /\ cache' = [k \in DOMAIN cache |->
                 [cache[k] EXCEPT !.age = IF @ < CacheTtl THEN @ + 1 ELSE @]]
  /\ UNCHANGED <<store, inventory, op>>

OpStep ==
  \/ \E o \in Ops :
       \/ \E t \in Refs, url \in Urls \cup {Absent} : GetManaged(o, t, url)
       \/ LookUp(o) \/ Fetch(o) \/ Put(o) \/ EndOp(o)
  \/ Tick
-----------------------------------------------------------------------------
(* Statements on the two tables.  Each is one SQL statement; its guard is  *)
(* what makes it succeed.                                                  *)

CanCreate(i, n) == creds[i] = Absent /\ Holder(n) = {}

Create(i, n, secret) ==
  /\ creds' = [creds EXCEPT ![i] = [name |-> n, secret |-> secret]]
  /\ held' = held \cup {<<n, secret>>}

Update(i, secret) ==
  /\ creds' = [creds EXCEPT ![i].secret = secret]
  /\ held' = held \cup {<<creds[i].name, secret>>}

CanRename(i, n) == Live(i) /\ Holder(n) \subseteq {i}

Rename(i, n) ==
  /\ creds' = [creds EXCEPT ![i].name = n]
  /\ held' = held \cup {<<n, creds[i].secret>>}

Delete(i) ==
  /\ creds' = [creds EXCEPT ![i] = Gone]
  /\ UNCHANGED held

Upsert(t, row) ==
  /\ targets' = [targets EXCEPT ![t] = row]
  /\ bound' = bound \cup {<<row.host, row.name>>}

Remove(t) ==
  /\ targets' = [targets EXCEPT ![t] = Absent]
  /\ UNCHANGED bound
-----------------------------------------------------------------------------
\* A rotated, renamed or deleted credential goes out of use: once the edits
\* stop, the cache eventually serves nothing but what the rows hold.  The
\* cache is cleared by each edit, but a resolve that read the row before the
\* edit may put the old secret back after it; only the entry's age ends that.
RotationTakesEffect ==
  <>[](\A n \in Names :
         Serves(n) => \E i \in Holder(n) : creds[i].secret = EntryOf(n).secret)
=============================================================================
