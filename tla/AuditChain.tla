----------------------------- MODULE AuditChain -----------------------------
(***************************************************************************)
(* The audit log: table audit.events, whose INSERT trigger chains every    *)
(* row to the chain head under an advisory lock, and the anchor tool that  *)
(* snapshots the head and verifies the chain.                              *)
(*                                                                         *)
(* A row's ts is now(): the start of its transaction, taken before the     *)
(* trigger waits for the lock.  So rows may be chained in another order    *)
(* than the one (ts, id) that both the trigger and verify go by.           *)
(***************************************************************************)
EXTENDS Naturals, Sequences, SequencesExt, FiniteSets

CONSTANTS
    Payloads,   \* what the columns of a row may hold: a sequence of texts
    Events,     \* the appends (each is one row's payload)
    Null,       \* the NULL of a column
    Bar,        \* the character that separates the columns
    Free,       \* "nobody holds the lock"
    Ids,        \* random row ids; only their order matters
    MaxClock,   \* bound: how far the database clock runs
    MaxAnchors  \* bound: how many snapshots are taken

-----------------------------------------------------------------------------
(* The text of a row: actor_id, action, target_ref, credential_ref,        *)
(* op_summary, result, latency_ms and metadata, each after a bar           *)

\* coalesce(column, '')
Text(column) == IF column = Null THEN <<>> ELSE column

\* A bar within a column is not escaped, so different rows can have one text.
Canonical(payload) ==
    FoldLeft(LAMBDA text, column : text \o <<Bar>> \o Text(column), <<>>, payload)

\* No two appends have the same text.
ASSUME AuditAssumption ==
    /\ Ids \subseteq Nat
    /\ MaxClock \in Nat /\ MaxAnchors \in Nat
    /\ Events \subseteq Payloads /\ Free \notin Events
    /\ \A e, f \in Events : Canonical(e) = Canonical(f) => e = f

VARIABLES
    clock,     \* the database clock
    pc,        \* each append: idle, begun, holding (the lock), done, failed
    ts,        \* each append's transaction start
    lock,      \* holder of the advisory lock
    prev,      \* the chain head the holder read
    log,       \* the committed rows of audit.events, in commit order
    reading,   \* what a snapshot read and has not stored yet
    anchors,   \* rows of audit.anchors, in insertion order
    files      \* the mirrored manifests: file name (the head's ts) and content

vars == <<clock, pc, ts, lock, prev, log, reading, anchors, files>>

-----------------------------------------------------------------------------
(* The chain                                                               *)

Genesis == <<>>

\* A bug to look for: the digest leaves the previous hash out.
HashOfPayload(payload, at, previous) == <<Canonical(payload), at>>

\* sha256(canonical || prev_hash), where only sha256 is taken to be free of
\* collisions.  The canonical form is the ts and the text, and not the id; the
\* ts at its start and the hash at its end are of fixed length.
Hash(payload, at, previous) == <<Canonical(payload), at, previous>>

\* ORDER BY ts, id
Before(q, r) == q.ts < r.ts \/ (q.ts = r.ts /\ q.id < r.id)

IsNewest(r, rows) == r \in rows /\ \A q \in rows \ {r} : Before(q, r)

\* ORDER BY ts DESC, id DESC LIMIT 1; no row at all is the genesis.
ChainHead(rows) ==
    IF rows = {} THEN Genesis ELSE (CHOOSE r \in rows : IsNewest(r, rows)).hash

\* A bug to look for: verify goes by the prev_hash the row itself carries.
StoredPrev(rows, r) == r.prev

\* verify's expected_prev: the stored hash of the row before, oldest first.
ExpectedPrev(rows, r) == ChainHead({q \in rows : Before(q, r)})

\* verify: the rows whose recomputed hash is not the stored one.
Breaks(rows) ==
    {r \in rows : r.hash # Hash(r.payload, r.ts, ExpectedPrev(rows, r))}

Rows == ToSet(log)

UsedIds == {r.id : r \in Rows}

-----------------------------------------------------------------------------
States == {"idle", "begun", "holding", "done", "failed"}

NoReading == <<>>

Manifest(as_of, hash, count) == [as_of |-> as_of, hash |-> hash, count |-> count]

TypeOK ==
    /\ clock \in 0 .. MaxClock
    /\ pc \in [Events -> States]
    /\ ts \in [Events -> 0 .. MaxClock]
    /\ lock \in Events \union {Free}
    /\ \A i \in DOMAIN log :
           /\ log[i].payload \in Events /\ log[i].ts \in 0 .. MaxClock
           /\ log[i].id \in Ids
           /\ log[i].hash = Hash(log[i].payload, log[i].ts, log[i].prev)
    /\ Len(anchors) <= MaxAnchors
    /\ DOMAIN files \subseteq 0 .. MaxClock

Init ==
    /\ clock = 0
    /\ pc = [e \in Events |-> "idle"]
    /\ ts = [e \in Events |-> 0]
    /\ lock = Free
    /\ prev = Genesis
    /\ log = <<>>
    /\ reading = NoReading
    /\ anchors = <<>>
    /\ files = <<>>

-----------------------------------------------------------------------------
(* PostgresAuditSink::append: one autocommitted INSERT                     *)

Tick ==
    /\ clock < MaxClock
    /\ clock' = clock + 1
    /\ UNCHANGED <<pc, ts, lock, prev, log, reading, anchors, files>>

\* The transaction starts: ts DEFAULT now().
Begin(e) ==
    /\ pc[e] = "idle"
    /\ pc' = [pc EXCEPT ![e] = "begun"]
    /\ ts' = [ts EXCEPT ![e] = clock]
    /\ UNCHANGED <<clock, lock, prev, log, reading, anchors, files>>

\* A bug to look for: the head is read without the lock, as in V008.
ReadHeadUnlocked(e) ==
    /\ pc[e] = "begun"
    /\ lock' = e
    /\ prev' = ChainHead(Rows)
    /\ pc' = [pc EXCEPT ![e] = "holding"]
    /\ UNCHANGED <<clock, ts, log, reading, anchors, files>>

\* The trigger: pg_advisory_xact_lock, then the chain head.
ReadHead(e) ==
    /\ pc[e] = "begun"
    /\ lock = Free
    /\ lock' = e
    /\ prev' = ChainHead(Rows)
    /\ pc' = [pc EXCEPT ![e] = "holding"]
    /\ UNCHANGED <<clock, ts, log, reading, anchors, files>>

\* Commit: the row is there and the lock is free.
Commit(e, id) ==
    /\ pc[e] = "holding"
    /\ id \notin UsedIds
    /\ log' = Append(log, [payload |-> e, ts |-> ts[e], id |-> id, prev |-> prev,
                           hash |-> Hash(e, ts[e], prev)])
    /\ lock' = Free
    /\ pc' = [pc EXCEPT ![e] = "done"]
    /\ UNCHANGED <<clock, ts, prev, reading, anchors, files>>

\* The connection is lost: the transaction is rolled back.
Abort(e) ==
    /\ pc[e] \in {"begun", "holding"}
    /\ pc' = [pc EXCEPT ![e] = "failed"]
    /\ lock' = IF lock = e THEN Free ELSE lock
    /\ UNCHANGED <<clock, ts, prev, log, reading, anchors, files>>

-----------------------------------------------------------------------------
(* daimon-anchor snapshot                                                  *)

\* One statement: the head's ts and hash, and the number of rows.
SnapshotRead ==
    /\ reading = NoReading
    /\ Len(anchors) < MaxAnchors
    /\ reading' = Manifest(
           IF log = <<>> THEN clock ELSE (CHOOSE r \in Rows : IsNewest(r, Rows)).ts,
           ChainHead(Rows), Len(log))
    /\ UNCHANGED <<clock, pc, ts, lock, prev, log, anchors, files>>

\* A bug to look for: the rows are counted when the anchor is stored.
SnapshotStoreCounts ==
    /\ reading # NoReading
    /\ anchors' = Append(anchors, [reading EXCEPT !.count = Len(log)])
    /\ UNCHANGED files
    /\ reading' = NoReading
    /\ UNCHANGED <<clock, pc, ts, lock, prev, log>>

\* The anchor row, then the mirrored file, which is named after the head's ts
\* and replaces a file of that name; its write may fail, or be switched off.
SnapshotStore ==
    /\ reading # NoReading
    /\ anchors' = Append(anchors, reading)
    /\ \/ files' = [t \in DOMAIN files \union {reading.as_of} |->
                       IF t = reading.as_of THEN reading ELSE files[t]]
       \/ UNCHANGED files
    /\ reading' = NoReading
    /\ UNCHANGED <<clock, pc, ts, lock, prev, log>>

\* The INSERT INTO audit.anchors fails and the tool exits.
SnapshotFails ==
    /\ reading # NoReading
    /\ reading' = NoReading
    /\ UNCHANGED <<clock, pc, ts, lock, prev, log, anchors, files>>

Next ==
    \/ Tick
    \/ \E e \in Events : Begin(e) \/ ReadHead(e) \/ Abort(e)
    \/ \E e \in Events, id \in Ids : Commit(e, id)
    \/ SnapshotRead
    \/ SnapshotStore
    \/ SnapshotFails

Spec == Init /\ [][Next]_vars

-----------------------------------------------------------------------------
(* Properties                                                              *)

\* Rows were committed in the order verify walks them.
InOrder ==
    \A i, j \in DOMAIN log : i < j => Before(log[i], log[j])

\* However appends overlap and abort, every row but the first is chained to a
\* row committed before it, and only the first to the genesis: there is one
\* tree of hashes, and no row of it can be made up later.  (the trigger's
\* advisory lock)
LinksGoBack ==
    \A i \in DOMAIN log :
        IF i = 1 THEN log[i].prev = Genesis
                 ELSE \E j \in 1 .. i - 1 : log[j].hash = log[i].prev

\* verify is silent exactly when the rows were committed in the order of their
\* timestamps: overlapping appends are the one cause of a false alarm, and
\* every such overlap raises one.  (trigger against verify)
VerifyIffOrdered == (Breaks(Rows) = {}) <=> InOrder

\* A row's columns are overwritten, its ts, id and hashes left as they are.
Rewritten(r, payload) == (Rows \ {r}) \union {[r EXCEPT !.payload = payload]}

\* Tamper evidence, and where it ends: in a log that verifies, a changed row is
\* reported exactly when the change shows in the text that is hashed (a bar
\* moved between two columns, or NULL for the empty text, does not), and the
\* absence of any row but the newest is reported.  (canonicalize, verify)
EditsAreReported ==
    InOrder =>
        \A r \in Rows :
            /\ \A p \in Payloads :
                   Breaks(Rewritten(r, p)) = {} <=> Canonical(p) = Canonical(r.payload)
            /\ IsNewest(r, Rows) \/ Breaks(Rows \ {r}) # {}

\* An anchor names a prefix of an ordered log, whatever was appended while the
\* snapshot was being stored: the hash it carries is that of row row_count.
AnchorsNamePrefix ==
    InOrder =>
        \A k \in DOMAIN anchors :
            IF anchors[k].count = 0 THEN anchors[k].hash = Genesis
                                    ELSE anchors[k].hash = log[anchors[k].count].hash
=============================================================================
