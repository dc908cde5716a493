-------------------------- MODULE AuditChainProofs --------------------------
(***************************************************************************)
(* Proofs about module AuditChain, for any number of appends and snapshots *)
(* and any clock.                                                          *)
(***************************************************************************)
EXTENDS AuditChain, TLAPS

-----------------------------------------------------------------------------
(* The order of the rows and the newest row                                *)

Timed(r) == r.ts \in Nat /\ r.id \in Nat

\* (ts, id) is a strict order, total on rows with different ids.
LEMMA BeforeIsOrder ==
    ASSUME NEW a, NEW b, NEW c, Timed(a), Timed(b), Timed(c)
    PROVE  /\ ~ Before(a, a)
           /\ ~ (Before(a, b) /\ Before(b, a))
           /\ Before(a, b) /\ Before(b, c) => Before(a, c)
           /\ a.id # b.id => Before(a, b) \/ Before(b, a)
  BY DEF Timed, Before

\* What ORDER BY ... LIMIT 1 returns is the newest row when there is one.
LEMMA HeadIsNewest ==
    ASSUME NEW rows, NEW r, IsNewest(r, rows), \A q \in rows : Timed(q)
    PROVE  /\ (CHOOSE x \in rows : IsNewest(x, rows)) = r
           /\ ChainHead(rows) = r.hash
<1>1. \A x \in rows : IsNewest(x, rows) => x = r
  BY BeforeIsOrder DEF IsNewest
<1>2. r \in rows
  BY DEF IsNewest
<1> QED
  BY <1>1, <1>2 DEF ChainHead

\* A row set has a newest row, unless it is empty.
HasNewest(rows) == rows = {} \/ \E r : IsNewest(r, rows)

\* One more row, with an id of its own, leaves a newest row.
LEMMA NewestGrows ==
    ASSUME NEW rows, NEW n, HasNewest(rows), Timed(n), \A q \in rows : Timed(q),
           \A q \in rows : q.id # n.id
    PROVE  HasNewest(rows \union {n})
<1>1. CASE rows = {}
  BY <1>1 DEF HasNewest, IsNewest
<1>2. CASE rows # {}
  <2>1. PICK r : IsNewest(r, rows)
    BY <1>2 DEF HasNewest
  <2>2. r \in rows /\ Timed(r) /\ r.id # n.id
    BY <2>1 DEF IsNewest
  <2>3. CASE Before(n, r)
    BY <2>1, <2>3 DEF HasNewest, IsNewest
  <2>4. CASE Before(r, n)
    <3>1. \A q \in rows : Before(q, n)
      BY <2>1, <2>2, <2>4, BeforeIsOrder DEF IsNewest
    <3> QED
      BY <3>1 DEF HasNewest, IsNewest
  <2> QED
    BY <2>2, <2>3, <2>4, BeforeIsOrder
<1> QED
  BY <1>1, <1>2

\* Appending to a sequence of any elements.
LEMMA AppendFacts ==
    ASSUME NEW S, NEW q \in Seq(S), NEW e
    PROVE  /\ Append(q, e) \in Seq(S \union {e})
           /\ Len(Append(q, e)) = Len(q) + 1
           /\ DOMAIN q = 1 .. Len(q) /\ Len(q) \in Nat
           /\ DOMAIN Append(q, e) = 1 .. Len(q) + 1
           /\ \A i \in 1 .. Len(q) : Append(q, e)[i] = q[i]
           /\ Append(q, e)[Len(q) + 1] = e
<1>1. q \in Seq(S \union {e})
  OBVIOUS
<1> QED
  BY <1>1

\* The rows of the table after an append.
LEMMA ToSetAppend ==
    ASSUME NEW S, NEW q \in Seq(S), NEW e
    PROVE  ToSet(Append(q, e)) = ToSet(q) \union {e}
<1>1. /\ DOMAIN q = 1 .. Len(q) /\ Len(q) \in Nat
      /\ DOMAIN Append(q, e) = 1 .. Len(q) + 1
      /\ \A i \in 1 .. Len(q) : Append(q, e)[i] = q[i]
      /\ Append(q, e)[Len(q) + 1] = e
  BY AppendFacts
<1>2. 1 .. Len(q) + 1 = (1 .. Len(q)) \union {Len(q) + 1}
  BY <1>1
<1> QED
  BY <1>1, <1>2, Zenon DEF ToSet

-----------------------------------------------------------------------------
(* The invariant                                                           *)

SeqsOK == (\E S : log \in Seq(S)) /\ (\E S : anchors \in Seq(S))

\* The holder of the lock has read the head, and it still is the head.
LockOK ==
    /\ \A e \in Events : pc[e] = "holding" <=> lock = e
    /\ lock # Free => prev = ChainHead(Rows)

\* Ids and payloads identify rows; a row's append is done.
RowsOnce ==
    /\ \A i, j \in DOMAIN log : log[i].id = log[j].id => i = j
    /\ \A i, j \in DOMAIN log : log[i].payload = log[j].payload => i = j
    /\ \A i \in DOMAIN log : pc[log[i].payload] = "done"

\* There is a newest row, overall and below any key.
NewestOK ==
    /\ HasNewest(Rows)
    /\ \A x : Timed(x) => HasNewest({q \in Rows : Before(q, x)})

\* Row k is the newest of the rows committed before row i.
NewestThen(i, k) ==
    /\ k \in 1 .. i - 1
    /\ \A m \in 1 .. i - 1 : m # k => Before(log[m], log[k])

\* Each row is chained to the newest of the rows committed before it.
ChainOK ==
    \A i \in DOMAIN log :
        IF i = 1 THEN log[i].prev = Genesis
                 ELSE \E k : NewestThen(i, k) /\ log[i].prev = log[k].hash

\* A snapshot that was read has room to be stored.
ReadingOK ==
    reading # NoReading =>
        reading.as_of \in 0 .. MaxClock /\ Len(anchors) < MaxAnchors

Inv ==
    TypeOK /\ SeqsOK /\ LockOK /\ RowsOnce /\ NewestOK /\ ChainOK /\ ReadingOK

\* Nothing has been appended yet.
LEMMA InvInitially == Init => Inv
<1> SUFFICES ASSUME Init PROVE Inv
  OBVIOUS
<1> USE DEF Init
<1>1. TypeOK
  BY AuditAssumption DEF TypeOK, States
<1>2. SeqsOK
  <2>1. <<>> \in Seq({})
    OBVIOUS
  <2> QED
    BY <2>1 DEF SeqsOK
<1>3. LockOK /\ RowsOnce /\ ChainOK /\ ReadingOK
  BY AuditAssumption DEF LockOK, RowsOnce, ChainOK, ReadingOK, NoReading
<1>4. Rows = {}
  BY DEF Rows, ToSet
<1>5. NewestOK
  BY <1>4 DEF NewestOK, HasNewest
<1> QED
  BY <1>1, <1>2, <1>3, <1>5 DEF Inv

\* The rows have times and ids.
LEMMA RowsTimed ==
    ASSUME Inv
    PROVE  /\ \A i \in DOMAIN log : Timed(log[i]) /\ log[i] \in Rows
           /\ \A q \in Rows : Timed(q) /\ \E i \in DOMAIN log : q = log[i]
           /\ DOMAIN log = 1 .. Len(log) /\ Len(log) \in Nat
<1>1. \A i \in DOMAIN log : Timed(log[i])
  <2>1. \A i \in DOMAIN log : log[i].ts \in 0 .. MaxClock /\ log[i].id \in Ids
    BY Zenon DEF Inv, TypeOK
  <2>2. (\A t \in 0 .. MaxClock : t \in Nat) /\ (\A x \in Ids : x \in Nat)
    BY AuditAssumption
  <2> QED
    BY <2>1, <2>2, Zenon DEF Timed
<1>2. DOMAIN log = 1 .. Len(log) /\ Len(log) \in Nat
  BY DEF Inv, SeqsOK
<1> QED
  BY <1>1, <1>2, Zenon DEF Rows, ToSet

\* Committing the holder's row.
LEMMA InvCommit ==
    ASSUME Inv, NEW e \in Events, NEW id \in Ids, Commit(e, id)
    PROVE  Inv'
<1> DEFINE row == [payload |-> e, ts |-> ts[e], id |-> id, prev |-> prev,
                   hash |-> Hash(e, ts[e], prev)]
           n == Len(log)
<1>1. /\ pc[e] = "holding" /\ id \notin UsedIds /\ log' = Append(log, row)
      /\ lock' = Free /\ pc' = [pc EXCEPT ![e] = "done"]
      /\ UNCHANGED <<clock, ts, prev, reading, anchors, files>>
  BY DEF Commit
<1>2. /\ row.payload = e /\ row.ts = ts[e] /\ row.id = id /\ row.prev = prev
      /\ row.hash = Hash(e, ts[e], prev)
  OBVIOUS
<1>3. Timed(row) /\ ts[e] \in 0 .. MaxClock
  BY <1>2, AuditAssumption DEF Inv, TypeOK, Timed
<1> HIDE DEF row
<1>4. /\ DOMAIN log = 1 .. n /\ n \in Nat
      /\ DOMAIN log' = 1 .. n + 1
      /\ \A i \in 1 .. n : log'[i] = log[i]
      /\ log'[n + 1] = row
      /\ Rows' = Rows \union {row}
      /\ \E S : log' \in Seq(S)
  <2>1. PICK S : log \in Seq(S)
    BY DEF Inv, SeqsOK
  <2>2. ToSet(Append(log, row)) = ToSet(log) \union {row}
    BY <2>1, ToSetAppend
  <2>3. Rows' = Rows \union {row}
    BY <1>1, <2>2 DEF Rows
  <2>4. /\ Append(log, row) \in Seq(S \union {row})
        /\ DOMAIN log = 1 .. n /\ n \in Nat
        /\ DOMAIN Append(log, row) = 1 .. n + 1
        /\ \A i \in 1 .. n : Append(log, row)[i] = log[i]
        /\ Append(log, row)[n + 1] = row
    BY <2>1, AppendFacts
  <2> HIDE DEF n
  <2> QED
    BY <1>1, <2>3, <2>4
<1> HIDE DEF n
<1>5. \A i \in 1 .. n + 1 : i \in 1 .. n \/ i = n + 1
  BY <1>4
<1>6. TypeOK'
  <2>1. ASSUME NEW i \in DOMAIN log'
        PROVE  /\ log'[i].payload \in Events /\ log'[i].ts \in 0 .. MaxClock
               /\ log'[i].id \in Ids
               /\ log'[i].hash = Hash(log'[i].payload, log'[i].ts, log'[i].prev)
    BY <1>2, <1>3, <1>4, <1>5 DEF Inv, TypeOK
  <2> QED
    BY <1>1, <2>1 DEF Inv, TypeOK, States
<1>7. SeqsOK'
  BY <1>1, <1>4 DEF Inv, SeqsOK
<1>8. LockOK'
  BY <1>1, AuditAssumption DEF Inv, LockOK, TypeOK
<1>9. RowsOnce'
  <2>1. \A i \in 1 .. n : log[i].id # id
    BY <1>1, <1>4 DEF UsedIds, Rows, ToSet
  <2>2. \A i \in 1 .. n : log[i].payload # e /\ pc[log[i].payload] = "done"
    BY <1>1, <1>4 DEF Inv, RowsOnce
  <2>3. \A i, j \in DOMAIN log' : log'[i].id = log'[j].id => i = j
    BY <1>2, <1>4, <1>5, <2>1 DEF Inv, RowsOnce
  <2>4. \A i, j \in DOMAIN log' : log'[i].payload = log'[j].payload => i = j
    BY <1>2, <1>4, <1>5, <2>2 DEF Inv, RowsOnce
  <2>5. \A i \in DOMAIN log' : pc'[log'[i].payload] = "done"
    <3>1. pc \in [Events -> States] /\ \A i \in DOMAIN log : log[i].payload \in Events
      BY DEF Inv, TypeOK
    <3>2. ASSUME NEW i \in 1 .. n PROVE pc'[log'[i].payload] = "done"
      BY <1>1, <1>4, <2>2, <3>1
    <3>3. pc'[log'[n + 1].payload] = "done"
      BY <1>1, <1>2, <1>4, <3>1
    <3> QED
      BY <1>4, <1>5, <3>2, <3>3
  <2> QED
    BY <2>3, <2>4, <2>5 DEF RowsOnce
<1>10. NewestOK'
  <2>1. \A q \in Rows : Timed(q) /\ q.id # row.id
    BY <1>1, <1>2, RowsTimed DEF UsedIds
  <2>2. HasNewest(Rows \union {row})
    BY <1>3, <2>1, NewestGrows DEF Inv, NewestOK
  <2>3. ASSUME NEW x, Timed(x)
        PROVE  HasNewest({q \in Rows \union {row} : Before(q, x)})
    <3> DEFINE low == {q \in Rows : Before(q, x)}
    <3>1. HasNewest(low)
      BY <2>3 DEF Inv, NewestOK
    <3>2. \A q \in low : Timed(q) /\ q.id # row.id
      BY <2>1
    <3>3. CASE Before(row, x)
      <4>1. {q \in Rows \union {row} : Before(q, x)} = low \union {row}
        BY <3>3
      <4> HIDE DEF low
      <4>2. HasNewest(low \union {row})
        BY <1>3, <3>1, <3>2, NewestGrows
      <4> QED
        BY <4>1, <4>2
    <3>4. CASE ~ Before(row, x)
      <4>1. {q \in Rows \union {row} : Before(q, x)} = low
        BY <3>4
      <4> QED
        BY <3>1, <4>1
    <3> QED
      BY <3>3, <3>4
  <2> QED
    BY <1>4, <2>2, <2>3 DEF NewestOK
<1>11. ChainOK'
  <2>1. ASSUME NEW i \in 1 .. n
        PROVE  IF i = 1 THEN log'[i].prev = Genesis
               ELSE \E k : NewestThen(i, k)' /\ log'[i].prev = log'[k].hash
    <3>1. CASE i = 1
      BY <1>4, <3>1 DEF Inv, ChainOK
    <3>2. CASE i # 1
      <4>1. PICK k : NewestThen(i, k) /\ log[i].prev = log[k].hash
        BY <1>4, <3>2 DEF Inv, ChainOK
      <4>2. k \in 1 .. n /\ \A m \in 1 .. i - 1 : m \in 1 .. n
        BY <1>4, <4>1 DEF NewestThen
      <4>3. NewestThen(i, k)'
        BY <1>4, <4>1, <4>2 DEF NewestThen
      <4> QED
        BY <1>4, <3>2, <4>1, <4>2, <4>3
    <3> QED
      BY <3>1, <3>2
  <2>2. prev = ChainHead(Rows)
    BY <1>1, AuditAssumption DEF Inv, LockOK
  <2>3. CASE n = 0
    <3>1. Rows = {}
      BY <1>4, <2>3 DEF Rows, ToSet
    <3>2. log'[n + 1].prev = Genesis
      BY <1>2, <1>4, <2>2, <3>1 DEF ChainHead
    <3> QED
      BY <1>4, <2>3, <3>2 DEF ChainOK
  <2>4. CASE n > 0
    <3>1. log[1] \in Rows
      BY <1>4, <2>4, RowsTimed
    <3>2. PICK r : IsNewest(r, Rows)
      BY <3>1 DEF Inv, NewestOK, HasNewest
    <3>3. PICK k \in 1 .. n : r = log[k]
      BY <1>4, <3>2, RowsTimed DEF IsNewest
    <3>4. prev = log[k].hash
      BY <2>2, <3>2, <3>3, HeadIsNewest, RowsTimed
    <3>5. \A m \in 1 .. n : m # k => Before(log[m], log[k])
      <4>1. \A m \in 1 .. n : m # k => log[m] # log[k] /\ log[m] \in Rows
        BY <1>4, RowsTimed DEF Inv, RowsOnce
      <4> QED
        BY <3>2, <3>3, <4>1 DEF IsNewest
    <3>6. ASSUME NEW j, j = n + 1 PROVE NewestThen(j, k)'
      <4>1. 1 .. j - 1 = 1 .. n
        BY <1>4, <3>6
      <4>2. \A m \in 1 .. n : m # k => Before(log'[m], log'[k])
        BY <1>4, <3>3, <3>5
      <4> QED
        BY <3>3, <4>1, <4>2, Zenon DEF NewestThen
    <3>7. log'[n + 1].prev = log'[k].hash
      BY <1>2, <1>4, <3>3, <3>4
    <3>8. n + 1 # 1
      BY <1>4, <2>4
    <3>9. ASSUME NEW j, j = n + 1
          PROVE  IF j = 1 THEN log'[j].prev = Genesis
                 ELSE \E i : NewestThen(j, i)' /\ log'[j].prev = log'[i].hash
      BY <3>6, <3>7, <3>8, <3>9, Zenon
    <3> QED
      BY <1>4, <1>5, <2>1, <3>9, Zenon DEF ChainOK
  <2> QED
    BY <1>4, <2>3, <2>4
<1>12. ReadingOK'
  BY <1>1 DEF Inv, ReadingOK
<1> QED
  BY <1>6, <1>7, <1>8, <1>9, <1>10, <1>11, <1>12 DEF Inv

\* The database clock, the other steps of an append, the two of a snapshot.
LEMMA InvTick == Inv /\ Tick => Inv'
<1> SUFFICES ASSUME Inv, Tick PROVE Inv'
  OBVIOUS
<1>1. /\ clock \in 0 .. MaxClock /\ clock < MaxClock /\ clock' = clock + 1
      /\ UNCHANGED <<pc, ts, lock, prev, log, reading, anchors, files>>
  BY DEF Inv, TypeOK, Tick
<1>2. clock' \in 0 .. MaxClock
  BY <1>1, AuditAssumption
<1>3. TypeOK'
  BY <1>1, <1>2 DEF Inv, TypeOK
<1>4. /\ SeqsOK' /\ LockOK' /\ RowsOnce' /\ NewestOK' /\ ReadingOK'
  BY <1>1 DEF Inv, SeqsOK, LockOK, RowsOnce, NewestOK, ReadingOK, Rows
<1>5. ChainOK'
  BY <1>1 DEF Inv, ChainOK, NewestThen
<1> QED
  BY <1>3, <1>4, <1>5 DEF Inv

\* The steps that leave the rows and the snapshots alone.
LEMMA InvAppendSteps ==
    ASSUME Inv, NEW e \in Events, Begin(e) \/ ReadHead(e) \/ Abort(e)
    PROVE  Inv'
<1>1. UNCHANGED <<clock, log, reading, anchors, files>>
  BY DEF Begin, ReadHead, Abort
<1>2. pc \in [Events -> States] /\ clock \in 0 .. MaxClock
  BY DEF Inv, TypeOK
<1>3. /\ pc[e] # "done"
      /\ \E s \in States : s # "done" /\ pc' = [pc EXCEPT ![e] = s]
  BY DEF Begin, ReadHead, Abort, States
<1>4. TypeOK'
  <2>1. pc' \in [Events -> States]
    BY <1>2, <1>3
  <2>2. ts' \in [Events -> 0 .. MaxClock]
    BY <1>2 DEF Inv, TypeOK, Begin, ReadHead, Abort
  <2>3. lock' \in Events \union {Free}
    BY DEF Inv, TypeOK, Begin, ReadHead, Abort
  <2> QED
    BY <1>1, <2>1, <2>2, <2>3 DEF Inv, TypeOK
<1>5. SeqsOK' /\ NewestOK' /\ ReadingOK' /\ ChainOK'
  <2>1. SeqsOK' /\ NewestOK' /\ ReadingOK'
    BY <1>1 DEF Inv, SeqsOK, NewestOK, ReadingOK, Rows
  <2>2. ChainOK'
    BY <1>1 DEF Inv, ChainOK, NewestThen
  <2> QED
    BY <2>1, <2>2
<1>6. RowsOnce'
  <2>1. \A i \in DOMAIN log : log[i].payload \in Events /\ pc[log[i].payload] = "done"
    BY DEF Inv, TypeOK, RowsOnce
  <2>2. \A i \in DOMAIN log : pc'[log[i].payload] = "done"
    BY <1>2, <1>3, <2>1
  <2> QED
    BY <1>1, <2>2 DEF Inv, RowsOnce
<1>7. LockOK'
  <2>1. CASE Begin(e)
    BY <1>1, <1>2, <2>1 DEF Inv, LockOK, Begin, Rows, States
  <2>2. CASE ReadHead(e)
    BY <1>1, <1>2, <2>2, AuditAssumption DEF Inv, LockOK, ReadHead, Rows, States
  <2>3. CASE Abort(e)
    BY <1>1, <1>2, <2>3, AuditAssumption DEF Inv, LockOK, Abort, Rows, States
  <2> QED
    BY <2>1, <2>2, <2>3
<1> QED
  BY <1>4, <1>5, <1>6, <1>7 DEF Inv

\* A snapshot takes the newest row's ts, which is a time of the clock.
LEMMA InvSnapshots ==
    ASSUME Inv, SnapshotRead \/ SnapshotStore \/ SnapshotFails
    PROVE  Inv'
<1>1. UNCHANGED <<clock, pc, ts, lock, prev, log>>
  BY DEF SnapshotRead, SnapshotStore, SnapshotFails
<1>2. LockOK' /\ RowsOnce' /\ NewestOK' /\ ChainOK'
  <2>1. LockOK' /\ RowsOnce' /\ NewestOK'
    BY <1>1 DEF Inv, LockOK, RowsOnce, NewestOK, Rows
  <2>2. ChainOK'
    BY <1>1 DEF Inv, ChainOK, NewestThen
  <2> QED
    BY <2>1, <2>2
<1>3. CASE SnapshotRead
  <2> DEFINE at == IF log = <<>> THEN clock
                   ELSE (CHOOSE r \in Rows : IsNewest(r, Rows)).ts
  <2>1. at \in 0 .. MaxClock
    <3>1. CASE log = <<>>
      BY <3>1 DEF Inv, TypeOK
    <3>2. CASE log # <<>>
      <4>1. Len(log) # 0
        BY <3>2 DEF Inv, SeqsOK
      <4>2. 1 \in DOMAIN log
        BY <4>1, RowsTimed
      <4>3. Rows # {}
        BY <4>2, RowsTimed
      <4>4. PICK r : IsNewest(r, Rows)
        BY <4>3 DEF Inv, NewestOK, HasNewest
      <4>5. (CHOOSE x \in Rows : IsNewest(x, Rows)) = r
        BY <4>4, HeadIsNewest, RowsTimed
      <4>6. PICK i \in DOMAIN log : r = log[i]
        BY <4>4, RowsTimed DEF IsNewest
      <4>7. log[i].ts \in 0 .. MaxClock
        BY Zenon DEF Inv, TypeOK
      <4> QED
        BY <3>2, <4>5, <4>6, <4>7
    <3> QED
      BY <3>1, <3>2
  <2>2. reading' = Manifest(at, ChainHead(Rows), Len(log)) /\ UNCHANGED <<anchors, files>>
    BY <1>3 DEF SnapshotRead
  <2>3. Len(anchors) < MaxAnchors
    BY <1>3 DEF SnapshotRead
  <2> HIDE DEF at
  <2>4. reading'.as_of = at
    BY <2>2 DEF Manifest
  <2> QED
    BY <1>1, <1>2, <2>1, <2>2, <2>3, <2>4 DEF Inv, TypeOK, SeqsOK, ReadingOK
<1>4. CASE SnapshotStore
  <2>1. PICK S : anchors \in Seq(S)
    BY DEF Inv, SeqsOK
  <2>2. /\ anchors' = Append(anchors, reading) /\ reading' = NoReading
        /\ reading.as_of \in 0 .. MaxClock /\ Len(anchors) < MaxAnchors
    BY <1>4 DEF Inv, ReadingOK, SnapshotStore
  <2>3. anchors' \in Seq(S \union {reading}) /\ Len(anchors') = Len(anchors) + 1
    BY <2>1, <2>2, AppendFacts
  <2>4. DOMAIN files' \subseteq 0 .. MaxClock
    BY <1>4, <2>2 DEF Inv, TypeOK, SnapshotStore
  <2>5. Len(anchors') <= MaxAnchors
    BY <2>1, <2>2, <2>3, AuditAssumption
  <2>6. TypeOK'
    BY <1>1, <2>4, <2>5 DEF Inv, TypeOK
  <2>7. SeqsOK' /\ ReadingOK'
    BY <1>1, <2>2, <2>3 DEF Inv, SeqsOK, ReadingOK
  <2> QED
    BY <1>2, <2>6, <2>7 DEF Inv
<1>5. CASE SnapshotFails
  BY <1>1, <1>2, <1>5 DEF Inv, TypeOK, SeqsOK, ReadingOK, SnapshotFails
<1> QED
  BY <1>3, <1>4, <1>5

\* The invariant holds in every state.
LEMMA InvAlways == Spec => []Inv
<1>1. Init => Inv
  BY InvInitially
<1>2. Inv /\ [Next]_vars => Inv'
  <2> SUFFICES ASSUME Inv, [Next]_vars PROVE Inv'
    OBVIOUS
  <2>1. CASE Tick
    BY <2>1, InvTick
  <2>2. ASSUME NEW e \in Events, Begin(e) \/ ReadHead(e) \/ Abort(e) PROVE Inv'
    BY <2>2, InvAppendSteps
  <2>3. ASSUME NEW e \in Events, NEW id \in Ids, Commit(e, id) PROVE Inv'
    BY <2>3, InvCommit
  <2>4. CASE SnapshotRead \/ SnapshotStore \/ SnapshotFails
    BY <2>4, InvSnapshots
  <2>5. CASE UNCHANGED vars
    <3>1. TypeOK' /\ SeqsOK' /\ LockOK' /\ RowsOnce' /\ NewestOK' /\ ReadingOK'
      BY <2>5 DEF vars, Inv, TypeOK, SeqsOK, LockOK, RowsOnce, NewestOK, ReadingOK, Rows
    <3>2. ChainOK'
      BY <2>5 DEF vars, Inv, ChainOK, NewestThen
    <3> QED
      BY <3>1, <3>2 DEF Inv
  <2> QED
    BY <2>1, <2>2, <2>3, <2>4, <2>5 DEF Next
<1> QED
  BY <1>1, <1>2, PTL DEF Spec

-----------------------------------------------------------------------------
(* Theorems                                                                *)

\* Type correctness: every row's hash is the digest of its payload and of the
\* chain head its trigger read.
THEOREM TypeCorrect == Spec => []TypeOK
<1>1. Inv => TypeOK
  BY DEF Inv
<1> QED
  BY <1>1, InvAlways, PTL

\* For any number of overlapping and aborted appends the trigger's lock keeps
\* the hashes one tree, rooted in the first row.
THEOREM EveryRowIsLinked == Spec => []LinksGoBack
<1>1. Inv => LinksGoBack
  BY DEF Inv, ChainOK, NewestThen, LinksGoBack
<1> QED
  BY <1>1, InvAlways, PTL

\* Rows with one digest are one row: appends differ in their texts.
LEMMA HashNamesRow ==
    ASSUME Inv, NEW m \in DOMAIN log, NEW k \in DOMAIN log,
           Hash(log[m].payload, log[m].ts, log[m].prev)
             = Hash(log[k].payload, log[k].ts, log[k].prev)
    PROVE  m = k
<1>1. Canonical(log[m].payload) = Canonical(log[k].payload)
  BY DEF Hash
<1>2. log[m].payload \in Events /\ log[k].payload \in Events
  BY Zenon DEF Inv, TypeOK
<1>3. log[m].payload = log[k].payload
  BY <1>1, <1>2, AuditAssumption, Zenon
<1> QED
  BY <1>3 DEF Inv, RowsOnce

\* Rows that were committed in the order of (ts, id) verify.
LEMMA OrderedVerifies ==
    ASSUME Inv, InOrder
    PROVE  Breaks(Rows) = {}
<1> SUFFICES ASSUME NEW i \in DOMAIN log
             PROVE  ExpectedPrev(Rows, log[i]) = log[i].prev
  <2>1. \A i \in DOMAIN log : log[i].hash = Hash(log[i].payload, log[i].ts, log[i].prev)
    BY Zenon DEF Inv, TypeOK
  <2>2. ASSUME NEW r \in Rows PROVE r.hash = Hash(r.payload, r.ts, ExpectedPrev(Rows, r))
    <3>1. PICK i \in DOMAIN log : r = log[i]
      BY RowsTimed
    <3> QED
      BY <2>1, <3>1
  <2> QED
    BY <2>2 DEF Breaks
<1> DEFINE low == {q \in Rows : Before(q, log[i])}
<1>1. \A q \in low : \E j \in 1 .. i - 1 : q = log[j]
  <2> SUFFICES ASSUME NEW q \in low PROVE \E j \in 1 .. i - 1 : q = log[j]
    OBVIOUS
  <2>1. PICK j \in DOMAIN log : q = log[j]
    BY RowsTimed
  <2>2. Before(log[j], log[i]) /\ Timed(log[i]) /\ Timed(log[j])
    BY <2>1, RowsTimed
  <2>3. ~ (i < j) /\ i # j
    BY <2>2, BeforeIsOrder DEF InOrder
  <2> QED
    BY <2>1, <2>3, RowsTimed
<1>2. \A q \in low : Timed(q)
  BY RowsTimed
<1>3. CASE i = 1
  <2>1. low = {}
    BY <1>1, <1>3
  <2>2. log[i].prev = Genesis
    BY <1>3 DEF Inv, ChainOK
  <2> QED
    BY <2>1, <2>2 DEF ExpectedPrev, ChainHead
<1>4. CASE i # 1
  <2>1. PICK k : NewestThen(i, k) /\ log[i].prev = log[k].hash
    BY <1>4 DEF Inv, ChainOK
  <2>2. k \in DOMAIN log /\ k < i
    BY <2>1, RowsTimed DEF NewestThen
  <2>3. log[k] \in low
    BY <2>2, RowsTimed DEF InOrder
  <2>4. \A q \in low : q # log[k] => Before(q, log[k])
    BY <1>1, <2>1 DEF NewestThen
  <2>5. IsNewest(log[k], low)
    BY <2>3, <2>4 DEF IsNewest
  <2> HIDE DEF low
  <2>6. ChainHead(low) = log[k].hash
    BY <1>2, <2>5, HeadIsNewest
  <2> QED
    BY <2>1, <2>6 DEF ExpectedPrev, low
<1> QED
  BY <1>3, <1>4

\* A row that was overtaken by an older one does not verify.
LEMMA VerifiedIsOrdered ==
    ASSUME Inv, Breaks(Rows) = {}
    PROVE  InOrder
<1> SUFFICES ASSUME NEW i \in DOMAIN log, NEW j \in DOMAIN log, i < j,
                    ~ Before(log[i], log[j])
             PROVE  FALSE
  BY DEF InOrder
<1>1. \A m \in DOMAIN log : log[m].hash = Hash(log[m].payload, log[m].ts, log[m].prev)
  BY Zenon DEF Inv, TypeOK
<1>2. Before(log[j], log[i])
  <2>1. log[i].id # log[j].id
    BY RowsTimed DEF Inv, RowsOnce
  <2> QED
    BY <2>1, RowsTimed, BeforeIsOrder
<1>3. j # 1
  BY RowsTimed
<1>4. PICK k : NewestThen(j, k) /\ log[j].prev = log[k].hash
  BY <1>3 DEF Inv, ChainOK
<1>5. k \in DOMAIN log /\ i \in 1 .. j - 1
  BY <1>4, RowsTimed DEF NewestThen
<1>6. Before(log[j], log[k])
  <2>1. k = i \/ Before(log[i], log[k])
    BY <1>4, <1>5 DEF NewestThen
  <2> QED
    BY <1>2, <1>5, <2>1, RowsTimed, BeforeIsOrder
<1> DEFINE low == {q \in Rows : Before(q, log[j])}
<1>7. ChainHead(low) = log[k].hash
  <2>1. log[j].hash = Hash(log[j].payload, log[j].ts, ExpectedPrev(Rows, log[j]))
    BY RowsTimed, Zenon DEF Breaks
  <2>2. ExpectedPrev(Rows, log[j]) = log[j].prev
    BY <1>1, <2>1 DEF Hash
  <2> QED
    BY <1>4, <2>2 DEF ExpectedPrev
<1>8. low # {}
  <2>1. \A a, b, c : Len(<<a, b, c>>) = 3 /\ Len(<<>>) = 0
    OBVIOUS
  <2>2. \A a, b, c : <<a, b, c>> # <<>>
    BY <2>1
  <2>3. log[k].hash # Genesis
    BY <1>1, <1>5, <2>2, Zenon DEF Hash, Genesis
  <2> QED
    BY <1>7, <2>3 DEF ChainHead
<1>9. PICK x : IsNewest(x, low)
  BY <1>8, RowsTimed DEF Inv, NewestOK, HasNewest
<1>10. PICK m \in DOMAIN log : x = log[m]
  BY <1>9, RowsTimed DEF IsNewest
<1>11. log[m].hash = log[k].hash
  <2>1. \A q \in low : Timed(q)
    BY RowsTimed
  <2> HIDE DEF low
  <2> QED
    BY <1>7, <1>9, <1>10, <2>1, HeadIsNewest
<1>12. m = k
  <2>1. Hash(log[m].payload, log[m].ts, log[m].prev)
          = Hash(log[k].payload, log[k].ts, log[k].prev)
    BY <1>1, <1>5, <1>11
  <2> QED
    BY <1>5, <2>1, HashNamesRow
<1>13. Before(log[k], log[j])
  BY <1>9, <1>10, <1>12 DEF IsNewest
<1> QED
  BY <1>5, <1>6, <1>13, RowsTimed, BeforeIsOrder

\* verify is silent exactly when the rows were committed in the order of their
\* timestamps, for any number of appends and any clock.
THEOREM VerifyMeansOrdered == Spec => []VerifyIffOrdered
<1>1. Inv => VerifyIffOrdered
  BY OrderedVerifies, VerifiedIsOrdered DEF VerifyIffOrdered
<1> QED
  BY <1>1, InvAlways, PTL
-----------------------------------------------------------------------------
(* What a snapshot names, and what an edit leaves behind                   *)

IsRow(r) ==
    r = [payload |-> r.payload, ts |-> r.ts, id |-> r.id, prev |-> r.prev,
         hash |-> r.hash]

\* The snapshot's hash is that of the newest of the first `count` rows: rows
\* appended after it was read, or while it was stored, do not matter.
NamesNewest(a) ==
    /\ a.count \in 0 .. Len(log)
    /\ IF a.count = 0 THEN a.hash = Genesis
       ELSE \E k : NewestThen(a.count + 1, k) /\ a.hash = log[k].hash

SnapshotsOK ==
    /\ reading # NoReading => NamesNewest(reading)
    /\ \A k \in DOMAIN anchors : NamesNewest(anchors[k])

RecordsOK == \A i \in DOMAIN log : IsRow(log[i])

\* The newest of the first rows stays so when a row is appended.
LEMMA NamesKeeps ==
    ASSUME Inv, NEW e \in Events, NEW id \in Ids, Commit(e, id), NEW a, NamesNewest(a)
    PROVE  NamesNewest(a)'
<1>1. PICK S : log \in Seq(S)
  BY DEF Inv, SeqsOK
<1>2. PICK row : log' = Append(log, row)
  BY DEF Commit
<1>3. /\ Len(log) \in Nat /\ Len(log') = Len(log) + 1
      /\ \A i \in 1 .. Len(log) : log'[i] = log[i]
  BY <1>1, <1>2, AppendFacts
<1>4. a.count \in 0 .. Len(log')
  BY <1>3 DEF NamesNewest
<1>5. CASE a.count = 0
  BY <1>4, <1>5 DEF NamesNewest
<1>6. CASE a.count # 0
  <2>1. PICK k : NewestThen(a.count + 1, k) /\ a.hash = log[k].hash
    BY <1>6 DEF NamesNewest
  <2>2. k \in 1 .. Len(log) /\ \A m \in 1 .. (a.count + 1) - 1 : m \in 1 .. Len(log)
    BY <1>3, <2>1 DEF NewestThen, NamesNewest
  <2>3. NewestThen(a.count + 1, k)'
    BY <1>3, <2>1, <2>2 DEF NewestThen
  <2> QED
    BY <1>3, <1>4, <1>6, <2>1, <2>2, <2>3 DEF NamesNewest
<1> QED
  BY <1>5, <1>6

\* A snapshot reads the newest row and the number of rows in one statement.
LEMMA SnapshotNames ==
    ASSUME Inv, SnapshotRead
    PROVE  NamesNewest(reading')
<1>1. reading'.hash = ChainHead(Rows) /\ reading'.count = Len(log)
  BY DEF SnapshotRead, Manifest
<1>2. DOMAIN log = 1 .. Len(log) /\ Len(log) \in Nat
  BY RowsTimed
<1>3. CASE Len(log) = 0
  <2>1. Rows = {}
    BY <1>2, <1>3 DEF Rows, ToSet
  <2> QED
    BY <1>1, <1>2, <1>3, <2>1 DEF ChainHead, NamesNewest
<1>4. CASE Len(log) # 0
  <2>1. log[1] \in Rows
    BY <1>2, <1>4, RowsTimed
  <2>2. PICK r : IsNewest(r, Rows)
    BY <2>1 DEF Inv, NewestOK, HasNewest
  <2>3. PICK k \in DOMAIN log : r = log[k]
    BY <2>2, RowsTimed DEF IsNewest
  <2>4. ChainHead(Rows) = log[k].hash
    BY <2>2, <2>3, HeadIsNewest, RowsTimed
  <2>5. \A m \in DOMAIN log : m # k => Before(log[m], log[k])
    <3>1. \A m \in DOMAIN log : m # k => log[m] # log[k] /\ log[m] \in Rows
      BY RowsTimed DEF Inv, RowsOnce
    <3> QED
      BY <2>2, <2>3, <3>1 DEF IsNewest
  <2>6. (Len(log) + 1) - 1 = Len(log)
    BY <1>2
  <2>7. NewestThen(Len(log) + 1, k)
    BY <1>2, <2>3, <2>5, <2>6 DEF NewestThen
  <2>8. Len(log) \in 0 .. Len(log)
    BY <1>2
  <2> QED
    BY <1>1, <1>4, <2>4, <2>7, <2>8, Zenon DEF NamesNewest
<1> QED
  BY <1>3, <1>4

\* Rows are records, and every snapshot names what it read.
LEMMA SnapshotsAlways == Spec => [](Inv /\ RecordsOK /\ SnapshotsOK)
<1>1. Init => RecordsOK /\ SnapshotsOK
  BY DEF Init, RecordsOK, SnapshotsOK
<1>2. Inv /\ RecordsOK /\ SnapshotsOK /\ [Next]_vars => RecordsOK' /\ SnapshotsOK'
  <2> SUFFICES ASSUME Inv, RecordsOK, SnapshotsOK, [Next]_vars
               PROVE  RecordsOK' /\ SnapshotsOK'
    OBVIOUS
  <2>1. ASSUME NEW e \in Events, NEW id \in Ids, Commit(e, id)
        PROVE  RecordsOK' /\ SnapshotsOK'
    <3>1. PICK S : log \in Seq(S)
      BY DEF Inv, SeqsOK
    <3>2. PICK row : IsRow(row) /\ log' = Append(log, row)
      BY <2>1 DEF Commit, IsRow
    <3>3. /\ DOMAIN log = 1 .. Len(log) /\ DOMAIN log' = 1 .. Len(log) + 1 /\ Len(log) \in Nat
          /\ \A i \in 1 .. Len(log) : log'[i] = log[i]
          /\ log'[Len(log) + 1] = row
      BY <3>1, <3>2, AppendFacts
    <3>4. \A i \in DOMAIN log' : i \in DOMAIN log \/ i = Len(log) + 1
      BY <3>3
    <3>5. RecordsOK'
      <4> SUFFICES ASSUME NEW i \in DOMAIN log' PROVE IsRow(log'[i])
        BY DEF RecordsOK
      <4>1. \A j \in DOMAIN log : IsRow(log[j])
        BY DEF RecordsOK
      <4> QED
        BY <3>2, <3>3, <3>4, <4>1, Zenon
    <3>6. UNCHANGED <<reading, anchors>>
      BY <2>1 DEF Commit
    <3>7. ASSUME reading # NoReading PROVE NamesNewest(reading)'
      <4>1. PICK a : a = reading
        OBVIOUS
      <4>2. NamesNewest(a)'
        BY <2>1, <3>7, <4>1, NamesKeeps DEF SnapshotsOK
      <4> QED
        BY <3>6, <4>1, <4>2
    <3>8. ASSUME NEW k \in DOMAIN anchors PROVE NamesNewest(anchors[k])'
      <4>1. PICK a : a = anchors[k]
        OBVIOUS
      <4>2. NamesNewest(a)'
        BY <2>1, <4>1, NamesKeeps DEF SnapshotsOK
      <4> QED
        BY <3>6, <4>1, <4>2
    <3> QED
      BY <3>5, <3>6, <3>7, <3>8 DEF SnapshotsOK
  <2>2. CASE /\ log' = log
             /\ anchors' = anchors
             /\ reading' \in {reading, NoReading}
    BY <2>2 DEF RecordsOK, SnapshotsOK, NamesNewest, NewestThen
  <2>3. CASE SnapshotRead
    <3>1. UNCHANGED <<log, anchors>>
      BY <2>3 DEF SnapshotRead
    <3>2. NamesNewest(reading')
      BY <2>3, SnapshotNames
    <3>3. NamesNewest(reading)'
      BY <3>1, <3>2 DEF NamesNewest, NewestThen
    <3> QED
      BY <3>1, <3>3 DEF RecordsOK, SnapshotsOK, NamesNewest, NewestThen
  <2>4. CASE SnapshotStore
    <3>1. PICK S : anchors \in Seq(S)
      BY DEF Inv, SeqsOK
    <3>2. /\ log' = log /\ anchors' = Append(anchors, reading) /\ reading' = NoReading
          /\ NamesNewest(reading)
      BY <2>4 DEF SnapshotStore, SnapshotsOK
    <3>3. /\ DOMAIN anchors = 1 .. Len(anchors) /\ Len(anchors) \in Nat
          /\ DOMAIN anchors' = 1 .. Len(anchors) + 1
          /\ \A i \in 1 .. Len(anchors) : anchors'[i] = anchors[i]
          /\ anchors'[Len(anchors) + 1] = reading
      BY <3>1, <3>2, AppendFacts
    <3>4. \A i \in DOMAIN anchors' : i \in DOMAIN anchors \/ i = Len(anchors) + 1
      BY <3>3
    <3>5. \A k \in DOMAIN anchors : NamesNewest(anchors[k])
      BY DEF SnapshotsOK
    <3>6. ASSUME NEW k \in DOMAIN anchors' PROVE NamesNewest(anchors'[k])
      BY <3>2, <3>3, <3>4, <3>5, Zenon
    <3>7. ASSUME NEW k \in DOMAIN anchors' PROVE NamesNewest(anchors[k])'
      BY <3>2, <3>6 DEF NamesNewest, NewestThen
    <3> QED
      BY <3>2, <3>7 DEF RecordsOK, SnapshotsOK
  <2> QED
    BY <2>1, <2>2, <2>3, <2>4
    DEF Next, Tick, Begin, ReadHead, Abort, SnapshotFails, vars
<1> QED
  BY <1>1, <1>2, InvAlways, PTL DEF Spec

\* In an ordered log the newest of the first rows is the last of them.
LEMMA NewestIsLast ==
    ASSUME Inv, InOrder, NEW c \in DOMAIN log, NEW k, NewestThen(c + 1, k)
    PROVE  k = c
<1>1. DOMAIN log = 1 .. Len(log) /\ Len(log) \in Nat
  BY RowsTimed
<1>2. k \in DOMAIN log /\ c \in 1 .. (c + 1) - 1 /\ k <= c
  BY <1>1 DEF NewestThen
<1>3. ASSUME k # c PROVE FALSE
  <2>1. Before(log[c], log[k]) /\ k < c
    BY <1>1, <1>2, <1>3 DEF NewestThen
  <2>2. Before(log[k], log[c])
    BY <1>2, <2>1 DEF InOrder
  <2> QED
    BY <1>2, <2>1, <2>2, RowsTimed, BeforeIsOrder
<1> QED
  BY <1>3

\* For any number of appends and snapshots, an anchor of an ordered log is the
\* hash of row row_count: what was appended meanwhile does not spoil it.
THEOREM AnchorsArePrefixes == Spec => []AnchorsNamePrefix
<1>1. Inv /\ SnapshotsOK => AnchorsNamePrefix
  <2> SUFFICES ASSUME Inv, SnapshotsOK, InOrder, NEW k \in DOMAIN anchors
               PROVE  IF anchors[k].count = 0 THEN anchors[k].hash = Genesis
                      ELSE anchors[k].hash = log[anchors[k].count].hash
    BY DEF AnchorsNamePrefix
  <2> DEFINE c == anchors[k].count
  <2>1. /\ c \in 0 .. Len(log)
        /\ IF c = 0 THEN anchors[k].hash = Genesis
           ELSE \E m : NewestThen(c + 1, m) /\ anchors[k].hash = log[m].hash
    BY DEF SnapshotsOK, NamesNewest
  <2> HIDE DEF c
  <2>2. CASE c # 0
    <3>1. c \in DOMAIN log
      BY <2>1, <2>2, RowsTimed
    <3>2. PICK m : NewestThen(c + 1, m) /\ anchors[k].hash = log[m].hash
      BY <2>1, <2>2
    <3>3. m = c
      BY <3>1, <3>2, NewestIsLast
    <3> QED
      BY <2>2, <3>2, <3>3 DEF c
  <2> QED
    BY <2>1, <2>2 DEF c
<1> QED
  BY <1>1, SnapshotsAlways, PTL

\* A rewritten row keeps all but its payload.
LEMMA RewrittenKeeps ==
    ASSUME Inv, RecordsOK, NEW r \in Rows, NEW p
    PROVE  /\ [r EXCEPT !.payload = p].payload = p
           /\ [r EXCEPT !.payload = p].ts = r.ts
           /\ [r EXCEPT !.payload = p].id = r.id
           /\ [r EXCEPT !.payload = p].hash = r.hash
           /\ r.hash = Hash(r.payload, r.ts, r.prev)
<1>1. PICK i \in DOMAIN log : r = log[i]
  BY RowsTimed
<1>2. r.hash = Hash(r.payload, r.ts, r.prev) /\ IsRow(r)
  BY <1>1 DEF Inv, TypeOK, RecordsOK
<1>3. PICK e, t, j, q, h : r = [payload |-> e, ts |-> t, id |-> j, prev |-> q, hash |-> h]
  BY <1>2 DEF IsRow
<1> QED
  BY <1>2, <1>3

\* A row whose text was changed no longer has the digest of its text.
LEMMA RewrittenRowBreaks ==
    ASSUME Inv, RecordsOK, NEW r \in Rows, NEW p, Canonical(p) # Canonical(r.payload)
    PROVE  Breaks(Rewritten(r, p)) # {}
<1> DEFINE f == [r EXCEPT !.payload = p]
<1>1. f.payload = p /\ f.hash = Hash(r.payload, r.ts, r.prev)
  BY RewrittenKeeps
<1> HIDE DEF f
<1>2. \A q : f.hash # Hash(f.payload, f.ts, q)
  BY <1>1 DEF Hash
<1>3. f \in Breaks(Rewritten(r, p))
  BY <1>2 DEF Breaks, Rewritten, f
<1> QED
  BY <1>3

\* Rewriting a row leaves the chain head below any key: verify's order and the
\* stored hashes do not depend on the payload.
LEMMA RewrittenHead ==
    ASSUME Inv, RecordsOK, NEW r \in Rows, NEW p, NEW x, Timed(x)
    PROVE  ChainHead({q \in Rewritten(r, p) : Before(q, x)})
             = ChainHead({q \in Rows : Before(q, x)})
<1> DEFINE f == [r EXCEPT !.payload = p]
           low == {q \in Rows : Before(q, x)}
           new == {q \in Rewritten(r, p) : Before(q, x)}
<1>1. f.ts = r.ts /\ f.id = r.id /\ f.hash = r.hash /\ Timed(r) /\ Timed(f)
  BY RewrittenKeeps, RowsTimed DEF Timed
<1>2. Rewritten(r, p) = (Rows \ {r}) \union {f}
  BY DEF Rewritten
<1> HIDE DEF f
<1>3. /\ \A y : Before(f, y) <=> Before(r, y)
      /\ \A y : Before(y, f) <=> Before(y, r)
  BY <1>1 DEF Before
<1>4. (\A q \in low : Timed(q)) /\ (\A q \in new : Timed(q))
  BY <1>1, <1>2, RowsTimed
<1>5. CASE low = {}
  <2>1. new = {}
    BY <1>2, <1>3, <1>5
  <2> QED
    BY <1>5, <2>1
<1>6. CASE low # {}
  <2>1. PICK n : IsNewest(n, low)
    BY <1>6 DEF Inv, NewestOK, HasNewest
  <2>2. ChainHead(low) = n.hash
    <3> HIDE DEF low
    <3> QED
      BY <1>4, <2>1, HeadIsNewest
  <2>3. n \in Rows /\ Before(n, x) /\ \A q \in Rows : Before(q, x) /\ q # n => Before(q, n)
    BY <2>1 DEF IsNewest
  <2>4. PICK m : m.hash = n.hash /\ IsNewest(m, new)
    <3>1. CASE n = r
      <4>1. IsNewest(f, new)
        BY <1>2, <1>3, <2>3, <3>1 DEF IsNewest
      <4> QED
        BY <1>1, <3>1, <4>1
    <3>2. CASE n # r
      <4>1. IsNewest(n, new)
        BY <1>2, <1>3, <2>3, <3>2 DEF IsNewest
      <4> QED
        BY <4>1
    <3> QED
      BY <3>1, <3>2
  <2>5. ChainHead(new) = m.hash
    <3> HIDE DEF new
    <3> QED
      BY <1>4, <2>4, HeadIsNewest
  <2> QED
    BY <2>2, <2>4, <2>5
<1> QED
  BY <1>5, <1>6

\* A row that was rewritten without a change of its text still verifies.
LEMMA SameTextVerifies ==
    ASSUME Inv, RecordsOK, InOrder, NEW r \in Rows, NEW p,
           Canonical(p) = Canonical(r.payload)
    PROVE  Breaks(Rewritten(r, p)) = {}
<1> DEFINE f == [r EXCEPT !.payload = p]
<1>1. /\ f.payload = p /\ f.ts = r.ts /\ f.id = r.id /\ f.hash = r.hash
  BY RewrittenKeeps
<1>2. Rewritten(r, p) = (Rows \ {r}) \union {f}
  BY DEF Rewritten
<1> HIDE DEF f
<1>3. \A q \in Rows : q.hash = Hash(q.payload, q.ts, ExpectedPrev(Rows, q)) /\ Timed(q)
  BY OrderedVerifies, RowsTimed DEF Breaks
<1>4. ASSUME NEW q, Timed(q)
      PROVE  ExpectedPrev(Rewritten(r, p), q) = ExpectedPrev(Rows, q)
  BY <1>4, RewrittenHead DEF ExpectedPrev
<1>5. ASSUME NEW q \in Rows
      PROVE  q.hash = Hash(q.payload, q.ts, ExpectedPrev(Rewritten(r, p), q))
  BY <1>3, <1>4
<1>6. f.hash = Hash(f.payload, f.ts, ExpectedPrev(Rewritten(r, p), f))
  <2>1. {q \in Rewritten(r, p) : Before(q, f)} = {q \in Rewritten(r, p) : Before(q, r)}
    BY <1>1 DEF Before
  <2>2. ExpectedPrev(Rewritten(r, p), f) = ExpectedPrev(Rewritten(r, p), r)
    BY <2>1 DEF ExpectedPrev
  <2>3. r.hash = Hash(r.payload, r.ts, ExpectedPrev(Rewritten(r, p), r))
    BY <1>5
  <2> QED
    BY <1>1, <2>2, <2>3 DEF Hash
<1> QED
  BY <1>2, <1>5, <1>6 DEF Breaks

\* A row that is gone is missed by the row that was chained to it.
LEMMA MissingRowBreaks ==
    ASSUME Inv, InOrder, NEW r \in Rows, ~ IsNewest(r, Rows)
    PROVE  Breaks(Rows \ {r}) # {}
<1>0. /\ DOMAIN log = 1 .. Len(log) /\ Len(log) \in Nat
      /\ \A m \in DOMAIN log : Timed(log[m]) /\ log[m] \in Rows
      /\ \A m \in DOMAIN log : log[m].hash = Hash(log[m].payload, log[m].ts, log[m].prev)
      /\ \A m, l \in DOMAIN log : log[m].hash = log[l].hash => m = l
  <2>1. \A m \in DOMAIN log : log[m].hash = Hash(log[m].payload, log[m].ts, log[m].prev)
    BY Zenon DEF Inv, TypeOK
  <2>2. ASSUME NEW m \in DOMAIN log, NEW l \in DOMAIN log, log[m].hash = log[l].hash
        PROVE  m = l
    BY <2>1, <2>2, HashNamesRow
  <2> QED
    BY <2>1, <2>2, RowsTimed
<1>1. PICK i \in DOMAIN log : r = log[i]
  BY RowsTimed
<1>2. i + 1 \in DOMAIN log
  <2>1. ASSUME i = Len(log) PROVE IsNewest(r, Rows)
    <3> SUFFICES ASSUME NEW q \in Rows, q # r PROVE Before(q, r)
      BY DEF IsNewest
    <3>1. PICK m \in DOMAIN log : q = log[m]
      BY RowsTimed
    <3>2. m < i
      BY <1>0, <1>1, <2>1, <3>1
    <3> QED
      BY <1>1, <3>1, <3>2 DEF InOrder
  <2> QED
    BY <1>0, <2>1
<1> DEFINE next == log[i + 1]
           low == {q \in Rows \ {r} : Before(q, next)}
<1>3. next.prev = log[i].hash
  <2>1. PICK k : NewestThen(i + 1, k) /\ next.prev = log[k].hash
    <3>1. i + 1 # 1
      BY <1>0
    <3> QED
      BY <1>2, <3>1 DEF Inv, ChainOK
  <2> QED
    BY <2>1, NewestIsLast
<1>4. next \in Rows \ {r}
  <2>1. i + 1 # i
    BY <1>0
  <2> QED
    BY <1>0, <1>1, <1>2, <2>1
<1>5. \A q \in low : \E m \in 1 .. i - 1 : q = log[m]
  <2> SUFFICES ASSUME NEW q \in low PROVE \E m \in 1 .. i - 1 : q = log[m]
    OBVIOUS
  <2>1. PICK m \in DOMAIN log : q = log[m]
    BY RowsTimed
  <2>2. m # i
    BY <1>1, <2>1
  <2>3. ~ (i + 1 < m) /\ m # i + 1
    BY <1>0, <1>2, <2>1, BeforeIsOrder DEF InOrder
  <2> QED
    BY <1>0, <2>1, <2>2, <2>3
<1>6. ChainHead(low) # log[i].hash
  <2>1. CASE i = 1
    <3>1. low = {}
      BY <1>5, <2>1
    <3>2. \A a, b, c : Len(<<a, b, c>>) = 3 /\ Len(<<>>) = 0
      OBVIOUS
    <3>3. \A a, b, c : <<a, b, c>> # <<>>
      BY <3>2
    <3>4. log[i].hash # Genesis
      BY <1>0, <3>3, Zenon DEF Hash, Genesis
    <3> QED
      BY <3>1, <3>4 DEF ChainHead
  <2>2. CASE i # 1
    <3>1. i - 1 \in DOMAIN log /\ i - 1 < i + 1 /\ i - 1 # i
      BY <1>0, <2>2
    <3>2. log[i - 1] \in low
      <4>1. Before(log[i - 1], next)
        BY <1>2, <3>1 DEF InOrder
      <4>2. log[i - 1] # r
        BY <1>0, <1>1, <3>1
      <4> QED
        BY <1>0, <3>1, <4>1, <4>2
    <3>3. ASSUME NEW q \in low, q # log[i - 1] PROVE Before(q, log[i - 1])
      <4>1. PICK m \in 1 .. i - 1 : q = log[m]
        BY <1>5
      <4>2. m \in DOMAIN log /\ m < i - 1
        BY <1>0, <3>1, <3>3, <4>1
      <4> QED
        BY <3>1, <4>1, <4>2 DEF InOrder
    <3>4. IsNewest(log[i - 1], low)
      BY <3>2, <3>3 DEF IsNewest
    <3>5. \A q \in low : Timed(q)
      BY RowsTimed
    <3> HIDE DEF low
    <3>6. ChainHead(low) = log[i - 1].hash
      BY <3>4, <3>5, HeadIsNewest
    <3>7. log[i - 1].hash # log[i].hash
      BY <1>0, <3>1
    <3> QED
      BY <3>6, <3>7
  <2> QED
    BY <2>1, <2>2
<1>7. ExpectedPrev(Rows \ {r}, next) = ChainHead(low)
  BY DEF ExpectedPrev
<1>8. next.hash = Hash(next.payload, next.ts, next.prev)
  BY <1>0, <1>2
<1> HIDE DEF next, low
<1>9. next.hash # Hash(next.payload, next.ts, ExpectedPrev(Rows \ {r}, next))
  BY <1>3, <1>6, <1>7, <1>8 DEF Hash
<1> QED
  BY <1>4, <1>9 DEF Breaks

\* Tamper evidence, for a log of any length and columns of any text: in a log
\* that verifies, verify reports a rewritten row exactly when its canonical text
\* changed, and the loss of any row but the newest.
THEOREM EditsAreEvident == Spec => []EditsAreReported
<1>1. Inv /\ RecordsOK => EditsAreReported
  <2> SUFFICES ASSUME Inv, RecordsOK, InOrder, NEW r \in Rows
               PROVE  /\ \A p \in Payloads :
                             Breaks(Rewritten(r, p)) = {}
                               <=> Canonical(p) = Canonical(r.payload)
                      /\ IsNewest(r, Rows) \/ Breaks(Rows \ {r}) # {}
    BY DEF EditsAreReported
  <2>1. \A p \in Payloads :
            Breaks(Rewritten(r, p)) = {} <=> Canonical(p) = Canonical(r.payload)
    BY RewrittenRowBreaks, SameTextVerifies
  <2> QED
    BY <2>1, MissingRowBreaks
<1> QED
  BY <1>1, SnapshotsAlways, PTL
=============================================================================
