--------------------------- MODULE SqlReadProofs ---------------------------
(***************************************************************************)
(* Proofs about SqlObject, continued: clocks and rows are stamped with what *)
(* was committed, a version is given twice by late transactions only, and   *)
(* what get returns is the row.                                             *)
(***************************************************************************)
EXTENDS SqlObjectProofs

\* Rows v that differ from u in no data, and not in row 0.
Same(u, v) == Exists(u) /\ v[0] = u[0] /\ \A i \in DOMAIN u : v[i].data = u[i].data

\* At most one transaction has written, and it sees the committed rows.
WriterOf(s) ==
    /\ txn[s].st # "open" => txn[s].writes = 0 /\ ~Exists(txn[s].base)
    /\ txn[s].st # "none" => txn[s].start >= 1
    /\ txn[s].writes = 0 => txn[s].view = txn[s].base
    /\ txn[s].writes > 0 => txn[s].base = rows /\ Exists(txn[s].view)
    /\ \A r \in Sessions \ {s} : txn[r].writes = 0 \/ txn[s].writes = 0

\* What a writer would commit as row 0 has its stamp, or a greater version than
\* the row, or changes nothing.
NewOf(s) ==
    txn[s].writes > 0 =>
      /\ level = "causal" => Same(rows, txn[s].view) \/ txn[s].view[0].vers[GroupOf(s)] >= txn[s].start
      /\ level = "strong" /\ table = "BlobStore" /\ Exists(rows) => txn[s].view[0].vers > rows[0].vers
WriterInv == now >= 1 /\ \A s \in Sessions : WriterOf(s) /\ NewOf(s)

\* In a causal store every entry comes from a committed row 0, but for what a
\* transaction of group k has stamped itself, which its row 0 has taken in.
PastIn(S, g, n) == n = 0 \/ \E a \in S : n <= a.vers[g]
PastRows(S, v) == \A i \in 0..2, g \in Groups : PastIn(S, g, v[i].vers[g])
OwnRows(S, k, v) == \A i \in 0..2, g \in Groups :
    PastIn(S, g, v[i].vers[g]) \/ (g = k /\ v[i].vers[g] <= v[0].vers[g])
PastClock(S, k, c) == \A g \in Groups \ {k} : PastIn(S, g, c[g])
StampOf(s) ==
    /\ PastClock(seen, GroupOf(s), clock[s])
    /\ Exists(txn[s].base) => PastRows(seen, txn[s].base)
    /\ Exists(txn[s].view) => OwnRows(seen, GroupOf(s), txn[s].view)
StampInv == level = "causal" =>
    (Exists(rows) => PastRows(seen, rows)) /\ \A s \in Sessions : StampOf(s)

\* Everything committed is in seen, and in a strong store the row has the
\* greatest version of all.
InHistory(S, row) == \E a \in S : a.data = row.data /\ a.vers = row.vers
HistoryInv ==
    /\ Exists(rows) => InHistory(seen, rows[0])
    /\ ~Exists(rows) => seen = {}
    /\ \A s \in Sessions : Exists(txn[s].base) => InHistory(seen, txn[s].base[0])
    /\ table = "BlobStore" /\ level = "strong" => \A a \in seen : a.vers <= rows[0].vers
    /\ VersionIdentifiesData

\* A version that an object has is one that was committed, or one of its own
\* transaction.
KnownEntry(s, g, n) ==
    \/ n = -1 \/ PastIn(seen, g, n)
    \/ g = GroupOf(s) /\ txn[s].writes > 0 /\ n <= txn[s].view[0].vers[g]
KnownOf(s) ==
    ~left[s] =>
      /\ level = "causal" => \A g \in Groups : KnownEntry(s, g, obj[s].vers[g])
      /\ level = "strong" /\ table = "BlobStore" =>
           \/ obj[s].vers = -1
           \/ txn[s].writes = 0 /\ Exists(rows) /\ obj[s].vers <= rows[0].vers
           \/ txn[s].writes > 0 /\ obj[s].vers <= txn[s].view[0].vers
KnownInv == \A s \in Sessions : KnownOf(s)

\* A version that load would trust was taken together with its buffer.
Given(S, v) == \E a \in S : a.late /\ a.vers = v
Trusted(S, o, i, v) ==
    o.vers = v[0].vers => o.buf = v[0].data \/ o.buf = v[i].data \/ Given(S, v[0].vers)
TrustOf(s) ==
    ~left[s] =>
      /\ Exists(txn[s].view) => Trusted(seen, obj[s], written_row(GroupOf(s)), txn[s].view)
      /\ txn[s].writes = 0 /\ Exists(rows) => Trusted(seen, obj[s], written_row(GroupOf(s)), rows)
TrustInv == table = "BlobStore" => \A s \in Sessions : TrustOf(s)

---------------------------------------------------------------------------
(* Stamps *)

\* What is committed stays committed when the history grows.
LEMMA PastGrows ==
    ASSUME NEW S, NEW T, S \subseteq T
    PROVE  /\ \A g, n : PastIn(S, g, n) => PastIn(T, g, n)
           /\ \A v : PastRows(S, v) => PastRows(T, v)
           /\ \A k, v : OwnRows(S, k, v) => OwnRows(T, k, v)
           /\ \A k, c : PastClock(S, k, c) => PastClock(T, k, c)
           /\ \A row : InHistory(S, row) => InHistory(T, row)
           /\ \A v : Given(S, v) => Given(T, v)
  <1>1. \A g, n : PastIn(S, g, n) => PastIn(T, g, n)
    BY DEF PastIn
  <1>2. \A v : PastRows(S, v) => PastRows(T, v)
    BY <1>1 DEF PastRows
  <1>3. \A k, v : OwnRows(S, k, v) => OwnRows(T, k, v)
    BY <1>1 DEF OwnRows
  <1>4. \A k, c : PastClock(S, k, c) => PastClock(T, k, c)
    BY <1>1 DEF PastClock
  <1>5. \A row : InHistory(S, row) => InHistory(T, row)
    BY DEF InHistory
  <1>6. \A v : Given(S, v) => Given(T, v)
    BY DEF Given
  <1> QED BY <1>1, <1>2, <1>3, <1>4, <1>5, <1>6

\* Committed rows are among those a transaction may see.
LEMMA PastIsOwn ==
    ASSUME NEW S, NEW k, NEW v, PastRows(S, v)
    PROVE  OwnRows(S, k, v)
  BY DEF PastRows, OwnRows

\* The merge of committed versions has committed entries.
LEMMA PastMerge ==
    ASSUME NEW S, NEW g \in Groups, NEW u \in [Groups -> Nat], NEW v \in [Groups -> Nat],
           PastIn(S, g, u[g]), PastIn(S, g, v[g])
    PROVE  PastIn(S, g, Merge(u, v)[g])
  <1>1. Merge(u, v)[g] = u[g] \/ Merge(u, v)[g] = v[g]
    BY MergeType
  <1> QED BY <1>1

\* The types of a causal store's rows.
LEMMA StampedRows ==
    ASSUME NEW v \in Stamped
    PROVE  /\ \A i \in 0..2 : v[i].vers \in [Groups -> Nat]
           /\ \A i \in 0..2, g \in Groups : v[i].vers[g] \in Nat
           /\ v[0].vers \in [Groups -> Nat] /\ v[1].vers \in [Groups -> Nat] /\ v[2].vers \in [Groups -> Nat]
           /\ DOMAIN v = 0..2
  BY DEF Stamped

\* Rows, clocks and versions in a causal store.
LEMMA CausalTypes ==
    ASSUME level = "causal", NEW v \in Rows
    PROVE  v \in Stamped /\ v[0].data \in Values
  BY DEF Rows, CausalRows

\* What the merge of three versions is made of.
LEMMA MergeThree ==
    ASSUME NEW a \in [Groups -> Nat], NEW b \in [Groups -> Nat], NEW c \in [Groups -> Nat],
           NEW m, m = Merge(Merge(a, b), c)
    PROVE  /\ \A g \in Groups : m[g] >= a[g] /\ m[g] >= b[g] /\ m[g] >= c[g]
           /\ \A g \in Groups : m[g] = a[g] \/ m[g] = b[g] \/ m[g] = c[g]
           /\ m \in [Groups -> Nat]
  BY DEF Merge, Greater

\* An update stamps with the clock's entries and its own time, and changes no
\* data or gives row 0 its time.
LEMMA UpdateStamps ==
    ASSUME NEW S, NEW v \in Stamped, NEW k \in Groups, NEW g \in {1, 2}, NEW ends \in [Groups -> Nat],
           NEW time \in Nat, NEW d \in Values, NEW w, Updated(v, k, g, ends, time, d, w)
    PROVE  /\ OwnRows(S, k, v) /\ PastClock(S, k, ends) => OwnRows(S, k, w)
           /\ \/ w[0] = v[0] /\ \A i \in 0..2 : w[i].data = v[i].data
              \/ w[0].vers[k] >= time
  <1>1. /\ w \in Stamped /\ w[g].data = d
        /\ \A i \in {1, 2} \ {g} : w[i] = v[i]
        /\ \A h \in Groups \ {k} : w[g].vers[h] = ends[h]
        /\ v[g].data = d => w[0] = v[0] /\ w[g].vers[k] = v[g].vers[k]
        /\ v[g].data # d => /\ w[0].data = d
                            /\ w[g].vers[k] = time
                            /\ w[0].vers = Merge(Merge(v[1].vers, v[2].vers), w[g].vers)
    BY DEF Updated
  <1>2. /\ \A i \in 0..2, h \in Groups : w[i].vers[h] \in Nat /\ v[i].vers[h] \in Nat
        /\ v[1].vers \in [Groups -> Nat] /\ v[2].vers \in [Groups -> Nat] /\ w[g].vers \in [Groups -> Nat]
    BY <1>1, StampedRows
  <1>3. \A i \in 0..2 : i = 0 \/ i = g \/ i \in {1, 2} \ {g}
    OBVIOUS
  <1>4. v[g].data # d =>
          /\ \A h \in Groups : w[0].vers[h] >= v[1].vers[h] /\ w[0].vers[h] >= v[2].vers[h]
                               /\ w[0].vers[h] >= w[g].vers[h]
          /\ \A h \in Groups : \/ w[0].vers[h] = v[1].vers[h] \/ w[0].vers[h] = v[2].vers[h]
                               \/ w[0].vers[h] = w[g].vers[h]
    BY <1>1, <1>2, MergeThree
  <1>5. ASSUME OwnRows(S, k, v), PastClock(S, k, ends), NEW i \in 0..2, NEW h \in Groups
        PROVE  PastIn(S, h, w[i].vers[h]) \/ (h = k /\ w[i].vers[h] <= w[0].vers[h])
    <2>1. \A j \in 0..2 : PastIn(S, h, v[j].vers[h]) \/ (h = k /\ v[j].vers[h] <= v[0].vers[h])
      BY <1>5 DEF OwnRows
    <2>2. h # k => PastIn(S, h, ends[h])
      BY <1>5 DEF PastClock
    <2>3. CASE v[g].data = d
      <3>1. CASE i = g
        BY <1>1, <2>1, <2>2, <2>3, <3>1
      <3>2. CASE i # g
        <4>1. w[i] = v[i]
          BY <1>1, <1>3, <2>3, <3>2
        <4> QED BY <1>1, <2>1, <2>3, <4>1
      <3> QED BY <3>1, <3>2
    <2>4. CASE v[g].data # d
      <3>1. CASE h = k
        <4>1. w[i].vers[h] <= w[0].vers[h]
          <5>1. CASE i = 0
            BY <1>2, <5>1
          <5>2. CASE i = g
            BY <1>2, <1>4, <2>4, <5>2
          <5>3. CASE i \in {1, 2} \ {g}
            BY <1>1, <1>2, <1>4, <2>4, <5>3
          <5> QED BY <1>3, <5>1, <5>2, <5>3
        <4> QED BY <3>1, <4>1
      <3>2. CASE h # k
        <4>1. PastIn(S, h, v[1].vers[h]) /\ PastIn(S, h, v[2].vers[h]) /\ PastIn(S, h, w[g].vers[h])
          BY <1>1, <2>1, <2>2, <3>2
        <4>2. w[i].vers[h] = v[1].vers[h] \/ w[i].vers[h] = v[2].vers[h] \/ w[i].vers[h] = w[g].vers[h]
          BY <1>1, <1>3, <1>4, <2>4
        <4> QED BY <4>1, <4>2
      <3> QED BY <3>1, <3>2
    <2> QED BY <2>3, <2>4
  <1>6. OwnRows(S, k, v) /\ PastClock(S, k, ends) => OwnRows(S, k, w)
    BY <1>5 DEF OwnRows
  <1>7. CASE v[g].data = d
    <2>1. \A i \in 0..2 : w[i].data = v[i].data
      BY <1>1, <1>3, <1>7
    <2> QED BY <1>1, <1>6, <1>7, <2>1
  <1>8. CASE v[g].data # d
    BY <1>1, <1>2, <1>4, <1>6, <1>8
  <1> QED BY <1>7, <1>8

\* So does an insert, which always gives row 0 its time.
LEMMA InsertStamps ==
    ASSUME NEW S, NEW k \in Groups, NEW g \in {1, 2}, NEW ends \in [Groups -> Nat],
           NEW time \in Nat, NEW d \in Values, NEW w, Inserted(k, g, ends, time, d, w)
    PROVE  /\ PastClock(S, k, ends) => OwnRows(S, k, w)
           /\ w[0].vers[k] >= time
  <1>1. /\ w \in Stamped
        /\ \A i \in {1, 2} \ {g} : w[i].vers = Zero
        /\ w[g].vers[k] = time /\ \A h \in Groups \ {k} : w[g].vers[h] = ends[h]
        /\ w[0].vers = Merge(Merge(Zero, Zero), w[g].vers)
    BY DEF Inserted
  <1>2. /\ \A i \in 0..2, h \in Groups : w[i].vers[h] \in Nat
        /\ w[g].vers \in [Groups -> Nat]
    BY <1>1, StampedRows
  <1>3. \A i \in 0..2 : i = 0 \/ i = g \/ i \in {1, 2} \ {g}
    OBVIOUS
  <1>4. Zero \in [Groups -> Nat] /\ \A h \in Groups : Zero[h] = 0
    BY DEF Zero
  <1>5. \A h \in Groups : /\ w[0].vers[h] >= w[g].vers[h]
                          /\ w[0].vers[h] = 0 \/ w[0].vers[h] = w[g].vers[h]
    BY <1>1, <1>2, <1>4, MergeThree
  <1>6. ASSUME PastClock(S, k, ends), NEW i \in 0..2, NEW h \in Groups
        PROVE  PastIn(S, h, w[i].vers[h]) \/ (h = k /\ w[i].vers[h] <= w[0].vers[h])
    <2>1. h # k => PastIn(S, h, ends[h])
      BY <1>6 DEF PastClock
    <2>2. PastIn(S, h, 0)
      BY DEF PastIn
    <2>3. w[i].vers[h] = 0 \/ w[i].vers[h] = w[g].vers[h]
      BY <1>1, <1>3, <1>4, <1>5
    <2>4. CASE h = k
      BY <1>2, <1>5, <2>2, <2>3, <2>4
    <2>5. CASE h # k
      BY <1>1, <2>1, <2>2, <2>3, <2>5
    <2> QED BY <2>4, <2>5
  <1>7. PastClock(S, k, ends) => OwnRows(S, k, w)
    BY <1>6 DEF OwnRows
  <1> QED BY <1>1, <1>2, <1>5, <1>7

---------------------------------------------------------------------------
(* The kinds of steps *)

\* A transaction ends with nothing committed.
Ends(s) == Abort(s) \/ FailGet(s) \/ \E d \in Values : FailPut(s, d)

\* A write, and the rows that it leaves in the view.
Writes(s, v) ==
    \/ \E d \in Values : Put(s, d) /\ v = PutRows(s, d)
    \/ Increment(s) /\ v = IncrementRows(s)
    \/ \E d \in Values : NewObject(s, d) /\ v = NewRows(s, d)

\* Every step is of one of these kinds.
LEMMA Kinds ==
    ASSUME [Next]_vars
    PROVE  \/ \E s \in Sessions : \/ Begin(s) \/ Snapshot(s) \/ Commit(s) \/ Ends(s) \/ Receive(s) \/ Get(s)
                                  \/ \E v : Writes(s, v)
           \/ UNCHANGED vars
  BY DEF Next, Ends, Writes, Done

\* Level, table and groups never change.
LEMMA Fixed ==
    ASSUME [Next]_vars
    PROVE  UNCHANGED <<level, table, repl_group>> /\ seen \subseteq seen'
  <1>1. ASSUME NEW s \in Sessions, Commit(s)
        PROVE  UNCHANGED <<level, table, repl_group>> /\ seen \subseteq seen'
    BY <1>1 DEF Commit, History
  <1>2. ASSUME NEW s \in Sessions, Begin(s) \/ Snapshot(s) \/ Get(s) \/ Abort(s) \/ Receive(s)
        PROVE  UNCHANGED <<level, table, repl_group>> /\ seen \subseteq seen'
    BY <1>2 DEF Begin, Snapshot, Get, Abort, Receive
  <1>3. ASSUME NEW s \in Sessions, FailGet(s) \/ Increment(s)
        PROVE  UNCHANGED <<level, table, repl_group>> /\ seen \subseteq seen'
    BY <1>3 DEF FailGet, Increment
  <1>4. ASSUME NEW s \in Sessions, NEW d \in Values, Put(s, d) \/ FailPut(s, d) \/ NewObject(s, d)
        PROVE  UNCHANGED <<level, table, repl_group>> /\ seen \subseteq seen'
    BY <1>4 DEF Put, FailPut, NewObject
  <1>5. ASSUME UNCHANGED vars \/ Done
        PROVE  UNCHANGED <<level, table, repl_group>> /\ seen \subseteq seen'
    BY <1>5 DEF vars, Done
  <1> QED BY <1>1, <1>2, <1>3, <1>4, <1>5 DEF Next

\* What the steps that end a transaction change.
LEMMA EndsDoes ==
    ASSUME TypeOK, NEW s \in Sessions, Ends(s)
    PROVE  /\ TypeOK' /\ Others(s) /\ txn'[s] = Idle /\ ~settled'[s]
           /\ UNCHANGED <<rows, now, seen>>
           /\ \/ clock'[s] = clock[s]
              \/ /\ level = "causal" /\ Exists(txn[s].view) /\ txn[s].view \in Rows
                 /\ clock'[s] = Merge(clock[s], txn[s].view[0].vers)
           /\ \/ left'[s]
              \/ obj'[s] = obj[s] /\ ~left[s] /\ ~(txn[s].writes > 0)
  <1>1. CASE Abort(s)
    BY <1>1, AbortDoes
  <1>2. CASE FailGet(s)
    BY <1>2, FailGetDoes
  <1>3. ASSUME NEW d \in Values, FailPut(s, d)
        PROVE  /\ TypeOK' /\ Others(s) /\ txn'[s] = Idle /\ ~settled'[s]
               /\ UNCHANGED <<rows, now, seen>> /\ clock'[s] = clock[s] /\ left'[s]
    BY <1>3, FailPutDoes
  <1> QED BY <1>1, <1>2, <1>3 DEF Ends

\* What put, increment and newObject change.
LEMMA WritesDoes ==
    ASSUME TypeOK, NEW s \in Sessions, NEW v, Writes(s, v)
    PROVE  /\ TypeOK' /\ Others(s) /\ UNCHANGED <<rows, now, seen, clock>>
           /\ CanWrite(s) /\ txn[s].st = "open" /\ txn'[s].st = "open"
           /\ v \in Rows /\ Exists(v)
           /\ txn'[s].start = txn[s].start /\ txn'[s].base = txn[s].base
           /\ txn'[s].view = v /\ txn'[s].writes = txn[s].writes + 1
  <1> DEFINE P == /\ TypeOK' /\ Others(s) /\ UNCHANGED <<rows, now, seen, clock>>
                  /\ CanWrite(s) /\ txn[s].st = "open" /\ txn'[s].st = "open" /\ v \in Rows
                  /\ txn'[s].start = txn[s].start /\ txn'[s].base = txn[s].base
                  /\ txn'[s].view = v /\ txn'[s].writes = txn[s].writes + 1
  <1>1. ASSUME NEW d \in Values, Put(s, d), v = PutRows(s, d) PROVE P
    BY <1>1, PutDoes
  <1>2. ASSUME Increment(s), v = IncrementRows(s) PROVE P
    BY <1>2, IncrementDoes
  <1>3. ASSUME NEW d \in Values, NewObject(s, d), v = NewRows(s, d) PROVE P
    BY <1>3, NewObjectDoes
  <1>4. P
    BY <1>1, <1>2, <1>3 DEF Writes
  <1> QED BY <1>4, RowsExist

\* What a write in a causal store is, as a function of the session's rows.
LEMMA CausalWrites ==
    ASSUME TypeOK, level = "causal", NEW s \in Sessions, NEW v, Writes(s, v)
    PROVE  \E d \in Values :
             \/ /\ Exists(txn[s].view) /\ txn[s].view \in Stamped
                /\ Updated(txn[s].view, GroupOf(s), group_mapper(GroupOf(s)), clock[s], txn[s].start, d, v)
             \/ /\ ~Exists(txn[s].view)
                /\ Inserted(GroupOf(s), group_mapper(GroupOf(s)), clock[s], txn[s].start, d, v)
  <1> DEFINE k == GroupOf(s)  g == group_mapper(GroupOf(s))  u == txn[s].view
             U(d) == Exists(u) /\ u \in Stamped /\ Updated(u, k, g, clock[s], txn[s].start, d, v)
             I(d) == ~Exists(u) /\ Inserted(k, g, clock[s], txn[s].start, d, v)
  <1>1. /\ k \in Groups /\ g \in {1, 2} /\ clock[s] \in [Groups -> Nat] /\ txn[s].start \in Nat
        /\ Exists(u) => u \in Stamped
    BY TxnFields, CausalTypes
  <1>2. level # "strong"
    OBVIOUS
  <1>3. ASSUME NEW d \in Values, v = update_data_c(u, k, clock[s], txn[s].start, d), Exists(u) PROVE U(d)
    BY <1>1, <1>3, CausalUpdate
  <1>4. ASSUME NEW d \in Values, Put(s, d), v = PutRows(s, d) PROVE U(d)
    <2>1. Exists(u)
      BY <1>4 DEF Put
    <2>2. v = update_data_c(u, k, clock[s], txn[s].start, d)
      BY <1>2, <1>4 DEF PutRows, update_data
    <2> QED BY <1>3, <2>1, <2>2
  <1>5. ASSUME Increment(s), v = IncrementRows(s) PROVE \E d \in Values : U(d)
    <2> DEFINE e == u[g].data + 1
    <2>1. Exists(u) /\ u[written_row(k)].data + 1 \in Values
      BY <1>5 DEF Increment
    <2>2. e \in Values
      BY <1>2, <2>1 DEF written_row
    <2>3. v = update_data_c(u, k, clock[s], txn[s].start, e)
      BY <1>2, <1>5 DEF IncrementRows, increment_cmd, increment_c
    <2> HIDE DEF e, U
    <2>4. U(e)
      BY <1>3, <2>1, <2>2, <2>3
    <2> QED BY <2>2, <2>4
  <1>6. ASSUME NEW d \in Values, NewObject(s, d), v = NewRows(s, d) PROVE I(d)
    <2>1. ~Exists(u)
      BY <1>6 DEF NewObject
    <2>2. v = initialize_with_id_c(k, clock[s], txn[s].start, d)
      BY <1>2, <1>6 DEF NewRows, initialize_with_id
    <2>3. Inserted(k, g, clock[s], txn[s].start, d, v)
      BY <1>1, <2>2, CausalInsert
    <2> QED BY <2>1, <2>3
  <1> HIDE DEF U, I
  <1>7. \E d \in Values : U(d) \/ I(d)
    BY <1>4, <1>5, <1>6 DEF Writes
  <1> QED BY <1>7 DEF U, I

\* What a write of a blob in a strong store does to the version.
LEMMA StrongWrites ==
    ASSUME TypeOK, level = "strong", table = "BlobStore", NEW s \in Sessions, NEW v, Writes(s, v)
    PROVE  /\ v[0].vers \in Nat
           /\ Exists(txn[s].view) => txn[s].view[0].vers \in Nat /\ v[0].vers = txn[s].view[0].vers + 1
           /\ obj'[s].vers = v[0].vers /\ written_row(GroupOf(s)) = 0
  <1>0. written_row(GroupOf(s)) = 0
    BY DEF written_row
  <1>1. ASSUME NEW d \in Values, Put(s, d), v = PutRows(s, d)
        PROVE  /\ v[0].vers \in Nat /\ txn[s].view[0].vers \in Nat /\ v[0].vers = txn[s].view[0].vers + 1
               /\ obj'[s].vers = v[0].vers
    <2>1. txn[s].view \in StrongRows /\ obj'[s].vers = v[0].vers
      BY <1>0, <1>1, PutDoes DEF Rows
    <2>2. v = update_data_s(txn[s].view, d)
      BY <1>1 DEF PutRows, update_data
    <2>3. v[0].vers = txn[s].view[0].vers + 1 /\ txn[s].view[0].vers \in Nat
      BY <2>1, <2>2, StrongCommands DEF StrongRows
    <2> QED BY <2>1, <2>3
  <1>2. ASSUME NEW d \in Values, NewObject(s, d), v = NewRows(s, d)
        PROVE  ~Exists(txn[s].view) /\ v[0].vers = 0 /\ obj'[s].vers = 0
    <2>1. v = initialize_with_id_s(d)
      BY <1>2 DEF NewRows, initialize_with_id
    <2>2. v[0].vers = 0
      BY <2>1, StrongInsert
    <2> QED BY <1>2, <2>2, NewObjectDoes
  <1>3. ~Increment(s)
    <2>1. "BlobStore" # "IntStore"
      OBVIOUS
    <2> QED BY <2>1 DEF Increment
  <1> QED BY <1>0, <1>1, <1>2, <1>3 DEF Writes

---------------------------------------------------------------------------
(* Writers *)

\* A write leaves a stamp, a greater version or nothing new behind.
LEMMA WritesNew ==
    ASSUME TypeOK, NEW s \in Sessions, WriterOf(s), NewOf(s), NEW v, Writes(s, v), txn[s].base = rows
    PROVE  /\ level = "causal" => Same(rows, v) \/ v[0].vers[GroupOf(s)] >= txn[s].start
           /\ level = "strong" /\ table = "BlobStore" /\ Exists(rows) => v[0].vers > rows[0].vers
  <1>0. txn[s].writes \in Nat /\ txn[s].start \in Nat /\ GroupOf(s) \in Groups
    BY TxnFields
  <1>1. /\ txn[s].writes = 0 => txn[s].view = rows
        /\ txn[s].writes > 0 => Exists(txn[s].view)
    BY DEF WriterOf
  <1>2. ASSUME level = "causal"
        PROVE  Same(rows, v) \/ v[0].vers[GroupOf(s)] >= txn[s].start
    <2> DEFINE u == txn[s].view  k == GroupOf(s)  g == group_mapper(GroupOf(s))
    <2>1. PICK d \in Values :
             \/ /\ Exists(u) /\ u \in Stamped /\ Updated(u, k, g, clock[s], txn[s].start, d, v)
             \/ /\ ~Exists(u) /\ Inserted(k, g, clock[s], txn[s].start, d, v)
      BY <1>2, CausalWrites
    <2>2. k \in Groups /\ g \in {1, 2} /\ clock[s] \in [Groups -> Nat] /\ txn[s].start \in Nat
      BY TxnFields
    <2> HIDE DEF u, k, g
    <2>3. CASE ~Exists(u)
      BY <2>1, <2>2, <2>3, InsertStamps DEF k
    <2>4. CASE Exists(u)
      <3>1. \/ v[0] = u[0] /\ \A i \in 0..2 : v[i].data = u[i].data
            \/ v[0].vers[k] >= txn[s].start
        BY <2>1, <2>2, <2>4, UpdateStamps
      <3>2. CASE v[0] = u[0] /\ \A i \in 0..2 : v[i].data = u[i].data
        <4>1. CASE txn[s].writes = 0
          <5>1. u = rows /\ DOMAIN u = 0..2
            BY <1>1, <2>1, <2>4, <4>1, StampedRows DEF u
          <5> QED BY <2>4, <3>2, <5>1 DEF Same
        <4>2. CASE txn[s].writes > 0
          <5>1. Same(rows, u) \/ u[0].vers[k] >= txn[s].start
            BY <1>2, <4>2 DEF NewOf, u, k
          <5>2. CASE Same(rows, u)
            <6>1. DOMAIN rows = 0..2
              <7>1. rows \in Rows
                BY <5>2 DEF Same, Exists, TypeOK
              <7> QED BY <1>2, <7>1, CausalTypes, StampedRows
            <6> QED BY <3>2, <5>2, <6>1 DEF Same
          <5> QED BY <3>2, <5>1, <5>2 DEF k
        <4> QED BY <1>0, <4>1, <4>2
      <3> QED BY <3>1, <3>2 DEF k
    <2> QED BY <2>3, <2>4
  <1>3. ASSUME level = "strong", table = "BlobStore", Exists(rows)
        PROVE  v[0].vers > rows[0].vers
    <2>1. Exists(txn[s].view)
      BY <1>0, <1>1, <1>3
    <2>2. txn[s].view[0].vers \in Nat /\ v[0].vers = txn[s].view[0].vers + 1
      BY <1>3, <2>1, StrongWrites
    <2>3. CASE txn[s].writes = 0
      BY <1>1, <2>2, <2>3
    <2>4. CASE txn[s].writes > 0
      <3>1. txn[s].view[0].vers > rows[0].vers
        BY <1>3, <2>4 DEF NewOf
      <3>2. rows \in StrongRows
        BY <1>3 DEF TypeOK, Rows, Exists
      <3>3. rows[0].vers \in Nat
        BY <3>2 DEF StrongRows
      <3> QED BY <2>2, <3>1, <3>3
    <2> QED BY <1>0, <2>3, <2>4
  <1> QED BY <1>2, <1>3

\* Every step keeps the first updater the only writer.
LEMMA WriterStep ==
    ASSUME TypeOK, WriterInv, [Next]_vars
    PROVE  WriterInv'
  <1>0. /\ \A r \in Sessions : txn[r].writes \in Nat /\ txn[r].start \in Nat /\ WriterOf(r) /\ NewOf(r)
        /\ now \in Nat /\ now >= 1
    BY TxnFields DEF WriterInv, TypeOK
  <1>1. UNCHANGED <<level, table, repl_group>>
    BY Fixed
  <1>2. \A r \in Sessions : GroupOf(r)' = GroupOf(r)
    BY <1>1 DEF GroupOf
  <1>3. ASSUME NEW s \in Sessions, Others(s), rows' = rows, now' >= 1, txn'[s].writes = 0,
               txn'[s].view = txn'[s].base, txn'[s].st # "open" => ~Exists(txn'[s].base),
               txn'[s].st # "none" => txn'[s].start >= 1
        PROVE  WriterInv'
    <2>1. WriterOf(s)' /\ NewOf(s)'
      BY <1>3 DEF WriterOf, NewOf
    <2>2. \A r \in Sessions \ {s} : WriterOf(r)'
      BY <1>0, <1>3 DEF WriterOf, Others
    <2>3. \A r \in Sessions \ {s} : NewOf(r)'
      BY <1>0, <1>1, <1>2, <1>3 DEF NewOf, Others
    <2> QED BY <1>3, <2>1, <2>2, <2>3 DEF WriterInv
  <1>4. ASSUME NEW s \in Sessions, Begin(s) PROVE WriterInv'
    <2>1. Others(s) /\ rows' = rows /\ now' \in {now, now + 1} /\ txn'[s] = Began(now')
      BY <1>4, BeginDoes
    <2>2. /\ txn'[s].writes = 0 /\ txn'[s].view = txn'[s].base /\ ~Exists(txn'[s].base)
          /\ txn'[s].start = now'
      BY <2>1 DEF Began, Exists
    <2> QED BY <1>0, <1>3, <2>1, <2>2
  <1>5. ASSUME NEW s \in Sessions, Snapshot(s) PROVE WriterInv'
    <2>1. /\ Others(s) /\ rows' = rows /\ now' = now /\ txn[s].st = "begun" /\ txn'[s].st = "open"
          /\ txn'[s].base = rows /\ txn'[s].view = rows /\ txn'[s].writes = txn[s].writes
          /\ txn'[s].start = txn[s].start
      BY <1>5, SnapshotDoes
    <2>2. txn[s].writes = 0 /\ txn[s].start >= 1
      BY <1>0, <2>1 DEF WriterOf
    <2> QED BY <1>0, <1>3, <2>1, <2>2
  <1>6. Idle.writes = 0 /\ Idle.view = Idle.base /\ ~Exists(Idle.base) /\ Idle.st = "none"
    BY DEF Idle, Exists
  <1>7. ASSUME NEW s \in Sessions, Commit(s) PROVE WriterInv'
    <2>1. txn[s].writes > 0 => Exists(txn[s].view)
      BY <1>0 DEF WriterOf
    <2>2. Others(s) /\ txn'[s] = Idle /\ now' = now
      BY <1>7, <2>1, CommitDoes
    <2>3. CASE ~(txn[s].writes > 0)
      <3>1. rows' = rows
        BY <1>7, <2>1, <2>3, CommitDoes
      <3> QED BY <1>0, <1>3, <1>6, <2>2, <3>1
    <2>4. CASE txn[s].writes > 0
      <3>1. \A r \in Sessions \ {s} : txn[r].writes = 0 /\ txn'[r] = txn[r]
        BY <1>0, <2>2, <2>4 DEF WriterOf, Others
      <3>2. \A r \in Sessions : txn'[r].writes = 0
        BY <1>6, <2>2, <3>1
      <3>3. \A r \in Sessions : NewOf(r)'
        BY <3>2 DEF NewOf
      <3>4. \A r \in Sessions \ {s} : WriterOf(r)'
        BY <1>0, <3>1, <3>2 DEF WriterOf
      <3>5. WriterOf(s)'
        BY <1>6, <2>2, <3>2 DEF WriterOf
      <3> QED BY <1>0, <2>2, <3>3, <3>4, <3>5 DEF WriterInv
    <2> QED BY <2>3, <2>4
  <1>8. ASSUME NEW s \in Sessions, Ends(s) PROVE WriterInv'
    BY <1>0, <1>3, <1>6, <1>8, EndsDoes
  <1>9. ASSUME rows' = rows, now' = now, txn' = txn PROVE WriterInv'
    <2>1. \A r \in Sessions : WriterOf(r)'
      BY <1>0, <1>9 DEF WriterOf
    <2>2. \A r \in Sessions : NewOf(r)'
      BY <1>0, <1>1, <1>2, <1>9 DEF NewOf
    <2> QED BY <1>0, <1>9, <2>1, <2>2 DEF WriterInv
  <1>10. ASSUME NEW s \in Sessions, NEW v, Writes(s, v) PROVE WriterInv'
    <2>1. /\ Others(s) /\ rows' = rows /\ now' = now /\ CanWrite(s)
          /\ txn[s].st = "open" /\ txn'[s].st = "open" /\ Exists(v)
          /\ txn'[s].start = txn[s].start /\ txn'[s].base = txn[s].base
          /\ txn'[s].view = v /\ txn'[s].writes = txn[s].writes + 1
      BY <1>10, WritesDoes
    <2>2. txn[s].base = rows /\ \A r \in Sessions \ {s} : txn[r].writes = 0 /\ txn'[r] = txn[r]
      BY <2>1 DEF CanWrite, Others
    <2>3. WriterOf(s)'
      BY <1>0, <2>1, <2>2 DEF WriterOf
    <2>4. NewOf(s)'
      <3>1. /\ level = "causal" => Same(rows, v) \/ v[0].vers[GroupOf(s)] >= txn[s].start
            /\ level = "strong" /\ table = "BlobStore" /\ Exists(rows) => v[0].vers > rows[0].vers
        BY <1>0, <1>10, <2>2, WritesNew
      <3> QED BY <1>1, <1>2, <2>1, <3>1 DEF NewOf
    <2>5. \A r \in Sessions \ {s} : WriterOf(r)' /\ NewOf(r)'
      BY <1>0, <2>1, <2>2 DEF WriterOf, NewOf
    <2> QED BY <1>0, <2>1, <2>3, <2>4, <2>5 DEF WriterInv
  <1>11. ASSUME NEW s \in Sessions, Receive(s) \/ Get(s) PROVE WriterInv'
    BY <1>9, <1>11, ReceiveDoes, GetDoes
  <1>12. CASE UNCHANGED vars
    BY <1>9, <1>12 DEF vars
  <1> QED BY <1>4, <1>5, <1>7, <1>8, <1>10, <1>11, <1>12, Kinds

---------------------------------------------------------------------------
(* Stamps are of the past *)

\* The history has the types of rows.
LEMMA SeenTypes ==
    ASSUME TypeOK
    PROVE  /\ level = "causal" => \A a \in seen, g \in Groups : a.vers[g] \in Nat
           /\ level = "strong" => \A a \in seen : a.vers \in Nat
           /\ \A a \in seen : a.data \in Values /\ a.late \in BOOLEAN
           /\ Exists(rows) => rows \in Rows
  <1>1. \A a \in seen : a \in Histories
    BY DEF TypeOK
  <1>2. level = "causal" => Versions = [Groups -> Nat]
    <2>1. "causal" # "strong"
      OBVIOUS
    <2> QED BY <2>1 DEF Versions
  <1>3. level = "strong" => Versions = Nat
    BY DEF Versions
  <1>4. Exists(rows) => rows \in Rows
    BY DEF TypeOK, Exists
  <1> QED BY <1>1, <1>2, <1>3, <1>4 DEF Histories

\* What is below a committed entry is past as well.
LEMMA PastDown ==
    ASSUME NEW S, NEW g, \A a \in S : a.vers[g] \in Nat, NEW m \in Nat, NEW n \in Nat, n <= m, PastIn(S, g, m)
    PROVE  PastIn(S, g, n)
  BY DEF PastIn

\* What load takes into the store's clock is of the past but for its own group.
LEMMA ClockTakes ==
    ASSUME NEW S, NEW k \in Groups, NEW v \in Stamped, NEW c \in [Groups -> Nat],
           OwnRows(S, k, v), PastClock(S, k, c)
    PROVE  PastClock(S, k, Merge(c, v[0].vers))
  <1>1. v[0].vers \in [Groups -> Nat]
    BY StampedRows
  <1>2. ASSUME NEW g \in Groups \ {k} PROVE PastIn(S, g, Merge(c, v[0].vers)[g])
    <2>1. PastIn(S, g, c[g])
      BY DEF PastClock
    <2>2. PastIn(S, g, v[0].vers[g])
      BY DEF OwnRows
    <2> QED BY <1>1, <2>1, <2>2, PastMerge
  <1> QED BY <1>2 DEF PastClock

\* The rows of a writer are of the past once they are committed.
LEMMA CommitPast ==
    ASSUME TypeOK, WriterInv, StampInv, level = "causal", NEW s \in Sessions, Commit(s), txn[s].writes > 0
    PROVE  Exists(rows') /\ PastRows(seen', rows')
  <1> DEFINE v == txn[s].view  k == GroupOf(s)  new == Committed(txn[s].view[0], Late(s))
  <1>1. Exists(v) /\ v \in Stamped
    <2>1. Exists(v)
      BY DEF WriterInv, WriterOf
    <2> QED BY <2>1, TxnFields, CausalTypes
  <1>2. /\ rows' = v
        /\ Unnumbered(s) => seen' = seen
        /\ ~Unnumbered(s) => seen' = seen \cup {new}
    BY <1>1, CommitDoes
  <1>3. \A i \in 0..2, g \in Groups :
          PastIn(seen, g, v[i].vers[g]) \/ (g = k /\ v[i].vers[g] <= v[0].vers[g])
    BY <1>1 DEF StampInv, StampOf, OwnRows
  <1>4. new.vers = v[0].vers
    BY DEF Committed
  <1>5. \A i \in 0..2, g \in Groups : v[i].vers[g] \in Nat
    BY <1>1, StampedRows
  <1>6. ASSUME Unnumbered(s), NEW i \in 0..2, NEW g \in Groups PROVE PastIn(seen', g, v[i].vers[g])
    <2>1. Exists(rows) /\ v[0] = rows[0]
      BY <1>6 DEF Unnumbered
    <2>2. PastIn(seen, g, v[0].vers[g])
      BY <2>1 DEF StampInv, PastRows
    <2>3. \A a \in seen : a.vers[g] \in Nat
      BY SeenTypes
    <2> HIDE DEF v
    <2>4. v[i].vers[g] <= v[0].vers[g] => PastIn(seen, g, v[i].vers[g])
      BY <1>5, <2>2, <2>3, PastDown
    <2> QED BY <1>2, <1>3, <1>6, <2>4
  <1>7. ASSUME ~Unnumbered(s), NEW i \in 0..2, NEW g \in Groups PROVE PastIn(seen', g, v[i].vers[g])
    <2> HIDE DEF v, new
    <2>1. new \in seen' /\ seen \subseteq seen'
      BY <1>2, <1>7
    <2>2. v[i].vers[g] <= v[0].vers[g] => PastIn(seen', g, v[i].vers[g])
      BY <1>4, <2>1 DEF PastIn
    <2> QED BY <1>3, <2>1, <2>2, PastGrows
  <1> HIDE DEF v
  <1> QED BY <1>1, <1>2, <1>6, <1>7 DEF PastRows

\* Every step keeps stamps and clocks to what was committed.
LEMMA StampStep ==
    ASSUME TypeOK, WriterInv, StampInv, [Next]_vars
    PROVE  StampInv'
  <1>0. UNCHANGED <<level, table, repl_group>> /\ seen \subseteq seen'
    BY Fixed
  <1>1. \A r \in Sessions : GroupOf(r)' = GroupOf(r) /\ GroupOf(r) \in Groups
    BY <1>0, TxnFields DEF GroupOf
  <1> SUFFICES ASSUME level = "causal"
               PROVE  (Exists(rows') => PastRows(seen', rows')) /\ \A s \in Sessions : StampOf(s)'
    BY <1>0 DEF StampInv
  <1>2. (Exists(rows) => PastRows(seen, rows)) /\ \A s \in Sessions : StampOf(s)
    BY DEF StampInv
  <1>3. ASSUME NEW s \in Sessions, Others(s), rows' = rows \/ (Exists(rows') => PastRows(seen', rows')),
               PastClock(seen', GroupOf(s), clock'[s]),
               Exists(txn'[s].base) => PastRows(seen', txn'[s].base),
               Exists(txn'[s].view) => OwnRows(seen', GroupOf(s), txn'[s].view)
        PROVE  (Exists(rows') => PastRows(seen', rows')) /\ \A r \in Sessions : StampOf(r)'
    <2>1. StampOf(s)'
      BY <1>1, <1>3 DEF StampOf
    <2>2. ASSUME NEW r \in Sessions \ {s} PROVE StampOf(r)'
      <3>1. txn'[r] = txn[r] /\ clock'[r] = clock[r]
        BY <1>3 DEF Others
      <3> QED BY <1>0, <1>1, <1>2, <3>1, PastGrows DEF StampOf
    <2>3. Exists(rows') => PastRows(seen', rows')
      BY <1>0, <1>2, <1>3, PastGrows
    <2> QED BY <2>1, <2>2, <2>3
  <1>4. \A s \in Sessions : PastClock(seen', GroupOf(s), clock[s])
    BY <1>0, <1>2, PastGrows DEF StampOf
  <1>5. ASSUME NEW s \in Sessions, Exists(txn[s].view), txn[s].view \in Rows,
               clock'[s] = Merge(clock[s], txn[s].view[0].vers)
        PROVE  PastClock(seen', GroupOf(s), clock'[s])
    <2>1. txn[s].view \in Stamped /\ clock[s] \in [Groups -> Nat]
      BY <1>5, CausalTypes, TxnFields
    <2>2. OwnRows(seen', GroupOf(s), txn[s].view)
      BY <1>0, <1>2, <1>5, PastGrows DEF StampOf
    <2> QED BY <1>1, <1>4, <1>5, <2>1, <2>2, ClockTakes
  <1>6. \A s \in Sessions : /\ Exists(txn[s].base) => PastRows(seen', txn[s].base)
                            /\ Exists(txn[s].view) => OwnRows(seen', GroupOf(s), txn[s].view)
    BY <1>0, <1>2, PastGrows DEF StampOf
  <1> DEFINE Goal == (Exists(rows') => PastRows(seen', rows')) /\ \A r \in Sessions : StampOf(r)'
  <1>7. ASSUME NEW s \in Sessions, Begin(s) PROVE Goal
    <2>1. Others(s) /\ txn'[s] = Began(now') /\ rows' = rows /\ clock' = clock
      BY <1>7, BeginDoes
    <2>2. ~Exists(txn'[s].base) /\ ~Exists(txn'[s].view)
      BY <2>1 DEF Began, Exists
    <2> QED BY <1>3, <1>4, <2>1, <2>2
  <1>8. ASSUME NEW s \in Sessions, Snapshot(s) PROVE Goal
    <2>1. Others(s) /\ txn'[s].base = rows /\ txn'[s].view = rows /\ rows' = rows /\ clock' = clock
      BY <1>8, SnapshotDoes
    <2>2. Exists(rows) => PastRows(seen', rows)
      BY <1>0, <1>2, PastGrows
    <2> QED BY <1>3, <1>4, <2>1, <2>2, PastIsOwn
  <1>9. ~Exists(Idle.base) /\ ~Exists(Idle.view)
    BY DEF Idle, Exists
  <1>10. ASSUME NEW s \in Sessions, Commit(s) PROVE Goal
    <2>1. txn[s].writes > 0 => Exists(txn[s].view)
      BY DEF WriterInv, WriterOf
    <2>2. Others(s) /\ txn'[s] = Idle /\ clock' = clock
      BY <1>10, <2>1, CommitDoes
    <2>3. rows' = rows \/ (Exists(rows') => PastRows(seen', rows'))
      <3>1. CASE txn[s].writes > 0
        BY <1>10, <3>1, CommitPast
      <3>2. CASE ~(txn[s].writes > 0)
        BY <1>10, <2>1, <3>2, CommitDoes
      <3> QED BY <3>1, <3>2
    <2> QED BY <1>3, <1>4, <1>9, <2>2, <2>3
  <1>11. ASSUME NEW s \in Sessions, Ends(s) PROVE Goal
    <2>1. Others(s) /\ txn'[s] = Idle /\ rows' = rows
      BY <1>11, EndsDoes
    <2>2. PastClock(seen', GroupOf(s), clock'[s])
      <3>1. \/ clock'[s] = clock[s]
            \/ /\ Exists(txn[s].view) /\ txn[s].view \in Rows
               /\ clock'[s] = Merge(clock[s], txn[s].view[0].vers)
        BY <1>11, EndsDoes
      <3> QED BY <1>4, <1>5, <3>1
    <2> QED BY <1>3, <1>9, <2>1, <2>2
  <1>12. ASSUME NEW s \in Sessions, Receive(s) PROVE Goal
    <2>1. Others(s) /\ txn' = txn /\ rows' = rows /\ clock' = clock
      BY <1>12, ReceiveDoes
    <2> QED BY <1>3, <1>4, <1>6, <2>1
  <1>13. ASSUME NEW s \in Sessions, Get(s) PROVE Goal
    <2>1. Others(s) /\ txn' = txn /\ rows' = rows
      BY <1>13, GetDoes
    <2>2. PastClock(seen', GroupOf(s), clock'[s])
      <3>1. /\ Exists(txn[s].view) /\ txn[s].view \in Rows
            /\ clock'[s] = clock[s] \/ clock'[s] = Merge(clock[s], txn[s].view[0].vers)
        BY <1>13, GetDoes
      <3> QED BY <1>4, <1>5, <3>1
    <2> QED BY <1>3, <1>6, <2>1, <2>2
  <1>14. ASSUME NEW s \in Sessions, NEW v, Writes(s, v) PROVE Goal
    <2>1. Others(s) /\ rows' = rows /\ clock' = clock /\ txn'[s].base = txn[s].base /\ txn'[s].view = v
      BY <1>14, WritesDoes
    <2>2. OwnRows(seen', GroupOf(s), v)
      <3> DEFINE u == txn[s].view  k == GroupOf(s)  g == group_mapper(GroupOf(s))
      <3>1. PICK d \in Values :
               \/ /\ Exists(u) /\ u \in Stamped /\ Updated(u, k, g, clock[s], txn[s].start, d, v)
               \/ /\ ~Exists(u) /\ Inserted(k, g, clock[s], txn[s].start, d, v)
        BY <1>14, CausalWrites
      <3>2. k \in Groups /\ g \in {1, 2} /\ clock[s] \in [Groups -> Nat] /\ txn[s].start \in Nat
        BY TxnFields
      <3>3. PastClock(seen', k, clock[s]) /\ (Exists(u) => OwnRows(seen', k, u))
        BY <1>4, <1>6
      <3> HIDE DEF u, k, g
      <3>4. OwnRows(seen', k, v)
        <4>1. PICK S : S = seen'
          OBVIOUS
        <4>2. CASE Exists(u)
          BY <3>1, <3>2, <3>3, <4>1, <4>2, UpdateStamps
        <4>3. CASE ~Exists(u)
          BY <3>1, <3>2, <3>3, <4>1, <4>3, InsertStamps
        <4> QED BY <4>2, <4>3
      <3> QED BY <3>4 DEF k
    <2> QED BY <1>3, <1>4, <1>6, <2>1, <2>2
  <1>15. CASE UNCHANGED vars
    <2>1. rows' = rows /\ seen' = seen /\ txn' = txn /\ clock' = clock
      BY <1>15 DEF vars
    <2> QED BY <1>1, <1>2, <2>1 DEF StampOf
  <1> HIDE DEF Goal
  <1>16. Goal
    BY <1>7, <1>8, <1>10, <1>11, <1>12, <1>13, <1>14, <1>15, Kinds DEF Goal
  <1> QED BY <1>16 DEF Goal

---------------------------------------------------------------------------
(* Versions *)

\* A commit adds a greater version, or one that no entry has unless it is late.
LEMMA CommitHistory ==
    ASSUME TypeOK, WriterInv, HistoryInv, NEW s \in Sessions, Commit(s), txn[s].writes > 0
    PROVE  /\ Exists(rows') /\ InHistory(seen', rows'[0])
           /\ table = "BlobStore" /\ level = "strong" =>
                /\ \A a \in seen' : a.vers <= rows'[0].vers
                /\ Exists(rows) => rows'[0].vers > rows[0].vers
           /\ VersionIdentifiesData'
  <1> DEFINE v == txn[s].view  k == GroupOf(s)  new == Committed(txn[s].view[0], Late(s))
  <1>1. Exists(v) /\ v \in Rows /\ NewOf(s) /\ v[0].vers \in Versions
    <2>1. Exists(v) /\ NewOf(s)
      BY DEF WriterInv, WriterOf
    <2> QED BY <2>1, TxnFields, Row0
  <1>2. /\ rows' = v /\ table' = table
        /\ Unnumbered(s) => seen' = seen
        /\ ~Unnumbered(s) => seen' = seen \cup {new}
    BY <1>1, CommitDoes DEF Commit
  <1>3. new.vers = v[0].vers /\ new.data = v[0].data /\ new.late = Late(s)
    BY DEF Committed
  <1>4. Unnumbered(s) <=> Same(rows, v)
    BY DEF Unnumbered, Same
  <1>5. level = "strong" \/ level = "causal"
    BY Constants DEF TypeOK
  <1>6. CASE Unnumbered(s)
    <2>1. Exists(rows) /\ v[0] = rows[0]
      BY <1>6 DEF Unnumbered
    <2>2. InHistory(seen', rows'[0])
      BY <1>2, <1>6, <2>1 DEF HistoryInv
    <2>3. ~(table = "BlobStore" /\ level = "strong")
      <3> SUFFICES ASSUME table = "BlobStore", level = "strong" PROVE FALSE
        OBVIOUS
      <3>1. v[0].vers > rows[0].vers /\ v[0].vers \in Nat
        BY <1>1, <2>1 DEF NewOf, Versions
      <3> QED BY <2>1, <3>1
    <2>4. VersionIdentifiesData'
      BY <1>2, <1>6 DEF HistoryInv, VersionIdentifiesData
    <2> QED BY <1>1, <1>2, <2>2, <2>3, <2>4
  <1>7. CASE ~Unnumbered(s)
    <2>1. InHistory(seen', rows'[0])
      BY <1>2, <1>3, <1>7 DEF InHistory
    <2>2. ASSUME table = "BlobStore", level = "strong"
          PROVE  /\ \A a \in seen : a.vers < new.vers /\ a.vers \in Nat
                 /\ Exists(rows) => v[0].vers > rows[0].vers
      <3>1. v[0].vers \in Nat /\ \A a \in seen : a.vers \in Nat
        BY <1>1, <2>2, SeenTypes DEF Versions
      <3>2. CASE Exists(rows)
        <4>1. v[0].vers > rows[0].vers
          BY <1>1, <2>2, <3>2 DEF NewOf
        <4>2. rows[0].vers \in Nat
          BY <2>2, <3>2, SeenTypes, Row0 DEF Versions
        <4>3. \A a \in seen : a.vers <= rows[0].vers
          BY <2>2 DEF HistoryInv
        <4> HIDE DEF v, new
        <4> QED BY <1>3, <3>1, <4>1, <4>2, <4>3
      <3>3. CASE ~Exists(rows)
        BY <3>3 DEF HistoryInv
      <3> QED BY <3>2, <3>3
    <2>3. ASSUME level = "causal", NEW a \in seen, a.vers = new.vers PROVE new.late
      <3>1. v[0].vers[k] >= txn[s].start
        BY <1>1, <1>4, <1>7, <2>3 DEF NewOf
      <3>2. a.vers[k] >= txn[s].start
        BY <1>3, <2>3, <3>1
      <3>3. Late(s)
        BY <2>3, <3>2 DEF Late
      <3> QED BY <1>3, <3>3
    <2>4. ASSUME table = "BlobStore", level = "strong"
          PROVE  (\A a \in seen' : a.vers <= rows'[0].vers) /\ (Exists(rows) => rows'[0].vers > rows[0].vers)
      <3>1. v[0].vers \in Nat
        BY <1>1, <2>4 DEF Versions
      <3> HIDE DEF v, new
      <3> QED BY <1>2, <1>3, <1>7, <2>2, <2>4, <3>1
    <2>5. VersionIdentifiesData'
      <3> SUFFICES ASSUME table = "BlobStore", NEW a \in seen', NEW b \in seen', a.vers = b.vers
                   PROVE  a.data = b.data \/ a.late \/ b.late
        BY <1>2 DEF VersionIdentifiesData
      <3>1. \A c \in seen : c.vers = new.vers => new.late
        <4>1. CASE level = "strong"
          BY <2>2, <4>1
        <4>2. CASE level = "causal"
          BY <2>3, <4>2
        <4> QED BY <1>5, <4>1, <4>2
      <3> HIDE DEF new
      <3>2. CASE a \in seen /\ b \in seen
        BY <3>2 DEF HistoryInv, VersionIdentifiesData
      <3>3. CASE a = new
        BY <1>2, <1>7, <3>1, <3>3
      <3>4. CASE b = new
        BY <1>2, <1>7, <3>1, <3>4
      <3> QED BY <1>2, <1>7, <3>2, <3>3, <3>4
    <2> QED BY <1>1, <1>2, <2>1, <2>4, <2>5
  <1> QED BY <1>6, <1>7

\* Every step keeps the history complete, and its versions apart.
LEMMA HistoryStep ==
    ASSUME TypeOK, WriterInv, HistoryInv, [Next]_vars
    PROVE  HistoryInv'
  <1>0. UNCHANGED <<level, table, repl_group>> /\ seen \subseteq seen'
    BY Fixed
  <1>1. \A r \in Sessions : Exists(txn[r].base) => InHistory(seen', txn[r].base[0])
    BY <1>0, PastGrows DEF HistoryInv
  <1>2. ASSUME rows' = rows, seen' = seen,
               \A r \in Sessions : txn'[r].base = txn[r].base \/ txn'[r].base = rows \/ ~Exists(txn'[r].base)
        PROVE  HistoryInv'
    <2>1. \A r \in Sessions : Exists(txn'[r].base) => InHistory(seen', txn'[r].base[0])
      BY <1>1, <1>2 DEF HistoryInv
    <2>2. VersionIdentifiesData'
      BY <1>0, <1>2 DEF HistoryInv, VersionIdentifiesData
    <2> QED BY <1>0, <1>2, <2>1, <2>2 DEF HistoryInv
  <1>3. ~Exists(Idle.base)
    BY DEF Idle, Exists
  <1>4. ASSUME NEW s \in Sessions, Begin(s) PROVE HistoryInv'
    <2>1. Others(s) /\ rows' = rows /\ seen' = seen /\ txn'[s] = Began(now')
      BY <1>4, BeginDoes
    <2>2. ~Exists(txn'[s].base)
      BY <2>1 DEF Began, Exists
    <2> QED BY <1>2, <2>1, <2>2 DEF Others
  <1>5. ASSUME NEW s \in Sessions, Snapshot(s) PROVE HistoryInv'
    BY <1>2, <1>5, SnapshotDoes DEF Others
  <1>6. ASSUME NEW s \in Sessions, Commit(s) PROVE HistoryInv'
    <2>1. txn[s].writes > 0 => Exists(txn[s].view)
      BY DEF WriterInv, WriterOf
    <2>2. Others(s) /\ txn'[s] = Idle
      BY <1>6, <2>1, CommitDoes
    <2>3. CASE ~(txn[s].writes > 0)
      <3>1. rows' = rows /\ seen' = seen
        BY <1>6, <2>1, <2>3, CommitDoes
      <3> QED BY <1>2, <1>3, <2>2, <3>1 DEF Others
    <2>4. CASE txn[s].writes > 0
      <3>1. \A r \in Sessions : Exists(txn'[r].base) => InHistory(seen', txn'[r].base[0])
        BY <1>1, <1>3, <2>2 DEF Others
      <3>2. /\ Exists(rows') /\ InHistory(seen', rows'[0]) /\ VersionIdentifiesData'
            /\ table = "BlobStore" /\ level = "strong" => \A a \in seen' : a.vers <= rows'[0].vers
        BY <1>6, <2>4, CommitHistory
      <3> QED BY <1>0, <3>1, <3>2 DEF HistoryInv
    <2> QED BY <2>3, <2>4
  <1>7. ASSUME NEW s \in Sessions, Ends(s) PROVE HistoryInv'
    <2>1. Others(s) /\ rows' = rows /\ seen' = seen /\ txn'[s] = Idle
      BY <1>7, EndsDoes
    <2> QED BY <1>2, <1>3, <2>1 DEF Others
  <1>8. ASSUME NEW s \in Sessions, Receive(s) \/ Get(s) PROVE HistoryInv'
    BY <1>2, <1>8, ReceiveDoes, GetDoes
  <1>9. ASSUME NEW s \in Sessions, NEW v, Writes(s, v) PROVE HistoryInv'
    <2>1. Others(s) /\ rows' = rows /\ seen' = seen /\ txn'[s].base = txn[s].base
      BY <1>9, WritesDoes
    <2> QED BY <1>2, <2>1 DEF Others
  <1>10. CASE UNCHANGED vars
    BY <1>2, <1>10 DEF vars
  <1> QED BY <1>4, <1>5, <1>6, <1>7, <1>8, <1>9, <1>10, Kinds

---------------------------------------------------------------------------
(* Initial states *)

\* No version is given twice before the first transaction.
LEMMA VersionInit ==
    ASSUME Init
    PROVE  TypeOK /\ WriterInv /\ StampInv /\ HistoryInv
  <1>1. TypeOK
    BY TypeInit
  <1>2. \A s \in Sessions : txn[s] = Idle /\ clock[s] = Zero
    BY DEF Init
  <1>3. /\ Idle.writes = 0 /\ Idle.st = "none" /\ Idle.view = Idle.base
        /\ ~Exists(Idle.base) /\ ~Exists(Idle.view)
    BY DEF Idle, Exists
  <1>4. WriterInv
    <2>1. ASSUME NEW s \in Sessions PROVE WriterOf(s)
      <3>1. txn[s].st = "none" /\ txn[s].writes = 0 /\ ~Exists(txn[s].base) /\ txn[s].view = txn[s].base
        BY <1>2, <1>3
      <3> QED BY <3>1 DEF WriterOf
    <2>2. \A s \in Sessions : NewOf(s)
      BY <1>2, <1>3 DEF NewOf
    <2> QED BY <2>1, <2>2 DEF WriterInv, Init
  <1>5. Exists(rows) => /\ rows \in Rows /\ rows[0].vers \in Versions
                        /\ \E d \in Values : rows = initialize_with_id(1, Zero, 1, d)
    <2>1. Exists(rows) => rows \in Rows
      BY <1>1, SeenTypes
    <2>2. rows \in {<<>>} \union {initialize_with_id(1, Zero, 1, d) : d \in Values}
      BY DEF Init
    <2> QED BY <2>1, <2>2, Row0 DEF Exists
  <1>6. Exists(rows) => \E a \in seen : /\ seen = {a} /\ a.data = rows[0].data /\ a.vers = rows[0].vers
    <2>1. Exists(rows) => seen = {Committed(rows[0], FALSE)}
      BY DEF Init
    <2> DEFINE a == Committed(rows[0], FALSE)
    <2>2. a.data = rows[0].data /\ a.vers = rows[0].vers
      BY DEF Committed
    <2> HIDE DEF a
    <2>3. Exists(rows) => a \in seen /\ seen = {a}
      BY <2>1 DEF a
    <2> QED BY <2>2, <2>3
  <1>7. ~Exists(rows) => seen = {}
    BY DEF Init
  <1>8. HistoryInv
    <2>1. Exists(rows) => InHistory(seen, rows[0])
      BY <1>6 DEF InHistory
    <2>2. VersionIdentifiesData
      BY <1>6, <1>7 DEF VersionIdentifiesData
    <2>3. level = "strong" => \A a \in seen : a.vers <= rows[0].vers
      <3>1. level = "strong" => Versions = Nat
        BY DEF Versions
      <3> QED BY <1>5, <1>6, <1>7, <3>1
    <2> QED BY <1>2, <1>3, <1>7, <2>1, <2>2, <2>3 DEF HistoryInv
  <1>9. StampInv
    <2> SUFFICES ASSUME level = "causal"
                 PROVE  (Exists(rows) => PastRows(seen, rows)) /\ \A s \in Sessions : StampOf(s)
      BY DEF StampInv
    <2>1. \A k : PastClock(seen, k, Zero)
      BY DEF PastClock, PastIn, Zero
    <2>2. \A s \in Sessions : StampOf(s)
      BY <1>2, <1>3, <2>1 DEF StampOf
    <2>3. ASSUME Exists(rows) PROVE PastRows(seen, rows)
      <3>1. PICK d \in Values : rows = initialize_with_id(1, Zero, 1, d)
        BY <1>5, <2>3
      <3>2. 1 \in Groups /\ group_mapper(1) \in {1, 2} /\ Zero \in [Groups -> Nat]
        BY DEF Groups, group_mapper, Zero
      <3>3. rows = initialize_with_id_c(1, Zero, 1, d)
        <4>1. level # "strong"
          OBVIOUS
        <4> QED BY <3>1, <4>1 DEF initialize_with_id
      <3>4. Inserted(1, group_mapper(1), Zero, 1, d, rows)
        BY <3>2, <3>3, CausalInsert
      <3>5. OwnRows(seen, 1, rows)
        BY <2>1, <3>2, <3>4, InsertStamps
      <3>6. PICK a \in seen : a.vers = rows[0].vers
        BY <1>6, <2>3
      <3> QED BY <3>5, <3>6 DEF PastRows, OwnRows, PastIn
    <2> QED BY <2>2, <2>3
  <1> QED BY <1>1, <1>4, <1>8, <1>9

VersionInv == TypeOK /\ WriterInv /\ StampInv /\ HistoryInv

\* Writers, stamps and history keep each other.
LEMMA VersionStep == VersionInv /\ [Next]_vars => VersionInv'
  <1> SUFFICES ASSUME VersionInv, [Next]_vars PROVE VersionInv'
    OBVIOUS
  <1>1. TypeOK /\ WriterInv /\ StampInv /\ HistoryInv
    BY DEF VersionInv
  <1>2. WroteRows
    BY <1>1, TxnFields DEF WroteRows, WriterInv, WriterOf
  <1> QED BY <1>1, <1>2, TypeStep, WriterStep, StampStep, HistoryStep DEF VersionInv

\* The invariant of versions, for every behaviour.
LEMMA VersionsAlways == Spec => []VersionInv
  <1>1. Init => VersionInv
    BY VersionInit DEF VersionInv
  <1> QED BY <1>1, VersionStep, PTL DEF Spec

\* The causal store's rows and the sessions' clocks have no entry of a time that
\* was not committed, whatever was read inside transactions that were rolled
\* back: StampInv says where each entry of a view that is not committed comes from.
THEOREM ClockEntriesAreCommitted == Spec => []ClocksAreCommitted
  <1>1. VersionInv => ClocksAreCommitted
    <2>1. \A g, n : PastIn(seen, g, n) <=> Past(g, n)
      BY DEF PastIn, Past
    <2> QED BY <2>1 DEF VersionInv, StampInv, StampOf, PastRows, PastClock, ClocksAreCommitted
  <1> QED BY <1>1, VersionsAlways, PTL

\* Of two contents of a blob's row 0 that have one version, one was committed by a
\* late transaction; for any sessions and groups, and any times of first
\* statements.
THEOREM VersionsAreNotReused == Spec => []VersionIdentifiesData
  <1>1. VersionInv => VersionIdentifiesData
    BY DEF VersionInv, HistoryInv
  <1> QED BY <1>1, VersionsAlways, PTL

---------------------------------------------------------------------------
(* What objects know *)

\* What the version of an object is made of.
LEMMA ObjectVersion ==
    ASSUME TypeOK, NEW s \in Sessions
    PROVE  /\ level = "causal" => \A g \in Groups : obj[s].vers[g] \in Nat \cup {-1}
           /\ level = "strong" => obj[s].vers \in Nat \cup {-1}
  <1>1. obj[s].vers \in Known
    BY TxnFields DEF Objects
  <1>2. level = "causal" => Known = [Groups -> Nat \cup {-1}]
    <2>1. "causal" # "strong"
      OBVIOUS
    <2> QED BY <2>1 DEF Known
  <1>3. level = "strong" => Known = Nat \cup {-1}
    BY DEF Known
  <1> QED BY <1>1, <1>2, <1>3

\* The object after a write.
LEMMA WritesObject ==
    ASSUME TypeOK, NEW s \in Sessions, NEW v, Writes(s, v)
    PROVE  /\ level = "causal" => \/ obj'[s].vers = v[group_mapper(GroupOf(s))].vers
                                  \/ obj'[s].vers = Zero
           /\ Increment(s) \/ obj'[s].buf = v[written_row(GroupOf(s))].data
           /\ table = "BlobStore" => obj'[s].buf = v[written_row(GroupOf(s))].data
  <1> DEFINE k == GroupOf(s)  g == group_mapper(GroupOf(s))
  <1>0. /\ level = "strong" \/ level = "causal"
        /\ level = "causal" => written_row(k) = g
        /\ level = "strong" => written_row(k) = 0
        /\ g \in {1, 2} /\ k \in Groups /\ clock[s] \in [Groups -> Nat] /\ txn[s].start \in Nat
    BY Constants, TxnFields DEF TypeOK, written_row
  <1>1. ASSUME NEW d \in Values, Put(s, d), v = PutRows(s, d)
        PROVE  obj'[s].vers = v[written_row(k)].vers /\ obj'[s].buf = v[written_row(k)].data
    <2>1. /\ obj'[s].vers = v[written_row(k)].vers /\ obj'[s].buf = d
          /\ Exists(txn[s].view) /\ txn[s].view \in Rows
      BY <1>1, PutDoes
    <2>2. CASE level = "strong"
      <3>1. txn[s].view \in StrongRows /\ v = update_data_s(txn[s].view, d)
        BY <1>1, <2>1, <2>2 DEF Rows, PutRows, update_data
      <3>2. v[0].data = d
        BY <3>1, StrongCommands
      <3> QED BY <1>0, <2>1, <2>2, <3>2
    <2>3. CASE level = "causal"
      <3>1. txn[s].view \in Stamped /\ v = update_data_c(txn[s].view, k, clock[s], txn[s].start, d)
        <4>1. level # "strong"
          BY <2>3
        <4> QED BY <1>1, <2>1, <2>3, <4>1, CausalTypes DEF PutRows, update_data
      <3>2. Updated(txn[s].view, k, g, clock[s], txn[s].start, d, v)
        BY <1>0, <3>1, CausalUpdate
      <3>3. v[g].data = d
        BY <3>2 DEF Updated
      <3> QED BY <1>0, <2>1, <2>3, <3>3
    <2> QED BY <1>0, <2>2, <2>3
  <1>2. ASSUME Increment(s), v = IncrementRows(s)
        PROVE  table = "IntStore" /\ obj'[s].vers = v[written_row(k)].vers
    BY <1>2, IncrementDoes
  <1>3. ASSUME NEW d \in Values, NewObject(s, d), v = NewRows(s, d)
        PROVE  (level = "causal" => obj'[s].vers = Zero) /\ obj'[s].buf = v[written_row(k)].data
    <2>1. obj'[s].vers = (IF level = "strong" THEN 0 ELSE Zero) /\ obj'[s].buf = d
      BY <1>3, NewObjectDoes
    <2>2. CASE level = "strong"
      <3>1. v = initialize_with_id_s(d)
        BY <1>3, <2>2 DEF NewRows, initialize_with_id
      <3>2. v[0].data = d
        BY <3>1 DEF initialize_with_id_s
      <3>3. "strong" # "causal"
        OBVIOUS
      <3> QED BY <1>0, <2>1, <2>2, <3>2, <3>3
    <2>3. CASE level = "causal"
      <3>0. level # "strong"
        BY <2>3
      <3>1. v = initialize_with_id_c(k, clock[s], txn[s].start, d)
        BY <1>3, <3>0 DEF NewRows, initialize_with_id
      <3>2. Inserted(k, g, clock[s], txn[s].start, d, v)
        BY <1>0, <3>1, CausalInsert
      <3>3. v[g].data = d
        BY <3>2 DEF Inserted
      <3> QED BY <1>0, <2>1, <2>3, <3>0, <3>3
    <2> QED BY <1>0, <2>2, <2>3
  <1>4. "BlobStore" # "IntStore"
    OBVIOUS
  <1> HIDE DEF k, g
  <1> QED BY <1>0, <1>1, <1>2, <1>3, <1>4 DEF Writes, k, g

\* A new object of a request has no version.
LEMMA ReceivedVersion ==
    ASSUME TypeOK, NEW n \in Nat
    PROVE  /\ level = "causal" => \A g \in Groups : received_object(n).vers[g] = -1
           /\ level = "strong" => received_object(n).vers = -1
  <1>1. received_object(n).vers = Unread(level)
    BY DEF received_object
  <1> QED BY <1>1 DEF Unread

\* Every step keeps the versions of objects to those committed or written.
LEMMA KnownStep ==
    ASSUME VersionInv, VersionInv', KnownInv, [Next]_vars
    PROVE  KnownInv'
  <1>0. UNCHANGED <<level, table, repl_group>> /\ seen \subseteq seen'
    BY Fixed
  <1>1. /\ TypeOK /\ WriterInv /\ StampInv /\ HistoryInv /\ TypeOK' /\ StampInv'
        /\ \A r \in Sessions : GroupOf(r)' = GroupOf(r) /\ GroupOf(r) \in Groups
        /\ \A r \in Sessions : txn[r].writes \in Nat /\ WriterOf(r) /\ NewOf(r) /\ KnownOf(r)
    <2>1. TypeOK /\ WriterInv /\ StampInv /\ HistoryInv /\ TypeOK' /\ StampInv'
      BY DEF VersionInv
    <2> QED BY <1>0, <2>1, TxnFields DEF WriterInv, KnownInv, GroupOf
  <1>2. \A g, n : PastIn(seen, g, n) => PastIn(seen', g, n)
    BY <1>0, PastGrows
  \* Objects of sessions that neither write nor are written to.
  <1>3. ASSUME NEW r \in Sessions, obj'[r] = obj[r], left'[r] = left[r], txn'[r].writes = txn[r].writes,
               txn[r].writes > 0 => rows' = rows /\ txn'[r].view = txn[r].view,
               level = "strong" /\ table = "BlobStore" /\ Exists(rows) =>
                  Exists(rows') /\ rows'[0].vers >= rows[0].vers
        PROVE  KnownOf(r)'
    <2> SUFFICES ASSUME ~left[r] PROVE KnownOf(r)'
      BY <1>3 DEF KnownOf
    <2>1. ASSUME level = "causal", NEW g \in Groups PROVE KnownEntry(r, g, obj[r].vers[g])'
      <3>1. KnownEntry(r, g, obj[r].vers[g])
        BY <1>1, <2>1 DEF KnownOf
      <3> QED BY <1>1, <1>2, <1>3, <3>1 DEF KnownEntry
    <2>2. ASSUME level = "strong", table = "BlobStore"
          PROVE  \/ obj'[r].vers = -1
                 \/ txn'[r].writes = 0 /\ Exists(rows') /\ obj'[r].vers <= rows'[0].vers
                 \/ txn'[r].writes > 0 /\ obj'[r].vers <= txn'[r].view[0].vers
      <3>1. \/ obj[r].vers = -1
            \/ txn[r].writes = 0 /\ Exists(rows) /\ obj[r].vers <= rows[0].vers
            \/ txn[r].writes > 0 /\ obj[r].vers <= txn[r].view[0].vers
        BY <1>1, <2>2 DEF KnownOf
      <3>2. CASE txn[r].writes = 0 /\ Exists(rows) /\ obj[r].vers <= rows[0].vers
        <4>1. rows[0].vers \in Nat /\ rows'[0].vers \in Nat /\ obj[r].vers \in Nat \cup {-1}
          <5>1. rows \in StrongRows /\ rows' \in StrongRows
            <6>1. Exists(rows')
              BY <1>3, <2>2, <3>2
            <6> QED BY <1>0, <1>1, <2>2, <3>2, <6>1 DEF TypeOK, Rows, Exists
          <5> QED BY <1>1, <2>2, <5>1, ObjectVersion DEF StrongRows
        <4> QED BY <1>3, <2>2, <3>2, <4>1
      <3> QED BY <1>3, <3>1, <3>2
    <2> QED BY <1>0, <1>3, <2>1, <2>2 DEF KnownOf
  <1>4. ASSUME NEW s \in Sessions, Others(s), KnownOf(s)', rows' = rows PROVE KnownInv'
    <2>1. ASSUME level = "strong", Exists(rows) PROVE rows[0].vers >= rows[0].vers
      <3>1. rows[0].vers \in Nat
        BY <1>1, <2>1, SeenTypes, Row0 DEF Versions
      <3> QED BY <3>1
    <2>2. \A r \in Sessions \ {s} : KnownOf(r)'
      BY <1>3, <1>4, <2>1 DEF Others
    <2> QED BY <1>4, <2>2 DEF KnownInv
  <1>5. ASSUME NEW s \in Sessions, Others(s), rows' = rows, txn[s].writes = 0, txn'[s].writes = 0,
               left'[s] \/ (obj'[s] = obj[s] /\ left'[s] = left[s])
        PROVE  KnownInv'
    <2>1. ASSUME level = "strong", Exists(rows) PROVE rows[0].vers >= rows[0].vers
      <3>1. rows[0].vers \in Nat
        BY <1>1, <2>1, SeenTypes, Row0 DEF Versions
      <3> QED BY <3>1
    <2>2. CASE left'[s]
      <3>1. KnownOf(s)'
        BY <2>2 DEF KnownOf
      <3> QED BY <1>4, <1>5, <3>1
    <2>3. CASE obj'[s] = obj[s] /\ left'[s] = left[s]
      <3>1. KnownOf(s)'
        BY <1>3, <1>5, <2>1, <2>3
      <3> QED BY <1>4, <1>5, <3>1
    <2> QED BY <1>5, <2>2, <2>3
  <1>6. Idle.writes = 0 /\ \A n : Began(n).writes = 0
    BY DEF Idle, Began
  <1>7. ASSUME NEW s \in Sessions, Begin(s) PROVE KnownInv'
    <2>1. Others(s) /\ rows' = rows /\ obj' = obj /\ left' = left /\ txn'[s] = Began(now') /\ txn[s].st = "none"
      BY <1>1, <1>7, BeginDoes
    <2>2. txn[s].writes = 0 /\ txn'[s].writes = 0
      BY <1>1, <1>6, <2>1 DEF WriterOf
    <2> QED BY <1>5, <2>1, <2>2
  <1>8. ASSUME NEW s \in Sessions, Snapshot(s) PROVE KnownInv'
    <2>1. /\ Others(s) /\ rows' = rows /\ obj' = obj /\ left' = left /\ txn'[s].writes = txn[s].writes
          /\ txn[s].st = "begun"
      BY <1>1, <1>8, SnapshotDoes
    <2>2. txn[s].writes = 0 /\ txn'[s].writes = 0
      BY <1>1, <2>1 DEF WriterOf
    <2> QED BY <1>5, <2>1, <2>2
  <1>9. ASSUME NEW s \in Sessions, Commit(s) PROVE KnownInv'
    <2>1. txn[s].writes > 0 => Exists(txn[s].view)
      BY <1>1 DEF WriterOf
    <2>2. Others(s) /\ txn'[s] = Idle /\ obj' = obj /\ left' = left
      BY <1>1, <1>9, <2>1, CommitDoes
    <2>3. CASE ~(txn[s].writes > 0)
      <3>1. rows' = rows
        BY <1>1, <1>9, <2>1, <2>3, CommitDoes
      <3> QED BY <1>1, <1>5, <1>6, <2>2, <2>3, <3>1
    <2>4. CASE txn[s].writes > 0
      <3>1. rows' = txn[s].view /\ Exists(rows')
        BY <1>1, <1>9, <2>1, <2>4, CommitDoes
      <3>2. ASSUME level = "strong", table = "BlobStore"
            PROVE  rows'[0].vers \in Nat /\ (Exists(rows) => rows'[0].vers >= rows[0].vers)
        <4>1. rows'[0].vers \in Nat
          <5>1. rows' \in StrongRows
            BY <1>0, <1>1, <3>1, <3>2 DEF TypeOK, Rows, Exists
          <5> QED BY <5>1 DEF StrongRows
        <4>2. Exists(rows) => rows'[0].vers > rows[0].vers /\ rows[0].vers \in Nat
          BY <1>1, <1>9, <2>4, <3>2, CommitHistory, SeenTypes, Row0 DEF Versions
        <4> QED BY <4>1, <4>2
      <3>3. \A r \in Sessions \ {s} : KnownOf(r)'
        <4>1. \A r \in Sessions \ {s} : txn[r].writes = 0
          BY <1>1, <2>4 DEF WriterOf
        <4> QED BY <1>3, <2>2, <3>1, <3>2, <4>1 DEF Others
      <3>4. KnownOf(s)'
        <4> SUFFICES ASSUME ~left[s] PROVE KnownOf(s)'
          BY <2>2 DEF KnownOf
        <4>1. ASSUME level = "causal", NEW g \in Groups PROVE KnownEntry(s, g, obj[s].vers[g])'
          <5>1. KnownEntry(s, g, obj[s].vers[g]) /\ obj[s].vers[g] \in Nat \cup {-1}
            BY <1>1, <4>1, ObjectVersion DEF KnownOf
          <5>2. PastIn(seen', g, rows'[0].vers[g])
            BY <1>1, <1>9, <2>4, <4>1, CommitPast DEF PastRows
          <5>3. rows'[0].vers[g] \in Nat /\ \A a \in seen' : a.vers[g] \in Nat
            <6>1. rows' \in Stamped
              BY <1>0, <1>1, <3>1, <4>1, TxnFields, CausalTypes
            <6>2. \A a \in seen' : a.vers \in [Groups -> Nat]
              <7>1. Versions' = [Groups -> Nat]
                BY <1>0, <4>1 DEF Versions
              <7> QED BY <1>1, <7>1 DEF TypeOK, Histories
            <6> QED BY <6>1, <6>2, StampedRows
          <5>4. ASSUME obj[s].vers[g] \in Nat, obj[s].vers[g] <= rows'[0].vers[g]
                PROVE  PastIn(seen', g, obj[s].vers[g])
            BY <5>2, <5>3, <5>4, PastDown
          <5> QED BY <1>2, <2>2, <3>1, <5>1, <5>4 DEF KnownEntry
        <4>2. ASSUME level = "strong", table = "BlobStore"
              PROVE  \/ obj'[s].vers = -1
                     \/ txn'[s].writes = 0 /\ Exists(rows') /\ obj'[s].vers <= rows'[0].vers
          BY <1>1, <1>6, <2>2, <2>4, <3>1, <4>2 DEF KnownOf
        <4> QED BY <1>0, <2>2, <4>1, <4>2 DEF KnownOf
      <3> QED BY <3>3, <3>4 DEF KnownInv
    <2> QED BY <2>3, <2>4
  <1>10. ASSUME NEW s \in Sessions, Ends(s) PROVE KnownInv'
    <2>1. Others(s) /\ txn'[s] = Idle /\ rows' = rows
      BY <1>1, <1>10, EndsDoes
    <2>2. left'[s] \/ (obj'[s] = obj[s] /\ ~left[s] /\ ~(txn[s].writes > 0))
      BY <1>1, <1>10, EndsDoes
    <2>3. CASE left'[s]
      <3>1. KnownOf(s)'
        BY <2>3 DEF KnownOf
      <3> QED BY <1>4, <2>1, <3>1
    <2>4. CASE ~left'[s]
      <3>1. obj'[s] = obj[s] /\ left'[s] = left[s] /\ txn[s].writes = 0
        <4>1. left'[s] \in BOOLEAN /\ left[s] \in BOOLEAN
          BY <1>1 DEF TypeOK
        <4>2. left'[s] = left[s]
          BY <2>2, <2>4, <4>1, Zenon
        <4> QED BY <1>1, <2>2, <2>4, <4>2
      <3> QED BY <1>5, <1>6, <2>1, <3>1
    <2> QED BY <2>3, <2>4
  <1>11. ASSUME NEW s \in Sessions, Receive(s) PROVE KnownInv'
    <2>1. Others(s) /\ rows' = rows /\ obj'[s] = received_object(obj[s].size) /\ obj[s].size \in Nat
      BY <1>1, <1>11, ReceiveDoes, TxnFields
    <2>2. /\ level = "causal" => \A g \in Groups : obj'[s].vers[g] = -1
          /\ level = "strong" => obj'[s].vers = -1
      BY <1>1, <2>1, ReceivedVersion
    <2>3. KnownOf(s)'
      BY <1>0, <2>2 DEF KnownOf, KnownEntry
    <2> QED BY <1>4, <2>1, <2>3
  <1>12. ASSUME NEW s \in Sessions, Get(s) PROVE KnownInv'
    <2>1. Others(s) /\ rows' = rows /\ seen' = seen /\ txn' = txn
      BY <1>1, <1>12, GetDoes
    <2>2. \/ obj'[s] = obj[s] /\ left'[s] = left[s]
          \/ obj'[s].vers = txn[s].view[0].vers
      BY <1>1, <1>12, GetDoes
    <2>3. Exists(txn[s].view) /\ txn[s].view \in Rows
      BY <1>1, <1>12, GetDoes
    <2>4. CASE obj'[s] = obj[s] /\ left'[s] = left[s]
      <3>1. KnownOf(s)'
        BY <1>0, <1>1, <2>1, <2>4 DEF KnownOf, KnownEntry
      <3> QED BY <1>4, <2>1, <3>1
    <2>5. CASE obj'[s].vers = txn[s].view[0].vers
      <3>1. ASSUME level = "causal", NEW g \in Groups PROVE KnownEntry(s, g, obj[s].vers[g])'
        <4>1. StampOf(s)
          BY <1>1, <3>1 DEF StampInv
        <4>2. CASE txn[s].writes = 0
          <5>1. PastRows(seen, txn[s].view)
            BY <1>1, <2>3, <4>1, <4>2 DEF StampOf, WriterOf
          <5>2. PastIn(seen, g, txn[s].view[0].vers[g])
            BY <5>1 DEF PastRows
          <5> QED BY <2>1, <2>5, <5>2 DEF KnownEntry
        <4>3. CASE txn[s].writes > 0
          <5>1. OwnRows(seen, GroupOf(s), txn[s].view)
            BY <2>3, <4>1 DEF StampOf
          <5>2. \/ PastIn(seen, g, txn[s].view[0].vers[g])
                \/ g = GroupOf(s) /\ txn[s].view[0].vers[g] <= txn[s].view[0].vers[g]
            BY <5>1 DEF OwnRows
          <5> QED BY <1>1, <2>1, <2>5, <4>3, <5>2 DEF KnownEntry
        <4> QED BY <1>1, <4>2, <4>3
      <3>2. ASSUME level = "strong", table = "BlobStore"
            PROVE  \/ txn'[s].writes = 0 /\ Exists(rows') /\ obj'[s].vers <= rows'[0].vers
                   \/ txn'[s].writes > 0 /\ obj'[s].vers <= txn'[s].view[0].vers
        <4>1. txn[s].view[0].vers \in Nat
          BY <2>3, <3>2, Row0 DEF Versions
        <4>2. CASE txn[s].writes = 0
          <5>1. InHistory(seen, txn[s].view[0])
            BY <1>1, <2>3, <4>2 DEF HistoryInv, WriterOf
          <5>2. PICK a \in seen : a.vers = txn[s].view[0].vers
            BY <5>1 DEF InHistory
          <5>3. Exists(rows) /\ a.vers <= rows[0].vers
            BY <1>1, <3>2 DEF HistoryInv
          <5> QED BY <2>1, <2>5, <4>2, <5>2, <5>3
        <4>3. CASE txn[s].writes > 0
          BY <2>1, <2>5, <4>1, <4>3
        <4> QED BY <1>1, <4>2, <4>3
      <3>3. KnownOf(s)'
        BY <1>0, <3>1, <3>2 DEF KnownOf
      <3> QED BY <1>4, <2>1, <3>3
    <2> QED BY <2>2, <2>4, <2>5
  <1>13. ASSUME NEW s \in Sessions, NEW v, Writes(s, v) PROVE KnownInv'
    <2>1. Others(s) /\ rows' = rows /\ txn'[s].view = v /\ txn'[s].writes = txn[s].writes + 1 /\ Exists(v) /\ v \in Rows
      BY <1>1, <1>13, WritesDoes
    <2>2. txn'[s].writes > 0
      BY <1>1, <2>1
    <2>3. ASSUME level = "causal", NEW g \in Groups PROVE KnownEntry(s, g, obj[s].vers[g])'
      <3>1. StampOf(s)'
        BY <1>0, <1>1, <2>3 DEF StampInv
      <3>2. OwnRows(seen', GroupOf(s), v)
        BY <1>1, <2>1, <3>1 DEF StampOf
      <3>3. group_mapper(GroupOf(s)) \in 0..2
        <4>1. group_mapper(GroupOf(s)) \in {1, 2}
          BY <1>1, TxnFields
        <4> QED BY <4>1
      <3>4. obj'[s].vers = v[group_mapper(GroupOf(s))].vers \/ obj'[s].vers = Zero
        BY <1>1, <1>13, <2>3, WritesObject
      <3>5. CASE obj'[s].vers = Zero
        BY <3>5 DEF KnownEntry, PastIn, Zero
      <3>6. CASE obj'[s].vers = v[group_mapper(GroupOf(s))].vers
        <4> DEFINE i == group_mapper(GroupOf(s))
        <4> HIDE DEF i
        <4>1. PastIn(seen', g, v[i].vers[g]) \/ (g = GroupOf(s) /\ v[i].vers[g] <= v[0].vers[g])
          BY <3>2, <3>3 DEF OwnRows, i
        <4> QED BY <1>1, <2>1, <2>2, <3>6, <4>1 DEF KnownEntry, i
      <3> QED BY <3>4, <3>5, <3>6
    <2>4. ASSUME level = "strong", table = "BlobStore" PROVE obj'[s].vers <= txn'[s].view[0].vers
      <3>1. obj'[s].vers = v[0].vers /\ v[0].vers \in Nat
        BY <1>1, <1>13, <2>4, StrongWrites
      <3> QED BY <2>1, <3>1
    <2>5. KnownOf(s)'
      BY <1>0, <2>2, <2>3, <2>4 DEF KnownOf
    <2> QED BY <1>4, <2>1, <2>5
  <1>14. CASE UNCHANGED vars
    <2>1. \A r \in Sessions : KnownOf(r)'
      BY <1>1, <1>14 DEF KnownOf, KnownEntry, vars
    <2> QED BY <2>1 DEF KnownInv
  <1> QED BY <1>7, <1>8, <1>9, <1>10, <1>11, <1>12, <1>13, <1>14, Kinds

---------------------------------------------------------------------------
(* What is read *)

\* A longer history excuses no less.
LEMMA TrustGrows ==
    ASSUME NEW S, NEW T, S \subseteq T, NEW o, NEW i, NEW v, Trusted(S, o, i, v)
    PROVE  Trusted(T, o, i, v)
  BY PastGrows DEF Trusted

\* Another session's commit: its version is not the object's, or is given late.
LEMMA CommitTrust ==
    ASSUME VersionInv, KnownInv, table = "BlobStore", NEW s \in Sessions, Commit(s), txn[s].writes > 0,
           NEW r \in Sessions, txn[r].writes = 0, ~left[r], NEW i \in DOMAIN rows',
           Exists(rows) => Trusted(seen, obj[r], i, rows)
    PROVE  Trusted(seen', obj[r], i, rows')
  <1> DEFINE v == txn[s].view  k == GroupOf(s)  new == Committed(txn[s].view[0], Late(s))
  <1>1. TypeOK /\ WriterInv /\ StampInv /\ HistoryInv /\ KnownOf(r) /\ NewOf(s) /\ WriterOf(s)
    BY DEF VersionInv, KnownInv, WriterInv
  <1>2. Exists(v) /\ v \in Rows /\ txn[s].start \in Nat /\ k \in Groups
    BY <1>1, TxnFields DEF WriterOf
  <1>3. /\ rows' = v
        /\ Unnumbered(s) => seen' = seen
        /\ ~Unnumbered(s) => seen' = seen \cup {new}
    BY <1>1, <1>2, CommitDoes
  <1>4. txn[s].start >= 1
    BY <1>1, TxnFields DEF WriterOf
  <1>5. level = "strong" \/ level = "causal"
    BY <1>1, Constants DEF TypeOK
  <1>6. CASE Unnumbered(s)
    <2>1. Exists(rows) /\ v[0] = rows[0] /\ \A j \in DOMAIN rows : v[j].data = rows[j].data
      BY <1>6 DEF Unnumbered
    <2>2. DOMAIN rows = DOMAIN v
      <3>1. rows \in Rows
        BY <1>1, <2>1, SeenTypes
      <3> QED BY <1>2, <3>1 DEF Rows, StrongRows, CausalRows, Stamped
    <2>3. v[i].data = rows[i].data
      BY <1>3, <2>1, <2>2
    <2> QED BY <1>3, <1>6, <2>1, <2>3 DEF Trusted
  <1>7. CASE ~Unnumbered(s) /\ level = "causal"
    <2> SUFFICES ASSUME obj[r].vers = v[0].vers PROVE Given(seen', v[0].vers)
      BY <1>3 DEF Trusted
    <2>1. v[0].vers[k] >= txn[s].start /\ v[0].vers[k] \in Nat
      <3>1. ~Same(rows, v)
        BY <1>7 DEF Unnumbered, Same
      <3> QED BY <1>1, <1>2, <1>7, <3>1, CausalTypes, StampedRows DEF NewOf
    <2>2. KnownEntry(r, k, obj[r].vers[k])
      BY <1>1, <1>2, <1>7 DEF KnownOf
    <2>3. PastIn(seen, k, v[0].vers[k])
      BY <2>1, <2>2 DEF KnownEntry
    <2>4. PICK a \in seen : v[0].vers[k] <= a.vers[k]
      BY <1>2, <1>4, <2>1, <2>3 DEF PastIn
    <2>5. Late(s)
      <3>1. a.vers[k] \in Nat
        BY <1>1, <1>2, <1>7, SeenTypes
      <3>2. a.vers[k] >= txn[s].start
        BY <1>2, <2>1, <2>4, <3>1
      <3> QED BY <1>7, <3>2 DEF Late
    <2>6. new.late /\ new.vers = v[0].vers /\ new \in seen'
      BY <1>3, <1>7, <2>5 DEF Committed
    <2> QED BY <2>6 DEF Given
  <1>8. CASE level = "strong"
    <2>1. v[0].vers \in Nat /\ obj[r].vers \in Nat \cup {-1}
      BY <1>1, <1>2, <1>8, Row0, ObjectVersion DEF Versions
    <2>2. obj[r].vers = -1 \/ (Exists(rows) /\ obj[r].vers <= rows[0].vers)
      BY <1>1, <1>8 DEF KnownOf
    <2>3. Exists(rows) => v[0].vers > rows[0].vers /\ rows[0].vers \in Nat
      BY <1>1, <1>8, SeenTypes, Row0 DEF NewOf, Versions
    <2>4. obj[r].vers # v[0].vers
      BY <2>1, <2>2, <2>3
    <2> QED BY <1>3, <2>4 DEF Trusted
  <1> QED BY <1>5, <1>6, <1>7, <1>8

\* What a snapshot and the rows have under one version is the same, or late.
LEMMA SnapshotAgrees ==
    ASSUME VersionInv, table = "BlobStore", NEW s \in Sessions, Exists(txn[s].base), Exists(rows),
           txn[s].base[0].vers = rows[0].vers
    PROVE  txn[s].base[0].data = rows[0].data \/ Given(seen, rows[0].vers)
  <1>1. PICK a \in seen : a.data = txn[s].base[0].data /\ a.vers = txn[s].base[0].vers
    BY DEF VersionInv, HistoryInv, InHistory
  <1>2. PICK b \in seen : b.data = rows[0].data /\ b.vers = rows[0].vers
    BY DEF VersionInv, HistoryInv, InHistory
  <1>3. a.data = b.data \/ a.late \/ b.late
    BY <1>1, <1>2 DEF VersionInv, HistoryInv, VersionIdentifiesData
  <1> QED BY <1>1, <1>2, <1>3 DEF Given

\* Every step keeps trusted versions with their buffers.
LEMMA TrustStep ==
    ASSUME VersionInv, VersionInv', KnownInv, TrustInv, [Next]_vars
    PROVE  TrustInv'
  <1>0. UNCHANGED <<level, table, repl_group>> /\ seen \subseteq seen'
    BY Fixed
  <1> SUFFICES ASSUME table = "BlobStore" PROVE \A r \in Sessions : TrustOf(r)'
    BY <1>0 DEF TrustInv
  <1> DEFINE Row(r) == written_row(GroupOf(r))
  <1>1. /\ TypeOK /\ TypeOK' /\ WriterInv
        /\ \A r \in Sessions : txn[r].writes \in Nat /\ WriterOf(r) /\ TrustOf(r)
    BY TxnFields DEF VersionInv, WriterInv, TrustInv
  <1>2. \A r \in Sessions : Row(r)' = Row(r)
    BY <1>0 DEF written_row, GroupOf
  <1> HIDE DEF Row
  <1>3. ASSUME NEW r \in Sessions,
               ~left'[r] => /\ Exists(txn'[r].view) => Trusted(seen', obj'[r], Row(r), txn'[r].view)
                            /\ txn'[r].writes = 0 /\ Exists(rows') => Trusted(seen', obj'[r], Row(r), rows')
        PROVE  TrustOf(r)'
    BY <1>2, <1>3 DEF TrustOf, Row
  <1>4. ASSUME NEW r \in Sessions, ~left[r]
        PROVE  /\ Exists(txn[r].view) => Trusted(seen', obj[r], Row(r), txn[r].view)
               /\ txn[r].writes = 0 /\ Exists(rows) => Trusted(seen, obj[r], Row(r), rows)
               /\ txn[r].writes = 0 /\ Exists(rows) => Trusted(seen', obj[r], Row(r), rows)
    BY <1>0, <1>1, <1>4, TrustGrows DEF TrustOf, Row
  <1>5. ASSUME NEW r \in Sessions, obj'[r] = obj[r], left'[r] = left[r], rows' = rows, txn'[r] = txn[r]
        PROVE  TrustOf(r)'
    BY <1>3, <1>4, <1>5
  <1>6. ASSUME NEW s \in Sessions, Others(s), rows' = rows, TrustOf(s)' PROVE \A r \in Sessions : TrustOf(r)'
    BY <1>5, <1>6 DEF Others
  <1>7. ~Exists(Idle.view) /\ \A n : ~Exists(Began(n).view) /\ Began(n).writes = 0 /\ Idle.writes = 0
    BY DEF Idle, Began, Exists
  <1>8. ASSUME NEW s \in Sessions, Begin(s) PROVE \A r \in Sessions : TrustOf(r)'
    <2>1. Others(s) /\ rows' = rows /\ obj' = obj /\ left' = left /\ txn'[s] = Began(now') /\ txn[s].st = "none"
      BY <1>1, <1>8, BeginDoes
    <2>2. txn[s].writes = 0
      BY <1>1, <2>1 DEF WriterOf
    <2>3. TrustOf(s)'
      BY <1>3, <1>4, <1>7, <2>1, <2>2
    <2> QED BY <1>6, <2>1, <2>3
  <1>9. ASSUME NEW s \in Sessions, Snapshot(s) PROVE \A r \in Sessions : TrustOf(r)'
    <2>1. /\ Others(s) /\ rows' = rows /\ obj' = obj /\ left' = left /\ txn[s].st = "begun"
          /\ txn'[s].view = rows
      BY <1>1, <1>9, SnapshotDoes
    <2>2. txn[s].writes = 0
      BY <1>1, <2>1 DEF WriterOf
    <2>3. TrustOf(s)'
      BY <1>3, <1>4, <2>1, <2>2
    <2> QED BY <1>6, <2>1, <2>3
  <1>10. ASSUME NEW s \in Sessions, Commit(s) PROVE \A r \in Sessions : TrustOf(r)'
    <2>1. txn[s].writes > 0 => Exists(txn[s].view)
      BY <1>1 DEF WriterOf
    <2>2. Others(s) /\ txn'[s] = Idle /\ obj' = obj /\ left' = left
      BY <1>1, <1>10, <2>1, CommitDoes
    <2>3. CASE ~(txn[s].writes > 0)
      <3>1. rows' = rows /\ txn[s].writes = 0
        BY <1>1, <1>10, <2>1, <2>3, CommitDoes
      <3>2. TrustOf(s)'
        BY <1>3, <1>4, <1>7, <2>2, <3>1
      <3> QED BY <1>6, <2>2, <3>1, <3>2
    <2>4. CASE txn[s].writes > 0
      <3>1. rows' = txn[s].view /\ Exists(rows') /\ rows' \in Rows
        BY <1>1, <1>10, <2>1, <2>4, CommitDoes, TxnFields
      <3>2. TrustOf(s)'
        BY <1>3, <1>4, <1>7, <2>1, <2>2, <2>4, <3>1
      <3>3. ASSUME NEW r \in Sessions \ {s} PROVE TrustOf(r)'
        <4>1. txn[r].writes = 0 /\ txn'[r] = txn[r]
          BY <1>1, <2>2, <2>4 DEF WriterOf, Others
        <4>2. Row(r) \in DOMAIN rows'
          <5>1. group_mapper(GroupOf(r)) \in {1, 2} /\ (level = "strong" \/ level = "causal")
            BY <1>1, TxnFields, Constants DEF TypeOK
          <5>2. level = "strong" => DOMAIN rows' = {0} /\ Row(r) = 0
            BY <3>1 DEF Rows, StrongRows, Row, written_row
          <5>3. level = "causal" => DOMAIN rows' = 0..2 /\ Row(r) = group_mapper(GroupOf(r))
            <6>1. "causal" # "strong"
              OBVIOUS
            <6> QED BY <3>1, <6>1 DEF Rows, CausalRows, Stamped, Row, written_row
          <5> QED BY <5>1, <5>2, <5>3
        <4>3. ~left[r] => Trusted(seen', obj[r], Row(r), rows')
          BY <1>4, <1>10, <2>4, <4>1, <4>2, CommitTrust
        <4> QED BY <1>3, <1>4, <2>2, <4>1, <4>3
      <3> QED BY <3>2, <3>3
    <2> QED BY <2>3, <2>4
  <1>11. ASSUME NEW s \in Sessions, Ends(s) PROVE \A r \in Sessions : TrustOf(r)'
    <2>1. Others(s) /\ rows' = rows /\ txn'[s] = Idle
      BY <1>1, <1>11, EndsDoes
    <2>2. left'[s] \/ (obj'[s] = obj[s] /\ ~left[s] /\ ~(txn[s].writes > 0))
      BY <1>1, <1>11, EndsDoes
    <2>3. TrustOf(s)'
      <3>1. CASE left'[s]
        BY <1>3, <3>1
      <3>2. CASE obj'[s] = obj[s] /\ ~left[s] /\ ~(txn[s].writes > 0)
        <4>1. txn[s].writes = 0
          BY <1>1, <3>2
        <4> QED BY <1>3, <1>4, <1>7, <2>1, <3>2, <4>1
      <3> QED BY <2>2, <3>1, <3>2
    <2> QED BY <1>6, <2>1, <2>3
  <1>12. ASSUME NEW s \in Sessions, Receive(s) PROVE \A r \in Sessions : TrustOf(r)'
    <2>1. Others(s) /\ rows' = rows /\ obj'[s] = received_object(obj[s].size) /\ obj[s].size \in Nat /\ txn' = txn
      BY <1>1, <1>12, ReceiveDoes, TxnFields
    <2>2. \A v \in Rows : obj'[s].vers # v[0].vers
      <3>1. level = "strong" \/ level = "causal"
        BY <1>1, Constants DEF TypeOK
      <3>2. CASE level = "strong"
        <4>1. obj'[s].vers = -1
          BY <1>1, <2>1, <3>2, ReceivedVersion
        <4>2. \A v \in Rows : v[0].vers \in Nat
          BY <3>2, Row0 DEF Versions
        <4> QED BY <4>1, <4>2
      <3>3. CASE level = "causal"
        <4>1. obj'[s].vers[1] = -1
          BY <1>1, <2>1, <3>3, ReceivedVersion DEF Groups
        <4>2. \A v \in Rows : v[0].vers[1] \in Nat
          <5>1. 1 \in Groups
            BY DEF Groups
          <5> QED BY <3>3, <5>1, CausalTypes, StampedRows
        <4> QED BY <4>1, <4>2
      <3> QED BY <3>1, <3>2, <3>3
    <2>3. \A v \in Rows : Trusted(seen', obj'[s], Row(s), v)
      BY <2>2 DEF Trusted
    <2>4. (Exists(rows) => rows \in Rows) /\ (Exists(txn[s].view) => txn[s].view \in Rows)
      BY <1>1, SeenTypes, TxnFields
    <2>5. TrustOf(s)'
      BY <1>3, <2>1, <2>3, <2>4
    <2> QED BY <1>6, <2>1, <2>5
  <1>13. ASSUME NEW s \in Sessions, Get(s) PROVE \A r \in Sessions : TrustOf(r)'
    <2>1. Others(s) /\ rows' = rows /\ seen' = seen /\ txn' = txn /\ Exists(txn[s].view)
      BY <1>1, <1>13, GetDoes
    <2>2. \/ obj'[s] = obj[s] /\ left'[s] = left[s]
          \/ obj'[s].vers = txn[s].view[0].vers /\ obj'[s].buf = txn[s].view[0].data
      BY <1>1, <1>13, GetDoes
    <2>3. TrustOf(s)'
      <3>1. CASE obj'[s] = obj[s] /\ left'[s] = left[s]
        BY <1>5, <2>1, <3>1
      <3>2. CASE obj'[s].vers = txn[s].view[0].vers /\ obj'[s].buf = txn[s].view[0].data
        <4>1. Trusted(seen', obj'[s], Row(s), txn[s].view)
          BY <3>2 DEF Trusted
        <4>2. txn[s].writes = 0 /\ Exists(rows) => Trusted(seen', obj'[s], Row(s), rows)
          <5>1. txn[s].writes = 0 => txn[s].view = txn[s].base
            BY <1>1 DEF WriterOf
          <5> QED BY <2>1, <3>2, <5>1, SnapshotAgrees DEF Trusted
        <4> QED BY <1>3, <2>1, <4>1, <4>2
      <3> QED BY <2>2, <3>1, <3>2
    <2> QED BY <1>6, <2>1, <2>3
  <1>14. ASSUME NEW s \in Sessions, NEW v, Writes(s, v) PROVE \A r \in Sessions : TrustOf(r)'
    <2>1. /\ Others(s) /\ rows' = rows /\ txn'[s].view = v
          /\ txn'[s].writes = txn[s].writes + 1 /\ txn[s].writes \in Nat
      BY <1>1, <1>14, WritesDoes
    <2>2. obj'[s].buf = v[Row(s)].data
      BY <1>1, <1>14, WritesObject DEF Row
    <2>3. Trusted(seen', obj'[s], Row(s), v) /\ txn'[s].writes # 0
      BY <2>1, <2>2 DEF Trusted
    <2>4. TrustOf(s)'
      BY <1>3, <2>1, <2>3
    <2> QED BY <1>6, <2>1, <2>4
  <1>15. CASE UNCHANGED vars
    BY <1>5, <1>15 DEF vars
  <1> QED BY <1>8, <1>9, <1>10, <1>11, <1>12, <1>13, <1>14, <1>15, Kinds

\* What is in a buffer that was loaded or saved in the session's transaction.
BufferOf(s) ==
    settled[s] =>
      /\ Open(s)
      /\ Exists(txn[s].view) =>
           \/ obj[s].buf = txn[s].view[0].data
           \/ obj[s].buf = txn[s].view[written_row(GroupOf(s))].data
           \/ obj[s].size >= 100 /\ (left[s] \/ Given(seen, obj[s].vers))

\* Every step keeps the buffer of a settled object the row's.
LEMMA BufferStep ==
    ASSUME VersionInv, TrustInv, \A r \in Sessions : BufferOf(r), [Next]_vars
    PROVE  \A r \in Sessions : BufferOf(r)'
  <1>0. UNCHANGED <<level, table, repl_group>> /\ seen \subseteq seen'
    BY Fixed
  <1>1. /\ TypeOK /\ WriterInv
        /\ \A r \in Sessions : written_row(GroupOf(r))' = written_row(GroupOf(r))
        /\ \A v : Given(seen, v) => Given(seen', v)
    BY <1>0, PastGrows DEF VersionInv, written_row, GroupOf
  <1>2. ASSUME NEW r \in Sessions, obj'[r] = obj[r], left'[r] = left[r], txn'[r] = txn[r], settled'[r] = settled[r]
        PROVE  BufferOf(r)'
    BY <1>1, <1>2 DEF BufferOf, Open
  <1>3. ASSUME NEW s \in Sessions, Others(s), BufferOf(s)' PROVE \A r \in Sessions : BufferOf(r)'
    BY <1>2, <1>3 DEF Others
  <1>4. ASSUME NEW s \in Sessions, Others(s), ~settled'[s]
        PROVE  \A r \in Sessions : BufferOf(r)'
    <2>1. BufferOf(s)'
      BY <1>4 DEF BufferOf
    <2> QED BY <1>3, <1>4, <2>1
  <1>5. ASSUME NEW s \in Sessions, Begin(s) PROVE \A r \in Sessions : BufferOf(r)'
    <2>1. Others(s) /\ settled' = settled /\ txn[s].st = "none"
      BY <1>1, <1>5, BeginDoes
    <2>2. ~settled[s]
      BY <2>1 DEF BufferOf, Open
    <2> QED BY <1>4, <2>1, <2>2
  <1>6. ASSUME NEW s \in Sessions, Commit(s) PROVE \A r \in Sessions : BufferOf(r)'
    <2>1. txn[s].writes > 0 => Exists(txn[s].view)
      BY <1>1 DEF WriterInv, WriterOf
    <2> QED BY <1>1, <1>4, <1>6, <2>1, CommitDoes
  <1>7. ASSUME NEW s \in Sessions, Ends(s) PROVE \A r \in Sessions : BufferOf(r)'
    BY <1>1, <1>4, <1>7, EndsDoes
  <1>8. ASSUME NEW s \in Sessions, Receive(s) PROVE \A r \in Sessions : BufferOf(r)'
    <2>1. Others(s) /\ settled' = settled /\ txn[s].st = "none"
      BY <1>1, <1>8, ReceiveDoes
    <2>2. ~settled[s]
      BY <2>1 DEF BufferOf, Open
    <2> QED BY <1>4, <2>1, <2>2
  <1>9. ASSUME NEW s \in Sessions, Get(s) PROVE \A r \in Sessions : BufferOf(r)'
    <2>1. Others(s) /\ txn' = txn /\ seen' = seen /\ Exists(txn[s].view) /\ Open(s)'
      BY <1>1, <1>9, GetDoes DEF Open
    <2>2. \/ /\ VersionChecked(obj[s]) /\ obj[s].vers = txn[s].view[0].vers
             /\ obj'[s] = obj[s] /\ left'[s] = left[s]
          \/ obj'[s].buf = txn[s].view[0].data
      BY <1>1, <1>9, GetDoes
    <2>3. BufferOf(s)'
      <3>1. CASE obj'[s].buf = txn[s].view[0].data
        BY <2>1, <3>1 DEF BufferOf
      <3>2. CASE /\ VersionChecked(obj[s]) /\ obj[s].vers = txn[s].view[0].vers
                 /\ obj'[s] = obj[s] /\ left'[s] = left[s]
        <4>1. obj[s].size >= 100
          BY <3>2 DEF VersionChecked, max_ver_check_size
        <4>2. table = "BlobStore"
          BY <1>1, <4>1, Constants DEF TypeOK
        <4>3. left[s] \/ Trusted(seen, obj[s], written_row(GroupOf(s)), txn[s].view)
          BY <2>1, <4>2 DEF TrustInv, TrustOf
        <4> QED BY <1>1, <2>1, <3>2, <4>1, <4>3 DEF BufferOf, Trusted
      <3> QED BY <2>2, <3>1, <3>2
    <2> QED BY <1>3, <2>1, <2>3
  <1>10. ASSUME NEW s \in Sessions, Increment(s) PROVE \A r \in Sessions : BufferOf(r)'
    BY <1>1, <1>4, <1>10, IncrementDoes
  <1>11. ASSUME NEW s \in Sessions, Snapshot(s) PROVE \A r \in Sessions : BufferOf(r)'
    <2>1. Others(s) /\ txn[s].st = "begun" /\ settled' = settled
      BY <1>1, <1>11, SnapshotDoes
    <2>2. ~settled[s]
      BY <2>1 DEF BufferOf, Open
    <2> QED BY <1>4, <2>1, <2>2
  <1>12. ASSUME NEW s \in Sessions, NEW v, Writes(s, v), ~Increment(s) PROVE \A r \in Sessions : BufferOf(r)'
    <2>1. Others(s) /\ txn'[s].view = v /\ txn'[s].st = "open"
      BY <1>1, <1>12, WritesDoes
    <2>2. obj'[s].buf = v[written_row(GroupOf(s))].data
      BY <1>1, <1>12, WritesObject
    <2>3. BufferOf(s)'
      BY <1>1, <2>1, <2>2 DEF BufferOf, Open
    <2> QED BY <1>3, <2>1, <2>3
  <1>13. CASE UNCHANGED vars
    BY <1>2, <1>13 DEF vars
  <1> QED BY <1>5, <1>6, <1>7, <1>8, <1>9, <1>10, <1>11, <1>12, <1>13, Kinds

ReadInv == VersionInv /\ KnownInv /\ TrustInv /\ \A s \in Sessions : BufferOf(s)

\* Objects hold nothing before the first load.
LEMMA ReadInit == Init => ReadInv
  <1> SUFFICES ASSUME Init PROVE ReadInv
    OBVIOUS
  <1>1. VersionInv
    BY VersionInit DEF VersionInv
  <1>2. \A s \in Sessions : txn[s] = Idle /\ obj[s] = existing_object(table) /\ ~settled[s]
    BY DEF Init
  <1>3. \A s \in Sessions : BufferOf(s)
    BY <1>2 DEF BufferOf
  <1>4. existing_object(table).vers = Unread(level)
    BY DEF existing_object
  <1>5. level = "strong" \/ level = "causal"
    BY Constants DEF Init
  <1>6. KnownInv
    <2>1. /\ level = "causal" => \A s \in Sessions, g \in Groups : obj[s].vers[g] = -1
          /\ level = "strong" => \A s \in Sessions : obj[s].vers = -1
      BY <1>2, <1>4 DEF Unread
    <2> QED BY <2>1 DEF KnownInv, KnownOf, KnownEntry
  <1>7. TrustInv
    <2>1. ~Exists(Idle.view)
      BY DEF Idle, Exists
    <2>2. Exists(rows) => Unread(level) # rows[0].vers
      <3>1. Exists(rows) => rows \in Rows
        BY <1>1, SeenTypes DEF VersionInv
      <3>2. CASE level = "strong"
        BY <3>1, <3>2, Row0 DEF Unread, Versions
      <3>3. CASE level = "causal"
        <4>1. 1 \in Groups /\ Unread(level)[1] = -1
          BY <3>3 DEF Unread, Groups
        <4>2. Exists(rows) => rows[0].vers[1] \in Nat
          BY <3>1, <3>3, <4>1, CausalTypes, StampedRows
        <4> QED BY <4>1, <4>2
      <3> QED BY <1>5, <3>2, <3>3
    <2> QED BY <1>2, <1>4, <2>1, <2>2 DEF TrustInv, TrustOf, Trusted
  <1> QED BY <1>1, <1>3, <1>6, <1>7 DEF ReadInv

\* Versions, trust and buffers keep each other.
LEMMA ReadStep == ReadInv /\ [Next]_vars => ReadInv'
  <1> SUFFICES ASSUME ReadInv, [Next]_vars PROVE ReadInv'
    OBVIOUS
  <1>1. VersionInv /\ KnownInv /\ TrustInv /\ \A s \in Sessions : BufferOf(s)
    BY DEF ReadInv
  <1>2. VersionInv'
    BY <1>1, VersionStep
  <1>3. KnownInv'
    BY <1>1, <1>2, KnownStep
  <1>4. TrustInv'
    BY <1>1, <1>2, TrustStep
  <1>5. \A s \in Sessions : BufferOf(s)'
    BY <1>1, BufferStep
  <1> QED BY <1>2, <1>3, <1>4, <1>5 DEF ReadInv

\* What get returns is the row, with the three exceptions that BufferIsRow names,
\* for any sessions of any groups: an object's version was committed or is its
\* transaction's own (KnownInv), so a commit that meets it is late, and a version
\* that load finds agreeing came with the buffer (TrustInv).
THEOREM ReadsAreTheRow == Spec => []BufferIsRow
  <1>1. ReadInv => BufferIsRow
    <2>1. \A v : Given(seen, v) <=> GivenLate(v)
      BY DEF Given, GivenLate
    <2> QED BY <2>1 DEF ReadInv, BufferOf, BufferIsRow
  <1> QED BY <1>1, ReadInit, ReadStep, PTL DEF Spec

============================================================================
