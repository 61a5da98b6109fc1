----------------------------- MODULE SqlObject -----------------------------
(***************************************************************************)
(* The objects of an SQL store: one row, the SQL commands on it with the   *)
(* triggers of the causal store, and in every session a GSQLObject that    *)
(* keeps a buffer with the version it was read at.  A load of an object of *)
(* at least 100 bytes compares versions first and gives the buffer back    *)
(* when they agree.  Objects outlive the SQL transaction: a phase that is  *)
(* tried again, and a handle that is used again, meet the buffer that the  *)
(* failed transaction left.                                                *)
(***************************************************************************)
EXTENDS Integers

CONSTANTS Sessions,     \* connections to the store, each with one object
          Levels,       \* subset of {"strong", "causal"}
          Tables,       \* subset of {"BlobStore", "IntStore"}
          Values,       \* what a row may hold: 1..n
          SizeOf(_),    \* bytes of a value in a blob
          Groupings,    \* which CAUSAL_GROUPs the sessions' relays may be built with
          MaxBegun,     \* bound: transactions begun
          MaxWrites     \* bound: writes of a transaction
ASSUME SqlAssumption ==
    /\ Levels \subseteq {"strong", "causal"} /\ Tables \subseteq {"BlobStore", "IntStore"}
    /\ MaxBegun \in Nat /\ MaxWrites \in Nat /\ Values \subseteq Nat \ {0}
    /\ \A d \in Values : SizeOf(d) \in Nat \ {0}
    /\ Groupings \subseteq [Sessions -> 1..4]

Groups == 1..4                     \* NUM_CAUSAL_GROUPS
max_ver_check_size_low == 50
max_ver_check_size == 100
MinBuffer == 2048                  \* what a blob's buffer is allocated with at least
NoBuf == 0                         \* buf1 = nullptr
Garbage == -1                      \* a buffer that nothing was read into yet
Huge == 2147483647                 \* size -1 in a size_t: above every size
Greater(a, b) == IF a > b THEN a ELSE b
Merge(u, v) == [g \in Groups |-> Greater(u[g], v[g])]
Zero == [g \in Groups |-> 0]
Unread(l) == IF l = "strong" THEN -1 ELSE [g \in Groups |-> -1]

VARIABLES level, table,   \* of the store and of the object, fixed in a behaviour
          repl_group,     \* per session: SQLConnection::repl_group, fixed as well
          rows,           \* committed rows of the object, by index; <<>> when there is none
          now,            \* the time, in the numbering trigger's unit of 10us
          begun,          \* transactions begun, for the bound
          txn,            \* per session: [st, start, base, view, writes]
          obj,            \* per session: GSQLObject::Internals
          clock,          \* per session: SQLStore_impl::clock
          settled,        \* per session: the object was loaded or saved, and not incremented, in this transaction
          left,           \* history, per session: the buffer is what a failed transaction left
          seen            \* history: what was committed to row 0, and whether late
vars == <<level, table, repl_group, rows, now, begun, txn, obj, clock, settled, left, seen>>

Exists(v) == v # <<>>
bytes_size(d) == IF table = "IntStore" THEN 4 ELSE SizeOf(d)
GroupOf(s) == repl_group[s]
group_mapper(k) == (k - 1) \div 2 + 1
---------------------------------------------------------------------------
(* SQL commands: the rows after the command; the version it returns is     *)
(* that of the row it wrote.                                               *)
written_row(k) == IF level = "strong" THEN 0 ELSE group_mapper(k)

update_data_s_unversioned(v, d) == [v EXCEPT ![0].data = d]
update_data_s(v, d) == [v EXCEPT ![0] = [data |-> d, vers |-> @.vers + 1]]

\* The numbering trigger: when the data of the group's row change, it stamps the
\* row and copies it to row 0 under the merge of all versions.
numbering(v, g, new) ==
    [v EXCEPT ![g] = new,
              ![0] = [data |-> new.data, vers |-> Merge(Merge(v[1].vers, v[2].vers), new.vers)]]

\* The trigger stamps another group's column.
update_data_c_column(v, k, ends, time, d) ==
    LET g == group_mapper(k)
        set == [h \in Groups |-> IF h = k THEN v[g].vers[h] ELSE ends[h]]
    IN  IF v[g].data = d
        THEN [v EXCEPT ![g].vers = set]
        ELSE numbering(v, g, [data |-> d, vers |-> [set EXCEPT ![(k % 4) + 1] = time]])

update_data_c(v, k, ends, time, d) ==
    LET g == group_mapper(k)
        set == [h \in Groups |-> IF h = k THEN v[g].vers[h] ELSE ends[h]]
    IN  IF v[g].data = d
        THEN [v EXCEPT ![g].vers = set]
        ELSE numbering(v, g, [data |-> d, vers |-> [set EXCEPT ![k] = time]])

update_data(v, k, ends, time, d) ==
    IF level = "strong" THEN update_data_s(v, d) ELSE update_data_c(v, k, ends, time, d)

increment_s(v) == [v EXCEPT ![0].data = @ + 1]

increment_c(v, k, ends, time) ==
    update_data_c(v, k, ends, time, v[group_mapper(k)].data + 1)

increment_cmd(v, k, ends, time) ==
    IF level = "strong" THEN increment_s(v) ELSE increment_c(v, k, ends, time)

initialize_with_id_s(d) == [i \in {0} |-> [data |-> d, vers |-> 0]]

\* Three empty rows, then an update of the group's row.
initialize_with_id_c(k, ends, time, d) ==
    update_data_c([i \in 0..2 |-> [data |-> NoBuf, vers |-> Zero]], k, ends, time, d)

initialize_with_id(k, ends, time, d) ==
    IF level = "strong" THEN initialize_with_id_s(d) ELSE initialize_with_id_c(k, ends, time, d)
---------------------------------------------------------------------------
(* The transaction of a session, as the database sees it. *)
Idle == [st |-> "none", start |-> 0, base |-> <<>>, view |-> <<>>, writes |-> 0]
Began(time) == [st |-> "begun", start |-> time, base |-> <<>>, view |-> <<>>, writes |-> 0]

\* existingObject: only an integer's size is known before the first load.
existing_object(t) ==
    [size |-> IF t = "IntStore" THEN 4 ELSE Huge, cap |-> IF t = "IntStore" THEN 4 ELSE 0,
     buf |-> IF t = "IntStore" THEN Garbage ELSE NoBuf, vers |-> Unread(level),
     fault |-> "none"]

\* The buffer is allocated for the size alone.
received_object_tight(size) ==
    [size |-> size, cap |-> IF size = Huge THEN 0 ELSE size,
     buf |-> IF size = Huge THEN NoBuf ELSE Garbage, vers |-> Unread(level),
     fault |-> "none"]

\* An object received in a request: the sender's size, a new buffer, no version.
received_object(size) ==
    [size |-> size, cap |-> IF size = Huge THEN 0 ELSE Greater(MinBuffer, size),
     buf |-> IF size = Huge THEN NoBuf ELSE Garbage, vers |-> Unread(level),
     fault |-> "none"]

\* resize_buffer keeps a buffer it has and asserts that it suffices; a build
\* without assertions goes on.  A debug build then clears the rest of 2048 bytes.
\* fault is what went wrong first with a buffer: the assertion, data or zeros
\* written behind it.
resize_buffer(o, newsize) ==
    [o EXCEPT !.size = newsize,
              !.cap = IF o.buf = NoBuf THEN Greater(MinBuffer, newsize) ELSE @,
              !.fault = IF @ # "none" \/ o.buf = NoBuf THEN @
                        ELSE IF newsize > o.size /\ newsize > MinBuffer THEN "assertion"
                        ELSE IF newsize > o.cap THEN "data"
                        ELSE IF MinBuffer > o.cap THEN "clear" ELSE "none"]

\* A row 0 in the history.
Committed(row, late) == [data |-> row.data, vers |-> row.vers, late |-> late]

Init ==
    /\ level \in Levels /\ table \in Tables /\ repl_group \in Groupings
    /\ now = 1 /\ begun = 0
    /\ rows \in {<<>>} \union {initialize_with_id(1, Zero, 1, d) : d \in Values}
    /\ txn = [s \in Sessions |-> Idle]
    /\ obj = [s \in Sessions |-> existing_object(table)]
    /\ clock = [s \in Sessions |-> Zero]
    /\ settled = [s \in Sessions |-> FALSE]
    /\ left = [s \in Sessions |-> FALSE]
    /\ seen = IF Exists(rows) THEN {Committed(rows[0], FALSE)} ELSE {}

\* store_context: the handle's first use in a phase begins the transaction, and
\* fixes its current_timestamp.  Several may begin in one unit of time.
Begin(s) ==
    /\ txn[s].st = "none" /\ begun < MaxBegun
    /\ begun' = begun + 1
    /\ now' \in {now, now + 1}
    /\ level = "strong" => now' = now   \* only the causal store's triggers look at it
    /\ txn' = [txn EXCEPT ![s] = Began(now')]
    /\ UNCHANGED <<level, table, repl_group, rows, obj, clock, settled, left, seen>>

\* The database takes the snapshot at the transaction's first statement, a
\* message later: what it sees may be stamped later than the transaction is.
Snapshot(s) ==
    /\ txn[s].st = "begun"
    /\ txn' = [txn EXCEPT ![s].st = "open", ![s].base = rows, ![s].view = rows]
    /\ UNCHANGED <<level, table, repl_group, rows, now, begun, obj, clock, settled, left, seen>>

CanWrite(s) == /\ \A r \in Sessions \ {s} : txn[r].writes = 0
               /\ txn[s].base = rows /\ txn[s].writes < MaxWrites

Write(s, v) == txn' = [txn EXCEPT ![s].view = v, ![s].writes = @ + 1]

\* The destructor of a transaction that was not committed.
RolledBack(s, leaves) ==
    /\ txn' = [txn EXCEPT ![s] = Idle]
    /\ settled' = [settled EXCEPT ![s] = FALSE]
    /\ left' = [left EXCEPT ![s] = leaves]

VersionChecked(o) == o.size >= max_ver_check_size

select_version(v) == v[0].vers
select_version_data(v) == v[0]

\* select_version first, for objects worth it.
check_version(s) ==
    IF ~ VersionChecked(obj[s]) THEN [same |-> FALSE, o |-> obj[s], clk |-> clock[s]]
    ELSE LET v == select_version(txn[s].view) IN
         [same |-> obj[s].vers = v,
          o |-> [obj[s] EXCEPT !.vers = v],
          clk |-> IF level = "causal" /\ obj[s].vers # v THEN Merge(clock[s], v) ELSE clock[s]]

\* select_version_data, and the row's bytes into the buffer.
read_row(o, row) ==
    LET sized == IF table = "BlobStore" THEN resize_buffer(o, bytes_size(row.data)) ELSE o
    IN  [sized EXCEPT !.vers = row.vers, !.buf = row.data]

load(s) ==
    LET c == check_version(s)
    IN  /\ obj' = [obj EXCEPT ![s] = IF c.same THEN c.o ELSE read_row(c.o, select_version_data(txn[s].view))]
        /\ clock' = [clock EXCEPT ![s] = c.clk]

Get(s) ==
    /\ txn[s].st = "open" /\ Exists(txn[s].view)
    /\ load(s)
    /\ settled' = [settled EXCEPT ![s] = TRUE]
    /\ left' = [left EXCEPT ![s] = @ /\ check_version(s).same]
    /\ UNCHANGED <<level, table, repl_group, rows, now, begun, txn, seen>>

\* The second of load's statements fails: the data is missing for a version
\* that was already taken over.  The exception ends the transaction.
FailGet(s) ==
    LET c == check_version(s) IN
    /\ txn[s].st = "open" /\ Exists(txn[s].view)
    /\ VersionChecked(obj[s]) /\ ~ c.same
    /\ obj' = [obj EXCEPT ![s] = c.o]
    /\ clock' = [clock EXCEPT ![s] = c.clk]
    /\ RolledBack(s, TRUE)
    /\ UNCHANGED <<level, table, repl_group, rows, now, begun, seen>>

\* SQLObject::put up to gso.save: the buffer has the new value.
FillBuffer(s, d) == [resize_buffer(obj[s], bytes_size(d)) EXCEPT !.buf = d]

save(s, d) ==
    LET v == update_data(txn[s].view, GroupOf(s), clock[s], txn[s].start, d)
    IN  /\ Write(s, v)
        /\ obj' = [obj EXCEPT ![s] = [FillBuffer(s, d) EXCEPT !.vers = v[written_row(GroupOf(s))].vers]]

Put(s, d) ==
    /\ txn[s].st = "open" /\ Exists(txn[s].view) /\ CanWrite(s)
    /\ save(s, d)
    /\ settled' = [settled EXCEPT ![s] = TRUE]
    /\ left' = [left EXCEPT ![s] = FALSE]
    /\ UNCHANGED <<level, table, repl_group, rows, now, begun, clock, seen>>

\* The update fails (a conflict, a deadlock, a dependency cycle): what put
\* did to the buffer stays.  The exception ends the transaction.
FailPut(s, d) ==
    /\ txn[s].st = "open" /\ Exists(txn[s].view)
    /\ obj' = [obj EXCEPT ![s] = FillBuffer(s, d)]
    /\ RolledBack(s, TRUE)
    /\ UNCHANGED <<level, table, repl_group, rows, now, begun, clock, seen>>

Increment(s) ==
    /\ table = "IntStore"
    /\ txn[s].st = "open" /\ Exists(txn[s].view) /\ CanWrite(s)
    /\ txn[s].view[written_row(GroupOf(s))].data + 1 \in Values
    /\ LET v == increment_cmd(txn[s].view, GroupOf(s), clock[s], txn[s].start)
       IN  /\ Write(s, v)
           /\ obj' = [obj EXCEPT ![s].vers = v[written_row(GroupOf(s))].vers]
    /\ settled' = [settled EXCEPT ![s] = FALSE]
    /\ UNCHANGED <<level, table, repl_group, rows, now, begun, clock, left, seen>>

\* newObject: insert, and an object that knows value and first version.
NewObject(s, d) ==
    /\ txn[s].st = "open" /\ ~ Exists(txn[s].view) /\ CanWrite(s)
    /\ Write(s, initialize_with_id(GroupOf(s), clock[s], txn[s].start, d))
    /\ obj' = [obj EXCEPT ![s] = [size |-> bytes_size(d), cap |-> Greater(MinBuffer, bytes_size(d)), buf |-> d,
                                  vers |-> IF level = "strong" THEN 0 ELSE Zero,
                                  fault |-> "none"]]
    /\ settled' = [settled EXCEPT ![s] = TRUE]
    /\ left' = [left EXCEPT ![s] = FALSE]
    /\ UNCHANGED <<level, table, repl_group, rows, now, begun, clock, seen>>

\* A transaction of the session's group has committed a stamp that is not before
\* this one's.
Late(s) == level = "causal" /\ \E a \in seen : a.vers[GroupOf(s)] >= txn[s].start

\* Row 0 as committed.  A transaction that the trigger did not number has
\* changed no data and is not in the history.
History(s) ==
    LET v == txn[s].view
        Same == Exists(rows) /\ v[0] = rows[0] /\ \A i \in DOMAIN rows : v[i].data = rows[i].data
    IN  IF Same THEN seen ELSE seen \union {Committed(v[0], Late(s))}

Commit(s) ==
    /\ txn[s].st \in {"begun", "open"}
    /\ IF txn[s].writes > 0
       THEN rows' = txn[s].view /\ seen' = History(s)
       ELSE UNCHANGED <<rows, seen>>
    /\ txn' = [txn EXCEPT ![s] = Idle]
    /\ settled' = [settled EXCEPT ![s] = FALSE]
    /\ UNCHANGED <<level, table, repl_group, now, begun, obj, clock, left>>

\* The phase fails elsewhere, a statement fails before it changed anything here,
\* or the database refuses the commit.
Abort(s) ==
    /\ txn[s].st # "none"
    /\ RolledBack(s, left[s] \/ txn[s].writes > 0)
    /\ UNCHANGED <<level, table, repl_group, rows, now, begun, obj, clock, seen>>

\* The next request brings the handle again, and with it a new object.
Receive(s) ==
    /\ txn[s].st = "none"
    /\ obj' = [obj EXCEPT ![s] = received_object(obj[s].size)]
    /\ left' = [left EXCEPT ![s] = FALSE]
    /\ UNCHANGED <<level, table, repl_group, rows, now, begun, txn, clock, settled, seen>>

Done == begun = MaxBegun /\ (\A s \in Sessions : txn[s].st = "none") /\ UNCHANGED vars

Next == \/ \E s \in Sessions :
              \/ Begin(s) \/ Snapshot(s) \/ Get(s) \/ FailGet(s) \/ Increment(s)
              \/ Commit(s) \/ Abort(s) \/ Receive(s)
              \/ \E d \in Values : Put(s, d) \/ FailPut(s, d) \/ NewObject(s, d)
        \/ Done

Spec == Init /\ [][Next]_vars
---------------------------------------------------------------------------
Open(s) == txn[s].st = "open"
GivenLate(v) == \E a \in seen : a.late /\ a.vers = v

\* What get returns is the row as this transaction sees it, its own writes
\* included, whatever became of the transactions that filled the buffer before.
\* GSQLObject::load and save break this in three cases only: the session put
\* what its group's row held already, which row 0 does not get; or the object is
\* of at least 100 bytes, its version agrees, and its buffer was left by a
\* transaction that failed or was rolled back, or its version was given out
\* again by a late transaction.
BufferIsRow ==
    \A s \in Sessions : Open(s) /\ settled[s] /\ Exists(txn[s].view)
       => \/ obj[s].buf = txn[s].view[0].data
          \/ obj[s].buf = txn[s].view[written_row(GroupOf(s))].data
          \/ obj[s].size >= 100 /\ (left[s] \/ GivenLate(obj[s].vers))

\* What load's comparison relies on: the store gives one version to two different
\* contents of a blob only when a transaction commits late, which begins before
\* another one of its group (or in the same 10us) and takes its snapshot after
\* that one's commit.  A strong store never does.
VersionIdentifiesData ==
    table = "BlobStore" =>
       \A a, b \in seen : a.vers = b.vers => a.data = b.data \/ a.late \/ b.late

\* Where the assertion of resize_buffer holds, nothing is written behind the
\* buffer, whatever sizes an object has had: neither its data nor the zeros of
\* the debug build.  The one exception are those of an integer, whose first
\* buffer has 4 bytes, and of which put clears 2048.
BufferFits ==
    \A s \in Sessions :
       \/ obj[s].fault \in {"none", "assertion"}
       \/ table = "IntStore" /\ obj[s].fault = "clear"

Past(g, n) == n = 0 \/ \E a \in seen : n <= a.vers[g]

\* The causal store stamps no row, and no store clock hands on to the rows that
\* a session writes, with a time that was not committed: an entry of another
\* group comes from a committed row 0, although load takes in rows of the
\* session's own transaction, which may be rolled back.
ClocksAreCommitted ==
    level = "causal" =>
       /\ Exists(rows) => \A i \in 0..2, g \in Groups : Past(g, rows[i].vers[g])
       /\ \A s \in Sessions : \A g \in Groups \ {GroupOf(s)} : Past(g, clock[s][g])
=============================================================================
