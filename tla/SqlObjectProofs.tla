-------------------------- MODULE SqlObjectProofs --------------------------
(***************************************************************************)
(* Proofs about SqlObject, for any sessions, values, groups and bounds:     *)
(* what each step does, and that buffers suffice where resize_buffer's      *)
(* assertion holds.                                                         *)
(***************************************************************************)
EXTENDS SqlObject, TLAPS

StrongRows == [{0} -> [data : Values, vers : Nat]]
Stamped == [0..2 -> [data : Values \cup {NoBuf}, vers : [Groups -> Nat]]]
CausalRows == {v \in Stamped : v[0].data \in Values}
Versions == IF level = "strong" THEN Nat ELSE [Groups -> Nat]
Known == IF level = "strong" THEN Nat \cup {-1} ELSE [Groups -> Nat \cup {-1}]
Rows == IF level = "strong" THEN StrongRows ELSE CausalRows

Transactions == [st : {"none", "begun", "open"}, start : Nat, base : Rows \cup {<<>>},
                 view : Rows \cup {<<>>}, writes : Nat]
Faults == {"none", "assertion", "data", "clear"}
Objects == [size : Nat, cap : Nat, buf : Values \cup {NoBuf, Garbage}, vers : Known, fault : Faults]
Histories == [data : Values, vers : Versions, late : BOOLEAN]

\* Every variable has its type: rows and versions that of the store's level.
TypeOK ==
    /\ level \in Levels /\ table \in Tables /\ repl_group \in Groupings
    /\ rows \in Rows \cup {<<>>}
    /\ now \in Nat /\ begun \in Nat
    /\ txn \in [Sessions -> Transactions]
    /\ obj \in [Sessions -> Objects]
    /\ table = "IntStore" => \A s \in Sessions : obj[s].size = 4 /\ obj[s].buf # NoBuf
    /\ clock \in [Sessions -> [Groups -> Nat]]
    /\ settled \in [Sessions -> BOOLEAN]
    /\ left \in [Sessions -> BOOLEAN]
    /\ seen \in SUBSET Histories

\* While no assertion has failed, a buffer has room for what is in it and, in a
\* blob's case, for as much as a buffer is allocated with at least.
RoomOf(s) ==
    /\ obj[s].fault \in (IF table = "IntStore" THEN {"none", "clear"} ELSE {"none", "assertion"})
    /\ table = "IntStore" => obj[s].cap >= 4
    /\ table = "BlobStore" /\ obj[s].fault = "none" /\ obj[s].buf # NoBuf =>
         obj[s].cap >= obj[s].size /\ obj[s].cap >= MinBuffer
RoomInv == \A s \in Sessions : RoomOf(s)

---------------------------------------------------------------------------
(* The SQL commands *)

\* The constants are numbers and sets of numbers.
LEMMA Constants ==
    /\ \A d \in Values : d \in Nat /\ d # NoBuf /\ SizeOf(d) \in Nat \ {0}
    /\ \A f \in Groupings, s \in Sessions : f[s] \in Groups /\ group_mapper(f[s]) \in {1, 2}
    /\ \A l \in Levels : l = "strong" \/ l = "causal"
    /\ \A t \in Tables : t = "BlobStore" \/ t = "IntStore"
    /\ MaxBegun \in Nat
  BY SqlAssumption DEF Groups, group_mapper, NoBuf

\* Rows that have the type are there.
LEMMA RowsExist ==
    ASSUME NEW v \in Rows
    PROVE  Exists(v)
  <1>1. DOMAIN v = {0} \/ DOMAIN v = 0..2
    BY DEF Rows, StrongRows, CausalRows, Stamped
  <1>2. 0 \in DOMAIN v
    BY <1>1
  <1>3. DOMAIN << >> = {}
    OBVIOUS
  <1> QED BY <1>2, <1>3 DEF Exists

\* The merge of two versions is a version.
LEMMA MergeType ==
    ASSUME NEW u \in [Groups -> Nat], NEW v \in [Groups -> Nat]
    PROVE  /\ Merge(u, v) \in [Groups -> Nat]
           /\ \A h \in Groups : Merge(u, v)[h] >= u[h] /\ Merge(u, v)[h] >= v[h]
           /\ \A h \in Groups : Merge(u, v)[h] = u[h] \/ Merge(u, v)[h] = v[h]
  BY DEF Merge, Greater

\* The strong commands on a row that is there.
LEMMA StrongCommands ==
    ASSUME NEW v \in StrongRows, NEW d \in Values
    PROVE  /\ update_data_s(v, d) \in StrongRows
           /\ update_data_s(v, d)[0].data = d
           /\ update_data_s(v, d)[0].vers = v[0].vers + 1
           /\ v[0].data + 1 \in Values => increment_s(v) \in StrongRows
  BY DEF StrongRows, update_data_s, increment_s

\* The rows of a new object in a strong store.
LEMMA StrongInsert ==
    ASSUME NEW d \in Values
    PROVE  /\ initialize_with_id_s(d) \in StrongRows
           /\ initialize_with_id_s(d)[0] = [data |-> d, vers |-> 0]
           /\ initialize_with_id_s(d)[0].vers = 0
  BY DEF StrongRows, initialize_with_id_s

\* What an update does to the rows v of a causal store.
Updated(v, k, g, ends, time, d, w) ==
    /\ w \in Stamped
    /\ w[g].data = d
    /\ \A i \in {1, 2} \ {g} : w[i] = v[i]
    /\ \A h \in Groups \ {k} : w[g].vers[h] = ends[h]
    /\ v[g].data = d => w[0] = v[0] /\ w[g].vers[k] = v[g].vers[k]
    /\ v[g].data # d => /\ w[0].data = d
                        /\ w[g].vers[k] = time
                        /\ w[0].vers = Merge(Merge(v[1].vers, v[2].vers), w[g].vers)

\* The rows after an update in a causal store.
LEMMA CausalUpdate ==
    ASSUME NEW v \in Stamped, NEW k \in Groups,
           NEW ends \in [Groups -> Nat], NEW time \in Nat, NEW d \in Values,
           NEW g \in {1, 2}, g = group_mapper(k), NEW w, w = update_data_c(v, k, ends, time, d)
    PROVE  Updated(v, k, g, ends, time, d, w)
  <1> DEFINE set == [h \in Groups |-> IF h = k THEN v[g].vers[h] ELSE ends[h]]
             new == [data |-> d, vers |-> [set EXCEPT ![k] = time]]
             both == Merge(Merge(v[1].vers, v[2].vers), new.vers)
  <1>1. \A i \in 0..2 : v[i].vers \in [Groups -> Nat] /\ v[i].data \in Values \cup {NoBuf}
    BY DEF Stamped
  <1>2. set \in [Groups -> Nat] /\ set[k] = v[g].vers[k] /\ \A h \in Groups \ {k} : set[h] = ends[h]
    BY <1>1
  <1>3. /\ new.vers \in [Groups -> Nat] /\ new.vers[k] = time /\ new.data = d
        /\ \A h \in Groups \ {k} : new.vers[h] = ends[h]
    BY <1>2
  <1>4. both \in [Groups -> Nat]
    <2> DEFINE a == v[1].vers  b == v[2].vers  c == new.vers
    <2>1. a \in [Groups -> Nat] /\ b \in [Groups -> Nat] /\ c \in [Groups -> Nat]
      BY <1>1, <1>3
    <2> HIDE DEF a, b, c, new
    <2> DEFINE m == Merge(a, b)
    <2>2. m \in [Groups -> Nat]
      BY <2>1, MergeType
    <2> HIDE DEF m
    <2>3. Merge(m, c) \in [Groups -> Nat]
      BY <2>1, <2>2, MergeType
    <2> QED BY <2>3 DEF m, a, b, c
  <1>6. w = IF v[g].data = d THEN [v EXCEPT ![g].vers = set]
            ELSE [v EXCEPT ![g] = new, ![0] = [data |-> d, vers |-> both]]
    BY <1>3 DEF update_data_c, numbering
  <1>b. both = Merge(Merge(v[1].vers, v[2].vers), new.vers)
    OBVIOUS
  <1> HIDE DEF set, new, both
  <1>7. CASE v[g].data = d
    <2>1. w = [v EXCEPT ![g] = [v[g] EXCEPT !.vers = set]]
      BY <1>6, <1>7
    <2>2. [v[g] EXCEPT !.vers = set] \in [data : Values \cup {NoBuf}, vers : [Groups -> Nat]]
      BY <1>2 DEF Stamped
    <2>3. w \in Stamped
      BY <2>1, <2>2 DEF Stamped
    <2>4. /\ w[0] = v[0] /\ w[g].data = v[g].data /\ w[g].vers = set
          /\ \A i \in {1, 2} \ {g} : w[i] = v[i]
      BY <2>1 DEF Stamped
    <2> QED BY <1>2, <1>7, <2>3, <2>4 DEF Updated
  <1>8. CASE v[g].data # d
    <2>1. w = [v EXCEPT ![g] = new, ![0] = [data |-> d, vers |-> both]]
      BY <1>6, <1>8
    <2>2. /\ new \in [data : Values \cup {NoBuf}, vers : [Groups -> Nat]]
          /\ [data |-> d, vers |-> both] \in [data : Values \cup {NoBuf}, vers : [Groups -> Nat]]
      BY <1>3, <1>4 DEF new
    <2>3. w \in Stamped
      BY <2>1, <2>2 DEF Stamped
    <2>4. /\ w[g] = new /\ w[0] = [data |-> d, vers |-> both]
          /\ \A i \in {1, 2} \ {g} : w[i] = v[i]
      BY <2>1 DEF Stamped
    <2>5. w[0].data = d /\ w[0].vers = both /\ w[g].vers = new.vers
      BY <2>4
    <2> QED BY <1>3, <1>b, <1>8, <2>3, <2>4, <2>5 DEF Updated
  <1> QED BY <1>7, <1>8

EmptyRows == [i \in 0..2 |-> [data |-> NoBuf, vers |-> Zero]]

\* The rows w of a new object.
Inserted(k, g, ends, time, d, w) ==
    /\ w \in Stamped
    /\ w[0].data = d /\ w[g].data = d
    /\ \A i \in {1, 2} \ {g} : w[i].vers = Zero
    /\ w[g].vers[k] = time /\ \A h \in Groups \ {k} : w[g].vers[h] = ends[h]
    /\ w[0].vers = Merge(Merge(Zero, Zero), w[g].vers)

\* The rows of a new object in a causal store.
LEMMA CausalInsert ==
    ASSUME NEW k \in Groups,
           NEW ends \in [Groups -> Nat], NEW time \in Nat, NEW d \in Values,
           NEW g \in {1, 2}, g = group_mapper(k), NEW w, w = initialize_with_id_c(k, ends, time, d)
    PROVE  Inserted(k, g, ends, time, d, w)
  <1>1. EmptyRows \in Stamped /\ EmptyRows[g].data # d /\ \A i \in {1, 2} : EmptyRows[i].vers = Zero
    <2>1. Zero \in [Groups -> Nat]
      BY DEF Zero
    <2> QED BY <2>1, Constants DEF Stamped, EmptyRows
  <1>2. w = update_data_c(EmptyRows, k, ends, time, d)
    BY DEF initialize_with_id_c, EmptyRows
  <1>3. Updated(EmptyRows, k, g, ends, time, d, w)
    BY <1>1, <1>2, CausalUpdate
  <1> QED BY <1>1, <1>3 DEF Updated, Inserted

\* Every command gives rows of the store's level.
LEMMA CommandTypes ==
    ASSUME level \in Levels, NEW k \in Groups, group_mapper(k) \in {1, 2},
           NEW ends \in [Groups -> Nat], NEW time \in Nat
    PROVE  /\ \A v \in Rows, d \in Values : update_data(v, k, ends, time, d) \in Rows
           /\ \A v \in Rows : v[written_row(k)].data + 1 \in Values => increment_cmd(v, k, ends, time) \in Rows
           /\ \A d \in Values : initialize_with_id(k, ends, time, d) \in Rows
           /\ \A v \in Rows : v[written_row(k)].vers \in Versions
           /\ \A v \in Rows : v[0].vers \in Versions /\ v[0].data \in Values
           /\ Versions \subseteq Known
  <1> DEFINE g == group_mapper(k)
  <1>1. CASE level = "strong"
    <2>1. Rows = StrongRows /\ Versions = Nat /\ Known = Nat \cup {-1} /\ written_row(k) = 0
      BY <1>1 DEF Rows, Versions, Known, written_row
    <2>2. \A v \in StrongRows : v[0].vers \in Nat /\ v[0].data \in Values
      BY DEF StrongRows
    <2>3. /\ \A v \in StrongRows, d \in Values : update_data_s(v, d) \in StrongRows
          /\ \A d \in Values : initialize_with_id_s(d) \in StrongRows
          /\ \A v \in StrongRows : v[0].data + 1 \in Values => increment_s(v) \in StrongRows
      BY <2>2, StrongCommands, StrongInsert
    <2>4. /\ \A v, d : update_data(v, k, ends, time, d) = update_data_s(v, d)
          /\ \A v : increment_cmd(v, k, ends, time) = increment_s(v)
          /\ \A d : initialize_with_id(k, ends, time, d) = initialize_with_id_s(d)
      BY <1>1 DEF update_data, increment_cmd, initialize_with_id
    <2> QED BY <2>1, <2>2, <2>3, <2>4
  <1>2. CASE level = "causal"
    <2>1. /\ Rows = CausalRows /\ Versions = [Groups -> Nat] /\ Known = [Groups -> Nat \cup {-1}]
          /\ written_row(k) = g /\ g \in {1, 2}
      BY <1>2 DEF Rows, Versions, Known, written_row
    <2>2. \A v \in CausalRows : \A i \in 0..2 : v[i].vers \in [Groups -> Nat]
      BY DEF CausalRows, Stamped
    <2>3. \A v \in CausalRows : v \in Stamped /\ v[0].data \in Values
      BY DEF CausalRows
    <2> HIDE DEF g
    <2>4. ASSUME NEW v \in CausalRows, NEW d \in Values
          PROVE  update_data_c(v, k, ends, time, d) \in CausalRows
      <3> DEFINE w == update_data_c(v, k, ends, time, d)
      <3>1. w \in Stamped /\ (w[0] = v[0] \/ w[0].data = d)
        <4>1. g = group_mapper(k)
          BY DEF g
        <4> HIDE DEF w
        <4>2. w = update_data_c(v, k, ends, time, d)
          BY DEF w
        <4>3. Updated(v, k, g, ends, time, d, w)
          BY <2>1, <2>3, <4>1, <4>2, CausalUpdate
        <4> QED BY <4>3 DEF Updated
      <3> HIDE DEF w
      <3>2. w \in CausalRows
        BY <2>3, <3>1 DEF CausalRows
      <3> QED BY <3>2 DEF w
    <2>5. ASSUME NEW d \in Values
          PROVE  initialize_with_id_c(k, ends, time, d) \in CausalRows
      <3> DEFINE w == initialize_with_id_c(k, ends, time, d)
      <3>1. w \in Stamped /\ w[0].data = d
        <4>1. g = group_mapper(k)
          BY DEF g
        <4> HIDE DEF w
        <4>2. w = initialize_with_id_c(k, ends, time, d)
          BY DEF w
        <4>3. Inserted(k, g, ends, time, d, w)
          BY <2>1, <4>1, <4>2, CausalInsert
        <4> QED BY <4>3 DEF Inserted
      <3> HIDE DEF w
      <3>2. w \in CausalRows
        BY <3>1 DEF CausalRows
      <3> QED BY <3>2 DEF w
    <2>6. ASSUME NEW v \in CausalRows, v[g].data + 1 \in Values
          PROVE  increment_c(v, k, ends, time) \in CausalRows
      BY <2>4, <2>6 DEF increment_c, g
    <2>7. [Groups -> Nat] \subseteq [Groups -> Nat \cup {-1}]
      OBVIOUS
    <2>8. "strong" # "causal"
      OBVIOUS
    <2>9. /\ \A v, d : update_data(v, k, ends, time, d) = update_data_c(v, k, ends, time, d)
          /\ \A v : increment_cmd(v, k, ends, time) = increment_c(v, k, ends, time)
          /\ \A d : initialize_with_id(k, ends, time, d) = initialize_with_id_c(k, ends, time, d)
      BY <1>2, <2>8 DEF update_data, increment_cmd, initialize_with_id
    <2> QED BY <2>1, <2>2, <2>3, <2>4, <2>5, <2>6, <2>7, <2>9
  <1> QED BY <1>1, <1>2, Constants

---------------------------------------------------------------------------
(* Objects and their buffers *)

\* What resize_buffer finds.
ResizeFault(o, n) ==
    IF o.fault # "none" \/ o.buf = NoBuf THEN o.fault
    ELSE IF n > o.size /\ n > MinBuffer THEN "assertion"
    ELSE IF n > o.cap THEN "data"
    ELSE IF MinBuffer > o.cap THEN "clear" ELSE "none"

\* Objects that are made, received, resized or read into are objects.
LEMMA ObjectOps ==
    ASSUME level \in Levels, table \in Tables
    PROVE  /\ \A d \in Values : bytes_size(d) \in Nat /\ (table = "IntStore" => bytes_size(d) = 4)
           /\ existing_object(table) \in Objects
           /\ \A n \in Nat : received_object(n) \in Objects
           /\ \A o \in Objects, n \in Nat : resize_buffer(o, n) \in Objects
           /\ \A o \in Objects, d \in Values : [o EXCEPT !.buf = d] \in Objects
           /\ \A o \in Objects, v \in Versions : [o EXCEPT !.vers = v] \in Objects
  <1>1. Unread(level) \in Known
    <2>1. CASE level = "strong"
      BY <2>1 DEF Unread, Known
    <2>2. CASE level # "strong"
      BY <2>2 DEF Unread, Known
    <2> QED BY <2>1, <2>2
  <1>2. \A d \in Values : bytes_size(d) \in Nat /\ (table = "IntStore" => bytes_size(d) = 4)
    BY Constants DEF bytes_size
  <1>3. existing_object(table) \in Objects
    BY <1>1 DEF existing_object, Objects, Huge, Garbage, NoBuf, Faults
  <1>4. ASSUME NEW n \in Nat PROVE received_object(n) \in Objects
    BY <1>1 DEF received_object, Objects, Huge, Garbage, NoBuf, Greater, MinBuffer, Faults
  <1>5. ASSUME NEW o \in Objects, NEW n \in Nat PROVE resize_buffer(o, n) \in Objects
    <2> DEFINE c == IF o.buf = NoBuf THEN Greater(MinBuffer, n) ELSE o.cap
    <2>1. c \in Nat /\ ResizeFault(o, n) \in Faults
      BY DEF Objects, Greater, MinBuffer, ResizeFault, Faults
    <2>2. resize_buffer(o, n) = [o EXCEPT !.size = n, !.cap = c, !.fault = ResizeFault(o, n)]
      BY DEF resize_buffer, ResizeFault
    <2> HIDE DEF c
    <2> QED BY <2>1, <2>2 DEF Objects
  <1>6. ASSUME NEW o \in Objects, NEW d \in Values PROVE [o EXCEPT !.buf = d] \in Objects
    BY DEF Objects
  <1>7. Versions \subseteq Known
    BY DEF Versions, Known
  <1>8. ASSUME NEW o \in Objects, NEW v \in Versions PROVE [o EXCEPT !.vers = v] \in Objects
    BY <1>7 DEF Objects
  <1> QED BY <1>2, <1>3, <1>4, <1>5, <1>6, <1>8

\* What the database has of a session's transaction.
LEMMA TxnFields ==
    ASSUME TypeOK, NEW s \in Sessions
    PROVE  /\ txn[s] \in Transactions /\ obj[s] \in Objects /\ clock[s] \in [Groups -> Nat]
           /\ txn[s].st \in {"none", "begun", "open"} /\ txn[s].start \in Nat /\ txn[s].writes \in Nat
           /\ txn[s].base \in Rows \cup {<<>>} /\ txn[s].view \in Rows \cup {<<>>}
           /\ Exists(txn[s].view) => txn[s].view \in Rows
           /\ Exists(txn[s].base) => txn[s].base \in Rows
           /\ obj[s].size \in Nat /\ obj[s].cap \in Nat
           /\ GroupOf(s) \in Groups /\ group_mapper(GroupOf(s)) \in {1, 2}
  <1>1. txn[s] \in Transactions /\ obj[s] \in Objects /\ clock[s] \in [Groups -> Nat]
    BY DEF TypeOK
  <1>2. GroupOf(s) \in Groups /\ group_mapper(GroupOf(s)) \in {1, 2}
    BY Constants DEF TypeOK, GroupOf
  <1> QED BY <1>1, <1>2 DEF Transactions, Objects, Exists

\* Types hold before the first transaction.
LEMMA TypeInit == Init => TypeOK
  <1> SUFFICES ASSUME Init PROVE TypeOK
    OBVIOUS
  <1>1. level \in Levels /\ table \in Tables /\ repl_group \in Groupings /\ now \in Nat /\ begun \in Nat
    BY DEF Init
  <1>2. rows \in Rows \cup {<<>>}
    <2>1. Zero \in [Groups -> Nat] /\ 1 \in Groups /\ group_mapper(1) \in {1, 2}
      BY DEF Zero, Groups, group_mapper
    <2>2. \A d \in Values : initialize_with_id(1, Zero, 1, d) \in Rows
      BY <1>1, <2>1, CommandTypes
    <2> QED BY <2>2 DEF Init
  <1>3. txn \in [Sessions -> Transactions]
    <2>1. Idle \in Transactions
      BY DEF Idle, Transactions
    <2> QED BY <2>1 DEF Init
  <1>4. obj \in [Sessions -> Objects]
    BY <1>1, ObjectOps DEF Init
  <1>5. table = "IntStore" => \A s \in Sessions : obj[s].size = 4 /\ obj[s].buf # NoBuf
    <2>1. table = "IntStore" => existing_object(table).size = 4 /\ existing_object(table).buf # NoBuf
      BY DEF existing_object, NoBuf, Garbage
    <2>2. \A s \in Sessions : obj[s] = existing_object(table)
      BY DEF Init
    <2> QED BY <2>1, <2>2
  <1>6. clock \in [Sessions -> [Groups -> Nat]]
    BY DEF Init, Zero
  <1>7. settled \in [Sessions -> BOOLEAN] /\ left \in [Sessions -> BOOLEAN]
    BY DEF Init
  <1>8. seen \in SUBSET Histories
    <2>1. Exists(rows) => rows \in Rows
      BY <1>2 DEF Exists
    <2>2. Exists(rows) => rows[0] \in [data : Values, vers : Versions]
      BY <2>1 DEF Rows, Versions, StrongRows, CausalRows, Stamped
    <2>3. Exists(rows) => Committed(rows[0], FALSE) \in Histories
      BY <2>2 DEF Committed, Histories
    <2> QED BY <2>3 DEF Init
  <1> QED BY <1>1, <1>2, <1>3, <1>4, <1>5, <1>6, <1>7, <1>8 DEF TypeOK

---------------------------------------------------------------------------
(* What each step does, session by session *)

\* Session s's transaction becomes t, and no other changes.
TxnOf(s, t) == txn'[s] = t /\ \A r \in Sessions \ {s} : txn'[r] = txn[r]
Sets(f, s, x) == f'[s] = x /\ \A r \in Sessions \ {s} : f'[r] = f[r]

Snapped(s) == [txn[s] EXCEPT !.st = "open", !.base = rows, !.view = rows]
Wrote(s, v) == [txn[s] EXCEPT !.view = v, !.writes = txn[s].writes + 1]

\* Assigning one session its transaction keeps the type.
LEMMA SetTxn ==
    ASSUME TypeOK, NEW s \in Sessions, NEW t \in Transactions, txn' = [txn EXCEPT ![s] = t]
    PROVE  txn' \in [Sessions -> Transactions] /\ TxnOf(s, t)
  BY DEF TypeOK, TxnOf

\* Assigning one session its object keeps the type.
LEMMA SetObj ==
    ASSUME TypeOK, NEW s \in Sessions, NEW o \in Objects, obj' = [obj EXCEPT ![s] = o]
    PROVE  obj' \in [Sessions -> Objects] /\ Sets(obj, s, o)
  BY DEF TypeOK, Sets

\* Assigning one session its clock keeps the type.
LEMMA SetClock ==
    ASSUME TypeOK, NEW s \in Sessions, NEW c \in [Groups -> Nat], clock' = [clock EXCEPT ![s] = c]
    PROVE  clock' \in [Sessions -> [Groups -> Nat]] /\ Sets(clock, s, c)
  BY DEF TypeOK, Sets

\* Assigning one session its left flag keeps the type.
LEMMA SetLeft ==
    ASSUME TypeOK, NEW s \in Sessions, NEW b \in BOOLEAN, left' = [left EXCEPT ![s] = b]
    PROVE  left' \in [Sessions -> BOOLEAN] /\ Sets(left, s, b)
  BY Zenon DEF TypeOK, Sets

\* Assigning one session its settled flag keeps the type.
LEMMA SetSettled ==
    ASSUME TypeOK, NEW s \in Sessions, NEW b \in BOOLEAN, settled' = [settled EXCEPT ![s] = b]
    PROVE  settled' \in [Sessions -> BOOLEAN] /\ Sets(settled, s, b)
  BY Zenon DEF TypeOK, Sets

\* The ways in which a transaction changes.
LEMMA WriteTxn ==
    ASSUME TypeOK, NEW s \in Sessions, NEW v \in Rows, Write(s, v)
    PROVE  /\ txn' \in [Sessions -> Transactions] /\ TxnOf(s, Wrote(s, v))
           /\ txn'[s].st = txn[s].st /\ txn'[s].start = txn[s].start /\ txn'[s].base = txn[s].base
           /\ txn'[s].view = v /\ txn'[s].writes = txn[s].writes + 1
  <1>1. txn[s] \in Transactions
    BY DEF TypeOK
  <1>2. Wrote(s, v) \in Transactions
    <2> DEFINE t == txn[s]  n == txn[s].writes + 1  R == Rows \cup {<<>>}
    <2>1. n \in Nat /\ v \in R /\ t \in [st : {"none", "begun", "open"}, start : Nat, base : R, view : R, writes : Nat]
      BY <1>1 DEF Transactions
    <2> HIDE DEF t, n, R
    <2>2. [t EXCEPT !.view = v] \in [st : {"none", "begun", "open"}, start : Nat, base : R, view : R, writes : Nat]
      BY <2>1
    <2>3. [[t EXCEPT !.view = v] EXCEPT !.writes = n]
             \in [st : {"none", "begun", "open"}, start : Nat, base : R, view : R, writes : Nat]
      BY <2>1, <2>2
    <2> QED BY <2>3 DEF Wrote, Transactions, t, n, R
  <1>3. /\ Wrote(s, v).st = txn[s].st /\ Wrote(s, v).start = txn[s].start
        /\ Wrote(s, v).base = txn[s].base /\ Wrote(s, v).view = v
        /\ Wrote(s, v).writes = txn[s].writes + 1
    BY <1>1 DEF Wrote, Transactions
  <1>4. txn' = [txn EXCEPT ![s] = Wrote(s, v)]
    BY DEF Write, TypeOK, Wrote
  <1>5. txn' \in [Sessions -> Transactions] /\ TxnOf(s, Wrote(s, v))
    BY <1>2, <1>4, SetTxn
  <1> QED BY <1>3, <1>5 DEF TxnOf

\* A session without a transaction.
LEMMA EndTxn ==
    ASSUME TypeOK, NEW s \in Sessions, txn' = [txn EXCEPT ![s] = Idle]
    PROVE  txn' \in [Sessions -> Transactions] /\ TxnOf(s, Idle)
  <1>1. Idle \in Transactions
    BY DEF Idle, Transactions
  <1> QED BY <1>1, SetTxn

\* What a roll-back leaves of a session.
LEMMA RolledBackTxn ==
    ASSUME TypeOK, NEW s \in Sessions, NEW b \in BOOLEAN, RolledBack(s, b)
    PROVE  /\ txn' \in [Sessions -> Transactions] /\ TxnOf(s, Idle)
           /\ settled' \in [Sessions -> BOOLEAN] /\ Sets(settled, s, FALSE)
           /\ left' \in [Sessions -> BOOLEAN] /\ Sets(left, s, b)
  <1>1. txn' \in [Sessions -> Transactions] /\ TxnOf(s, Idle)
    BY EndTxn DEF RolledBack
  <1>2. settled' \in [Sessions -> BOOLEAN] /\ Sets(settled, s, FALSE)
    BY SetSettled DEF RolledBack
  <1>3. left' \in [Sessions -> BOOLEAN] /\ Sets(left, s, b)
    BY SetLeft DEF RolledBack
  <1> QED BY <1>1, <1>2, <1>3

\* resize_buffer, field by field.
LEMMA Resized ==
    ASSUME level \in Levels, table \in Tables, NEW o \in Objects, NEW n \in Nat
    PROVE  /\ resize_buffer(o, n) \in Objects
           /\ resize_buffer(o, n).size = n
           /\ resize_buffer(o, n).cap = IF o.buf = NoBuf THEN Greater(MinBuffer, n) ELSE o.cap
           /\ resize_buffer(o, n).buf = o.buf /\ resize_buffer(o, n).vers = o.vers
           /\ resize_buffer(o, n).fault = ResizeFault(o, n)
  <1>1. resize_buffer(o, n) \in Objects
    BY ObjectOps
  <1>2. resize_buffer(o, n) = [o EXCEPT !.size = n, !.cap = IF o.buf = NoBuf THEN Greater(MinBuffer, n) ELSE o.cap,
                                        !.fault = ResizeFault(o, n)]
    BY DEF resize_buffer, ResizeFault
  <1> QED BY <1>1, <1>2 DEF Objects

\* A version check leaves the buffer alone and may take over the version.
LEMMA CheckedVersion ==
    ASSUME TypeOK, NEW s \in Sessions, Exists(txn[s].view), NEW c, c = check_version(s)
    PROVE  /\ c.o \in Objects /\ c.clk \in [Groups -> Nat] /\ c.same \in BOOLEAN
           /\ c.same <=> VersionChecked(obj[s]) /\ obj[s].vers = txn[s].view[0].vers
           /\ c.o.size = obj[s].size /\ c.o.cap = obj[s].cap /\ c.o.buf = obj[s].buf /\ c.o.fault = obj[s].fault
           /\ c.o.vers \in {obj[s].vers, txn[s].view[0].vers}
           /\ c.same => c.o = obj[s]
           /\ c.clk = clock[s] \/ (level = "causal" /\ c.clk = Merge(clock[s], txn[s].view[0].vers))
  <1> DEFINE v == txn[s].view[0].vers
  <1>1. level \in Levels /\ obj[s] \in Objects /\ clock[s] \in [Groups -> Nat] /\ txn[s].view \in Rows
    BY TxnFields DEF TypeOK
  <1>2. v \in Versions
    BY <1>1 DEF Rows, Versions, StrongRows, CausalRows, Stamped
  <1>3. table \in Tables
    BY DEF TypeOK
  <1>4. [obj[s] EXCEPT !.vers = v] \in Objects
    BY <1>1, <1>2, <1>3, ObjectOps
  <1>5. level = "causal" => Merge(clock[s], v) \in [Groups -> Nat]
    <2>1. level = "causal" => v \in [Groups -> Nat]
      BY <1>2 DEF Versions
    <2> QED BY <1>1, <2>1 DEF Merge, Greater
  <1>6. CASE ~VersionChecked(obj[s])
    <2>1. c = [same |-> FALSE, o |-> obj[s], clk |-> clock[s]]
      BY <1>6 DEF check_version
    <2> QED BY <1>1, <1>6, <2>1
  <1>7. CASE VersionChecked(obj[s])
    <2>1. c = [same |-> obj[s].vers = v, o |-> [obj[s] EXCEPT !.vers = v],
               clk |-> IF level = "causal" /\ obj[s].vers # v THEN Merge(clock[s], v) ELSE clock[s]]
      BY <1>7 DEF check_version, select_version
    <2>2. c.o = [obj[s] EXCEPT !.vers = v] /\ c.same = (obj[s].vers = v)
      BY <2>1
    <2>3. c.clk = IF level = "causal" /\ obj[s].vers # v THEN Merge(clock[s], v) ELSE clock[s]
      BY <2>1
    <2> HIDE DEF v
    <2>4. /\ c.o.size = obj[s].size /\ c.o.cap = obj[s].cap /\ c.o.buf = obj[s].buf /\ c.o.vers = v
          /\ c.o.fault = obj[s].fault
          /\ obj[s].vers = v => c.o = obj[s]
      BY <1>1, <2>2 DEF Objects
    <2>5. c.clk \in [Groups -> Nat] /\ (c.clk = clock[s] \/ (level = "causal" /\ c.clk = Merge(clock[s], v)))
      BY <1>1, <1>5, <2>3
    <2> QED BY <1>4, <1>7, <2>2, <2>4, <2>5 DEF v
  <1> QED BY <1>6, <1>7

\* What is read is what the buffer then holds.
LEMMA RowRead ==
    ASSUME level \in Levels, table \in Tables, NEW o \in Objects,
           NEW row \in [data : Values, vers : Versions], NEW n, n = read_row(o, row)
    PROVE  /\ n \in Objects /\ n.vers = row.vers /\ n.buf = row.data
           /\ table = "IntStore" => n.size = o.size /\ n.cap = o.cap /\ n.fault = o.fault
           /\ table = "BlobStore" =>
                /\ n.size = bytes_size(row.data) /\ n.fault = ResizeFault(o, bytes_size(row.data))
                /\ n.cap = IF o.buf = NoBuf THEN Greater(MinBuffer, bytes_size(row.data)) ELSE o.cap
  <1> DEFINE sized == IF table = "BlobStore" THEN resize_buffer(o, bytes_size(row.data)) ELSE o
  <1>1. bytes_size(row.data) \in Nat /\ row.data \in Values /\ row.vers \in Versions
    BY ObjectOps
  <1>2. /\ sized \in Objects
        /\ table = "IntStore" => sized.size = o.size /\ sized.cap = o.cap /\ sized.fault = o.fault
        /\ table = "BlobStore" =>
                /\ sized.size = bytes_size(row.data) /\ sized.fault = ResizeFault(o, bytes_size(row.data))
                /\ sized.cap = IF o.buf = NoBuf THEN Greater(MinBuffer, bytes_size(row.data)) ELSE o.cap
    BY <1>1, Resized
  <1>3. n = [sized EXCEPT !.vers = row.vers, !.buf = row.data]
    BY DEF read_row
  <1> HIDE DEF sized
  <1>4. [sized EXCEPT !.vers = row.vers] \in Objects
    BY <1>1, <1>2, ObjectOps
  <1>5. n \in Objects
    <2> DEFINE m == [sized EXCEPT !.vers = row.vers]
    <2> HIDE DEF m
    <2>1. [m EXCEPT !.buf = row.data] \in Objects
      BY <1>1, <1>4, ObjectOps DEF m
    <2> QED BY <1>3, <2>1 DEF m
  <1>6. /\ n.vers = row.vers /\ n.buf = row.data
        /\ n.size = sized.size /\ n.cap = sized.cap /\ n.fault = sized.fault
    BY <1>2, <1>3 DEF Objects
  <1> QED BY <1>2, <1>5, <1>6

\* Only session s has changed.
Others(s) == \A r \in Sessions \ {s} :
    /\ txn'[r] = txn[r] /\ obj'[r] = obj[r] /\ clock'[r] = clock[r]
    /\ left'[r] = left[r] /\ settled'[r] = settled[r]

\* Types hold again when every changed variable has its type.
LEMMA TypeKept ==
    ASSUME TypeOK, UNCHANGED <<level, table, repl_group>>,
           rows' \in Rows \cup {<<>>}, now' \in Nat, begun' \in Nat, txn' \in [Sessions -> Transactions],
           obj' \in [Sessions -> Objects],
           table = "IntStore" => \A s \in Sessions : obj'[s].size = 4 /\ obj'[s].buf # NoBuf,
           clock' \in [Sessions -> [Groups -> Nat]],
           settled' \in [Sessions -> BOOLEAN], left' \in [Sessions -> BOOLEAN],
           seen' \in SUBSET Histories
    PROVE  TypeOK'
  <1>1. Rows' = Rows /\ Versions' = Versions /\ Known' = Known
    BY DEF Rows, Versions, Known
  <1>2. Transactions' = Transactions /\ Objects' = Objects /\ Histories' = Histories
    BY <1>1 DEF Transactions, Objects, Histories
  <1> QED BY <1>1, <1>2 DEF TypeOK

\* Every object has a row 0 with a value.
LEMMA Row0 ==
    ASSUME NEW v \in Rows
    PROVE  /\ v[0] \in [data : Values, vers : Versions]
           /\ v[0].data \in Values /\ v[0].vers \in Versions /\ v[0].data # NoBuf
  <1>1. v[0] \in [data : Values, vers : Versions]
    BY DEF Rows, Versions, StrongRows, CausalRows, Stamped
  <1> QED BY <1>1, Constants

\* What Begin changes, and that it keeps the types.
LEMMA BeginDoes ==
    ASSUME TypeOK, NEW s \in Sessions, Begin(s)
    PROVE  /\ TypeOK' /\ Others(s)
           /\ txn[s].st = "none" /\ now' \in {now, now + 1} /\ txn'[s] = Began(now')
           /\ UNCHANGED <<rows, obj, clock, settled, left, seen>>
  <1>1. now' \in Nat /\ begun' \in Nat /\ now' \in {now, now + 1} /\ Began(now') \in Transactions
    BY DEF TypeOK, Began, Transactions, Begin
  <1>2. txn' = [txn EXCEPT ![s] = Began(now')]
    BY DEF Begin
  <1>3. txn' \in [Sessions -> Transactions] /\ TxnOf(s, Began(now'))
    BY <1>1, <1>2, SetTxn
  <1>4. TypeOK'
    BY <1>1, <1>3, TypeKept DEF Begin, TypeOK
  <1>5. Others(s)
    BY <1>3 DEF Others, TxnOf, Begin
  <1> QED BY <1>1, <1>3, <1>4, <1>5 DEF Begin, TxnOf

\* What Snapshot changes, and that it keeps the types.
LEMMA SnapshotDoes ==
    ASSUME TypeOK, NEW s \in Sessions, Snapshot(s)
    PROVE  /\ TypeOK' /\ Others(s)
           /\ txn[s].st = "begun" /\ txn'[s].st = "open" /\ txn'[s].start = txn[s].start
           /\ txn'[s].base = rows /\ txn'[s].view = rows /\ txn'[s].writes = txn[s].writes
           /\ UNCHANGED <<rows, now, obj, clock, settled, left, seen>>
  <1>1. txn[s] \in Transactions /\ rows \in Rows \cup {<<>>}
    BY DEF TypeOK
  <1>2. /\ Snapped(s) \in Transactions
        /\ Snapped(s).st = "open" /\ Snapped(s).start = txn[s].start /\ Snapped(s).base = rows
        /\ Snapped(s).view = rows /\ Snapped(s).writes = txn[s].writes
    BY <1>1 DEF Snapped, Transactions
  <1>3. txn' = [txn EXCEPT ![s] = Snapped(s)]
    BY DEF Snapshot, Snapped, TypeOK
  <1>4. txn' \in [Sessions -> Transactions] /\ TxnOf(s, Snapped(s))
    BY <1>2, <1>3, SetTxn
  <1>5. TypeOK'
    BY <1>4, TypeKept DEF Snapshot, TypeOK
  <1>6. Others(s)
    BY <1>4 DEF Others, TxnOf, Snapshot
  <1> QED BY <1>2, <1>4, <1>5, <1>6 DEF Snapshot, TxnOf

\* A transaction that the numbering trigger did not run in, or that wrote what was there.
Unnumbered(s) ==
    /\ Exists(rows) /\ txn[s].view[0] = rows[0]
    /\ \A i \in DOMAIN rows : txn[s].view[i].data = rows[i].data

\* What Commit changes, and that it keeps the types.
LEMMA CommitDoes ==
    ASSUME TypeOK, NEW s \in Sessions, Commit(s), txn[s].writes > 0 => Exists(txn[s].view)
    PROVE  /\ TypeOK' /\ Others(s)
           /\ txn[s].st # "none" /\ txn'[s] = Idle
           /\ txn[s].writes > 0 =>
                /\ rows' = txn[s].view
                /\ Unnumbered(s) => seen' = seen
                /\ ~Unnumbered(s) => seen' = seen \cup {Committed(txn[s].view[0], Late(s))}
           /\ ~(txn[s].writes > 0) => rows' = rows /\ seen' = seen
           /\ ~settled'[s]
           /\ UNCHANGED <<now, obj, clock, left>>
  <1>1. txn' \in [Sessions -> Transactions] /\ TxnOf(s, Idle)
    BY EndTxn DEF Commit
  <1>2. settled' \in [Sessions -> BOOLEAN] /\ Sets(settled, s, FALSE)
    BY SetSettled DEF Commit
  <1>3. /\ Unnumbered(s) => History(s) = seen
        /\ ~Unnumbered(s) => History(s) = seen \cup {Committed(txn[s].view[0], Late(s))}
    BY Zenon DEF History, Unnumbered
  <1>4. rows' \in Rows \cup {<<>>} /\ seen' \in SUBSET Histories
    <2>1. CASE txn[s].writes > 0
      <3>1. txn[s].view \in Rows /\ txn[s].view[0] \in [data : Values, vers : Versions]
        BY <2>1, TxnFields, Row0
      <3>2. Late(s) \in BOOLEAN
        BY Zenon DEF Late
      <3>3. Committed(txn[s].view[0], Late(s)) \in Histories
        <4> DEFINE l == Late(s)
        <4>1. l \in BOOLEAN
          BY <3>2
        <4> HIDE DEF l
        <4>2. Committed(txn[s].view[0], l) \in Histories
          BY <3>1, <4>1 DEF Committed, Histories
        <4> QED BY <4>2 DEF l
      <3>4. rows' = txn[s].view /\ seen' = History(s)
        BY <2>1 DEF Commit
      <3> QED BY <1>3, <3>1, <3>3, <3>4 DEF TypeOK
    <2>2. CASE ~(txn[s].writes > 0)
      BY <2>2 DEF Commit, TypeOK
    <2> QED BY <2>1, <2>2
  <1>5. TypeOK'
    BY <1>1, <1>2, <1>4, TypeKept DEF Commit, TypeOK
  <1>6. Others(s)
    BY <1>1, <1>2 DEF Others, TxnOf, Sets, Commit
  <1>7. ~settled'[s]
    BY <1>2 DEF Sets
  <1>8. txn[s].writes > 0 => rows' = txn[s].view /\ seen' = History(s)
    BY DEF Commit
  <1> QED BY <1>1, <1>3, <1>5, <1>6, <1>7, <1>8 DEF Commit, TxnOf

\* What Abort changes, and that it keeps the types.
LEMMA AbortDoes ==
    ASSUME TypeOK, NEW s \in Sessions, Abort(s)
    PROVE  /\ TypeOK' /\ Others(s)
           /\ txn[s].st # "none" /\ txn'[s] = Idle
           /\ left'[s] <=> left[s] \/ txn[s].writes > 0
           /\ ~settled'[s]
           /\ UNCHANGED <<rows, now, obj, clock, seen>>
  <1>1. PICK b \in BOOLEAN : b = (left[s] \/ txn[s].writes > 0)
    BY Zenon
  <1>2. RolledBack(s, b)
    BY <1>1, Zenon DEF Abort
  <1>3. /\ txn' \in [Sessions -> Transactions] /\ TxnOf(s, Idle)
        /\ settled' \in [Sessions -> BOOLEAN] /\ Sets(settled, s, FALSE)
        /\ left' \in [Sessions -> BOOLEAN] /\ Sets(left, s, b)
    BY <1>2, RolledBackTxn
  <1>4. TypeOK'
    BY <1>3, TypeKept DEF Abort, TypeOK
  <1>5. Others(s)
    BY <1>3 DEF Others, TxnOf, Sets, Abort
  <1>6. left'[s] <=> left[s] \/ txn[s].writes > 0
    BY <1>1, <1>3, Zenon DEF Sets
  <1>7. ~settled'[s]
    BY <1>3 DEF Sets
  <1> QED BY <1>3, <1>4, <1>5, <1>6, <1>7 DEF Abort, TxnOf

\* What Receive changes, and that it keeps the types.
LEMMA ReceiveDoes ==
    ASSUME TypeOK, NEW s \in Sessions, Receive(s)
    PROVE  /\ TypeOK' /\ Others(s)
           /\ txn[s].st = "none"
           /\ obj'[s] = received_object(obj[s].size)
           /\ ~left'[s]
           /\ UNCHANGED <<rows, now, txn, clock, settled, seen>>
  <1>1. level \in Levels /\ table \in Tables /\ obj[s].size \in Nat
    BY TxnFields DEF TypeOK
  <1>2. received_object(obj[s].size) \in Objects
    BY <1>1, ObjectOps
  <1>3. obj' \in [Sessions -> Objects] /\ Sets(obj, s, received_object(obj[s].size))
    BY <1>2, SetObj DEF Receive
  <1>4. left' \in [Sessions -> BOOLEAN] /\ Sets(left, s, FALSE)
    BY SetLeft DEF Receive
  <1>5. table = "IntStore" => \A r \in Sessions : obj'[r].size = 4 /\ obj'[r].buf # NoBuf
    <2>1. table = "IntStore" => obj[s].size = 4
      BY DEF TypeOK
    <2>2. table = "IntStore" => obj'[s].size = 4 /\ obj'[s].buf # NoBuf
      BY <1>3, <2>1 DEF Sets, received_object, Huge, NoBuf, Garbage
    <2> QED BY <1>3, <2>2 DEF Sets, TypeOK
  <1>6. TypeOK'
    BY <1>3, <1>4, <1>5, TypeKept DEF Receive, TypeOK
  <1>7. Others(s)
    BY <1>3, <1>4 DEF Others, Sets, Receive
  <1> QED BY <1>3, <1>4, <1>6, <1>7 DEF Receive, Sets

\* The object of session s when its buffer was given n bytes for an integer or a
\* blob; where grown, by resize_buffer.
SizedFor(s, n, grown) ==
    /\ table = "IntStore" => obj'[s].size = 4 /\ obj'[s].cap = obj[s].cap
    /\ table = "BlobStore" =>
         /\ obj'[s].size = n
         /\ obj'[s].cap = IF obj[s].buf = NoBuf THEN Greater(MinBuffer, n) ELSE obj[s].cap
    /\ obj'[s].fault = IF grown THEN ResizeFault(obj[s], n) ELSE obj[s].fault

\* What Get changes, and that it keeps the types.
LEMMA GetDoes ==
    ASSUME TypeOK, NEW s \in Sessions, Get(s)
    PROVE  /\ TypeOK' /\ Others(s)
           /\ txn[s].st = "open" /\ Exists(txn[s].view) /\ txn[s].view \in Rows
           /\ \/ /\ VersionChecked(obj[s]) /\ obj[s].vers = txn[s].view[0].vers
                 /\ obj'[s] = obj[s] /\ left'[s] = left[s]
              \/ /\ obj'[s].vers = txn[s].view[0].vers /\ obj'[s].buf = txn[s].view[0].data
                 /\ SizedFor(s, bytes_size(txn[s].view[0].data), table = "BlobStore") /\ ~left'[s]
           /\ clock'[s] = clock[s] \/ (level = "causal" /\ clock'[s] = Merge(clock[s], txn[s].view[0].vers))
           /\ settled'[s]
           /\ UNCHANGED <<rows, now, txn, seen>>
  <1> DEFINE c == check_version(s)  row == txn[s].view[0]
             n == IF c.same THEN c.o ELSE read_row(c.o, row)
  <1>0. level \in Levels /\ table \in Tables /\ obj[s] \in Objects
    BY TxnFields DEF TypeOK
  <1>1. Exists(txn[s].view) /\ txn[s].view \in Rows /\ row \in [data : Values, vers : Versions]
    BY TxnFields, Row0 DEF Get
  <1>2. /\ c.o \in Objects /\ c.clk \in [Groups -> Nat] /\ c.same \in BOOLEAN
        /\ c.same <=> VersionChecked(obj[s]) /\ obj[s].vers = row.vers
        /\ c.o.size = obj[s].size /\ c.o.cap = obj[s].cap /\ c.o.buf = obj[s].buf /\ c.o.fault = obj[s].fault
        /\ c.same => c.o = obj[s]
        /\ c.clk = clock[s] \/ (level = "causal" /\ c.clk = Merge(clock[s], row.vers))
    BY <1>1, CheckedVersion
  <1>3. obj' = [obj EXCEPT ![s] = n] /\ clock' = [clock EXCEPT ![s] = c.clk]
    BY DEF Get, load, select_version_data
  <1>4. left' = [left EXCEPT ![s] = left[s] /\ c.same] /\ settled' = [settled EXCEPT ![s] = TRUE]
    BY Zenon DEF Get
  <1> HIDE DEF c
  <1>5. ~c.same =>
           /\ n \in Objects /\ n.vers = row.vers /\ n.buf = row.data
           /\ table = "IntStore" => n.size = c.o.size /\ n.cap = c.o.cap /\ n.fault = c.o.fault
           /\ table = "BlobStore" =>
                /\ n.size = bytes_size(row.data) /\ n.fault = ResizeFault(c.o, bytes_size(row.data))
                /\ n.cap = IF c.o.buf = NoBuf THEN Greater(MinBuffer, bytes_size(row.data)) ELSE c.o.cap
    <2>1. ~c.same => n = read_row(c.o, row)
      OBVIOUS
    <2>2. c.o \in Objects /\ row \in [data : Values, vers : Versions]
      BY <1>1, <1>2
    <2> HIDE DEF n, row
    <2> QED
      BY <1>0, <2>1, <2>2, RowRead
  <1>6. n \in Objects
    BY <1>2, <1>5
  <1> HIDE DEF n
  <1>7. obj' \in [Sessions -> Objects] /\ Sets(obj, s, n)
    BY <1>3, <1>6, SetObj
  <1>8. clock' \in [Sessions -> [Groups -> Nat]] /\ Sets(clock, s, c.clk)
    BY <1>2, <1>3, SetClock
  <1>9. PICK b \in BOOLEAN : b = (left[s] /\ c.same)
    BY Zenon
  <1>10. left' \in [Sessions -> BOOLEAN] /\ Sets(left, s, b)
    BY <1>4, <1>9, SetLeft
  <1>11. settled' \in [Sessions -> BOOLEAN] /\ Sets(settled, s, TRUE)
    BY <1>4, SetSettled
  <1>12. table = "IntStore" => obj[s].size = 4 /\ obj[s].buf # NoBuf
    BY DEF TypeOK
  <1>13. CASE c.same
    <2>1. obj'[s] = obj[s] /\ left'[s] = left[s]
      <3>1. obj'[s] = obj[s]
        BY <1>2, <1>7, <1>13 DEF Sets, n
      <3>2. left[s] \in BOOLEAN
        BY DEF TypeOK
      <3>3. left'[s] = left[s]
        BY <1>9, <1>10, <1>13, <3>2, Zenon DEF Sets
      <3> QED BY <3>1, <3>3
    <2>2. table = "IntStore" => \A r \in Sessions : obj'[r].size = 4 /\ obj'[r].buf # NoBuf
      BY <1>7, <2>1 DEF Sets, TypeOK
    <2>3. TypeOK'
      BY <1>7, <1>8, <1>10, <1>11, <2>2, TypeKept DEF Get, TypeOK
    <2>4. Others(s)
      BY <1>7, <1>8, <1>10, <1>11 DEF Others, Sets, Get
    <2>5. settled'[s] /\ clock'[s] = c.clk
      BY <1>8, <1>11 DEF Sets
    <2> QED BY <1>1, <1>2, <1>13, <2>1, <2>3, <2>4, <2>5 DEF Get
  <1>14. CASE ~c.same
    <2>0. ResizeFault(c.o, bytes_size(row.data)) = ResizeFault(obj[s], bytes_size(row.data))
      BY <1>2 DEF ResizeFault
    <2>1. obj'[s].vers = row.vers /\ obj'[s].buf = row.data /\ SizedFor(s, bytes_size(row.data), table = "BlobStore")
      BY <1>0, <1>2, <1>5, <1>7, <1>12, <1>14, <2>0, Constants DEF Sets, n, SizedFor
    <2>2. table = "IntStore" => \A r \in Sessions : obj'[r].size = 4 /\ obj'[r].buf # NoBuf
      <3>1. row.data # NoBuf
        BY <1>1, Row0
      <3> QED BY <1>7, <2>1, <3>1 DEF Sets, TypeOK, SizedFor
    <2>3. TypeOK'
      BY <1>7, <1>8, <1>10, <1>11, <2>2, TypeKept DEF Get, TypeOK
    <2>4. Others(s)
      BY <1>7, <1>8, <1>10, <1>11 DEF Others, Sets, Get
    <2>5. settled'[s] /\ clock'[s] = c.clk
      BY <1>8, <1>11 DEF Sets
    <2>6. ~left'[s]
      BY <1>9, <1>10, <1>14, Zenon DEF Sets
    <2> QED BY <1>1, <1>2, <2>1, <2>3, <2>4, <2>5, <2>6 DEF Get
  <1> QED BY <1>13, <1>14

\* What FailGet changes, and that it keeps the types.
LEMMA FailGetDoes ==
    ASSUME TypeOK, NEW s \in Sessions, FailGet(s)
    PROVE  /\ TypeOK' /\ Others(s)
           /\ txn[s].st = "open" /\ Exists(txn[s].view) /\ txn[s].view \in Rows /\ txn'[s] = Idle
           /\ obj'[s].size = obj[s].size /\ obj'[s].cap = obj[s].cap /\ obj'[s].buf = obj[s].buf
           /\ obj'[s].fault = obj[s].fault /\ left'[s] /\ ~settled'[s]
           /\ clock'[s] = clock[s] \/ (level = "causal" /\ clock'[s] = Merge(clock[s], txn[s].view[0].vers))
           /\ UNCHANGED <<rows, now, seen>>
  <1> DEFINE c == check_version(s)
  <1>1. Exists(txn[s].view) /\ txn[s].view \in Rows
    BY TxnFields DEF FailGet
  <1>2. /\ c.o \in Objects /\ c.clk \in [Groups -> Nat]
        /\ c.o.size = obj[s].size /\ c.o.cap = obj[s].cap /\ c.o.buf = obj[s].buf /\ c.o.fault = obj[s].fault
        /\ c.clk = clock[s] \/ (level = "causal" /\ c.clk = Merge(clock[s], txn[s].view[0].vers))
    BY <1>1, CheckedVersion
  <1>3. obj' = [obj EXCEPT ![s] = c.o] /\ clock' = [clock EXCEPT ![s] = c.clk] /\ RolledBack(s, TRUE)
    BY Zenon DEF FailGet
  <1> HIDE DEF c
  <1>4. /\ txn' \in [Sessions -> Transactions] /\ TxnOf(s, Idle)
        /\ settled' \in [Sessions -> BOOLEAN] /\ Sets(settled, s, FALSE)
        /\ left' \in [Sessions -> BOOLEAN] /\ Sets(left, s, TRUE)
    BY <1>3, RolledBackTxn
  <1>5. obj' \in [Sessions -> Objects] /\ Sets(obj, s, c.o)
    BY <1>2, <1>3, SetObj
  <1>6. clock' \in [Sessions -> [Groups -> Nat]] /\ Sets(clock, s, c.clk)
    BY <1>2, <1>3, SetClock
  <1>7. table = "IntStore" => \A r \in Sessions : obj'[r].size = 4 /\ obj'[r].buf # NoBuf
    BY <1>2, <1>5 DEF Sets, TypeOK
  <1>8. TypeOK'
    BY <1>4, <1>5, <1>6, <1>7, TypeKept DEF FailGet, TypeOK
  <1>9. Others(s)
    BY <1>4, <1>5, <1>6 DEF Others, TxnOf, Sets, FailGet
  <1>10. obj'[s] = c.o /\ clock'[s] = c.clk /\ left'[s] /\ ~settled'[s] /\ txn'[s] = Idle
    BY <1>4, <1>5, <1>6 DEF Sets, TxnOf
  <1> QED BY <1>1, <1>2, <1>8, <1>9, <1>10 DEF FailGet

\* put, up to the update: the buffer has the new value, the version is the old.
LEMMA Filled ==
    ASSUME TypeOK, NEW s \in Sessions, NEW d \in Values
    PROVE  /\ FillBuffer(s, d) \in Objects
           /\ FillBuffer(s, d).buf = d /\ FillBuffer(s, d).vers = obj[s].vers
           /\ FillBuffer(s, d).size = bytes_size(d) /\ FillBuffer(s, d).fault = ResizeFault(obj[s], bytes_size(d))
           /\ FillBuffer(s, d).cap = IF obj[s].buf = NoBuf THEN Greater(MinBuffer, bytes_size(d)) ELSE obj[s].cap
  <1>1. level \in Levels /\ table \in Tables /\ obj[s] \in Objects
    BY TxnFields DEF TypeOK
  <1> DEFINE o == resize_buffer(obj[s], bytes_size(d))
  <1>2. /\ o \in Objects /\ o.vers = obj[s].vers /\ o.size = bytes_size(d)
        /\ o.fault = ResizeFault(obj[s], bytes_size(d))
        /\ o.cap = IF obj[s].buf = NoBuf THEN Greater(MinBuffer, bytes_size(d)) ELSE obj[s].cap
    <2>1. bytes_size(d) \in Nat
      BY <1>1, ObjectOps
    <2> QED BY <1>1, <2>1, Resized
  <1>3. FillBuffer(s, d) = [o EXCEPT !.buf = d]
    BY DEF FillBuffer
  <1> HIDE DEF o
  <1>4. FillBuffer(s, d) \in Objects
    BY <1>1, <1>2, <1>3, ObjectOps
  <1> QED BY <1>2, <1>3, <1>4 DEF Objects

\* The IntStore part of TypeOK, when session s's object is n.
LEMMA IntKept ==
    ASSUME TypeOK, NEW s \in Sessions, NEW n \in Objects, Sets(obj, s, n),
           table = "IntStore" => n.size = 4 /\ n.buf # NoBuf
    PROVE  table = "IntStore" => \A r \in Sessions : obj'[r].size = 4 /\ obj'[r].buf # NoBuf
  BY DEF Sets, TypeOK

\* What FailPut changes, and that it keeps the types.
LEMMA FailPutDoes ==
    ASSUME TypeOK, NEW s \in Sessions, NEW d \in Values, FailPut(s, d)
    PROVE  /\ TypeOK' /\ Others(s)
           /\ txn[s].st = "open" /\ txn'[s] = Idle
           /\ obj'[s].buf = d /\ SizedFor(s, bytes_size(d), TRUE)
           /\ left'[s] /\ ~settled'[s]
           /\ UNCHANGED <<rows, now, clock, seen>>
  <1> DEFINE n == FillBuffer(s, d)
  <1>0. level \in Levels /\ table \in Tables
    BY DEF TypeOK
  <1>1. /\ n \in Objects /\ n.buf = d /\ n.size = bytes_size(d) /\ n.fault = ResizeFault(obj[s], bytes_size(d))
        /\ n.cap = IF obj[s].buf = NoBuf THEN Greater(MinBuffer, bytes_size(d)) ELSE obj[s].cap
    BY Filled
  <1>2. obj' = [obj EXCEPT ![s] = n] /\ RolledBack(s, TRUE)
    BY Zenon DEF FailPut
  <1> HIDE DEF n
  <1>3. /\ txn' \in [Sessions -> Transactions] /\ TxnOf(s, Idle)
        /\ settled' \in [Sessions -> BOOLEAN] /\ Sets(settled, s, FALSE)
        /\ left' \in [Sessions -> BOOLEAN] /\ Sets(left, s, TRUE)
    BY <1>2, RolledBackTxn
  <1>4. obj' \in [Sessions -> Objects] /\ Sets(obj, s, n)
    BY <1>1, <1>2, SetObj
  <1>6. (table = "IntStore" => bytes_size(d) = 4) /\ d # NoBuf
    BY <1>0, ObjectOps, Constants
  <1>7. table = "IntStore" => \A r \in Sessions : obj'[r].size = 4 /\ obj'[r].buf # NoBuf
    BY <1>1, <1>4, <1>6, IntKept
  <1>8. TypeOK'
    BY <1>3, <1>4, <1>7, TypeKept DEF FailPut, TypeOK
  <1>9. Others(s)
    BY <1>3, <1>4 DEF Others, TxnOf, Sets, FailPut
  <1>10. SizedFor(s, bytes_size(d), TRUE) /\ left'[s] /\ ~settled'[s] /\ obj'[s] = n /\ txn'[s] = Idle
    BY <1>1, <1>3, <1>4, <1>6 DEF Sets, SizedFor, TypeOK, TxnOf
  <1> QED BY <1>1, <1>8, <1>9, <1>10 DEF FailPut

\* The rows that a write of session s leaves in its view.
PutRows(s, d) == update_data(txn[s].view, GroupOf(s), clock[s], txn[s].start, d)
IncrementRows(s) == increment_cmd(txn[s].view, GroupOf(s), clock[s], txn[s].start)
NewRows(s, d) == initialize_with_id(GroupOf(s), clock[s], txn[s].start, d)

\* What the SQL commands write are rows.
LEMMA RowsWritten ==
    ASSUME TypeOK, NEW s \in Sessions
    PROVE  /\ \A d \in Values : Exists(txn[s].view) => PutRows(s, d) \in Rows
           /\ Exists(txn[s].view) /\ txn[s].view[written_row(GroupOf(s))].data + 1 \in Values
                => IncrementRows(s) \in Rows
           /\ \A d \in Values : NewRows(s, d) \in Rows
           /\ \A v \in Rows : v[written_row(GroupOf(s))].vers \in Versions
  <1>1. /\ level \in Levels /\ clock[s] \in [Groups -> Nat] /\ txn[s].start \in Nat
        /\ GroupOf(s) \in Groups /\ group_mapper(GroupOf(s)) \in {1, 2}
        /\ Exists(txn[s].view) => txn[s].view \in Rows
    BY TxnFields DEF TypeOK
  <1> QED BY <1>1, CommandTypes DEF PutRows, IncrementRows, NewRows

\* What Put changes, and that it keeps the types.
LEMMA PutDoes ==
    ASSUME TypeOK, NEW s \in Sessions, NEW d \in Values, Put(s, d)
    PROVE  /\ TypeOK' /\ Others(s)
           /\ txn[s].st = "open" /\ Exists(txn[s].view) /\ txn[s].view \in Rows /\ CanWrite(s)
           /\ PutRows(s, d) \in Rows
           /\ txn'[s].st = txn[s].st /\ txn'[s].start = txn[s].start /\ txn'[s].base = txn[s].base
           /\ txn'[s].view = PutRows(s, d) /\ txn'[s].writes = txn[s].writes + 1
           /\ obj'[s].buf = d /\ obj'[s].vers = PutRows(s, d)[written_row(GroupOf(s))].vers
           /\ SizedFor(s, bytes_size(d), TRUE)
           /\ ~left'[s] /\ settled'[s]
           /\ UNCHANGED <<rows, now, clock, seen>>
  <1> DEFINE v == PutRows(s, d)  o == FillBuffer(s, d)  u == v[written_row(GroupOf(s))].vers
             n == [o EXCEPT !.vers = u]
  <1>0. level \in Levels /\ table \in Tables
    BY DEF TypeOK
  <1>1. Exists(txn[s].view) /\ txn[s].view \in Rows /\ v \in Rows /\ u \in Versions
    BY TxnFields, RowsWritten DEF Put
  <1>2. /\ o \in Objects /\ o.buf = d /\ o.size = bytes_size(d) /\ o.fault = ResizeFault(obj[s], bytes_size(d))
        /\ o.cap = IF obj[s].buf = NoBuf THEN Greater(MinBuffer, bytes_size(d)) ELSE obj[s].cap
    BY Filled
  <1>3. Write(s, v) /\ obj' = [obj EXCEPT ![s] = n]
    BY DEF Put, save, PutRows
  <1> HIDE DEF v, o, u
  <1>4. n \in Objects
    BY <1>0, <1>1, <1>2, ObjectOps
  <1>5. n.buf = o.buf /\ n.vers = u /\ n.size = o.size /\ n.cap = o.cap /\ n.fault = o.fault
    BY <1>2 DEF Objects
  <1> HIDE DEF n
  <1>6. /\ txn' \in [Sessions -> Transactions] /\ TxnOf(s, Wrote(s, v))
        /\ txn'[s].st = txn[s].st /\ txn'[s].start = txn[s].start /\ txn'[s].base = txn[s].base
        /\ txn'[s].view = v /\ txn'[s].writes = txn[s].writes + 1
    BY <1>1, <1>3, WriteTxn
  <1>7. obj' \in [Sessions -> Objects] /\ Sets(obj, s, n)
    BY <1>3, <1>4, SetObj
  <1>8. left' \in [Sessions -> BOOLEAN] /\ Sets(left, s, FALSE)
    BY SetLeft DEF Put
  <1>9. settled' \in [Sessions -> BOOLEAN] /\ Sets(settled, s, TRUE)
    BY SetSettled DEF Put
  <1>10. (table = "IntStore" => bytes_size(d) = 4) /\ d # NoBuf
    BY <1>0, ObjectOps, Constants
  <1>11. table = "IntStore" => \A r \in Sessions : obj'[r].size = 4 /\ obj'[r].buf # NoBuf
    BY <1>2, <1>4, <1>5, <1>7, <1>10, IntKept
  <1>12. TypeOK'
    BY <1>6, <1>7, <1>8, <1>9, <1>11, TypeKept DEF Put, TypeOK
  <1>13. Others(s)
    BY <1>6, <1>7, <1>8, <1>9 DEF Others, TxnOf, Sets, Put
  <1>14. SizedFor(s, bytes_size(d), TRUE) /\ ~left'[s] /\ settled'[s] /\ obj'[s] = n
    BY <1>2, <1>5, <1>7, <1>8, <1>9, <1>10 DEF Sets, SizedFor, TypeOK
  <1> QED BY <1>1, <1>2, <1>5, <1>6, <1>12, <1>13, <1>14 DEF Put, u, v

\* What Increment changes, and that it keeps the types.
LEMMA IncrementDoes ==
    ASSUME TypeOK, NEW s \in Sessions, Increment(s)
    PROVE  /\ TypeOK' /\ Others(s)
           /\ table = "IntStore" /\ txn[s].st = "open" /\ CanWrite(s)
           /\ Exists(txn[s].view) /\ txn[s].view \in Rows /\ IncrementRows(s) \in Rows
           /\ txn[s].view[written_row(GroupOf(s))].data + 1 \in Values
           /\ txn'[s].st = txn[s].st /\ txn'[s].start = txn[s].start /\ txn'[s].base = txn[s].base
           /\ txn'[s].view = IncrementRows(s) /\ txn'[s].writes = txn[s].writes + 1
           /\ obj'[s].buf = obj[s].buf /\ obj'[s].vers = IncrementRows(s)[written_row(GroupOf(s))].vers
           /\ obj'[s].size = obj[s].size /\ obj'[s].cap = obj[s].cap /\ obj'[s].fault = obj[s].fault
           /\ ~settled'[s]
           /\ UNCHANGED <<rows, now, clock, left, seen>>
  <1> DEFINE v == IncrementRows(s)  u == v[written_row(GroupOf(s))].vers  n == [obj[s] EXCEPT !.vers = u]
  <1>0. level \in Levels /\ table \in Tables /\ obj[s] \in Objects
    BY TxnFields DEF TypeOK
  <1>1. Exists(txn[s].view) /\ txn[s].view \in Rows /\ v \in Rows /\ u \in Versions
    BY TxnFields, RowsWritten DEF Increment
  <1>2. Write(s, v) /\ obj' = [obj EXCEPT ![s] = n]
    BY DEF Increment, IncrementRows, TypeOK
  <1> HIDE DEF v, u
  <1>3. n \in Objects
    BY <1>0, <1>1, ObjectOps
  <1>4. /\ n.buf = obj[s].buf /\ n.vers = u /\ n.size = obj[s].size /\ n.cap = obj[s].cap
        /\ n.fault = obj[s].fault
    BY <1>0 DEF Objects
  <1> HIDE DEF n
  <1>5. /\ txn' \in [Sessions -> Transactions] /\ TxnOf(s, Wrote(s, v))
        /\ txn'[s].st = txn[s].st /\ txn'[s].start = txn[s].start /\ txn'[s].base = txn[s].base
        /\ txn'[s].view = v /\ txn'[s].writes = txn[s].writes + 1
    BY <1>1, <1>2, WriteTxn
  <1>6. obj' \in [Sessions -> Objects] /\ Sets(obj, s, n)
    BY <1>2, <1>3, SetObj
  <1>7. settled' \in [Sessions -> BOOLEAN] /\ Sets(settled, s, FALSE)
    BY SetSettled DEF Increment
  <1>8. table = "IntStore" => \A r \in Sessions : obj'[r].size = 4 /\ obj'[r].buf # NoBuf
    BY <1>3, <1>4, <1>6, IntKept DEF TypeOK
  <1>9. TypeOK'
    BY <1>5, <1>6, <1>7, <1>8, TypeKept DEF Increment, TypeOK
  <1>10. Others(s)
    BY <1>5, <1>6, <1>7 DEF Others, TxnOf, Sets, Increment
  <1>11. ~settled'[s] /\ obj'[s] = n
    BY <1>6, <1>7 DEF Sets
  <1> QED BY <1>1, <1>4, <1>5, <1>9, <1>10, <1>11 DEF Increment, u, v

\* What NewObject changes, and that it keeps the types.
LEMMA NewObjectDoes ==
    ASSUME TypeOK, NEW s \in Sessions, NEW d \in Values, NewObject(s, d)
    PROVE  /\ TypeOK' /\ Others(s)
           /\ txn[s].st = "open" /\ ~Exists(txn[s].view) /\ CanWrite(s)
           /\ NewRows(s, d) \in Rows
           /\ txn'[s].st = txn[s].st /\ txn'[s].start = txn[s].start /\ txn'[s].base = txn[s].base
           /\ txn'[s].view = NewRows(s, d) /\ txn'[s].writes = txn[s].writes + 1
           /\ obj'[s].buf = d /\ obj'[s].vers = (IF level = "strong" THEN 0 ELSE Zero)
           /\ obj'[s].size = bytes_size(d) /\ obj'[s].cap = Greater(MinBuffer, bytes_size(d))
           /\ obj'[s].fault = "none"
           /\ ~left'[s] /\ settled'[s]
           /\ UNCHANGED <<rows, now, clock, seen>>
  <1> DEFINE v == NewRows(s, d)  u == IF level = "strong" THEN 0 ELSE Zero
             n == [size |-> bytes_size(d), cap |-> Greater(MinBuffer, bytes_size(d)), buf |-> d, vers |-> u,
                   fault |-> "none"]
  <1>0. level \in Levels /\ table \in Tables
    BY DEF TypeOK
  <1>1. v \in Rows
    BY RowsWritten
  <1>2. bytes_size(d) \in Nat /\ (table = "IntStore" => bytes_size(d) = 4) /\ d # NoBuf
    BY <1>0, ObjectOps, Constants
  <1>3. n \in Objects
    <2>1. u \in Known
      BY DEF Known, Zero
    <2>2. Greater(MinBuffer, bytes_size(d)) \in Nat
      BY <1>2 DEF Greater, MinBuffer
    <2> HIDE DEF u
    <2> QED BY <1>2, <2>1, <2>2 DEF Objects, Faults
  <1>4. Write(s, v) /\ obj' = [obj EXCEPT ![s] = n]
    BY DEF NewObject, NewRows
  <1>5. /\ n.size = bytes_size(d) /\ n.cap = Greater(MinBuffer, bytes_size(d)) /\ n.buf = d /\ n.vers = u
        /\ n.fault = "none"
    OBVIOUS
  <1> HIDE DEF v, n
  <1>6. /\ txn' \in [Sessions -> Transactions] /\ TxnOf(s, Wrote(s, v))
        /\ txn'[s].st = txn[s].st /\ txn'[s].start = txn[s].start /\ txn'[s].base = txn[s].base
        /\ txn'[s].view = v /\ txn'[s].writes = txn[s].writes + 1
    BY <1>1, <1>4, WriteTxn
  <1>7. obj' \in [Sessions -> Objects] /\ Sets(obj, s, n)
    BY <1>3, <1>4, SetObj
  <1>8. left' \in [Sessions -> BOOLEAN] /\ Sets(left, s, FALSE)
    BY SetLeft DEF NewObject
  <1>9. settled' \in [Sessions -> BOOLEAN] /\ Sets(settled, s, TRUE)
    BY SetSettled DEF NewObject
  <1>10. table = "IntStore" => \A r \in Sessions : obj'[r].size = 4 /\ obj'[r].buf # NoBuf
    BY <1>2, <1>3, <1>5, <1>7, IntKept
  <1>11. TypeOK'
    BY <1>6, <1>7, <1>8, <1>9, <1>10, TypeKept DEF NewObject, TypeOK
  <1>12. Others(s)
    BY <1>6, <1>7, <1>8, <1>9 DEF Others, TxnOf, Sets, NewObject
  <1>13. ~left'[s] /\ settled'[s] /\ obj'[s] = n
    BY <1>7, <1>8, <1>9 DEF Sets
  <1> HIDE DEF u
  <1> QED BY <1>1, <1>5, <1>6, <1>11, <1>12, <1>13 DEF NewObject, u, v

---------------------------------------------------------------------------
(* Buffers *)

\* A buffer that resize_buffer has passed has room, or its assertion failed.
LEMMA SizedFits ==
    ASSUME TypeOK, TypeOK', NEW s \in Sessions, RoomOf(s), table' = table,
           NEW d \in Values, NEW grown \in BOOLEAN, table = "BlobStore" => grown,
           SizedFor(s, bytes_size(d), grown)
    PROVE  RoomOf(s)'
  <1> DEFINE n == bytes_size(d)  f == ResizeFault(obj[s], n)
  <1>1. /\ obj[s] \in Objects /\ obj[s].cap \in Nat /\ obj[s].size \in Nat /\ n \in Nat
        /\ table = "BlobStore" \/ table = "IntStore"
        /\ table = "IntStore" => n = 4 /\ obj[s].size = 4 /\ obj[s].buf # NoBuf
    BY TxnFields, Constants, ObjectOps DEF TypeOK
  <1>2. f = IF obj[s].fault # "none" \/ obj[s].buf = NoBuf THEN obj[s].fault
            ELSE IF n > obj[s].size /\ n > MinBuffer THEN "assertion"
            ELSE IF n > obj[s].cap THEN "data"
            ELSE IF MinBuffer > obj[s].cap THEN "clear" ELSE "none"
    BY DEF ResizeFault
  <1> HIDE DEF n, f
  <1>3. obj'[s].fault = IF grown THEN f ELSE obj[s].fault
    BY DEF SizedFor, f, n
  <1>4. CASE table = "IntStore"
    <2>1. obj'[s].cap = obj[s].cap
      BY <1>4 DEF SizedFor
    <2>2. f \in {"none", "clear"}
      BY <1>1, <1>2, <1>4 DEF RoomOf, MinBuffer
    <2> QED BY <1>3, <1>4, <2>1, <2>2 DEF RoomOf
  <1>5. CASE table = "BlobStore"
    <2>1. /\ obj'[s].size = n /\ obj'[s].fault = f
          /\ obj'[s].cap = IF obj[s].buf = NoBuf THEN Greater(MinBuffer, n) ELSE obj[s].cap
      BY <1>3, <1>5 DEF SizedFor, n
    <2>2. f \in {"none", "assertion"}
      BY <1>1, <1>2, <1>5 DEF RoomOf, MinBuffer
    <2>3. f = "none" => obj'[s].cap >= n /\ obj'[s].cap >= MinBuffer
      BY <1>1, <1>2, <1>5, <2>1 DEF Greater, MinBuffer
    <2> QED BY <1>5, <2>1, <2>2, <2>3 DEF RoomOf
  <1> QED BY <1>1, <1>4, <1>5

\* Every step keeps what an object's buffer has room for.
LEMMA RoomStep ==
    ASSUME TypeOK, TypeOK', RoomInv, [Next]_vars
    PROVE  RoomInv'
  <1>1. \A s \in Sessions : RoomOf(s)
    BY DEF RoomInv
  <1>2. SUFFICES \A s \in Sessions : RoomOf(s)'
    BY DEF RoomInv
  <1>3. table' = table /\ (table = "BlobStore" \/ table = "IntStore")
    BY Constants DEF TypeOK, Next, vars, Begin, Snapshot, Get, FailGet, Increment, Commit, Abort, Receive, Put,
       FailPut, NewObject, Done
  <1>4. ASSUME NEW s \in Sessions, Others(s), RoomOf(s)' PROVE \A r \in Sessions : RoomOf(r)'
    BY <1>1, <1>3, <1>4 DEF Others, RoomOf
  <1>5. ASSUME obj' = obj PROVE \A r \in Sessions : RoomOf(r)'
    BY <1>1, <1>3, <1>5 DEF RoomOf
  <1>6. ASSUME NEW s \in Sessions, Get(s) PROVE \A r \in Sessions : RoomOf(r)'
    <2>1. Exists(txn[s].view) /\ txn[s].view[0].data \in Values
      BY <1>6, GetDoes, Row0
    <2>2. RoomOf(s)'
      <3>1. CASE obj'[s] = obj[s]
        BY <1>1, <1>3, <3>1 DEF RoomOf
      <3>2. CASE SizedFor(s, bytes_size(txn[s].view[0].data), table = "BlobStore")
        <4>1. PICK b \in BOOLEAN : b = (table = "BlobStore")
          OBVIOUS
        <4>2. SizedFor(s, bytes_size(txn[s].view[0].data), b)
          BY <3>2, <4>1 DEF SizedFor
        <4> QED BY <1>1, <1>3, <2>1, <4>1, <4>2, SizedFits
      <3> QED BY <1>6, <3>1, <3>2, GetDoes
    <2> QED BY <1>4, <1>6, <2>2, GetDoes
  <1>7. ASSUME NEW s \in Sessions, FailGet(s) \/ Increment(s) PROVE \A r \in Sessions : RoomOf(r)'
    <2>1. /\ obj'[s].size = obj[s].size /\ obj'[s].cap = obj[s].cap /\ obj'[s].buf = obj[s].buf
          /\ obj'[s].fault = obj[s].fault /\ Others(s)
      BY <1>7, FailGetDoes, IncrementDoes
    <2>2. RoomOf(s)'
      BY <1>1, <1>3, <2>1 DEF RoomOf
    <2> QED BY <1>4, <2>1, <2>2
  <1>8. ASSUME NEW s \in Sessions, NEW d \in Values, Put(s, d) \/ FailPut(s, d)
        PROVE  \A r \in Sessions : RoomOf(r)'
    <2>1. SizedFor(s, bytes_size(d), TRUE) /\ Others(s)
      BY <1>8, PutDoes, FailPutDoes
    <2>2. RoomOf(s)'
      BY <1>1, <1>3, <2>1, SizedFits
    <2> QED BY <1>4, <2>1, <2>2
  <1>9. ASSUME NEW s \in Sessions, NEW d \in Values, NewObject(s, d) PROVE \A r \in Sessions : RoomOf(r)'
    <2>1. /\ obj'[s].size = bytes_size(d) /\ obj'[s].cap = Greater(MinBuffer, bytes_size(d)) /\ Others(s)
          /\ obj'[s].fault = "none"
      BY <1>9, NewObjectDoes
    <2>2. bytes_size(d) \in Nat
      BY ObjectOps DEF TypeOK
    <2>3. RoomOf(s)'
      BY <2>1, <2>2 DEF RoomOf, Greater, MinBuffer
    <2> QED BY <1>4, <2>1, <2>3
  <1>10. ASSUME NEW s \in Sessions, Receive(s) PROVE \A r \in Sessions : RoomOf(r)'
    <2>1. obj'[s] = received_object(obj[s].size) /\ Others(s) /\ obj[s].size \in Nat
      BY <1>10, ReceiveDoes, TxnFields
    <2>2. table = "IntStore" => obj[s].size = 4
      BY DEF TypeOK
    <2>3. RoomOf(s)'
      BY <1>3, <2>1, <2>2 DEF RoomOf, received_object, Greater, MinBuffer, NoBuf, Garbage, Huge
    <2> QED BY <1>4, <2>1, <2>3
  <1>11. ASSUME NEW s \in Sessions, Begin(s) \/ Snapshot(s) \/ Commit(s) \/ Abort(s) PROVE obj' = obj
    BY <1>11 DEF Begin, Snapshot, Commit, Abort
  <1>12. CASE Done \/ UNCHANGED vars
    BY <1>5, <1>12 DEF Done, vars
  <1> QED BY <1>5, <1>6, <1>7, <1>8, <1>9, <1>10, <1>11, <1>12 DEF Next

\* A session that has written has rows in its view.
WroteRows == \A s \in Sessions : txn[s].writes > 0 => Exists(txn[s].view) /\ txn[s].st = "open"

\* Every step of a session keeps the types.
LEMMA TypeStep ==
    ASSUME TypeOK, WroteRows, [Next]_vars
    PROVE  TypeOK' /\ WroteRows'
  <1>1. CASE Done \/ UNCHANGED vars
    <2>1. UNCHANGED vars
      BY <1>1 DEF Done
    <2>2. Rows' = Rows /\ Versions' = Versions /\ Known' = Known
      BY <2>1 DEF Rows, Versions, Known, vars
    <2>3. Transactions' = Transactions /\ Objects' = Objects /\ Histories' = Histories
      BY <2>2 DEF Transactions, Objects, Histories
    <2> QED BY <2>1, <2>2, <2>3 DEF TypeOK, vars, WroteRows
  <1>2. ASSUME NEW s \in Sessions, Others(s),
               txn'[s].writes > 0 => Exists(txn'[s].view) /\ txn'[s].st = "open"
        PROVE  WroteRows'
    BY <1>2 DEF WroteRows, Others
  <1>3. Idle.writes = 0 /\ \A n : Began(n).writes = 0
    BY DEF Idle, Began
  <1>4. ASSUME NEW s \in Sessions, Begin(s) PROVE TypeOK' /\ WroteRows'
    <2>1. TypeOK' /\ Others(s) /\ txn'[s] = Began(now')
      BY <1>4, BeginDoes
    <2>2. ~(txn'[s].writes > 0)
      BY <1>3, <2>1
    <2> QED BY <1>2, <2>1, <2>2
  <1>5. ASSUME NEW s \in Sessions, Snapshot(s) PROVE TypeOK' /\ WroteRows'
    <2>1. /\ TypeOK' /\ Others(s) /\ txn'[s].view = rows /\ txn'[s].writes = txn[s].writes
          /\ txn[s].st = "begun"
      BY <1>5, SnapshotDoes
    <2> QED BY <1>2, <2>1, TxnFields DEF WroteRows
  <1>6. ASSUME NEW s \in Sessions, Commit(s) PROVE TypeOK' /\ WroteRows'
    <2>1. txn[s].writes > 0 => Exists(txn[s].view)
      BY DEF WroteRows
    <2>2. TypeOK' /\ Others(s) /\ txn'[s] = Idle
      BY <1>6, <2>1, CommitDoes
    <2> QED BY <1>2, <1>3, <2>2
  <1>7. ASSUME NEW s \in Sessions, TypeOK', Others(s), txn'[s] = Idle PROVE TypeOK' /\ WroteRows'
    BY <1>2, <1>3, <1>7
  <1>8. ASSUME NEW s \in Sessions, Receive(s) \/ Get(s) PROVE TypeOK' /\ WroteRows'
    <2>1. TypeOK' /\ Others(s) /\ txn' = txn
      BY <1>8, ReceiveDoes, GetDoes
    <2> QED BY <1>2, <2>1 DEF WroteRows
  <1>9. ASSUME NEW s \in Sessions, TypeOK', Others(s), txn[s].st = "open", txn'[s].st = txn[s].st,
               NEW v \in Rows, txn'[s].view = v
        PROVE  TypeOK' /\ WroteRows'
    BY <1>2, <1>9, RowsExist
  <1>10. ASSUME NEW s \in Sessions, Increment(s) PROVE TypeOK' /\ WroteRows'
    BY <1>9, <1>10, IncrementDoes
  <1>11. ASSUME NEW s \in Sessions, NEW d \in Values, Put(s, d) PROVE TypeOK' /\ WroteRows'
    <2>1. TypeOK' /\ Others(s) /\ txn[s].st = "open" /\ txn'[s].st = txn[s].st
      BY <1>11, PutDoes
    <2>2. PutRows(s, d) \in Rows /\ txn'[s].view = PutRows(s, d)
      BY <1>11, PutDoes
    <2> QED BY <1>9, <2>1, <2>2
  <1>12. ASSUME NEW s \in Sessions, NEW d \in Values, NewObject(s, d) PROVE TypeOK' /\ WroteRows'
    BY <1>9, <1>12, NewObjectDoes
  <1>13. ASSUME NEW s \in Sessions, Abort(s) PROVE TypeOK' /\ WroteRows'
    BY <1>7, <1>13, AbortDoes
  <1>14. ASSUME NEW s \in Sessions, FailGet(s) PROVE TypeOK' /\ WroteRows'
    BY <1>7, <1>14, FailGetDoes
  <1>15. ASSUME NEW s \in Sessions, NEW d \in Values, FailPut(s, d) PROVE TypeOK' /\ WroteRows'
    BY <1>7, <1>15, FailPutDoes
  <1> QED BY <1>1, <1>4, <1>5, <1>6, <1>8, <1>10, <1>11, <1>12, <1>13, <1>14, <1>15 DEF Next

\* resize_buffer keeps a buffer that is not null, whatever the new size; what is
\* written then stays inside it unless the assertion fails, for values of every
\* size.  RoomInv is the strengthening: a blob's buffer that no assertion failed
\* on has the object's size and at least 2048 bytes.
THEOREM BuffersSuffice == Spec => []BufferFits
  <1>1. Init => TypeOK /\ WroteRows /\ RoomInv
    <2> SUFFICES ASSUME Init PROVE TypeOK /\ WroteRows /\ RoomInv
      OBVIOUS
    <2>1. TypeOK
      BY TypeInit
    <2>2. \A s \in Sessions : txn[s] = Idle /\ obj[s] = existing_object(table)
      BY DEF Init
    <2>3. WroteRows
      BY <2>2 DEF WroteRows, Idle
    <2>4. RoomInv
      <3>1. /\ existing_object(table).fault = "none"
            /\ table = "IntStore" => existing_object(table).cap >= 4
            /\ table # "IntStore" => existing_object(table).buf = NoBuf
        BY DEF existing_object
      <3> QED BY <2>2, <3>1 DEF RoomInv, RoomOf
    <2> QED BY <2>1, <2>3, <2>4
  <1>2. TypeOK /\ WroteRows /\ RoomInv /\ [Next]_vars => (TypeOK /\ WroteRows /\ RoomInv)'
    BY TypeStep, RoomStep
  <1>3. TypeOK /\ RoomInv => BufferFits
    BY Constants DEF TypeOK, RoomInv, RoomOf, BufferFits
  <1> QED BY <1>1, <1>2, <1>3, PTL DEF Spec
============================================================================
