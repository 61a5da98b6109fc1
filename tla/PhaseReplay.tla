---------------------------- MODULE PhaseReplay ----------------------------
(***************************************************************************)
(* One client runs a split transaction, phase by phase.  A phase finds the *)
(* values that stronger phases bound in the logs of the client's variable  *)
(* store and steps through them as it repeats the control flow.  A phase   *)
(* of a remote label runs at a relay, on a store that holds what the phase *)
(* requires; the relay sends back what it provides.                        *)
(*                                                                         *)
(* The attempts of a phase are atomic towards its store (MixedTransaction  *)
(* models what happens inside); between them other clients write.          *)
(***************************************************************************)
EXTENDS Recollapse, DirectSemantics, Integers

CONSTANTS
    Programs,       \* a sequence of transactions
    Objects,        \* the objects handles refer to
    ObjectLabel,    \* the label of each object's store
    InitialValues,  \* what objects may hold before the transaction
    MaxAborts,      \* bound: attempts that fail with a SerializationFailure
    MaxWrites,      \* bound: writes of other clients
    Written         \* the value other clients write

\* Temporaries of different branches can get one name; these transactions are
\* not among them.
ASSUME NamesApart ==
    \A i \in DOMAIN Programs : BoundOnce(flatten_expressions(Programs[i].body))

VARIABLES
    tx,         \* the compiled transaction
    k,          \* index of the phase the client is at
    mode,       \* "ready" before an attempt, "run" in it, "failed", "done",
                \* "rejected" when the transaction does not compile
    stack,      \* what is left of the phase's statement
    store,      \* the client's variable store
    work,       \* the store the attempt runs on
    db,         \* committed values of the objects
    txn,        \* the objects as the attempt's SQL transaction sees them
    marks,      \* the attempt's SQL transaction: the labels it writes a
                \* tombstone for, the objects it assigns and those whose
                \* metadata it makes name the tombstone
    marked,     \* the same, committed
    returned,   \* the value the transaction returned, or NoValue
    aborts, writes,
    seen,       \* history: the objects of a committed phase as it found them
    left        \* history: and as it left them

vars == <<tx, k, mode, stack, store, work, db, txn, marks, marked,
          returned, aborts, writes, seen, left>>

NoValue == -1
NoMarks == [tombstones |-> {}, assigned |-> {}, accompanied |-> {}]

T == tx.t
Phases == tx.phases
Phase == Phases[k]
RunRemotely(l) == l \in {Strong, Causal}

-----------------------------------------------------------------------------
(* Variable stores.  Every holder is a log with a position, 0 being        *)
(* curr_pos = -1; a value_holder is a log of at most one value.  objLog is *)
(* the remote map: one log per object, shared by the variables bound to it.*)

Names ==
    DOMAIN T.env \cup DOMAIN T.lab \cup UNION {Phases[i].provides : i \in DOMAIN Phases}
        \cup UNION {Phases[i].owned : i \in DOMAIN Phases}

IsRemote(x) == x \in DOMAIN T.remote
IsScalar(x) ==
    \/ x \in DOMAIN T.env
    \/ x \in Names \ (DOMAIN T.env \cup DOMAIN T.lab)
    \/ ~IsRemote(x) /\ \E i \in DOMAIN Phases : x \in Phases[i].owned

EmptyStore ==
    [log |-> [x \in Names |-> <<>>], pos |-> [x \in Names |-> 0],
     objLog |-> [o \in Objects |-> <<>>], objPos |-> [o \in Objects |-> 0]]

\* The store constructor binds the arguments.
ArgumentStore ==
    [EmptyStore EXCEPT !.log =
        [x \in Names |-> IF x \in DOMAIN T.env THEN <<T.env[x]>> ELSE <<>>]]

HasHandle(w, x) == w.pos[x] \in DOMAIN w.log[x]
BoundObject(w, x) == w.log[x][w.pos[x]]

\* The read is in range: no assertion fails, no vector is overrun, nothing is
\* read before it is written.
CanGet(w, x) ==
    IF IsScalar(x) THEN w.log[x] # <<>>
    ELSE /\ w.pos[x] \in DOMAIN w.log[x]
         /\ IsRemote(x) =>
                w.objPos[BoundObject(w, x)] \in DOMAIN w.objLog[BoundObject(w, x)]

get(w, x) ==
    IF IsScalar(x) THEN w.log[x][1]
    ELSE IF IsRemote(x) THEN w.objLog[BoundObject(w, x)][w.objPos[BoundObject(w, x)]]
    ELSE w.log[x][w.pos[x]]

\* bind and push of a value_holder or a type_holder.
bind(w, x, v) ==
    IF IsScalar(x) THEN [w EXCEPT !.log[x] = <<v>>]
    ELSE [w EXCEPT !.log[x] = Append(@, v), !.pos[x] = @ + 1]

push_object(w, o, v) == [w EXCEPT !.objLog[o] = Append(@, v), !.objPos[o] = @ + 1]

\* remote_holder::increment does nothing before the variable is bound.
increment(w, x) ==
    IF IsRemote(x)
    THEN IF w.pos[x] = 0 THEN w ELSE [w EXCEPT !.objPos[BoundObject(w, x)] = @ + 1]
    ELSE [w EXCEPT !.pos[x] = @ + 1]

increment_remote(w, x) == increment([w EXCEPT !.pos[x] = @ + 1], x)

begin_phase(w) ==
    [w EXCEPT !.pos = [x \in DOMAIN w.pos |-> 0], !.objPos = [o \in Objects |-> 0]]

\* What is sent of a holder: of a value_holder its memory, which is zero before
\* it is bound, and which the receiver takes for a value.
serialize_holder(w, x) ==
    IF IsScalar(x) /\ w.log[x] = <<>> THEN <<0>> ELSE w.log[x]

\* send_store_values and receive_store_values: from one store, the named
\* variables and the remote maps of label l; the rest from the other store.
Transfer(from, to, names, l) ==
    [log |-> [x \in DOMAIN to.log |-> IF x \in names THEN serialize_holder(from, x) ELSE to.log[x]],
     pos |-> [x \in DOMAIN to.pos |-> IF x \in names THEN from.pos[x] ELSE to.pos[x]],
     objLog |-> [o \in Objects |-> IF ObjectLabel[o] = l THEN from.objLog[o] ELSE to.objLog[o]],
     objPos |-> [o \in Objects |-> IF ObjectLabel[o] = l THEN from.objPos[o] ELSE to.objPos[o]]]

\* The store a phase starts from, and what the client has after it.
StoreFor(ph) ==
    IF RunRemotely(ph.label) THEN Transfer(store, EmptyStore, ph.requirements, ph.label)
    ELSE store

StoreAfter(ph, w) ==
    IF RunRemotely(ph.label) THEN Transfer(w, store, ph.provides, ph.label) ELSE w

-----------------------------------------------------------------------------
(* Attempts (common_interp_loop)                                           *)

\* A holder the phase never binds has no place in its store: the relay has a
\* remote map only for the handles of variables the phase names.
HasRemoteMap(ph, h) ==
    ~RunRemotely(ph.label)
        \/ \E x \in DOMAIN T.remote :
            /\ x \in ph.requirements \cup ph.provides \cup ph.owned
            /\ T.handle[T.remote[x]] = T.handle[h]

Init ==
    /\ tx \in {Compile(Programs[i]) : i \in DOMAIN Programs}
    /\ k = 1
    /\ mode = IF tx.accepted THEN "ready" ELSE "rejected"
    /\ stack = <<>>
    /\ store = ArgumentStore
    /\ work = EmptyStore
    /\ db \in [Objects -> InitialValues]
    /\ txn = db
    /\ marks = NoMarks
    /\ marked = NoMarks
    /\ returned = NoValue
    /\ aborts = 0
    /\ writes = 0
    /\ seen = [o \in Objects |-> 0]
    /\ left = [o \in Objects |-> 0]

BeginAttempt ==
    /\ mode = "ready"
    /\ mode' = "run"
    /\ stack' = Spliced(<<Phase.ast>>)
    /\ work' = begin_phase(StoreFor(Phase))
    /\ txn' = db
    /\ marks' = marked
    /\ UNCHANGED <<tx, k, store, db, marked, returned, aborts, writes, seen, left>>

\* Mutant: the next attempt goes on with the variables of the failed one.
AbortAttemptKeepsClone ==
    /\ mode = "run" /\ RunRemotely(Phase.label) /\ aborts < MaxAborts
    /\ mode' = IF Phase.label = Strong THEN "failed" ELSE "ready"
    /\ aborts' = aborts + 1
    /\ stack' = <<>>
    /\ store' = StoreAfter(Phase, work)
    /\ work' = EmptyStore
    /\ txn' = db
    /\ marks' = marked
    /\ UNCHANGED <<tx, k, db, marked, returned, writes, seen, left>>

\* A SerializationFailure: the clone and the SQL transaction are dropped.  A
\* phase that can abort fails the call, another one is tried again.
AbortAttempt ==
    /\ mode = "run" /\ RunRemotely(Phase.label) /\ aborts < MaxAborts
    /\ mode' = IF Phase.label = Strong THEN "failed" ELSE "ready"
    /\ aborts' = aborts + 1
    /\ stack' = <<>>
    /\ work' = EmptyStore
    /\ txn' = db
    /\ marks' = marked
    /\ UNCHANGED <<tx, k, store, db, marked, returned, writes, seen, left>>

OfPhase(o) == ObjectLabel[o] = Phase.label

\* What the phase wrote becomes its store's; the last phase ends the transaction.
CommitPhase ==
    /\ mode = "run" /\ stack = <<>>
    /\ db' = [o \in Objects |-> IF OfPhase(o) THEN txn[o] ELSE db[o]]
    /\ seen' = [o \in Objects |-> IF OfPhase(o) THEN db[o] ELSE seen[o]]
    /\ left' = [o \in Objects |-> IF OfPhase(o) THEN txn[o] ELSE left[o]]
    /\ marked' = marks
    /\ store' = StoreAfter(Phase, work)
    /\ work' = EmptyStore
    /\ mode' = IF k = Len(Phases) THEN "done" ELSE "ready"
    /\ k' = IF k = Len(Phases) THEN k ELSE k + 1
    /\ UNCHANGED <<tx, stack, txn, marks, returned, aborts, writes>>

\* Another client's transaction.
OtherWrites(o) ==
    /\ mode = "ready" /\ writes < MaxWrites /\ db[o] # Written
    /\ db' = [db EXCEPT ![o] = Written]
    /\ writes' = writes + 1
    /\ UNCHANGED <<tx, k, mode, stack, store, work, txn, marks, marked, returned, aborts, seen, left>>

-----------------------------------------------------------------------------
(* Statements (run_phase)                                                  *)

At(kind) == mode = "run" /\ stack # <<>> /\ Head(stack).s = kind
Here == Head(stack)

\* What is left once st replaces the statement here.
Then(st) == Spliced(<<st>>) \o Tail(stack)

\* The variables whose values the statement here asks for.
Reads(st) ==
    CASE st.s = "assign" ->
            Vars(st.e) \cup IF is_var_reference(st.x) THEN {} ELSE Vars(st.x)
      [] st.s = "loop" -> Vars(st.w.c)
      [] st.s = "foreach" -> {st.name}
      [] st.s = "accompany" -> {Tombstone}
      [] st.s \in {"while", "incr", "incrRemote"} -> {}
      [] OTHER -> Mentioned(st)

\* The statement can run; the attempt is stuck at one that cannot.
Defined(st) ==
    /\ \A x \in Reads(st) : CanGet(work, x)
    /\ st.s = "assign" =>
        /\ IsRemote(base_var(st.x)) => HasHandle(work, base_var(st.x))
        /\ IsScalar(base_var(st.x)) => work.log[base_var(st.x)] # <<>>
    /\ st.s = "accompany" => HasHandle(work, base_var(st.x))
    /\ st.s = "incrRemote" => work.pos[st.x] < Len(work.log[st.x])

\* The nonce that GenerateTombstone makes.
Nonce == 0

RECURSIVE Eval(_)
Eval(e) ==
    CASE e.e = "constant" -> e.n
      [] e.e = "tombstone" -> Nonce
      [] e.e = "var" /\ e.x \in Builtins -> IF e.x = True THEN 1 ELSE 0
      [] e.e = "var" /\ e.x \notin Builtins -> get(work, e.x)
      [] e.e = "field" -> Eval(e.of)
      [] e.e = "+" -> Eval(e.l) + Eval(e.r)
      [] e.e = "<" -> IF Eval(e.l) < Eval(e.r) THEN 1 ELSE 0

\* A statement that leaves the phase, the client's store and the stores alone.
Local ==
    UNCHANGED <<tx, k, mode, store, db, marked, returned, aborts, writes, seen, left>>

RunLet ==
    /\ At("let") /\ Defined(Here)
    /\ work' = bind(work, Here.x, Eval(Here.e))
    /\ stack' = Then(Here.body)
    /\ UNCHANGED <<txn, marks>> /\ Local

RunLetRemote ==
    /\ At("remote") /\ Defined(Here)
    /\ LET o == Eval(Here.h)
       IN  work' = push_object(
                [work EXCEPT !.log[Here.x] = Append(@, o), !.pos[Here.x] = @ + 1], o, txn[o])
    /\ stack' = Then(Here.body)
    /\ UNCHANGED <<txn, marks>> /\ Local

RunAssignment ==
    /\ At("assign") /\ Defined(Here)
    /\ LET v == Eval(Here.e)
           x == base_var(Here.x)
           hs == work.log[x]
       IN  IF IsRemote(x)
           THEN /\ work' = push_object(work, BoundObject(work, x), v)
                /\ txn' = [txn EXCEPT ![hs[Len(hs)]] = v]
                /\ marks' = [marks EXCEPT !.assigned = @ \cup {hs[Len(hs)]}]
           ELSE work' = bind(work, x, v) /\ UNCHANGED <<txn, marks>>
    /\ stack' = Tail(stack)
    /\ Local

\* The metadata of the object the variable is bound to names the tombstone.
RunAccompanyWrite ==
    /\ At("accompany") /\ Defined(Here)
    /\ marks' = [marks EXCEPT !.accompanied = @ \cup {BoundObject(work, base_var(Here.x))}]
    /\ stack' = Tail(stack)
    /\ UNCHANGED <<work, txn>> /\ Local

\* The tombstone is written to the store of the phase.
RunWriteTombstone ==
    /\ At("writeTombstone") /\ Defined(Here)
    /\ marks' = [marks EXCEPT !.tombstones = @ \cup {Phase.label}]
    /\ stack' = Tail(stack)
    /\ UNCHANGED <<work, txn>> /\ Local

\* The operation adds its argument to the object.
RunOperation ==
    /\ At("op") /\ Defined(Here)
    /\ txn' = [txn EXCEPT ![Eval(Here.h)] = @ + Eval(Here.a)]
    /\ stack' = Tail(stack)
    /\ UNCHANGED <<work, marks>> /\ Local

RunRefresh ==
    /\ At("refresh") /\ Defined(Here)
    /\ LET o == Eval(Here.h)
       IN  work' = IF HasRemoteMap(Phase, Here.h.x) THEN push_object(work, o, txn[o]) ELSE work
    /\ stack' = Tail(stack)
    /\ UNCHANGED <<txn, marks>> /\ Local

RunIncrement ==
    /\ At("incr")
    /\ work' = increment(work, Here.x)
    /\ stack' = Tail(stack)
    /\ UNCHANGED <<txn, marks>> /\ Local

RunIncrementRemote ==
    /\ At("incrRemote") /\ Defined(Here)
    /\ work' = increment_remote(work, Here.x)
    /\ stack' = Tail(stack)
    /\ UNCHANGED <<txn, marks>> /\ Local

RunIf ==
    /\ At("if") /\ Defined(Here)
    /\ stack' = Then(IF Eval(Here.c) # 0 THEN Here.then ELSE Here.els)
    /\ UNCHANGED <<work, txn, marks>> /\ Local

\* The loop's counter starts at 0; "loop" is the test before each iteration.
RunWhile ==
    /\ At("while")
    /\ work' = bind(work, Here.name, 0)
    /\ stack' = <<[s |-> "loop", w |-> Here, i |-> 0]>> \o Tail(stack)
    /\ UNCHANGED <<txn, marks>> /\ Local

RunLoop ==
    /\ At("loop") /\ Defined(Here)
    /\ IF Eval(Here.w.c) # 0
       THEN /\ work' = bind(work, Here.w.name, Here.i + 1)
            /\ stack' = Spliced(<<Here.w.body>>) \o <<[Here EXCEPT !.i = @ + 1]>> \o Tail(stack)
       ELSE UNCHANGED work /\ stack' = Tail(stack)
    /\ UNCHANGED <<txn, marks>> /\ Local

\* The body as many times as the stronger phase ran it.
RunForEach ==
    /\ At("foreach") /\ Defined(Here)
    /\ stack' = Spliced([i \in 1..get(work, Here.name) |-> Here.body]) \o Tail(stack)
    /\ UNCHANGED <<work, txn, marks>> /\ Local

\* ReturnedValue leaves the statement; the phase then commits.
RunReturn ==
    /\ At("return") /\ Defined(Here)
    /\ returned' = Eval(Here.e)
    /\ stack' = <<>>
    /\ UNCHANGED <<tx, k, mode, store, work, db, txn, marks, marked, aborts, writes, seen, left>>

RunStatement ==
    \/ RunLet \/ RunLetRemote \/ RunAssignment \/ RunOperation \/ RunRefresh
    \/ RunAccompanyWrite \/ RunWriteTombstone \/ RunIncrement \/ RunIncrementRemote \/ RunIf \/ RunWhile \/ RunLoop
    \/ RunForEach \/ RunReturn

Next ==
    \/ BeginAttempt \/ AbortAttempt \/ CommitPhase
    \/ \E o \in Objects : OtherWrites(o)
    \/ RunStatement

Spec == Init /\ [][Next]_vars

-----------------------------------------------------------------------------
(* Properties                                                              *)

Meaning(objects) == Direct(tx.source.body, T.env, DOMAIN T.remote, objects, NoValue)

\* The split transaction means what the unsplit one means: run on what each
\* phase found in its store, the transaction's own statements return the value
\* the client got and leave every object as its phase left it
\* (split_phase.hpp, run_phase.hpp, environments.hpp).
SplitMeansUnsplit ==
    mode = "done" =>
        LET m == Meaning(seen) IN returned = m.ret /\ left = m.obj

\* The phases that have committed did what the transaction does, whatever the
\* weaker stores will turn out to hold: stronger effects never depend on weaker
\* data, so retrying a weaker phase cannot call for another strong phase
\* (label_inference.hpp).
CommittedEffectsStand ==
    LET committed == {o \in Objects : \E i \in 1..(k - 1) : Phases[i].label = ObjectLabel[o]}
        m == Meaning([o \in Objects |-> IF o \in committed THEN seen[o] ELSE db[o]])
    IN  mode = "ready" => \A o \in committed : left[o] = m.obj[o]

\* A transaction with a strong and a causal phase leaves no strong object
\* assigned without metadata that names its tombstone, and has written the
\* tombstone to the strong store by then and to the causal store when it is
\* done, whatever path its control flow took (insert_tracking.hpp,
\* split_phase.hpp).
TrackedWrites ==
    LET labels == {Phases[i].label : i \in DOMAIN Phases}
        assigned == {o \in marked.assigned : ObjectLabel[o] = Strong}
    IN  {Strong, Causal} \subseteq labels /\ assigned # {} =>
            /\ assigned \subseteq marked.accompanied
            /\ Strong \in marked.tombstones
            /\ mode = "done" => Causal \in marked.tombstones

\* Every value a phase asks for is in the store it runs on, at the position it
\* has stepped to (the assertions in environments.hpp).
ReadsAreDefined == mode = "run" /\ stack # <<>> => Defined(Here)

\* What a phase has bound is never bound again: no step changes the log of a
\* variable once the phase of the variable's label has committed.
BoundByOnePhase ==
    [][\A x \in DOMAIN T.lab :
        (\E i \in 1..(k - 1) : Phases[i].label = T.lab[x]) =>
            /\ store'.log[x] = store.log[x]
            /\ work'.log[x] \in {<<>>, store.log[x]}]_vars

\* A reference for infer_labels: a variable's label is the weakest label from
\* which constraints lead to the variable's temporary label.
RECURSIVE Reachable(_, _)
Reachable(cs, ns) ==
    LET more == ns \cup {c.to : c \in {d \in cs : d.from \in ns}}
    IN  IF more = ns THEN ns ELSE Reachable(cs, more)

Sources(cs, temp) == {l \in Labels : temp \in Reachable(cs, {Node(l)})}

\* Inference gives every variable the strongest label its constraints allow,
\* and a transaction is refused just when some concrete label is forced to flow
\* to a stronger one: a variable of a phase only depends on data of that label
\* or stronger (label_inference.hpp).
LabelsAreLeast ==
    LET t == typecheck(tx.flat)
        cs == Constraints(t)
    IN  k = 1 /\ mode \in {"ready", "rejected"} /\ writes = 0 /\ aborts = 0 =>
            /\ FlowsAllowed(t) <=>
                \A l, m \in Labels : Node(m) \in Reachable(cs, {Node(l)}) => flows_to(l, m)
            /\ FlowsAllowed(t) => \A x \in DOMAIN t.temp :
                LET sources == Sources(cs, t.temp[x])
                IN  T.lab[x] \in sources /\ \A l \in sources : flows_to(l, T.lab[x])
=============================================================================
