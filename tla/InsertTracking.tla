--------------------------- MODULE InsertTracking ---------------------------
(***************************************************************************)
(* Tracking is compiled into a transaction (mtl/insert_tracking.hpp,       *)
(* mtl/writes_remote.hpp): when it touches a causal and a strong store and *)
(* writes a remote object, it makes a tombstone, writes it to both stores, *)
(* and accompanies every strong write with metadata that names it.         *)
(***************************************************************************)
EXTENDS LabelInference, TLC

-----------------------------------------------------------------------------
(* Labels of statements                                                    *)

\* The label a statement runs at, once do_pre_endorse has rebuilt the tree.
StatementLabel(t, st) ==
    CASE st.s \in {"let", "remote"} -> t.lab[st.x]
      [] st.s = "assign" ->
            LET x == base_var(st.x)
            IN  IF x \in DOMAIN t.remote THEN t.handle[t.remote[x]] ELSE t.lab[x]
      [] st.s = "op" -> t.handle[st.h.x]
      [] st.s = "return" -> Bottom
      [] st.s \in {"accompany", "writeTombstone"} -> st.l
      [] st.s \in {"if", "while"} ->
            LET c == st.c.x
            IN  IF c \in DOMAIN t.env \cup Builtins THEN Top
                ELSE IF c \in DOMAIN t.remote THEN t.handle[t.remote[c]] ELSE t.lab[c]

RECURSIVE LabelsIn(_, _)
LabelsIn(t, st) ==
    (IF st.s = "seq" THEN {} ELSE {StatementLabel(t, st)})
        \cup UNION {LabelsIn(t, Children(st)[i]) : i \in DOMAIN Children(st)}

\* collect_proper_labels, strongest first; arguments and constants are of label
\* top.
ProperLabels(t) ==
    LET used == {Top} \cup LabelsIn(t, t.body)
    IN  SelectSeq(<<Top, Strong, Causal, Bottom>>, LAMBDA l : l \in used)

-----------------------------------------------------------------------------
(* writes_remote                                                           *)

\* An operation counts as no write.
RECURSIVE writes_remote(_, _)
writes_remote(st, remote_names) ==
    CASE st.s = "remote" -> writes_remote(st.body, remote_names \cup {st.x})
      [] st.s = "assign" -> base_var(st.x) \in remote_names
      [] OTHER ->
            \E i \in DOMAIN Children(st) : writes_remote(Children(st)[i], remote_names)

-----------------------------------------------------------------------------
(* insert_tracking                                                         *)

tracks_against(l, m) == l = Causal /\ m = Strong

\* tracked_labels: of the pairs that track, the strong and the weak partners.
tracked_labels(labels) ==
    [strong |-> {m \in labels : \E l \in labels : tracks_against(l, m)},
     weak |-> {l \in labels : \E m \in labels : tracks_against(l, m)}]

Tombstone == <<"tombstone">>

write_tombstones(labels) ==
    Sequence([i \in 1..Cardinality(labels) |->
        WriteTombstone(VarReference(Tombstone),
            CHOOSE l \in labels : Cardinality({m \in labels : flows_to(l, m)}) = i)])

\* Mutant: an assignment to a field of a remote variable is not accompanied.
AccompaniedUnlessField(st, l) ==
    IF is_var_reference(st.x) THEN Sequence(<<st, AccompanyWrite(st.x, l)>>) ELSE st

Accompanied(st, l) == Sequence(<<st, AccompanyWrite(st.x, l)>>)

\* Every assignment to a remote variable at a strong label is accompanied; an
\* operation is not.
RECURSIVE insert_tracking(_, _, _, _)
insert_tracking(t, strong, remote_bound, st) ==
    LET inside(part) == insert_tracking(t, strong, remote_bound, part)
    IN
    CASE st.s = "assign" /\ StatementLabel(t, st) \in strong /\ base_var(st.x) \in remote_bound ->
            Accompanied(st, StatementLabel(t, st))
      [] st.s \in {"let", "while"} -> [st EXCEPT !.body = inside(@)]
      [] st.s = "remote" ->
            [st EXCEPT !.body = insert_tracking(t, strong, remote_bound \cup {st.x}, @)]
      [] st.s = "if" -> If(st.c, inside(st.then), inside(st.els))
      [] st.s = "seq" -> Sequence([i \in DOMAIN st.ss |-> inside(st.ss[i])])
      [] OTHER -> st

\* The tombstones are written before anything else.
make_tracking_choice(t, tracked) ==
    Let(Tombstone, GenerateTombstone,
        Sequence(<<write_tombstones(tracked.weak \cup tracked.strong),
                   insert_tracking(t, tracked.strong, {}, t.body)>>))

insert_tracking_begin(t) ==
    LET labels == {ProperLabels(t)[i] : i \in DOMAIN ProperLabels(t)}
        tracked == tracked_labels(labels)
    IN  IF writes_remote(t.body, {}) /\ tracked.strong # {}
        THEN make_tracking_choice(t, tracked) ELSE t.body
=============================================================================
