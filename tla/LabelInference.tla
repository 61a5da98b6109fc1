--------------------------- MODULE LabelInference ---------------------------
(***************************************************************************)
(* The labels of a transaction's variables (mtl/label_inference.hpp, after *)
(* the typechecker has given every binding a temporary label).  Labels are *)
(* constraint nodes: <<l>> is the concrete label l, <<s, d>> the temporary *)
(* label temp_label<s, d>.  The minimum of labels is the set of its nodes: *)
(* min(a, b) flows to c when a does and b does.                            *)
(***************************************************************************)
EXTENDS Flatten

Node(l) == <<l>>
IsTemp(n) == Len(n) = 2

\* _typecheck's walk: sequence number and depth name the temporary label of a
\* binding.  Bindings of different branches can get the same one.
RECURSIVE TempLabels(_, _, _)
TempLabels(st, s, d) ==
    CASE st.s \in {"let", "remote"} ->
            {[x |-> st.x, temp |-> <<s, d>>]} \cup TempLabels(st.body, s + 1, d + 1)
      [] st.s = "while" -> TempLabels(st.body, s + 1, d + 1)
      [] st.s = "if" -> TempLabels(st.then, s + 1, d + 1) \cup TempLabels(st.els, s + 2, d + 1)
      [] st.s = "seq" -> UNION {TempLabels(st.ss[i], s + i - 1, d) : i \in DOMAIN st.ss}
      [] OTHER -> {}

\* The remote bindings of a statement: variables and the handles they are from.
RECURSIVE RemoteIn(_)
RemoteIn(st) ==
    (IF st.s = "remote" THEN {<<st.x, st.h.x>>} ELSE {})
        \cup UNION {RemoteIn(Children(st)[i]) : i \in DOMAIN Children(st)}

\* The typechecked transaction: temp is the temporary label of every binding,
\* remote the handle of every remote variable.
typecheck(p) ==
    LET bound == TempLabels(p.body, 1, 1)
        far == RemoteIn(p.body)
    IN  [body |-> p.body, env |-> p.env, handle |-> p.handle,
         temp |-> [x \in {b.x : b \in bound} |-> (CHOOSE b \in bound : b.x = x).temp],
         remote |-> [x \in {b[1] : b \in far} |-> (CHOOSE b \in far : b[1] = x)[2]]]

\* The label of a reference: arguments have label top, a remote variable the
\* minimum of its pointer's label and the label of the handle.
RECURSIVE RefLabel(_, _)
RefLabel(t, x) ==
    CASE x \in DOMAIN t.env \cup Builtins -> {Node(Top)}
      [] x \in DOMAIN t.remote ->
            RefLabel(t, t.remote[x]) \cup {Node(t.handle[t.remote[x]])}
      [] OTHER -> {t.temp[x]}

ExprLabel(t, e) == {Node(Top)} \cup UNION {RefLabel(t, x) : x \in Vars(e)}

must_flow_to(high, low) == {[from |-> n, to |-> low] : n \in high}

\* What an assignment to x has to flow to: of the label of a remote variable
\* collapse_constraints keeps the concrete part.
AssignedLabel(t, x) ==
    IF x \in DOMAIN t.remote THEN Node(t.handle[t.remote[x]]) ELSE t.temp[x]

\* pc is the label of the control flow that constraints are collected under,
\* env the one the typechecker put in the labels of If and While.
RECURSIVE collect_constraints(_, _, _, _)
collect_constraints(t, pc, env, st) ==
    CASE st.s = "let" ->
            must_flow_to(ExprLabel(t, st.e) \cup pc, t.temp[st.x])
                \cup collect_constraints(t, pc, env, st.body)
      [] st.s = "remote" ->
            LET ptr == RefLabel(t, st.h.x)
                hndl == Node(t.handle[st.h.x])
            IN  must_flow_to(ptr \cup pc \cup {hndl}, t.temp[st.x])
                    \cup must_flow_to(ptr, hndl)
                    \cup collect_constraints(t, pc, env \cup ptr, st.body)
      [] st.s = "assign" -> must_flow_to(ExprLabel(t, st.e) \cup pc, AssignedLabel(t, base_var(st.x)))
      [] st.s = "op" ->
            must_flow_to(RefLabel(t, st.h.x) \cup RefLabel(t, st.a.x), Node(t.handle[st.h.x]))
      [] st.s = "if" ->
            LET inner == pc \cup env \cup RefLabel(t, st.c.x)
            IN  collect_constraints(t, inner, inner, st.then)
                    \cup collect_constraints(t, inner, inner, st.els)
      [] st.s = "while" ->
            LET inner == pc \cup env \cup RefLabel(t, st.c.x)
            IN  collect_constraints(t, inner, inner, st.body)
      [] st.s = "seq" ->
            UNION {collect_constraints(t, pc, env, st.ss[i]) : i \in DOMAIN st.ss}
      [] OTHER -> {}

Constraints(t) == collect_constraints(t, {Node(Top)}, {Node(Top)}, t.body)

\* must_flow_to::substitute, of the concrete label l for the temporary old.
substitute(cs, l, old) ==
    LET sub(n) == IF n = old THEN Node(l) ELSE n
    IN  {[from |-> sub(c.from), to |-> sub(c.to)] : c \in cs}

\* Every temporary label that l must flow to becomes l; the constraints that
\* start elsewhere wait for their own label's turn.
RECURSIVE replace_all_less_than(_, _, _)
replace_all_less_than(l, cs, solved) ==
    LET hit == {c.to : c \in {d \in cs : d.from = Node(l) /\ IsTemp(d.to)}}
    IN  IF hit = {} THEN [constraints |-> cs, solved |-> solved]
        ELSE LET old == CHOOSE n \in hit : TRUE
             IN  replace_all_less_than(l, substitute(cs, l, old), solved \cup {<<old, l>>})

\* infer_labels_helper1: the labels take their turns weakest first.
RECURSIVE infer_from(_, _, _)
infer_from(l, cs, solved) ==
    LET done == replace_all_less_than(l, cs, solved)
    IN  IF l = Top THEN done ELSE infer_from(l - 1, done.constraints, done.solved)

\* Mutant: the labels take their turns strongest first.
RECURSIVE infer_up(_, _, _)
infer_up(l, cs, solved) ==
    LET done == replace_all_less_than(l, cs, solved)
    IN  IF l = Bottom THEN done ELSE infer_up(l + 1, done.constraints, done.solved)
InferStrongestFirst(t) == infer_up(Top, Constraints(t), {})

Infer(t) == infer_from(Bottom, Constraints(t), {})

\* infer_labels: the label of every let- and remote-bound variable.
infer_labels(t) ==
    LET solved == Infer(t).solved
    IN  [x \in DOMAIN t.temp |-> (CHOOSE pair \in solved : pair[1] = t.temp[x])[2]]

\* check_flow_violation passes: the transaction compiles.
FlowsAllowed(t) ==
    \A c \in Infer(t).constraints : flows_to(c.from[1], c.to[1])
=============================================================================
