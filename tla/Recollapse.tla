----------------------------- MODULE Recollapse -----------------------------
(***************************************************************************)
(* The last pass (mtl/recollapse.hpp): in every phase, the temporaries     *)
(* that no other phase sees are put back into the expressions they were    *)
(* taken from.  Then the compiler as a whole (mtl/transaction.hpp).        *)
(***************************************************************************)
EXTENDS SplitPhase

\* anorm_names: the temporaries among the variables a phase owns.
anorm_names(owned) == {x \in owned : x[1] = "anorm"}

RECURSIVE recollapse_expression(_, _)
recollapse_expression(sub_map, e) ==
    CASE e.e \in {"constant", "tombstone"} -> e
      [] e.e = "var" -> IF e.x \in DOMAIN sub_map THEN sub_map[e.x] ELSE e
      [] e.e = "field" -> FieldReference(recollapse_expression(sub_map, e.of))
      [] OTHER ->
            BinOp(e.e, recollapse_expression(sub_map, e.l), recollapse_expression(sub_map, e.r))

\* A candidate's binding goes away; what it bound stands where it was used.
RECURSIVE recollapse(_, _, _)
recollapse(candidates, sub_map, st) ==
    LET again(part) == recollapse(candidates, sub_map, part)
        expr(e) == recollapse_expression(sub_map, e)
    IN
    CASE st.s = "let" /\ st.x \in candidates ->
            recollapse(candidates, (st.x :> expr(st.e)) @@ sub_map, st.body)
      [] st.s = "let" /\ st.x \notin candidates -> Let(st.x, expr(st.e), again(st.body))
      [] st.s = "remote" -> LetRemote(st.x, expr(st.h), again(st.body))
      [] st.s = "assign" -> Assignment(expr(st.x), expr(st.e))
      [] st.s = "op" -> Operation(expr(st.h), expr(st.a))
      [] st.s = "return" -> Return(expr(st.e))
      [] st.s \in {"accompany", "writeTombstone"} -> [st EXCEPT !.x = expr(@)]
      [] st.s = "if" -> If(expr(st.c), again(st.then), again(st.els))
      [] st.s = "while" -> While(expr(st.c), again(st.body), st.name)
      [] st.s = "foreach" -> ForEach(again(st.body), st.name)
      [] st.s = "seq" -> Sequence([i \in DOMAIN st.ss |-> again(st.ss[i])])
      [] OTHER -> st

NothingSubstituted == [x \in {} |-> {}]

recollapse_phase(ph) ==
    LET names == anorm_names(ph.owned)
    IN  [ph EXCEPT !.ast = recollapse(names, NothingSubstituted, @), !.owned = @ \ names]

-----------------------------------------------------------------------------
(* The compiler                                                            *)

\* The transaction p, compiled: t is its labelled form.
Compile(p) ==
    LET flat == [p EXCEPT !.body = flatten_expressions(@)]
        t == Labelled(flat)
        phases == split_computation(t)
    IN  [source |-> p, flat |-> flat, t |-> t,
         phases |-> [i \in DOMAIN phases |-> recollapse_phase(phases[i])],
         accepted |-> FlowsAllowed(typecheck(flat)) /\ OperationsFit(t, Top, t.body)
                        /\ PhasesFit(t, phases)]
=============================================================================
