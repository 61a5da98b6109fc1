------------------------------ MODULE Flatten ------------------------------
(***************************************************************************)
(* From the written transaction to its flattened form                      *)
(* (mtl/flatten_expressions.hpp): loops are rewritten so that they test a  *)
(* variable, and nested expressions are taken apart into bindings of       *)
(* temporaries around the statement that uses them.                        *)
(***************************************************************************)
EXTENDS MtlSyntax

-----------------------------------------------------------------------------
(* desugar_while                                                           *)

\* The condition is tested in the body, and the loop tests a variable.
DesugaredLoop(w, c, body) ==
    Let(w, VarReference(True),
        While(VarReference(w),
              If(c, body, Assignment(VarReference(w), VarReference(False))), Unnamed))

RECURSIVE desugar_while(_, _, _)
desugar_while(st, seqnum, depth) ==
    CASE st.s \in {"let", "remote"} ->
            [st EXCEPT !.body = desugar_while(@, seqnum, depth + 1)]
      [] st.s = "if" ->
            [st EXCEPT !.then = desugar_while(@, seqnum, depth + 1),
                       !.els = desugar_while(@, seqnum + 1, depth + 1)]
      [] st.s = "while" ->
            DesugaredLoop(<<"while", seqnum, depth>>, st.c,
                          desugar_while(st.body, seqnum, depth + 1))
      [] st.s = "seq" ->
            Sequence([i \in DOMAIN st.ss |-> desugar_while(st.ss[i], seqnum + i - 1, depth)])
      [] OTHER -> st

-----------------------------------------------------------------------------
(* remove_layer                                                            *)

generate_name(seqnum, depth) == <<"anorm", seqnum, depth>>
remote_bound_tmp(seqnum, depth) == <<"remote_bound_tmp", seqnum, depth>>

\* An expression taken out: it is bound to x, and rest is what it leaves.
Removed(x, remote, bound) ==
    [x |-> x, remote |-> remote, bound |-> bound, rest |-> VarReference(x)]

\* The innermost expression on the left whose operands are variables is taken
\* out; one that dereferences a handle becomes a remote binding.
RECURSIVE remove_layer(_, _, _)
remove_layer(e, seqnum, depth) ==
    LET name == generate_name(seqnum, depth)
        inside(part) == remove_layer(part, seqnum, depth)
    IN
    CASE e.e \in {"constant", "tombstone"} -> Removed(name, FALSE, e)
      [] e.e = "fieldPointer" -> inside(FieldReference(Dereference(e.of)))
      [] e.e = "deref" /\ is_var_reference(e.of) ->
            Removed(remote_bound_tmp(seqnum, depth), TRUE, e.of)
      [] e.e = "field" /\ is_var_reference(e.of) -> Removed(name, FALSE, e)
      [] e.e \in {"deref", "field"} /\ ~is_var_reference(e.of) ->
            LET r == inside(e.of) IN [r EXCEPT !.rest = [e EXCEPT !.of = r.rest]]
      [] e.e \in {"+", "<"} /\ is_var_reference(e.l) /\ is_var_reference(e.r) ->
            Removed(name, FALSE, e)
      [] e.e \in {"+", "<"} /\ ~is_var_reference(e.l) ->
            LET r == inside(e.l) IN [r EXCEPT !.rest = [e EXCEPT !.l = r.rest]]
      [] e.e \in {"+", "<"} /\ is_var_reference(e.l) /\ ~is_var_reference(e.r) ->
            LET r == inside(e.r) IN [r EXCEPT !.rest = [e EXCEPT !.r = r.rest]]

Around(r, st) == IF r.remote THEN LetRemote(r.x, r.bound, st) ELSE Let(r.x, r.bound, st)

-----------------------------------------------------------------------------
(* flatten_exprs                                                           *)

\* What a Let may bind.
is_depth_1(e) ==
    CASE e.e \in {"constant", "tombstone", "var"} -> TRUE
      [] e.e = "field" -> is_var_reference(e.of)
      [] e.e \in {"deref", "fieldPointer"} -> FALSE
      [] OTHER -> is_var_reference(e.l) /\ is_var_reference(e.r)

\* A left side that reads a handle.
RECURSIVE contains_fieldpointer_ref(_)
contains_fieldpointer_ref(e) ==
    \/ e.e \in {"fieldPointer", "deref"}
    \/ e.e = "field" /\ contains_fieldpointer_ref(e.of)

\* The operand of an operation that is taken out next: the handle first, then
\* the argument.
NextOperand(st) == IF is_var_reference(st.h) THEN "a" ELSE "h"
FlatOperation(st) == is_var_reference(st.h) /\ is_var_reference(st.a)

\* An operation statement is flattened as a returned expression, which becomes
\* a statement again (operation_to_statement_f).
RECURSIVE flatten_operation(_, _, _)
flatten_operation(st, seqnum, depth) ==
    IF FlatOperation(st) THEN st
    ELSE LET r == remove_layer(st[NextOperand(st)], seqnum, depth)
         IN  Around(r, flatten_operation([st EXCEPT ![NextOperand(st)] = r.rest],
                                         seqnum, depth + 2))

\* Its first operand at seqnum, the others at the next number.
operation_to_statement(st, seqnum, depth) ==
    LET r == remove_layer(st[NextOperand(st)], seqnum, depth)
    IN  Around(r, flatten_operation([st EXCEPT ![NextOperand(st)] = r.rest],
                                    seqnum + 1, depth + 1))

\* The expression of the statement that has to be flat first and is not, or
\* none: the right side before the left one.
NotFlat(st) ==
    CASE st.s = "let" -> IF is_depth_1(st.e) THEN <<>> ELSE <<"e">>
      [] st.s = "remote" -> IF is_var_reference(st.h) THEN <<>> ELSE <<"h">>
      [] st.s = "assign" ->
            IF ~is_var_reference(st.e) THEN <<"e">>
            ELSE IF contains_fieldpointer_ref(st.x) THEN <<"x">> ELSE <<>>
      [] st.s = "return" -> IF is_var_reference(st.e) THEN <<>> ELSE <<"e">>
      [] st.s \in {"if", "while"} -> IF is_var_reference(st.c) THEN <<>> ELSE <<"c">>
      [] OTHER -> <<>>

\* _flatten_exprs_helper goes one deeper for every expression it takes out.
RECURSIVE flatten_exprs(_, _, _)
flatten_exprs(st, seqnum, depth) ==
    IF NotFlat(st) # <<>>
    THEN LET r == remove_layer(st[NotFlat(st)[1]], seqnum, depth)
         IN  flatten_exprs(Around(r, [st EXCEPT ![NotFlat(st)[1]] = r.rest]),
                           seqnum, depth + 1)
    ELSE
    CASE st.s \in {"let", "remote", "while"} ->
            [st EXCEPT !.body = flatten_exprs(@, seqnum, depth + 1)]
      [] st.s = "if" ->
            [st EXCEPT !.then = flatten_exprs(@, seqnum, depth + 1),
                       !.els = flatten_exprs(@, seqnum + 1, depth + 1)]
      [] st.s = "op" /\ ~FlatOperation(st) -> operation_to_statement(st, seqnum, depth)
      [] st.s = "seq" ->
            Sequence([i \in DOMAIN st.ss |-> flatten_exprs(st.ss[i], seqnum + i - 1, depth)])
      [] OTHER -> st

flatten_expressions(st) == flatten_exprs(desugar_while(st, 1, 1), 1, 1)
=============================================================================
