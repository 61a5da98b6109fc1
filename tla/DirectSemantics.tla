--------------------------- MODULE DirectSemantics ---------------------------
(***************************************************************************)
(* What a transaction means: its statements as written, one after the      *)
(* other, on the objects themselves, with no temporaries, no labels and no *)
(* phases.  The reference that the compiled transaction is compared with.  *)
(*                                                                         *)
(* A state is [val |-> the variables, obj |-> the objects, ret |-> the     *)
(* returned value].  A remote variable's value is the object it is bound   *)
(* to; to read or assign it is to read or assign the object, so that every *)
(* variable bound to an object sees its value change.                      *)
(***************************************************************************)
EXTENDS MtlSyntax, TLC

Lookup(remote, sigma, x) ==
    IF x \in remote THEN sigma.obj[sigma.val[x]] ELSE sigma.val[x]

\* A field of an object is all of it; a handle's value is its object.
RECURSIVE DirectEval(_, _, _)
DirectEval(remote, sigma, e) ==
    LET value(part) == DirectEval(remote, sigma, part)
    IN
    CASE e.e = "constant" -> e.n
      [] e.e = "var" -> Lookup(remote, sigma, e.x)
      [] e.e = "field" -> value(e.of)
      [] e.e \in {"deref", "fieldPointer"} -> sigma.obj[value(e.of)]
      [] e.e = "+" -> value(e.l) + value(e.r)
      [] e.e = "<" -> IF value(e.l) < value(e.r) THEN 1 ELSE 0

SetVar(sigma, x, v) == [sigma EXCEPT !.val = (x :> v) @@ @]

\* The object a left side stands for.
RECURSIVE Target(_, _, _)
Target(remote, sigma, e) ==
    CASE e.e = "var" -> sigma.val[e.x]
      [] e.e = "field" -> Target(remote, sigma, e.of)
      [] e.e \in {"deref", "fieldPointer"} -> DirectEval(remote, sigma, e.of)

AssignsVariable(remote, e) == is_var_reference(e) /\ e.x \notin remote

RECURSIVE Exec(_, _, _), ExecAll(_, _, _)
Exec(remote, st, sigma) ==
    LET value(e) == DirectEval(remote, sigma, e)
    IN
    CASE st.s = "let" -> Exec(remote, st.body, SetVar(sigma, st.x, value(st.e)))
      [] st.s = "remote" -> Exec(remote, st.body, SetVar(sigma, st.x, value(st.h)))
      [] st.s = "assign" /\ ~AssignsVariable(remote, st.x) ->
            [sigma EXCEPT !.obj[Target(remote, sigma, st.x)] = value(st.e)]
      [] st.s = "assign" /\ AssignsVariable(remote, st.x) ->
            SetVar(sigma, st.x.x, value(st.e))
      [] st.s = "op" -> [sigma EXCEPT !.obj[value(st.h)] = @ + value(st.a)]
      [] st.s = "return" -> [sigma EXCEPT !.ret = value(st.e)]
      [] st.s = "if" -> Exec(remote, IF value(st.c) # 0 THEN st.then ELSE st.els, sigma)
      [] st.s = "while" ->
            IF value(st.c) # 0 THEN Exec(remote, st, Exec(remote, st.body, sigma)) ELSE sigma
      [] st.s = "seq" -> ExecAll(remote, st.ss, sigma)
ExecAll(remote, ss, sigma) ==
    IF ss = <<>> THEN sigma ELSE ExecAll(remote, Tail(ss), Exec(remote, Head(ss), sigma))

\* The whole transaction, from the given objects.
Direct(body, env, remote, objects, none) ==
    Exec(remote, body, [val |-> env, obj |-> objects, ret |-> none])
=============================================================================
