----------------------------- MODULE MtlSyntax -----------------------------
(***************************************************************************)
(* The syntax of transactions, as written (mtl/AST_parse.hpp), flattened   *)
(* (mtl/AST_typecheck.hpp) and split (mtl/AST_split.hpp).  In a flattened  *)
(* transaction expressions are one level deep and conditions, handles and  *)
(* operands are variables.                                                 *)
(*                                                                         *)
(* A transaction is a record                                               *)
(*   [body   |-> a statement,                                              *)
(*    env    |-> the arguments, a function from names to values,           *)
(*    handle |-> a function from the handle-valued names to the label of   *)
(*               the handle's store].                                      *)
(* Every variable is bound at one place.  A name is a tuple.  Objects have *)
(* one field, an integer.                                                  *)
(***************************************************************************)
EXTENDS Naturals, Sequences, FiniteSets

(* Labels, strongest first.  top and bottom run in the client.             *)
Top == 1
Strong == 2
Causal == 3
Bottom == 4
Labels == Top..Bottom
flows_to(l, m) == l <= m
WeakerOf(l, m) == IF flows_to(l, m) THEN m ELSE l

(* Expressions.                                                            *)
Constant(n) == [e |-> "constant", n |-> n]
VarReference(x) == [e |-> "var", x |-> x]
FieldReference(of) == [e |-> "field", of |-> of]
Dereference(of) == [e |-> "deref", of |-> of]
FieldPointerReference(of) == [e |-> "fieldPointer", of |-> of]
BinOp(op, l, r) == [e |-> op, l |-> l, r |-> r]
GenerateTombstone == [e |-> "tombstone"]

\* builtins: every environment binds them.
True == <<"true">>
False == <<"false">>
Builtins == {True, False}

is_var_reference(e) == e.e = "var"

\* The variables of an expression, builtins aside.
RECURSIVE Vars(_)
Vars(e) ==
    CASE e.e \in {"constant", "tombstone"} -> {}
      [] e.e = "var" -> {e.x} \ Builtins
      [] e.e \in {"field", "deref", "fieldPointer"} -> Vars(e.of)
      [] OTHER -> Vars(e.l) \cup Vars(e.r)

\* base_var: the variable that an assignment's left side is a field of.
RECURSIVE base_var(_)
base_var(e) == IF is_var_reference(e) THEN e.x ELSE base_var(e.of)

(* Statements of the source language.                                      *)
Let(x, e, body) == [s |-> "let", x |-> x, e |-> e, body |-> body]
LetRemote(x, h, body) == [s |-> "remote", x |-> x, h |-> h, body |-> body]
Assignment(x, e) == [s |-> "assign", x |-> x, e |-> e]
Operation(h, a) == [s |-> "op", h |-> h, a |-> a]
Return(e) == [s |-> "return", e |-> e]
If(c, then, els) == [s |-> "if", c |-> c, then |-> then, els |-> els]
While(c, body, name) == [s |-> "while", c |-> c, body |-> body, name |-> name]
Sequence(ss) == [s |-> "seq", ss |-> ss]
Unnamed == <<>>

\* Statements that tracking adds, of label l.
AccompanyWrite(x, l) == [s |-> "accompany", x |-> x, l |-> l]
WriteTombstone(x, l) == [s |-> "writeTombstone", x |-> x, l |-> l]

\* Statements that only split phases have.
IncrementOccurance(x) == [s |-> "incr", x |-> x]
IncrementRemoteOccurance(x) == [s |-> "incrRemote", x |-> x]
RefreshRemoteOccurance(h) == [s |-> "refresh", h |-> h]
ForEach(body, name) == [s |-> "foreach", body |-> body, name |-> name]

Empty == Sequence(<<>>)

(* The statements directly below a statement.                              *)
Children(st) ==
    CASE st.s \in {"let", "remote", "while", "foreach"} -> <<st.body>>
      [] st.s = "if" -> <<st.then, st.els>>
      [] st.s = "seq" -> st.ss
      [] OTHER -> <<>>

(* The variables a statement itself mentions, other than the one it binds. *)
Mentioned(st) ==
    CASE st.s = "let" -> Vars(st.e)
      [] st.s \in {"remote", "refresh"} -> Vars(st.h)
      [] st.s = "assign" -> Vars(st.x) \cup Vars(st.e)
      [] st.s = "op" -> Vars(st.h) \cup Vars(st.a)
      [] st.s = "return" -> Vars(st.e)
      [] st.s \in {"if", "while"} -> Vars(st.c)
      [] st.s \in {"accompany", "writeTombstone"} -> Vars(st.x)
      [] st.s = "incrRemote" -> {st.x}
      [] OTHER -> {}

(* The names a statement binds, each as often as it is bound.              *)
RECURSIVE Bindings(_)
Bindings(st) ==
    LET below[i \in 0..Len(Children(st))] ==
            IF i = 0 THEN <<>> ELSE below[i - 1] \o Bindings(Children(st)[i])
    IN  (IF st.s \in {"let", "remote"} THEN <<st.x>> ELSE <<>>) \o below[Len(Children(st))]

BoundOnce(st) ==
    LET names == Bindings(st)
    IN  Cardinality({names[i] : i \in DOMAIN names}) = Len(names)
=============================================================================
