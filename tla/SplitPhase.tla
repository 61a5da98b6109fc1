----------------------------- MODULE SplitPhase -----------------------------
(***************************************************************************)
(* Splitting a labelled transaction into one statement per label           *)
(* (mtl/split_phase.hpp and the passes around it).  Every phase keeps the  *)
(* statements of its own label; of the stronger ones it keeps the control  *)
(* flow and a step in the log of what they bound, of the weaker ones       *)
(* nothing.                                                                *)
(*                                                                         *)
(* A labelled transaction t is a transaction with the labels lab of its    *)
(* variables and its loops named.                                          *)
(***************************************************************************)
EXTENDS InsertTracking

-----------------------------------------------------------------------------
(* name_while.hpp                                                          *)

\* A loop is named by the sequence number and the depth it is found at.
RECURSIVE easy_processing(_, _, _)
easy_processing(st, seqnum, depth) ==
    CASE st.s = "while" ->
            While(st.c, easy_processing(st.body, seqnum, depth + 1), <<"loop", seqnum, depth>>)
      [] st.s = "if" ->
            If(st.c, easy_processing(st.then, seqnum, depth), easy_processing(st.els, seqnum, depth))
      [] st.s = "seq" ->
            Sequence([i \in DOMAIN st.ss |-> easy_processing(st.ss[i], seqnum + i, depth)])
      [] st.s \in {"let", "remote"} ->
            [st EXCEPT !.body = easy_processing(@, seqnum, depth)]
      [] OTHER -> st

\* The transaction that split_computation is called with: labels inferred,
\* tracking inserted.
Labelled(p) ==
    LET checked == typecheck(p)
        inferred == [body |-> p.body, env |-> p.env, handle |-> p.handle,
                     lab |-> (Tombstone :> Top) @@ infer_labels(checked),
                     remote |-> checked.remote]
    IN  [inferred EXCEPT !.body = easy_processing(insert_tracking_begin(inferred), 1, 1)]

-----------------------------------------------------------------------------
(* AST_split.hpp: nested sequences are spliced, empty ones dropped.        *)

RECURSIVE Spliced(_)
Spliced(ss) ==
    IF ss = <<>> THEN <<>>
    ELSE (IF Head(ss).s = "seq" THEN Spliced(Head(ss).ss) ELSE <<Head(ss)>>)
             \o Spliced(Tail(ss))

collapse(ss) == Sequence(Spliced(ss))

-----------------------------------------------------------------------------
(* collect_phase                                                           *)

Collected(ast, requires, provides) ==
    [ast |-> ast, requires |-> requires, provides |-> provides]

\* A binding of this phase, with the operands it requires.
let_this_phase(st, operands, body) ==
    Collected([st EXCEPT !.body = body.ast], operands \cup body.requires,
              {st.x} \cup body.provides)

\* Mutant: no step in the log of the variable.
let_other_phase_skipped(x, body) ==
    Collected(body.ast, body.requires, body.provides)

\* A let of another phase: the phase steps past the value the let bound.
let_other_phase(x, body) ==
    Collected(Sequence(<<IncrementOccurance(x), body.ast>>), body.requires, body.provides)

\* Mutant: the assignment runs in the weaker phases too.
assignment_other_phase_runs(l, m, st) ==
    IF flows_to(m, l) THEN Collected(st, Mentioned(st), {})
    ELSE Collected(Empty, {}, {})

\* Mutant: the weaker phases do not step past the assigned value.
assignment_other_phase_skipped(l, m, st) == Collected(Empty, {}, {})

\* An assignment of label m in the phase of label l.
assignment_other_phase(l, m, st) ==
    Collected(IF flows_to(m, l) THEN IncrementOccurance(base_var(st.x)) ELSE Empty, {}, {})

\* A remote binding of label m in the phase of label l: once it exists, the
\* phase steps to its handle.
remote_other_phase(l, m, st, body) ==
    IF flows_to(m, l)
    THEN Collected(Sequence(<<IncrementRemoteOccurance(st.x), body.ast>>),
                   {st.x} \cup body.requires, body.provides)
    ELSE body

\* After an operation the phase logs what its object has become.
operation_this_phase(st, operands) ==
    Collected(Sequence(<<st, RefreshRemoteOccurance(st.h)>>), operands, {})

\* A loop of this phase provides its count, one of a stronger phase requires it.
while_this_phase(st, operands, body) ==
    Collected([st EXCEPT !.body = body.ast], operands \cup body.requires,
              {st.name} \cup body.provides)

while_other_phase(st, body) ==
    Collected(ForEach(body.ast, st.name), {st.name} \cup body.requires, body.provides)

if_entered(st, operands, then, els) ==
    Collected(If(st.c, then.ast, els.ast), operands \cup then.requires \cup els.requires,
              then.provides \cup els.provides)

build_seq(first, rest) ==
    Collected(collapse(<<first.ast, rest.ast>>), first.requires \cup rest.requires,
              first.provides \cup rest.provides)

\* What phase l makes of st.  have are the names it binds around st; all other
\* names it mentions it requires of the phases before it.
RECURSIVE collect_phase(_, _, _, _)
collect_phase(t, l, have, st) ==
    LET m == StatementLabel(t, st)
        needs(xs) == xs \ have
        collect(part) == collect_phase(t, l, have, part)
        bodyBinding(x) == collect_phase(t, l, have \cup {x}, st.body)
    IN
    CASE st.s \in {"let", "remote"} /\ m = l ->
            let_this_phase(st, needs(Mentioned(st)), bodyBinding(st.x))
      [] st.s = "let" /\ m # l -> let_other_phase(st.x, collect(st.body))
      [] st.s = "remote" /\ m # l -> remote_other_phase(l, m, st, collect(st.body))
      [] st.s = "op" /\ m = l -> operation_this_phase(st, needs(Mentioned(st)))
      [] st.s \in {"assign", "return", "accompany", "writeTombstone"} /\ m = l ->
            Collected(st, needs(Mentioned(st)), {})
      [] st.s = "assign" /\ m # l -> assignment_other_phase(l, m, st)
      [] st.s = "while" /\ m = l -> while_this_phase(st, needs(Mentioned(st)), collect(st.body))
      [] st.s = "while" /\ m # l /\ flows_to(m, l) -> while_other_phase(st, collect(st.body))
      [] st.s = "if" /\ flows_to(m, l) ->
            if_entered(st, needs(Mentioned(st)), collect(st.then), collect(st.els))
      [] st.s = "seq" /\ st.ss # <<>> ->
            build_seq(collect(Head(st.ss)), collect(Sequence(Tail(st.ss))))
      \* What another phase does that leaves no trace, control flow of a weaker one.
      [] OTHER -> Collected(Empty, {}, {})

-----------------------------------------------------------------------------
(* remove_unused.hpp and remove_empties.hpp                                *)

\* Steps in logs that the phase does not require are dropped.
RECURSIVE remove_unused(_, _)
remove_unused(st, requires) ==
    CASE st.s \in {"incr", "incrRemote"} -> IF st.x \in requires THEN st ELSE Empty
      [] st.s = "refresh" -> IF st.h.x \in requires THEN st ELSE Empty
      [] st.s \in {"let", "remote", "while", "foreach"} ->
            [st EXCEPT !.body = remove_unused(@, requires)]
      [] st.s = "if" ->
            [st EXCEPT !.then = remove_unused(@, requires), !.els = remove_unused(@, requires)]
      [] st.s = "seq" ->
            Sequence([i \in DOMAIN st.ss |-> remove_unused(st.ss[i], requires)])
      [] OTHER -> st

RECURSIVE is_empty_sequence(_)
is_empty_sequence(st) ==
    st.s = "seq" /\ \A i \in DOMAIN st.ss : is_empty_sequence(st.ss[i])

\* Conditionals with nothing in them go; their condition may no longer be
\* required (remove), unless it is mentioned elsewhere (still).  A step in a
\* plain log mentions nothing: it goes with the last use of the variable.
RECURSIVE clear_empty_statements(_)
clear_empty_statements(st) ==
    LET cleared(ast, parts) ==
            [ast |-> ast,
             remove |-> UNION {part.remove : part \in parts},
             still |-> Mentioned(st) \cup UNION {part.still : part \in parts}]
    IN
    CASE st.s = "if" ->
            LET then == clear_empty_statements(st.then)
                els == clear_empty_statements(st.els)
            IN  IF is_empty_sequence(then.ast) /\ is_empty_sequence(els.ast)
                THEN [ast |-> Empty, remove |-> Vars(st.c), still |-> {}]
                ELSE cleared(If(st.c, then.ast, els.ast), {then, els})
      [] st.s \in {"let", "remote", "while", "foreach"} ->
            LET body == clear_empty_statements(st.body)
            IN  cleared([st EXCEPT !.body = body.ast], {body})
      [] st.s = "seq" /\ st.ss # <<>> ->
            LET first == clear_empty_statements(Head(st.ss))
                rest == clear_empty_statements(Sequence(Tail(st.ss)))
            IN  cleared(collapse(<<first.ast, rest.ast>>), {first, rest})
      [] OTHER -> cleared(st, {})

-----------------------------------------------------------------------------
(* _split_computation for one label, and pretransaction::processed         *)

no_longer_require(empty_cleared) == empty_cleared.remove \ empty_cleared.still

prephase(t, l) ==
    LET collected == collect_phase(t, l, {}, t.body)
        curr_phase == remove_unused(collected.ast, collected.requires)
        empty_cleared == clear_empty_statements(curr_phase)
        requires == collected.requires \ no_longer_require(empty_cleared)
    IN  [label |-> l, ast |-> remove_unused(empty_cleared.ast, requires),
         requires |-> requires, provides |-> collected.provides]

\* What a phase binds is logged for the later phases that require it and is
\* the phase's own otherwise.
phase(pre, next_requires) ==
    [label |-> pre.label, ast |-> pre.ast,
     requirements |-> pre.requires \ pre.provides,
     provides |-> pre.provides \cap next_requires,
     owned |-> pre.provides \ next_requires]

split_computation(t) ==
    LET labels == ProperLabels(t)
        pre == [i \in DOMAIN labels |-> prephase(t, labels[i])]
    IN  [i \in DOMAIN labels |->
            phase(pre[i], UNION {pre[j].requires : j \in i..Len(labels)})]

-----------------------------------------------------------------------------
(* What the compiler rejects, besides the flows of check_flow_violation.   *)

\* The label of a reference, inference done.
RECURSIVE ResolvedLabel(_, _)
ResolvedLabel(t, x) ==
    CASE x \in DOMAIN t.env \cup Builtins -> Top
      [] x \in DOMAIN t.remote ->
            WeakerOf(ResolvedLabel(t, t.remote[x]), t.handle[t.remote[x]])
      [] OTHER -> t.lab[x]

\* An operation runs at the label of its handle: handle_operation lowers it to
\* the label env of the control flow, for which the handle has no method.
RECURSIVE OperationsFit(_, _, _)
OperationsFit(t, env, st) ==
    LET below ==
            CASE st.s = "remote" -> WeakerOf(env, ResolvedLabel(t, st.h.x))
              [] st.s \in {"if", "while"} -> WeakerOf(env, ResolvedLabel(t, st.c.x))
              [] OTHER -> env
    IN  /\ st.s = "op" => flows_to(env, t.handle[st.h.x])
        /\ \A i \in DOMAIN Children(st) : OperationsFit(t, below, Children(st)[i])

\* Remote variables are fetched in the phase of their handle's store, and every
\* phase finds a holder for all it requires.
PhasesFit(t, phases) ==
    /\ \A x \in DOMAIN t.remote : t.lab[x] = t.handle[t.remote[x]]
    /\ \A i \in DOMAIN phases :
        phases[i].requirements \subseteq
            DOMAIN t.env \cup UNION {phases[j].provides : j \in 1..(i - 1)}
=============================================================================
