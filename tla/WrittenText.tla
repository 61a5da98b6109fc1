----------------------------- MODULE WrittenText -----------------------------
(***************************************************************************)
(* A programmer writes a transaction as C++ would read it, and the parser  *)
(* reads it (Parser).  The transaction grows step by step: exp is the      *)
(* expression that is being written, st the statement after it.            *)
(***************************************************************************)
EXTENDS Parser

CONSTANTS
    Names,          \* names of variables, each a sequence of words
    Members,        \* names of fields and of methods
    Ops,            \* the operators in use, each an element of Operators
    Parenthesised,  \* whether every operand with an operator is put in parentheses
    MaxExpSteps,    \* bound: steps that grow one expression
    MaxSteps        \* bound: steps in all

VARIABLES exp, st, expSteps, steps
vars == <<exp, st, expSteps, steps>>

\* The operators of C++ by their spelling: what they are kept as, and how tightly they bind.
Operators ==
    { [spelling |-> <<"*">>, op |-> "*", level |-> 6],       [spelling |-> <<"/">>, op |-> "/", level |-> 6],
      [spelling |-> <<"+">>, op |-> "+", level |-> 5],       [spelling |-> <<"-">>, op |-> "-", level |-> 5],
      [spelling |-> <<"<">>, op |-> "<", level |-> 4],       [spelling |-> <<">">>, op |-> ">", level |-> 4],
      [spelling |-> <<"<", "=">>, op |-> "<=", level |-> 4], [spelling |-> <<">", "=">>, op |-> ">=", level |-> 4],
      [spelling |-> <<"=", "=">>, op |-> "=", level |-> 3],  [spelling |-> <<"!", "=">>, op |-> "!", level |-> 3],
      [spelling |-> <<"&", "&">>, op |-> "&", level |-> 2],  [spelling |-> <<"|", "|">>, op |-> "|", level |-> 1] }
OperatorOf(e) == CHOOSE o \in Operators : o.op = e.op

ASSUME OpsAreOperators == Ops \subseteq {o.op : o \in Operators}
ASSUME Parenthesised \in BOOLEAN

-----------------------------------------------------------------------------
(* The text of an expression and of a statement.                           *)

InParens(s) == <<"(">> \o s \o <<")">>
InBraces(s) == <<"{", Space>> \o s \o <<Space, "}">>

RECURSIVE ExpText(_)

\* An operand of an operator at a level: parenthesised where C++ needs it, or wherever it has an operator.
Operand(e, level) ==
    IF e.e = "binop" /\ (Parenthesised \/ OperatorOf(e).level < level) THEN InParens(ExpText(e)) ELSE ExpText(e)

Prefixed(e) == IF e.e \in {"binop", "deref"} THEN InParens(ExpText(e)) ELSE ExpText(e)

ArgsText(args) ==
    LET text[i \in 0..Len(args)] ==
            CASE i = 0 -> <<>>
              [] i = 1 -> ExpText(args[1])
              [] OTHER -> text[i - 1] \o <<",", Space>> \o ExpText(args[i])
    IN  text[Len(args)]

ExpText(e) ==
    CASE e.e = "var" -> e.x
      [] e.e = "constant" -> <<ToString(e.n)>>
      [] e.e = "binop" -> LET o == OperatorOf(e)
                          IN  Operand(e.l, o.level) \o <<Space>> \o o.spelling \o <<Space>> \o Operand(e.r, o.level + 1)
      [] e.e = "deref" -> <<"*">> \o (IF e.of.e = "binop" THEN InParens(ExpText(e.of)) ELSE ExpText(e.of))
      [] e.e = "field" -> Prefixed(e.of) \o <<".">> \o e.f
      [] e.e = "fieldPointer" -> Prefixed(e.of) \o <<"-", ">">> \o e.f
      [] e.e \in {"endorse", "ensure"} -> Prefixed(e.of) \o <<".", e.e>> \o InParens(e.l)
      [] e.e = "isValid" -> Prefixed(e.of) \o <<".", "isValid", "(", ")">>
      [] e.e = "operation" -> Prefixed(e.of) \o <<".">> \o e.name \o InParens(ArgsText(e.args))

\* A statement that would take what follows it for its own body, or whose parts would be taken apart.
NeedsBraces(s) == s.s \in {"let", "remote", "seq"}

RECURSIVE Text(_)
Text(s) ==
    CASE s.s = "let" -> <<"var", Space>> \o s.x \o <<Space, "=", Space>> \o ExpText(s.rhs) \o <<",", Space>> \o Text(s.body)
      [] s.s = "remote" ->
            <<"remote", Space>> \o s.x \o <<Space, "=", Space>> \o ExpText(s.rhs) \o <<",", Space>> \o Text(s.body)
      [] s.s = "operation" -> ExpText(s.op)
      [] s.s = "assign" ->
            ExpText(s.x) \o <<Space, "=", Space>> \o (IF s.rhs.e = "binop" THEN InParens(ExpText(s.rhs)) ELSE ExpText(s.rhs))
      [] s.s = "return" -> <<"return", Space>> \o ExpText(s.rhs)
      [] s.s = "while" -> <<"while", Space>> \o InParens(ExpText(s.c)) \o <<Space>> \o InBraces(Text(s.body))
      [] s.s = "if" ->
            <<"if", Space>> \o InParens(ExpText(s.c)) \o <<Space>> \o InBraces(Text(s.then))
            \o (IF s.els = Sequence(<<>>) THEN <<>> ELSE <<Space, "else", Space>> \o InBraces(Text(s.els)))
      [] s.s = "seq" ->
            LET element(i) == IF NeedsBraces(s.ss[i]) /\ i < Len(s.ss) THEN InBraces(Text(s.ss[i])) ELSE Text(s.ss[i])
                from[i \in 1..(Len(s.ss) + 1)] ==
                    IF i > Len(s.ss) THEN <<"{", "}">>
                    ELSE IF i = Len(s.ss) /\ i > 1 THEN element(i)
                    ELSE element(i) \o <<",", Space>> \o from[i + 1]
            IN  from[1]

-----------------------------------------------------------------------------
(* Writing.                                                                *)

Atoms == {VarReference(x) : x \in Names} \cup {Constant(1), VarReference(DefaultList)}
SomeName == CHOOSE x \in Names : TRUE
Empty == Sequence(<<>>)

Init == exp \in Atoms /\ st = Empty /\ expSteps = 0 /\ steps = 0

Write(e) == expSteps < MaxExpSteps /\ steps < MaxSteps /\ exp' = e /\ expSteps' = expSteps + 1 /\ steps' = steps + 1
            /\ UNCHANGED st
State(s) == steps < MaxSteps /\ st' = s /\ exp' = VarReference(SomeName) /\ expSteps' = 0 /\ steps' = steps + 1

WriteBinOp == \E op \in Ops, x \in Names : Write(BinOp(op, exp, VarReference(x))) \/ Write(BinOp(op, VarReference(x), exp))
WriteField == \E f \in Members : Write(FieldReference(exp, f)) \/ Write(FieldPointerReference(exp, f))
WriteDereference == Write(Dereference(exp))
WriteBuiltin == Write(IsValid(exp)) \/ Write(Endorse(<<"causal">>, exp)) \/ Write(Ensure(<<"causal">>, exp))
WriteOperation == \E m \in Members, x \in Names :
    \/ Write(Operation(m, exp, <<>>))
    \/ Write(Operation(m, VarReference(x), <<exp>>))
    \/ Write(Operation(m, VarReference(x), <<exp, Constant(1)>>))

\* s, then the rest: a sequence is one list.
Before(s, rest) == Sequence(IF rest.s = "seq" THEN <<s>> \o rest.ss ELSE <<s, rest>>)

WriteLet == \E x \in Names : State(Let(x, exp, st)) \/ State(LetRemote(x, exp, st))
WriteReturn == st = Empty /\ State(Return(exp))
WriteAssignment == \E x \in Names : \/ State(Before(Assignment(VarReference(x), exp), st))
                                    \/ State(Before(st, Assignment(VarReference(x), exp)))
                                    \/ \E f \in Members : State(Before(Assignment(FieldReference(VarReference(x), f), exp), st))
WriteCall == exp.e = "operation" /\ State(Before(OperationStatement(exp), st))
WriteIf == \E els \in {Empty, Return(VarReference(SomeName))} : State(If(exp, st, els)) \/ State(If(exp, els, st))
WriteWhile == State(While(exp, st)) \/ State(Before(While(exp, Return(VarReference(SomeName))), st))

Next == \/ WriteBinOp \/ WriteField \/ WriteDereference \/ WriteBuiltin \/ WriteOperation
        \/ WriteLet \/ WriteReturn \/ WriteAssignment \/ WriteCall \/ WriteIf \/ WriteWhile

Spec == Init /\ [][Next]_vars

-----------------------------------------------------------------------------
(* parse_statement, convert_to_old_parsed: the transaction that the        *)
(* compiler gets is the one that was written.                              *)
ParsedAsWritten == /\ convert_to_old_parsed(parse(Text(st))) = st
                   /\ convert_to_old_parsed(parse(Text(Return(exp)))) = Return(exp)
=============================================================================
