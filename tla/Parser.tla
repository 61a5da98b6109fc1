------------------------------- MODULE Parser -------------------------------
(***************************************************************************)
(* The parser of transactions (mtl/new-parsing/parse.hpp) and the          *)
(* conversion of what it builds to the syntax that the compiler works on   *)
(* (to-old-ast-parse.hpp).                                                 *)
(*                                                                         *)
(* A text is a sequence of chunks: a word, a space or a character of       *)
(* punctuation.  A name is a sequence of words, so that one word may occur *)
(* inside a name, as "if" does in <<"not", "if", "y">>.  The parser has no *)
(* tokens: it looks for substrings that are outside every parenthesis and  *)
(* brace, in a fixed order, and cuts the text there.                       *)
(***************************************************************************)
EXTENDS Naturals, Sequences, FiniteSets, FiniteSetsExt, TLC

Open == {"(", "{"}
Close == {")", "}"}
Space == " "
Punctuation == Open \cup Close \cup {Space, ",", ".", "=", "<", ">", "!", "-", "+", "*", "/", "&", "|", ";"}
\* The numbers that texts use.
Digits == {"1", "2"}

-----------------------------------------------------------------------------
(* mutils::cstring, from how the parser uses it.                           *)

\* How many parentheses and braces are open before position i.
Depth(s, i) ==
    Cardinality({j \in 1..(i - 1) : s[j] \in Open}) - Cardinality({j \in 1..(i - 1) : s[j] \in Close})

Outside(sub, s) ==
    {i \in 1..(Len(s) + 1 - Len(sub)) : SubSeq(s, i, i + Len(sub) - 1) = sub /\ Depth(s, i) = 0}
contains_outside_parens(sub, s) == Outside(sub, s) # {}

CutAt(i, sub, s) == <<SubSeq(s, 1, i - 1), SubSeq(s, i + Len(sub), Len(s))>>
first_split(sub, s) == CutAt(Min(Outside(sub, s) \cup {Len(s) + 1}), sub, s)
last_split(sub, s) == CutAt(Max(Outside(sub, s)), sub, s)

RECURSIVE split_outside_parens(_, _)
split_outside_parens(sub, s) ==
    IF contains_outside_parens(sub, s)
    THEN LET cut == first_split(sub, s) IN <<cut[1]>> \o split_outside_parens(sub, cut[2])
    ELSE <<s>>

trim(s) ==
    LET solid == {i \in DOMAIN s : s[i] # Space}
    IN  IF solid = {} THEN <<>> ELSE SubSeq(s, Min(solid), Max(solid))

contains_paren(s) == \E i \in DOMAIN s : s[i] \in Open \cup Close
contains_space(s) == \E i \in DOMAIN s : s[i] = Space
prefix_equal(c, s) == s # <<>> /\ s[1] = c

\* The ends of the first group of parentheses or braces; of an empty group after the text if it has none.
GroupEnds(s) ==
    LET open == Min({i \in DOMAIN s : s[i] \in Open} \cup {Len(s) + 1})
    IN  <<open, Min({i \in DOMAIN s : i > open /\ s[i] \in Close /\ Depth(s, i) = 1} \cup {Len(s) + 2})>>
next_paren_group(s) == LET g == GroupEnds(s) IN SubSeq(s, g[1] + 1, g[2] - 1)
After_paren_group(s) == SubSeq(s, GroupEnds(s)[2] + 1, Len(s))
copy_within_parens(s) == next_paren_group(s)
pre_paren(s) == SubSeq(s, 1, GroupEnds(s)[1] - 1)

first_word_is(w, s) ==
    LET t == trim(s)
    IN  prefix_equal(w, t) /\ (w \in Punctuation \/ Len(t) = 1 \/ t[2] \in Punctuation)
remove_first_word(s) ==
    LET t == trim(s)
    IN  SubSeq(t, Min({i \in DOMAIN t : t[i] \in Punctuation} \cup {Len(t) + 1}), Len(t))

parse_int(s) == CHOOSE n \in 1..Cardinality(Digits) : ToString(n) = s[1]

-----------------------------------------------------------------------------
(* What the parser builds: as_values of new-parsing/ast.hpp.               *)
FieldReference(of, f) == [e |-> "field", of |-> of, f |-> f]
FieldPointerReference(of, f) == [e |-> "fieldPointer", of |-> of, f |-> f]
Dereference(of) == [e |-> "deref", of |-> of]
Endorse(l, h) == [e |-> "endorse", l |-> l, of |-> h]
Ensure(l, h) == [e |-> "ensure", l |-> l, of |-> h]
IsValid(h) == [e |-> "isValid", of |-> h]
VarReference(x) == [e |-> "var", x |-> x]
Constant(n) == [e |-> "constant", n |-> n]
BinOp(op, l, r) == [e |-> "binop", op |-> op, l |-> l, r |-> r]
Operation(name, h, args) == [e |-> "operation", name |-> name, of |-> h, args |-> args]

Let(x, rhs, body) == [s |-> "let", x |-> x, rhs |-> rhs, body |-> body]
LetRemote(x, rhs, body) == [s |-> "remote", x |-> x, rhs |-> rhs, body |-> body]
OperationStatement(op) == [s |-> "operation", op |-> op]
Assignment(x, rhs) == [s |-> "assign", x |-> x, rhs |-> rhs]
Return(rhs) == [s |-> "return", rhs |-> rhs]
If(c, then, els) == [s |-> "if", c |-> c, then |-> then, els |-> els]
While(c, body) == [s |-> "while", c |-> c, body |-> body]
Pair(first, next) == [s |-> "pair", first |-> first, next |-> next]
Skip == [s |-> "skip"]

\* A throw, which stops the compilation.
ParseError == [e |-> "error", s |-> "error"]

-----------------------------------------------------------------------------
(* Expressions.                                                            *)

\* The operators in the order in which parse_expression looks for them.
Causes == << <<"+">>, <<"-", Space>>, <<"*", Space>>, <<"/">>, <<"=", "=">>, <<"&", "&">>, <<"|", "|">>,
             <<"!", "=">>, <<">", Space>>, <<"<">>, <<">", "=">>, <<"<", "=">> >>
CausesIn(str) == {i \in DOMAIN Causes : contains_outside_parens(Causes[i], str)}

DefaultList == <<"default", Space, "list">>

\* The check on the name of a field or a variable.
IsName(s) == ~contains_paren(s) /\ ~contains_space(s)
             /\ \A sub \in {<<".">>, <<"-", ">">>, <<"*">>} : ~contains_outside_parens(sub, s)

RECURSIVE parse_expression(_)

parse_binop(str, cause) ==
    LET operands == last_split(cause, str)
    IN  BinOp(cause[1], parse_expression(operands[1]), parse_expression(operands[2]))

parse_deref(str) == Dereference(parse_expression(Tail(str)))

parse_fieldref(str) ==
    LET operands == last_split(<<".">>, str)
    IN  IF IsName(operands[2]) THEN FieldReference(parse_expression(operands[1]), trim(operands[2])) ELSE ParseError

parse_fieldptrref(str) ==
    LET operands == last_split(<<"-", ">">>, str)
    IN  IF IsName(operands[2]) THEN FieldPointerReference(parse_expression(operands[1]), trim(operands[2]))
        ELSE ParseError

parse_builtin_op(str, specific_op) ==
    LET split == last_split(<<".">>, str)
        Hndl == parse_expression(split[1])
        op_args == trim(copy_within_parens(split[2]))
    IN  CASE specific_op = "endorse" -> Endorse(op_args, Hndl)
          [] specific_op = "ensure" -> Ensure(op_args, Hndl)
          [] specific_op = "isValid" -> IsValid(Hndl)

parse_args(str) ==
    LET exprs == SelectSeq(split_outside_parens(<<",">>, str), LAMBDA s : s # <<>>)
    IN  [i \in DOMAIN exprs |-> parse_expression(exprs[i])]

parse_operation(str) ==
    LET splits == last_split(<<".">>, str)
        Call == splits[2]
    IN  Operation(pre_paren(Call), parse_expression(splits[1]), parse_args(next_paren_group(Call)))

parse_varref(str) == IF IsName(trim(str)) THEN VarReference(trim(str)) ELSE ParseError

\* The branch of parse_expression for a text with a dot.
parse_member(str) ==
    LET member == trim(last_split(<<".">>, str)[2])
        builtin == {op \in {"isValid", "endorse", "ensure"} : contains_outside_parens(<<op, "(">>, member)}
    IN  IF contains_outside_parens(<<"-", ">">>, member) THEN parse_fieldptrref(str)
        ELSE IF builtin # {} THEN parse_builtin_op(str, CHOOSE op \in builtin : TRUE)
        ELSE IF contains_paren(member) THEN parse_operation(str)
        ELSE parse_fieldref(str)

parse_expression(_str) ==
    LET str == trim(_str)
    IN  IF str = DefaultList THEN VarReference(str)
        ELSE IF CausesIn(str) # {} THEN parse_binop(str, Causes[Min(CausesIn(str))])
        ELSE IF prefix_equal("*", str) THEN parse_deref(str)
        ELSE IF contains_outside_parens(<<".">>, str) THEN parse_member(str)
        ELSE IF contains_outside_parens(<<"-", ">">>, str) THEN parse_fieldptrref(str)
        ELSE IF prefix_equal("(", str) /\ str[Len(str)] = ")" THEN parse_expression(next_paren_group(str))
        ELSE IF str # <<>> /\ str[1] \in Digits THEN Constant(parse_int(str))
        ELSE parse_varref(str)

-----------------------------------------------------------------------------
(* Statements.                                                             *)

StatementKinds == <<"var", "remote", ",", "return", "while", "if", "=", "{", "operation", "skip", "error">>

\* Mutant: the comma is looked for before the bindings that it ends.
CommaFirst(str) ==
    IF contains_outside_parens(<<",">>, str) THEN ","
    ELSE IF first_word_is("var", str) THEN "var"
    ELSE IF first_word_is("remote", str) THEN "remote"
    ELSE IF contains_outside_parens(<<"return">>, str) THEN "return"
    ELSE IF contains_outside_parens(<<"while">>, str) THEN "while"
    ELSE IF contains_outside_parens(<<"if">>, str) THEN "if"
    ELSE IF contains_outside_parens(<<"=">>, str) THEN "="
    ELSE IF first_word_is("{", str) THEN "{"
    ELSE IF contains_paren(str) THEN "operation"
    ELSE IF trim(str) = <<>> THEN "skip" ELSE "error"

\* The branch parse_statement takes: the first of its tests that holds.
StatementKind(str) ==
    LET tests == << first_word_is("var", str),
                    first_word_is("remote", str),
                    contains_outside_parens(<<",">>, str),
                    contains_outside_parens(<<"return">>, str),
                    contains_outside_parens(<<"while">>, str),
                    contains_outside_parens(<<"if">>, str),
                    contains_outside_parens(<<"=">>, str),
                    first_word_is("{", str),
                    contains_paren(str),
                    trim(str) = <<>>,
                    TRUE >>
    IN  StatementKinds[Min({i \in DOMAIN tests : tests[i]})]

RECURSIVE parse_statement(_)

\* parse_binding: the name and the expression of a binding.
parse_binding(str) ==
    LET binding_components == first_split(<<"=">>, str)
    IN  <<trim(binding_components[1]), parse_expression(binding_components[2])>>

parse_var(str) ==
    LET let_components == first_split(<<",">>, remove_first_word(str))
        binding == parse_binding(let_components[1])
    IN  Let(binding[1], binding[2], parse_statement(let_components[2]))

parse_remote(str) ==
    LET let_components == first_split(<<",">>, remove_first_word(str))
        binding == parse_binding(let_components[1])
    IN  LetRemote(binding[1], binding[2], parse_statement(let_components[2]))

parse_return(str) == Return(parse_expression(remove_first_word(str)))

parse_while(str) ==
    LET without_first == remove_first_word(str)
    IN  While(parse_expression(next_paren_group(without_first)),
              parse_statement(copy_within_parens(After_paren_group(without_first))))

parse_if(str) ==
    LET post_condition == After_paren_group(str)
        post_then == After_paren_group(post_condition)
    IN  If(parse_expression(next_paren_group(str)),
           parse_statement(next_paren_group(post_condition)),
           IF first_word_is("else", post_then) THEN parse_statement(next_paren_group(post_then)) ELSE Skip)

parse_assignment(str) ==
    LET string_bufs == split_outside_parens(<<"=">>, str)
    IN  Assignment(parse_expression(string_bufs[1]), parse_expression(string_bufs[2]))

parse_sequence(str) ==
    LET string_bufs == first_split(<<",">>, str)
    IN  Pair(parse_statement(string_bufs[1]), parse_statement(string_bufs[2]))

parse_statement(str) ==
    LET kind == StatementKind(str)
    IN  CASE kind = "var" -> parse_var(str)
          [] kind = "remote" -> parse_remote(str)
          [] kind = "," -> parse_sequence(str)
          [] kind = "return" -> parse_return(str)
          [] kind = "while" -> parse_while(str)
          [] kind = "if" -> parse_if(str)
          [] kind = "=" -> parse_assignment(str)
          [] kind = "{" -> parse_statement(copy_within_parens(str))
          [] kind = "operation" -> OperationStatement(parse_operation(str))
          [] kind = "skip" -> Skip
          [] kind = "error" -> ParseError

parse(text) == IF \E i \in DOMAIN text : text[i] = ";" THEN ParseError ELSE parse_statement(text)

-----------------------------------------------------------------------------
(* The compiler's syntax has sequences of any length and no Skip.          *)
Sequence(ss) == [s |-> "seq", ss |-> ss]

RECURSIVE convert_to_old_parsed(_)
convert_to_old_parsed(st) ==
    CASE st.s \in {"let", "remote", "while"} -> [st EXCEPT !.body = convert_to_old_parsed(@)]
      [] st.s = "if" -> [st EXCEPT !.then = convert_to_old_parsed(@), !.els = convert_to_old_parsed(@)]
      [] st.s = "skip" -> Sequence(<<>>)
      [] st.s = "pair" ->
            LET first == convert_to_old_parsed(st.first)
                next == convert_to_old_parsed(st.next)
            IN  CASE st.next.s = "pair" -> Sequence(<<first>> \o next.ss)
                  [] st.next.s = "skip" -> Sequence(<<first>>)
                  [] OTHER -> Sequence(<<first, next>>)
      [] OTHER -> st
=============================================================================
