--------------------------- MODULE MCPhaseReplay ---------------------------
(* Instances of PhaseReplay for TLC: transactions put together from pieces, *)
(* each with its own variables (numbered i) and followed by rest, as the    *)
(* parser nests what follows a binding.                                     *)
EXTENDS PhaseReplay

CONSTANTS s1, s2, c1, c2

Labelling == (s1 :> Strong) @@ (s2 :> Strong) @@ (c1 :> Causal) @@ (c2 :> Causal)

V(x, i) == <<x, i>>
hs1 == V("hs", 1)
hs2 == V("hs", 2)
hc1 == V("hc", 1)
hc2 == V("hc", 2)
acc == V("acc", 0)

Ref(x) == VarReference(x)
Field(x) == FieldReference(Ref(x))
Arrow(h) == FieldPointerReference(Ref(h))
Plus(e, f) == BinOp("+", e, f)
Less(e, f) == BinOp("<", e, f)
Loop(c, body) == While(c, body, Unnamed)

\* The parser's sequences are flat.
Block(st, rest) == Sequence(<<st>> \o IF rest.s = "seq" THEN rest.ss ELSE <<rest>>)

\* remote x = hs1, hc1->f = x.f + 1, acc = x.f
CopyDown(i, rest) ==
    LetRemote(V("x", i), Ref(hs1),
        Block(Assignment(Arrow(hc1), Plus(Field(V("x", i)), Constant(1))),
        Block(Assignment(Ref(acc), Field(V("x", i))), rest)))

\* remote a = hs1, remote b = hs2, b.f = a.f + 1, hc1.add(a.f)
\*                                                 (a and b may be aliases)
Alias(i, rest) ==
    LetRemote(V("a", i), Ref(hs1), LetRemote(V("b", i), Ref(hs2),
        Block(Assignment(Field(V("b", i)), Plus(Field(V("a", i)), Constant(1))),
        Block(Operation(Ref(hc1), Field(V("a", i))), rest))))

\* remote a = hs1, var h = hs2, h.add(1), hs1.add(hs2->f), hc2.add(a.f + a.f),
\* acc = a.f                                       (the operations refresh a)
OperationRefresh(i, rest) ==
    LetRemote(V("a", i), Ref(hs1), Let(V("h", i), Ref(hs2),
        Block(Operation(Ref(V("h", i)), Constant(1)),
        Block(Operation(Ref(hs1), Arrow(hs2)),
        Block(Operation(Ref(hc2), Plus(Field(V("a", i)), Field(V("a", i)))),
        Block(Assignment(Ref(acc), Field(V("a", i))), rest))))))

\* if (1 < hs1->f) { acc = hc1->f + acc } else { hs1->f = hs2->f }
StrongIf(i, rest) ==
    Block(If(Less(Constant(1), Arrow(hs1)),
             Assignment(Ref(acc), Plus(Arrow(hc1), Ref(acc))),
             Assignment(Arrow(hs1), Arrow(hs2))), rest)

\* remote y = hc2, if (1 < y.f) { hc1.add(y.f + 1), acc = acc + 1 }
CausalIf(i, rest) ==
    LetRemote(V("y", i), Ref(hc2),
        Block(If(Less(Constant(1), Field(V("y", i))),
                 Sequence(<<Operation(Ref(hc1), Plus(Field(V("y", i)), Constant(1))),
                            Assignment(Ref(acc), Plus(Ref(acc), Constant(1)))>>), Empty), rest))

\* var m = hs2->f, var i = 0,
\* while (i < m) { remote x = hs1, var v = x.f, i = i + 1, x.f = i, hc1.add(v) }
StrongWhile(i, rest) ==
    Let(V("m", i), Arrow(hs2), Let(V("i", i), Constant(0),
        Block(Loop(Less(Ref(V("i", i)), Ref(V("m", i))),
            LetRemote(V("x", i), Ref(hs1), Let(V("v", i), Field(V("x", i)),
                Sequence(<<Assignment(Ref(V("i", i)), Plus(Ref(V("i", i)), Constant(1))),
                           Assignment(Field(V("x", i)), Ref(V("i", i))),
                           Operation(Ref(hc1), Ref(V("v", i)))>>)))), rest)))

\* var m = hc1->f, var i = 0, while (i < m) { i = i + 1, hc2.add(i) }
CausalWhile(i, rest) ==
    Let(V("m", i), Arrow(hc1), Let(V("i", i), Constant(0),
        Block(Loop(Less(Ref(V("i", i)), Ref(V("m", i))),
            Sequence(<<Assignment(Ref(V("i", i)), Plus(Ref(V("i", i)), Constant(1))),
                       Operation(Ref(hc2), Ref(V("i", i)))>>)), rest)))

Piece(n, i, rest) ==
    CASE n = 1 -> CopyDown(i, rest)
      [] n = 2 -> Alias(i, rest)
      [] n = 3 -> OperationRefresh(i, rest)
      [] n = 4 -> StrongIf(i, rest)
      [] n = 5 -> CausalIf(i, rest)
      [] n = 6 -> StrongWhile(i, rest)
      [] n = 7 -> CausalWhile(i, rest)

\* The arguments; two handles of a store may refer to one object.
Arguments(aliased) ==
    (hs1 :> s1) @@ (hs2 :> IF aliased THEN s1 ELSE s2)
        @@ (hc1 :> c1) @@ (hc2 :> IF aliased THEN c1 ELSE c2)

HandleLabels ==
    [h \in {hs1, hs2, hc1, hc2} \cup {V("h", i) : i \in 1..2} |->
        IF h \in {hc1, hc2} THEN Causal ELSE Strong]

Transaction(body, aliased) ==
    [body |-> body, env |-> Arguments(aliased), handle |-> HandleLabels]

\* var acc = 0, first piece, second piece, return acc
Pair(m, n, aliased) ==
    Transaction(Let(acc, Constant(0), Piece(m, 1, Piece(n, 2, Return(Ref(acc))))), aliased)

\* The pairs that keep their names apart once they are flattened.
AllPairs ==
    LET pair(q) == LET r == (q - 1) % 49 IN Pair(1 + (r \div 7), 1 + (r % 7), q > 49)
    IN  SelectSeq([q \in 1..(2 * 49) |-> pair(q)],
                  LAMBDA p : BoundOnce(flatten_expressions(p.body)))

\* remote x = hs1, x.f = hc1->f
CopyUp ==
    Transaction(LetRemote(V("x", 1), Ref(hs1), Assignment(Field(V("x", 1)), Arrow(hc1))), FALSE)

\* remote x = hs1, if (hc1->f) { x.f = 1 }
ImplicitFlowUp ==
    Transaction(LetRemote(V("x", 1), Ref(hs1),
        If(Arrow(hc1), Assignment(Field(V("x", 1)), Constant(1)), Empty)), FALSE)

\* remote x = hs1, if (hc1->f) { hs1.add(1) }
OperationUp ==
    Transaction(LetRemote(V("x", 1), Ref(hs1),
        If(Arrow(hc1), Operation(Ref(hs1), Constant(1)), Empty)), FALSE)

PassingPrograms == AllPairs \o <<CopyUp, ImplicitFlowUp, OperationUp>>

\* remote y = hs1, remote x = hc1, x = y, return x
UnshippedMap ==
    <<Transaction(LetRemote(V("y", 1), Ref(hs1), LetRemote(V("x", 1), Ref(hc1),
        Sequence(<<Assignment(Ref(V("x", 1)), Ref(V("y", 1))), Return(Ref(V("x", 1)))>>))), FALSE)>>

\* remote x = hs1, hs1.add(1), return x
OperationBeforeRead ==
    <<Transaction(LetRemote(V("x", 1), Ref(hs1),
        Sequence(<<Operation(Ref(hs1), Constant(1)), Return(Ref(V("x", 1)))>>)), FALSE)>>

\* var m = hs1->f, var i = 0,
\* while (i < m) { var j = 0, while (j < i) { hc1.add(1), j = j + 1 }, i = i + 1 },
\* return m
NestedWhile ==
    LET inner == Loop(Less(Ref(V("j", 1)), Ref(V("i", 1))),
            Sequence(<<Operation(Ref(hc1), Constant(1)),
                       Assignment(Ref(V("j", 1)), Plus(Ref(V("j", 1)), Constant(1)))>>))
        outer == Loop(Less(Ref(V("i", 1)), Ref(V("m", 1))),
            Let(V("j", 1), Constant(0),
                Sequence(<<inner,
                           Assignment(Ref(V("i", 1)), Plus(Ref(V("i", 1)), Constant(1)))>>)))
    IN  <<Transaction(Let(V("m", 1), Arrow(hs1), Let(V("i", 1), Constant(0),
            Sequence(<<outer, Return(Ref(V("m", 1)))>>))), FALSE)>>

\* var m = hs1->f, var n = hs2->f, var one = 1, var i = one, var j = one,
\* if (m) { while (i < m) { i = i + one, hc1.add(one) }, i = one },
\* while (j < n) { j = j + one, hc2.add(one) }, return m
SharedLoopName ==
    LET m == V("m", 1)
        n == V("n", 1)
        one == V("one", 1)
        loop(i, bound, h) == Loop(Less(Ref(i), Ref(bound)),
            Sequence(<<Assignment(Ref(i), Plus(Ref(i), Ref(one))), Operation(Ref(h), Ref(one))>>))
        body == Sequence(<<If(Ref(m), Sequence(<<loop(V("i", 1), m, hc1), Assignment(Ref(V("i", 1)), Ref(one))>>), Empty),
                           loop(V("j", 1), n, hc2),
                           Return(Ref(m))>>)
    IN  <<Transaction(Let(m, Arrow(hs1), Let(n, Arrow(hs2), Let(one, Constant(1),
            Let(V("i", 1), Ref(one), Let(V("j", 1), Ref(one), body))))), FALSE)>>
=============================================================================
