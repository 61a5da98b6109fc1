------------------------- MODULE MCMixedTransaction -------------------------
(* Instances of MixedTransaction for TLC: the transaction of               *)
(* simple_txn_test, a strong phase and a causal phase, over a few rows.    *)
EXTENDS MixedTransaction

CONSTANTS c1, c2, x, y

R(o) == [op |-> "read", obj |-> o]
W(o) == [op |-> "write", obj |-> o]

\* Both clients read and write a strong row, then update the causal rows in
\* the same order: waits cannot form a cycle.
OrderedProgram ==
    [c \in Clients |-> <<<<R(x), W(x)>>, <<W(x), W(y)>>>>]

\* The causal phases update the same two rows in opposite orders.
CrossingProgram ==
    [c \in Clients |->
        <<<<W(x)>>, IF c = c1 THEN <<W(x), W(y)>> ELSE <<W(y), W(x)>>>>]

\* A local first phase (PreEndorse or top) without store statements, then a
\* strong phase and a causal phase that can conflict and deadlock.
LocalFirstProgram ==
    [c \in Clients |->
        <<<<>>, <<R(x), W(x)>>, IF c = c1 THEN <<R(y), W(x), W(y)>> ELSE <<W(y), W(x)>>>>]

StrongOnly == {1}
StrongAndCausal == {1, 2}
SecondPhase == {2}
LastTwo == {2, 3}
=============================================================================
