----------------------------- MODULE FifoQueue -----------------------------
(***************************************************************************)
(* What a PonyQ promises the threads that share it: elements leave in the   *)
(* order in which they were put, each of them once.  The one liberty is     *)
(* peek_or_build: an element built by the consumer stands at the front.     *)
(***************************************************************************)
EXTENDS Naturals, Sequences

CONSTANT Nodes

VARIABLE q        \* the elements of the queue, oldest first

Init == \E n \in Nodes : q = <<n>>

Put(n) == /\ \A i \in 1..Len(q) : q[i] # n
          /\ q' = Append(q, n)

Build(n) == /\ \A i \in 1..Len(q) : q[i] # n
            /\ q' = <<n>> \o q

Take == q # <<>> /\ q' = Tail(q)

Next == Take \/ \E n \in Nodes : Put(n) \/ Build(n)

Spec == Init /\ [][Next]_q
=============================================================================
