----------------------------- MODULE MCTracking -----------------------------
(* Tracking for TLC: in the runs that check invariants only, writers and    *)
(* nonces are interchangeable.                                              *)
EXTENDS Tracking, TLC

Symmetry == Permutations(Writers \ Operators) \cup Permutations(Nonces)
=============================================================================
