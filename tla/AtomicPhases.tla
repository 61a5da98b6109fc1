---------------------------- MODULE AtomicPhases ----------------------------
(***************************************************************************)
(* What a mixed-consistency transaction promises its caller, without       *)
(* stores, sessions, retries or messages: its phases take effect one after *)
(* the other, it may give up only at a phase whose label can abort, and    *)
(* once begun it ends.                                                     *)
(***************************************************************************)
EXTENDS Naturals

CONSTANTS Clients, NPhases, CanAbort, MaxRuns

VARIABLES
    begun,      \* transactions the client has begun
    done,       \* phases of the current one that have taken effect
    result      \* "none" until the transaction ends

vars == <<begun, done, result>>

Init ==
    /\ begun = [c \in Clients |-> 0]
    /\ done = [c \in Clients |-> 0]
    /\ result = [c \in Clients |-> "none"]

Running(c) == begun[c] > 0 /\ result[c] = "none"

Begin(c) ==
    /\ ~Running(c) /\ begun[c] < MaxRuns
    /\ begun' = [begun EXCEPT ![c] = @ + 1]
    /\ done' = [done EXCEPT ![c] = 0]
    /\ result' = [result EXCEPT ![c] = "none"]

TakeEffect(c) ==
    /\ Running(c) /\ done[c] < NPhases
    /\ done' = [done EXCEPT ![c] = @ + 1]
    /\ UNCHANGED <<begun, result>>

Return(c) ==
    /\ Running(c) /\ done[c] = NPhases
    /\ result' = [result EXCEPT ![c] = "committed"]
    /\ UNCHANGED <<begun, done>>

GiveUp(c) ==
    /\ Running(c) /\ done[c] + 1 \in CanAbort
    /\ result' = [result EXCEPT ![c] = "aborted"]
    /\ UNCHANGED <<begun, done>>

Progress(c) == TakeEffect(c) \/ Return(c) \/ GiveUp(c)

Next == \E c \in Clients : Begin(c) \/ Progress(c)

\* What may happen, without what must.
SafeSpec == Init /\ [][Next]_vars

Spec == SafeSpec /\ \A c \in Clients : WF_vars(Progress(c))
=============================================================================
