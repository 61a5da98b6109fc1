---------------------------- MODULE MCClockSync ----------------------------
(* An instance of ClockSync. *)
EXTENDS ClockSync
CONSTANT s1
OneSession == {s1}
=============================================================================
