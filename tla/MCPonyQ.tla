------------------------------ MODULE MCPonyQ ------------------------------
(* PonyQ as the configuration PonyQ instantiates it. *)
EXTENDS PonyQ
=============================================================================
