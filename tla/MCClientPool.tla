---------------------------- MODULE MCClientPool ----------------------------
(* ClientPool as the configuration ClientPool instantiates it. *)
EXTENDS ClientPool
=============================================================================
