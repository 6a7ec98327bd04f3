---------------------------- MODULE MCEmqNetwork ----------------------------
(***************************************************************************)
(* The loops of network.c on small instances.                              *)
(***************************************************************************)
EXTENDS EmqNetwork
=============================================================================
