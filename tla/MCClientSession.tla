-------------------------- MODULE MCClientSession --------------------------
(* Values for checking ClientSession. *)
EXTENDS ClientSession
=============================================================================
