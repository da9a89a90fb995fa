----------------------------- MODULE MCServer ------------------------------
(* Server with a main and a worker thread and two connections. *)
EXTENDS Server
=============================================================================
