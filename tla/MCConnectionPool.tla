-------------------------- MODULE MCConnectionPool --------------------------
(* ConnectionPool with two connections for four threads. *)
EXTENDS ConnectionPool

CONSTANTS t1, t2, t3, t4, c1, c2

MCThreads == {t1, t2, t3, t4}
MCConnections == {c1, c2}
=============================================================================
