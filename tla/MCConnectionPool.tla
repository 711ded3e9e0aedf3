-------------------------- MODULE MCConnectionPool --------------------------
(* ConnectionPool as TLC checks it.  No symmetry: the run checks liveness. *)
EXTENDS ConnectionPool
=============================================================================
