---------------------------- MODULE MCTubeServer ----------------------------
(* TubeServer as TLC checks it.                                            *)
EXTENDS TubeServer
=============================================================================
