---------------------------- MODULE MCThreadPool ----------------------------
(* ThreadPool as TLC checks it.                                            *)
EXTENDS ThreadPool
=============================================================================
