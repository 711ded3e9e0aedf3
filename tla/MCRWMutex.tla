------------------------------ MODULE MCRWMutex -----------------------------
(* RWMutex as TLC checks it.  No symmetry: the runs check liveness.        *)
EXTENDS RWMutex
=============================================================================
