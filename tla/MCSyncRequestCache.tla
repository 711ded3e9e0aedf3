------------------------- MODULE MCSyncRequestCache -------------------------
(* SyncRequestCache as TLC checks it.  No symmetry: liveness is checked.   *)
EXTENDS SyncRequestCache
=============================================================================
