----------------------------- MODULE MCLibrary ------------------------------
(***************************************************************************)
(* Four components of the library as TLC checks them.  They share nothing: *)
(* part says which of them a behaviour is about, and the others stay as    *)
(* they are.                                                               *)
(***************************************************************************)
EXTENDS Ring, Cache, RangeSet, TubeClient

VARIABLE part

lvars == <<part, ringVars, cacheVars, svars, cvars>>

LInit ==
  /\ part \in {"ring", "cache", "ranges", "client"}
  /\ RingInit /\ CacheInit /\ RSInit /\ CInit
  /\ part # "cache" => limit = 1
  /\ part # "ranges" => end_offset = 0
  /\ part # "client" => sock.up

OfRing(A) == part = "ring" /\ A /\ UNCHANGED <<part, cacheVars, svars, cvars>>
OfCache(A) == part = "cache" /\ A /\ UNCHANGED <<part, ringVars, svars, cvars>>
OfRanges(A) == part = "ranges" /\ A /\ UNCHANGED <<part, ringVars, cacheVars, cvars>>
OfClient(A) == part = "client" /\ A /\ UNCHANGED <<part, ringVars, cacheVars, svars>>

\* A tube client has all but one of the messages and faults of its server.
ServerBound == received + trouble < MaxMessages + MaxTrouble

LNext ==
  \/ OfRing(RingNext) \/ OfCache(CacheNext) \/ OfRanges(RSNext)
  \/ OfClient(CNext /\ ServerBound')

\* CFairness; nothing is fair in the others.
LFairness ==
  /\ WF_lvars(OfClient(ReceiveRun)) /\ WF_lvars(OfClient(~StaleReader /\ ReceiveEnds))
  /\ WF_lvars(OfClient(SendRun)) /\ WF_lvars(OfClient(ShutdownRun))

LFairSpec == LInit /\ [][LNext]_lvars /\ LFairness

\* One component, with the calls that the passing run leaves out.
LSpecFlush == LInit /\ [][OfRing(RingNextFlush)]_lvars
LSpecRemove == LInit /\ [][OfRanges(RSNextAny)]_lvars
LSpecCache == LInit /\ [][OfCache(CacheNext)]_lvars
LSpecClient == LInit /\ [][OfClient(CNext)]_lvars
=============================================================================
