---------------------------- MODULE MCMeshServer ----------------------------
(***************************************************************************)
(* The process of the mesh server as TLC checks it: the messages of its    *)
(* clients, and the shell that runs it, as it runs any other application   *)
(* (xmlmesh/server/main.cc).  The two share nothing: part says which of    *)
(* them a behaviour is about, and the other stays as it is.  No symmetry:  *)
(* liveness is checked.                                                    *)
(***************************************************************************)
EXTENDS MeshServer, Daemon

VARIABLE part

pvars == <<part, meshVars, dvars>>

PInit ==
  /\ part \in {"mesh", "shell"}
  /\ MeshInit /\ DInit
  /\ part = "shell" => subscriptions = << >>

OfMesh(A) == part = "mesh" /\ A /\ UNCHANGED <<part, dvars>>
OfShell(A) == part = "shell" /\ A /\ UNCHANGED <<part, meshVars>>

\* The fairness of MeshServer and of Daemon.
PFairness ==
  /\ \A c \in Peer : WF_pvars(OfMesh(ThreadRun(c)))
  /\ WF_pvars(OfMesh(TickRun))
  /\ WF_pvars(OfShell(ParentRun)) /\ WF_pvars(OfShell(ChildRun))

PFairSpec == PInit /\ [][OfMesh(MeshNext) \/ OfShell(DNext)]_pvars /\ PFairness

\* The mesh alone.
PSpecMesh == PInit /\ [][OfMesh(MeshNext)]_pvars
=============================================================================
