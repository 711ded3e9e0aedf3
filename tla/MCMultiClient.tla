---------------------------- MODULE MCMultiClient ---------------------------
(***************************************************************************)
(* MultiClient as TLC checks it, in two scenes, which bound what goes on   *)
(* around the client: connections lost while others are being restored,    *)
(* and messages that keep the workers of one Subscriber busy.  No          *)
(* symmetry: liveness is checked.                                          *)
(***************************************************************************)
EXTENDS MultiClient

VARIABLE scene

scvars == <<scene, mvars>>

SCInit == scene \in {"restarts", "messages"} /\ MInit

\* The Subscribers, messages and lost connections of each scene.
Subs == IF scene = "restarts" THEN Sub ELSE {CHOOSE s \in Sub : TRUE}
SceneBound ==
  /\ Range(subscribers) \subseteq Subs
  /\ scene = "restarts" => published <= 1 /\ published + drops <= 2
  /\ scene = "messages" => drops <= 1

InScene(A) == A /\ UNCHANGED scene /\ SceneBound'

\* MFairness.
SCFairness ==
  /\ \A t \in Caller : WF_scvars(InScene(CallerRun(t)))
  /\ WF_scvars(InScene(DispatchRun))
  /\ \A w \in Worker : WF_scvars(InScene(WorkerRun(w)))
  /\ WF_scvars(InScene(ServerRun))

SCFairSpec == SCInit /\ [][InScene(MNext)]_scvars /\ SCFairness
=============================================================================
