------------------------------- MODULE Daemon -------------------------------
(***************************************************************************)
(* ObTools::Daemon::Shell (libs/daemon/shell.cc): the watchdog parent that *)
(* forks a child and restarts it when it fails, the child's main loop, and *)
(* the signals an administrator sends to the parent, whose pid is in the   *)
(* pid file.  A signal handler runs between any two steps of its process;  *)
(* the parent's passes the signal on to child_pid.                         *)
(*                                                                         *)
(* Configurations are known by a version number that grows with each edit. *)
(* How long the parent sleeps between restarts does not matter here.       *)
(***************************************************************************)
EXTENDS Integers

CONSTANTS MaxForks,   \* bound on the children that are forked
          MaxFails,   \* bound on the forks that fail
          MaxEdits    \* bound on the edits of the configuration

ASSUME DaemonAssumption ==
  MaxForks \in Nat \ {0} /\ MaxFails \in Nat /\ MaxEdits \in Nat

VARIABLES
  parent,     \* [pc, shutdown, reload, child_pid]: the parent, its triggers
  child,      \* [pc, shutdown, reload, config, status]: the last child forked
  forks, fails,
  file,       \* version of the configuration file
  broken,     \* config.read() of that version fails
  hup,        \* version at the last SIGHUP to the parent
  lost        \* signals that came at a moment when the code loses them; "READ"
              \* when what the child last did for a SIGHUP was to fail to read

dvars == <<parent, child, forks, fails, file, broken, hup, lost>>

Running == child.pc \in {"start", "tick", "check", "reload", "cleanup"}

\* The configuration has been read, the handlers are installed.
DInit ==
  /\ parent = [pc |-> "fork", shutdown |-> FALSE, reload |-> FALSE, child_pid |-> 0]
  /\ child = [pc |-> "none", shutdown |-> FALSE, reload |-> FALSE, config |-> 0, status |-> 0]
  /\ forks = 0 /\ fails = 0
  /\ file = 0 /\ broken = FALSE /\ hup = 0
  /\ lost = {}

-----------------------------------------------------------------------------
(* The parent's loop in start() *)

\* fork(): the child has a copy of the parent's state and signal handlers.
\* Mutant: the child begins with its triggers cleared.
ForkCleared ==
  /\ parent.pc = "fork"
  /\ forks' = forks + 1
  /\ child' = [pc |-> "start", shutdown |-> FALSE, reload |-> FALSE, config |-> 0, status |-> 0]
  /\ parent' = [parent EXCEPT !.pc = "assign"]
  /\ UNCHANGED <<fails, file, broken, hup, lost>>

Fork ==
  /\ parent.pc = "fork"
  /\ forks' = forks + 1
  /\ child' = [pc |-> "start", shutdown |-> parent.shutdown, reload |-> parent.reload,
               config |-> 0, status |-> 0]
  /\ parent' = [parent EXCEPT !.pc = "assign"]
  /\ UNCHANGED <<fails, file, broken, hup, lost>>

ForkFails ==
  /\ parent.pc = "fork" /\ fails < MaxFails
  /\ fails' = fails + 1
  /\ parent' = [parent EXCEPT !.pc = "sleep", !.child_pid = -1]
  /\ UNCHANGED <<child, forks, file, broken, hup, lost>>

\* The result of fork() reaches child_pid.
Assign ==
  /\ parent.pc = "assign"
  /\ parent' = [parent EXCEPT !.pc = "wait", !.child_pid = forks]
  /\ UNCHANGED <<child, forks, fails, file, broken, hup, lost>>

\* waitpid() returns: the parent stops when the child exited with 0, or when a
\* shutdown was asked for; child_pid keeps the pid of the dead child.
Waited ==
  /\ parent.pc = "wait" /\ child.pc = "exited"
  /\ parent' = [parent EXCEPT
       !.pc = IF child.status = 0 \/ parent.shutdown THEN "exited" ELSE "sleep"]
  /\ UNCHANGED <<child, forks, fails, file, broken, hup, lost>>

WakesUp ==
  /\ parent.pc = "sleep"
  /\ parent' = [parent EXCEPT !.pc = "fork"]
  /\ UNCHANGED <<child, forks, fails, file, broken, hup, lost>>

-----------------------------------------------------------------------------
(* The child: run_priv(), drop_privileges(), run() and cleanup() *)

Exit(status) == child' = [child EXCEPT !.pc = "exited", !.status = status]

ChildStarts ==
  /\ child.pc = "start"
  /\ child' = [child EXCEPT !.pc = "tick"]
  /\ UNCHANGED <<parent, forks, fails, file, broken, hup, lost>>

\* The application's tick and the sleep after it.
Tick ==
  /\ child.pc = "tick"
  /\ child' = [child EXCEPT !.pc = "check"]
  /\ UNCHANGED <<parent, forks, fails, file, broken, hup, lost>>

\* The end of a turn of run(): a shutdown goes before a reload.
Check ==
  /\ child.pc = "check" /\ (child.reload => child.shutdown)
  /\ child' = [child EXCEPT !.pc = IF child.shutdown THEN "cleanup" ELSE "tick"]
  /\ UNCHANGED <<parent, forks, fails, file, broken, hup, lost>>

\* reload(): config is the version that application.read_config() was given
\* last.  When the file cannot be read, has bad XML or another root element the
\* application keeps it, is reconfigured all the same, and the trigger is
\* cleared as after a success.  The <include>s of the file, which start() works
\* in once, are not; config is about the file's own elements.
Reload ==
  /\ child.pc = "check" /\ ~child.shutdown /\ child.reload
  /\ child' = [child EXCEPT !.pc = "reload", !.config = IF broken THEN @ ELSE file]
  /\ lost' = IF broken THEN lost \cup {"READ"} ELSE lost \ {"READ"}
  /\ UNCHANGED <<parent, forks, fails, file, broken, hup>>

\* application.reconfigure() returns; the trigger is cleared.
Reloaded ==
  /\ child.pc = "reload"
  /\ child' = [child EXCEPT !.pc = "tick", !.reload = FALSE]
  /\ UNCHANGED <<parent, forks, fails, file, broken, hup, lost>>

ChildReturns ==
  /\ child.pc = "cleanup"
  /\ Exit(0)
  /\ UNCHANGED <<parent, forks, fails, file, broken, hup, lost>>

\* A step of the child returns an error code, or a signal kills it.
ChildFails ==
  /\ Running /\ forks < MaxForks
  /\ Exit(1)
  /\ UNCHANGED <<parent, forks, fails, file, broken, hup, lost>>

-----------------------------------------------------------------------------
(* Signals to the parent.  kill() of a pid of ours that has gone does nothing.
   After a fork that failed child_pid is -1, and kill(-1) goes to every process
   that the parent may signal; none of them is a child of ours, and others are
   not in the model. *)

Reached == Running /\ parent.child_pid = forks

\* sigshutdown(): the signals are ignored from then on.
\* Mutant: the signal is not passed on.
KeepsTerm ==
  /\ ~parent.shutdown /\ parent.pc # "exited"
  /\ parent' = [parent EXCEPT !.shutdown = TRUE]
  /\ lost' = IF parent.pc = "assign" THEN lost \cup {"TERM"} ELSE lost
  /\ UNCHANGED <<child, forks, fails, file, broken, hup>>

SigTerm ==
  /\ ~parent.shutdown /\ parent.pc # "exited"
  /\ parent' = [parent EXCEPT !.shutdown = TRUE]
  /\ child' = IF Reached THEN [child EXCEPT !.shutdown = TRUE] ELSE child
  /\ lost' = IF parent.pc = "assign" THEN lost \cup {"TERM"} ELSE lost
  /\ UNCHANGED <<forks, fails, file, broken, hup>>

\* sighup().  One that comes while the child reloads is cleared with the one
\* that made it reload.
SigHup ==
  /\ parent.pc # "exited" /\ hup < file
  /\ parent' = [parent EXCEPT !.reload = TRUE]
  /\ child' = IF Reached THEN [child EXCEPT !.reload = TRUE] ELSE child
  /\ hup' = file
  /\ lost' = (lost \ {"READ"}) \cup
       (IF parent.pc = "assign" \/ child.pc = "reload" THEN {"HUP"} ELSE {})
  /\ UNCHANGED <<forks, fails, file, broken>>

\* The file is saved, or removed, in a state that can be read or cannot.
Edit ==
  /\ file < MaxEdits
  /\ file' = file + 1
  /\ broken' \in BOOLEAN
  /\ UNCHANGED <<parent, child, forks, fails, hup, lost>>

-----------------------------------------------------------------------------
ParentRun == Fork \/ Assign \/ Waited \/ WakesUp
ChildRun == ChildStarts \/ Tick \/ Check \/ Reload \/ Reloaded \/ ChildReturns

DNext ==
  \/ ParentRun \/ ForkFails \/ ChildRun \/ ChildFails
  \/ SigTerm \/ SigHup \/ Edit

DSpec == DInit /\ [][DNext]_dvars

\* Both processes run; a fork succeeds in the end.
DFairSpec == DSpec /\ WF_dvars(ParentRun) /\ WF_dvars(ChildRun)

-----------------------------------------------------------------------------
\* A SIGTERM to the parent ends child and parent, whenever it comes: before
\* the first fork, while the child runs, starts or crashes, or while the
\* parent waits to restart it.  The one exception is a signal between the
\* return of fork() and the assignment of child_pid, which reaches no child.
ShutdownEnds == parent.shutdown ~> (parent.pc = "exited" \/ "TERM" \in lost)

\* After a SIGHUP the child comes to run with a configuration at least as new
\* as it was then, also when that child has crashed and another one, forked
\* from a parent that holds the old configuration, has taken its place.  It
\* does not when the signal was lost, or when the file could not be read: then
\* it takes another SIGHUP, and the property holds of that one.
ReloadReaches ==
  (hup > 0) ~> \/ child.config >= hup \/ child.shutdown \/ parent.pc = "exited"
               \/ {"HUP", "READ"} \cap lost # {}
=============================================================================
