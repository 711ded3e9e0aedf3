----------------------------- MODULE TubeServer -----------------------------
(***************************************************************************)
(* ObTools::Tube::Server (libs/tube/server.cc) with its ClientSessions:    *)
(* one worker thread per connection in process(), one detached send thread *)
(* per session, other threads that call send(), and shutdown().            *)
(*                                                                         *)
(* The lock on the session map is used through RWLock, the specification   *)
(* that RWMutex implements.  handle_message() is the application's: it may *)
(* call send() for any client (SyncServer answers a request that way) and  *)
(* let the connection go on or not.  Contents of messages do not matter    *)
(* here; a queue is known by its length.                                   *)
(***************************************************************************)
EXTENDS Naturals, Sequences

CONSTANTS Conn,        \* connections, each with its worker and send thread
          Sender,      \* other threads that call send()
          EndPoint,    \* client addresses
          MaxQueue,    \* max_send_queue; "Zero must work"
          MaxSends,    \* bound on the number of calls of send()
          MaxReads,    \* bound on the number of messages that come in
          None         \* no session, no address

ASSUME QueueAssumption == MaxQueue \in Nat /\ MaxSends \in Nat /\ MaxReads \in Nat
ASSUME ThreadAssumption == Conn \cap Sender = {} /\ None \notin Conn \cup EndPoint

Thread == Conn \cup Sender

VARIABLES
  alive,      \* the server has not been shut down
  worker,     \* where the worker of a connection is in process()
  address,    \* client.address
  up,         \* the connection works; FALSE once the peer or die() ended it
  sender,     \* the send thread: "off", "top", "wait", "write", "dead"
  salive,     \* session.alive
  queue,      \* length of session.send_q
  sessions,   \* client_sessions.sessions
  held,       \* holds of client_sessions.mutex, by thread
  call,       \* where a thread is in send(): "out", "find", "poll"
  target,     \* the address that send() is called with
  cs,         \* the session that send() has found
  sends, reads

sessionVars == <<address, up, sender, salive, queue>>
callVars    == <<call, target, cs, sends>>
vars == <<alive, worker, sessionVars, sessions, held, callVars, reads>>

Lock == INSTANCE RWLock WITH Thread <- Thread, MaxDepth <- 1, held <- held

\* The worker is inside handle_message(): for STARTED, a message, FINISHED.
Handling == {"started", "handle", "finished"}

\* The ClientSession of c is constructed and not yet destroyed.
Exists(c) == worker[c] \in Handling \cup {"read", "reap", "remove"}

Running(c) == sender[c] \in {"top", "wait", "write"}

Init ==
  /\ alive = TRUE
  /\ worker = [c \in Conn |-> "none"]
  /\ address = [c \in Conn |-> None]
  /\ up = [c \in Conn |-> FALSE]
  /\ sender = [c \in Conn |-> "off"]
  /\ salive = [c \in Conn |-> FALSE]
  /\ queue = [c \in Conn |-> 0]
  /\ sessions = [e \in EndPoint |-> None]
  /\ Lock!Init
  /\ call = [t \in Thread |-> "out"]
  /\ target = [t \in Thread |-> None]
  /\ cs = [t \in Thread |-> None]
  /\ sends = 0
  /\ reads = 0

-----------------------------------------------------------------------------
(* Server::process(), in the worker of a connection *)

Goto(c, l) == worker' = [worker EXCEPT ![c] = l]

\* TCPServer::run() accepts a connection.  An address is used again only
\* when the client's end of the earlier connection has gone.
Accept(c, e) ==
  /\ alive /\ worker[c] = "none"
  /\ \A d \in Conn : address[d] = e => ~up[d]
  /\ Goto(c, "add")
  /\ address' = [address EXCEPT ![c] = e]
  /\ up' = [up EXCEPT ![c] = TRUE]
  /\ UNCHANGED <<alive, sender, salive, queue, sessions, held, callVars, reads>>

\* A write lock is taken and let go within one action.
NoHolds == \A t \in Thread : Lock!HoldsNothing(t)

\* ClientSession(), whose SessionMap::add() replaces an older entry; the send
\* thread is started and detached, STARTED goes to the handler.
AddSession(c) ==
  /\ worker[c] = "add" /\ NoHolds
  /\ sessions' = [sessions EXCEPT ![address[c]] = c]
  /\ salive' = [salive EXCEPT ![c] = TRUE]
  /\ sender' = [sender EXCEPT ![c] = "top"]
  /\ Goto(c, "started")
  /\ UNCHANGED <<alive, address, up, queue, held, callVars, reads>>

\* The test of the loop; the socket object stays valid all the time.
Loop(c) == IF alive /\ Running(c) THEN "read" ELSE "finished"

\* A whole message; "|| !alive" drops what comes after a shutdown.
Read(c) ==
  /\ worker[c] = "read" /\ up[c] /\ reads < MaxReads
  /\ reads' = reads + 1
  /\ Goto(c, IF alive THEN "handle" ELSE "finished")
  /\ UNCHANGED <<alive, sessionVars, sessions, held, callVars>>

\* End of the stream, an error, a timeout of the client, a short message or
\* an unrecognised tag: the loop is left, whether the connection works or not.
ReadEnds(c) ==
  /\ worker[c] = "read"
  /\ Goto(c, "finished")
  /\ UNCHANGED <<alive, sessionVars, sessions, held, callVars, reads>>

\* handle_message() returns; the answer counts for a message only.
HandlerReturns(c, result) ==
  /\ worker[c] \in Handling /\ call[c] = "out"
  /\ Goto(c, CASE worker[c] = "started"  -> Loop(c)
               [] worker[c] = "handle"   -> IF result THEN Loop(c) ELSE "finished"
               [] worker[c] = "finished" -> IF Running(c) THEN "reap" ELSE "remove")
  /\ UNCHANGED <<alive, sessionVars, sessions, held, callVars, reads>>

\* The send thread is told to end and woken with a bogus message ...
\* Mutant: it is not woken.
NotWoken(c) ==
  /\ worker[c] = "reap" /\ salive[c]
  /\ salive' = [salive EXCEPT ![c] = FALSE]
  /\ up' = [up EXCEPT ![c] = FALSE]
  /\ UNCHANGED <<alive, worker, address, sender, queue, sessions, held, callVars, reads>>

StopSender(c) ==
  /\ worker[c] = "reap" /\ salive[c]
  /\ salive' = [salive EXCEPT ![c] = FALSE]
  /\ up' = [up EXCEPT ![c] = FALSE]
  /\ queue' = [queue EXCEPT ![c] = @ + 1]
  /\ UNCHANGED <<alive, worker, address, sender, sessions, held, callVars, reads>>

\* ... and only when it has ended process() returns.  (Further bogus messages
\* change nothing: the first one is still in the queue or has been taken.)
Reaped(c) ==
  /\ worker[c] = "reap" /\ ~salive[c] /\ ~Running(c)
  /\ Goto(c, "remove")
  /\ UNCHANGED <<alive, sessionVars, sessions, held, callVars, reads>>

\* ~ClientSession(): SessionMap::remove() erases the entry of the address,
\* whichever session is in it.
RemoveSession(c) ==
  /\ worker[c] = "remove" /\ NoHolds
  /\ sessions' = [sessions EXCEPT ![address[c]] = None]
  /\ up' = [up EXCEPT ![c] = FALSE]
  /\ queue' = [queue EXCEPT ![c] = 0]
  /\ Goto(c, "gone")
  /\ UNCHANGED <<alive, address, sender, salive, held, callVars, reads>>

-----------------------------------------------------------------------------
(* ServerSendThread::run() *)

SendThread(c, l) == sender' = [sender EXCEPT ![c] = l]

SenderTop(c) ==
  /\ sender[c] = "top"
  /\ SendThread(c, IF salive[c] THEN "wait" ELSE "dead")
  /\ UNCHANGED <<alive, worker, address, up, salive, queue, sessions, held, callVars, reads>>

SenderTakes(c) ==
  /\ sender[c] = "wait" /\ queue[c] > 0
  /\ queue' = [queue EXCEPT ![c] = @ - 1]
  /\ SendThread(c, IF salive[c] THEN "write" ELSE "dead")
  /\ UNCHANGED <<alive, worker, address, up, salive, sessions, held, callVars, reads>>

\* The message is written, perhaps into a connection that has gone, ...
SenderWrites(c) ==
  /\ sender[c] = "write"
  /\ SendThread(c, "top")
  /\ UNCHANGED <<alive, worker, address, up, salive, queue, sessions, held, callVars, reads>>

\* ... or there is a SocketError: the peer has gone or does not read.
SenderFails(c) ==
  /\ sender[c] = "write"
  /\ SendThread(c, "dead")
  /\ UNCHANGED <<alive, worker, address, up, salive, queue, sessions, held, callVars, reads>>

-----------------------------------------------------------------------------
(* Server::send(), in a worker's handler or in another thread *)

MaySend(t) == t \in Conn => worker[t] \in Handling

Call(t, e) ==
  /\ call[t] = "out" /\ MaySend(t) /\ sends < MaxSends
  /\ call' = [call EXCEPT ![t] = "find"]
  /\ target' = [target EXCEPT ![t] = e]
  /\ sends' = sends + 1
  /\ UNCHANGED <<alive, worker, sessionVars, sessions, held, cs, reads>>

\* The lookup, under the read lock; the lock is kept while send() polls.
Find(t) ==
  /\ call[t] = "find" /\ sessions[target[t]] # None
  /\ Lock!AcquireRead(t)
  /\ cs' = [cs EXCEPT ![t] = sessions[target[t]]]
  /\ call' = [call EXCEPT ![t] = "poll"]
  /\ UNCHANGED <<alive, worker, sessionVars, sessions, target, sends, reads>>

\* send() returns.
Leave(t) ==
  /\ call' = [call EXCEPT ![t] = "out"]
  /\ target' = [target EXCEPT ![t] = None]
  /\ cs' = [cs EXCEPT ![t] = None]

NoSession(t) ==
  /\ call[t] = "find" /\ sessions[target[t]] = None
  /\ Leave(t)
  /\ UNCHANGED <<alive, worker, sessionVars, sessions, held, sends, reads>>

\* The loop that polls the length of the queue ends.  (Two threads may both
\* pass the test before either queues its message: the limit is not exact.)
\* Mutant: the lock is let go before the message is queued.
QueuesUnlocked(t) ==
  /\ call[t] = "poll"
  /\ IF Lock!HoldsNothing(t)
     THEN /\ queue' = [queue EXCEPT ![cs[t]] = @ + 1]
          /\ Leave(t) /\ UNCHANGED held
     ELSE Lock!Release(t) /\ UNCHANGED <<queue, call, target, cs>>
  /\ UNCHANGED <<alive, worker, address, up, sender, salive, sessions, sends, reads>>

Queue(t) ==
  /\ call[t] = "poll" /\ queue[cs[t]] <= MaxQueue
  /\ queue' = [queue EXCEPT ![cs[t]] = @ + 1]
  /\ Lock!Release(t)
  /\ Leave(t)
  /\ UNCHANGED <<alive, worker, address, up, sender, salive, sessions, sends, reads>>

-----------------------------------------------------------------------------
(* The network and shutdown() *)

PeerGoes(c) ==
  /\ up[c]
  /\ up' = [up EXCEPT ![c] = FALSE]
  /\ UNCHANGED <<alive, worker, address, sender, salive, queue, sessions, held, callVars, reads>>

Shutdown ==
  /\ alive
  /\ alive' = FALSE
  /\ UNCHANGED <<worker, sessionVars, sessions, held, callVars, reads>>

\* TCPWorkerThread::die(), from the shutdown of the thread pool.
Die(c) == ~alive /\ PeerGoes(c)

-----------------------------------------------------------------------------
Process(c) ==
  \/ AddSession(c)
  \/ \E result \in BOOLEAN : HandlerReturns(c, result)
  \/ StopSender(c) \/ Reaped(c) \/ RemoveSession(c)

SendThreadRun(c) == SenderTop(c) \/ SenderTakes(c) \/ SenderWrites(c) \/ SenderFails(c)

Send(t) == Find(t) \/ NoSession(t) \/ Queue(t)

Next ==
  \/ \E c \in Conn :
       \/ \E e \in EndPoint : Accept(c, e)
       \/ Process(c) \/ Read(c) \/ ReadEnds(c) \/ SendThreadRun(c)
       \/ PeerGoes(c) \/ Die(c)
  \/ \E t \in Thread : Send(t) \/ \E e \in EndPoint : Call(t, e)
  \/ Shutdown

Spec == Init /\ [][Next]_vars

\* Threads run; a read of a connection that has gone ends; writes end (the
\* socket has a timeout); a shutdown ends the connections.
Fairness ==
  /\ \A c \in Conn :
       /\ WF_vars(Process(c))
       /\ WF_vars(~up[c] /\ ReadEnds(c))
       /\ WF_vars(SendThreadRun(c))
       /\ WF_vars(Die(c))
  /\ \A t \in Thread : WF_vars(Send(t))

FairSpec == Spec /\ Fairness

-----------------------------------------------------------------------------
TypeOK ==
  /\ alive \in BOOLEAN
  /\ worker \in [Conn -> Handling \cup {"none", "add", "read", "reap",
                                        "remove", "gone"}]
  /\ address \in [Conn -> EndPoint \cup {None}]
  /\ up \in [Conn -> BOOLEAN] /\ salive \in [Conn -> BOOLEAN]
  /\ sender \in [Conn -> {"off", "top", "wait", "write", "dead"}]
  /\ queue \in [Conn -> Nat]
  /\ sessions \in [EndPoint -> Conn \cup {None}]
  /\ held \in [Thread -> {<< >>, <<"R">>}]
  /\ call \in [Thread -> {"out", "find", "poll"}]
  /\ target \in [Thread -> EndPoint \cup {None}]
  /\ cs \in [Thread -> Conn \cup {None}]
  /\ sends \in Nat /\ reads \in Nat

\* A ClientSession lives on the worker's stack while the map, the send thread
\* and any thread inside send() point to it: none of them is left with a
\* pointer to a session that has been destroyed, also when a client comes back
\* from the address of a connection that is still being taken down.
SessionsLive ==
  /\ \A e \in EndPoint : sessions[e] # None => Exists(sessions[e])
  /\ \A t \in Thread : call[t] = "poll" => Exists(cs[t])
  /\ \A c \in Conn : Running(c) => Exists(c)

\* A thread polls, under the lock, a queue that nobody empties any more.
Stuck == \E t \in Thread :
  call[t] = "poll" /\ sender[cs[t]] = "dead" /\ queue[cs[t]] > MaxQueue

\* A connection that has gone, or is ended by a shutdown, is taken down: the
\* send thread is woken and dies, the session leaves the map and the worker
\* returns to its pool.  One thing only can prevent it: a send() that polls the
\* queue of a session whose send thread has failed.
ConnectionEnds == \A c \in Conn :
  (worker[c] # "none" /\ ~up[c]) ~> (worker[c] = "gone" \/ Stuck)

\* send() returns, in a handler or in another thread.  ("It is safe to call
\* this inside the handle_message() method", server.cc:259.)
SendReturns == \A t \in Thread : (call[t] # "out") ~> (call[t] = "out")
=============================================================================
