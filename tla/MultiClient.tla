---------------------------- MODULE MultiClient -----------------------------
(***************************************************************************)
(* ObTools::XMLMesh::MultiClient (xmlmesh/client/mclient.cc): threads that *)
(* make requests, Subscribers that come and go, the dispatch thread that   *)
(* hands incoming messages to a pool of workers, and resubscribe(), which  *)
(* puts the subscriptions back after the transport has restarted.          *)
(*                                                                         *)
(* The mutex is held for short sections, each one an action, and all the   *)
(* way through resubscribe().  Each subscriber has a subject of its own.   *)
(* The server answers every JOIN and LEAVE, with "xmlmesh.ok" or a fault   *)
(* (a subject outside the Publisher's pattern, a correlation timed out);   *)
(* what was under way when the connection drops may be lost.  The send     *)
(* queue is not near its limit of 1024.                                    *)
(***************************************************************************)
EXTENDS Naturals, Sequences, FiniteSets, SequencesExt, Lists

CONSTANTS User,         \* application threads
          Worker,       \* the threads of the pool
          Sub,          \* Subscriber objects
          MaxMessages,  \* bound on the messages published
          MaxDrops,     \* bound on the connections lost
          Dispatcher,   \* the dispatch thread
          None

ASSUME MeshThreads ==
  Dispatcher \notin User \cup Worker /\ User \cap Worker = {} /\ IsFiniteSet(Worker)
ASSUME MeshBounds == MaxMessages \in Nat /\ MaxDrops \in Nat /\ None \notin Sub

Caller == User \cup Worker

VARIABLES
  \* the client
  subscribers,   \* the list of Subscribers
  deleted,       \* Subscribers that have been deleted
  dead,          \* dead[s]: death requested
  active,        \* active[s]: number of handlers using s
  requests,      \* threads whose request is in the map
  done,          \* threads whose response has come
  pending,       \* pending_queue
  dpc,           \* dispatch thread: "wait", or "resub" with the mutex held
  resub,         \* the subscribers still to be joined again
  asked,         \* the JOIN of the first of them has been sent
  faulted,       \* and a fault has come in answer to it
  round,         \* restarts handled, which tells the ids of the JOINs apart
  wpc,           \* workers: "spare", "look", "handle", "poll", "take", "leaving"
  msg,           \* the subject of a worker's message
  handlers,      \* the Subscribers that a worker calls, in turn
  op,            \* what a thread does: kind, sub and step
  \* transport and server
  conn,          \* the connection works
  due,           \* a new connection works, its flag has not been queued
  inbox,         \* what transport.wait() will return
  sent,          \* requests on their way
  joined,        \* subjects that the server sends us
  lost,          \* threads whose request or response was lost
  refused,       \* subjects whose last JOIN had a fault in answer
  published, drops

clientVars == <<subscribers, deleted, dead, active, requests, done, pending>>
dispatchVars == <<dpc, resub, asked, faulted, round>>
workerVars == <<wpc, msg, handlers>>
serverVars == <<conn, due, inbox, sent, joined, lost, refused, published, drops>>
mvars == <<clientVars, dispatchVars, workerVars, op, serverVars>>

Idle == [kind |-> "none", sub |-> None, step |-> "none"]
Down == [type |-> "down"]
Response(r, ok) == [type |-> "response", to |-> r, ok |-> ok]
Publication(s) == [type |-> "message", subject |-> s]

\* A request; the ids of the JOINs of resubscribe() differ from one restart to
\* the next.
RequestOf(t, k, s, n) == [from |-> t, kind |-> k, subject |-> s, round |-> n]

MutexFree == dpc = "wait"

MInit ==
  /\ subscribers = << >> /\ deleted = {}
  /\ dead = [s \in Sub |-> FALSE] /\ active = [s \in Sub |-> 0]
  /\ requests = {} /\ done = {} /\ pending = << >>
  /\ dpc = "wait" /\ resub = << >> /\ asked = FALSE /\ faulted = FALSE /\ round = 0
  /\ wpc = [w \in Worker |-> "spare"]
  /\ msg = [w \in Worker |-> None]
  /\ handlers = [w \in Worker |-> << >>]
  /\ op = [t \in Caller |-> Idle]
  /\ conn = TRUE /\ due = FALSE /\ inbox = << >>
  /\ sent = {} /\ joined = {} /\ lost = {} /\ refused = {}
  /\ published = 0 /\ drops = 0

-----------------------------------------------------------------------------
(* request() and its callers register_subscriber(), deregister_subscriber() *)

Step(t, k, s, l) == op' = [op EXCEPT ![t] = [kind |-> k, sub |-> s, step |-> l]]

\* Subscriber(): it is in the list before the connection is looked at.
Register(t, s) ==
  /\ op[t] = Idle /\ MutexFree
  /\ s \notin Range(subscribers) \cup deleted
  /\ subscribers' = Append(subscribers, s)
  /\ Step(t, "JOIN", s, "connected")
  /\ UNCHANGED <<deleted, dead, active, requests, done, pending, dispatchVars, workerVars, serverVars>>

\* is_connected() may not have noticed yet that the connection has gone.
Delayed(t) ==
  /\ op[t].step = "connected" /\ ~conn
  /\ op' = [op EXCEPT ![t] = Idle]
  /\ UNCHANGED <<clientVars, dispatchVars, workerVars, serverVars>>

\* disconnect(), in a user's thread or in the subscriber's own handler.
Disconnect(t, s) ==
  /\ op[t] = Idle
  /\ s \in Range(subscribers) /\ ~dead[s]
  /\ \A u \in Caller : op[u].sub # s
  /\ t \in Worker => wpc[t] = "handle" /\ handlers[t] # << >> /\ Head(handlers[t]) = s
  /\ Step(t, "LEAVE", s, "request")
  /\ UNCHANGED <<clientVars, dispatchVars, workerVars, serverVars>>

RegisterRequest(t) ==
  /\ op[t].step \in {"connected", "request"} /\ MutexFree
  /\ requests' = requests \cup {t}
  /\ Step(t, op[t].kind, op[t].sub, "send")
  /\ UNCHANGED <<subscribers, deleted, dead, active, done, pending, dispatchVars, workerVars, serverVars>>

SendRequest(t) ==
  /\ op[t].step = "send"
  /\ sent' = sent \cup {RequestOf(t, op[t].kind, op[t].sub, 0)}
  /\ Step(t, op[t].kind, op[t].sub, "wait")
  /\ UNCHANGED <<clientVars, dispatchVars, workerVars, conn, due, inbox, joined, lost, refused,
                 published, drops>>

\* send() with fail_on_no_conn, on a dead socket.
SendFails(t) ==
  /\ op[t].step = "send" /\ ~conn
  /\ Step(t, op[t].kind, op[t].sub, "failed")
  /\ UNCHANGED <<clientVars, dispatchVars, workerVars, serverVars>>

\* Where a thread goes on after request(), whatever that returned: a refused
\* JOIN is logged and its Subscriber stays in the list.
Returned(t) ==
  op' = [op EXCEPT ![t] = IF op[t].kind = "LEAVE" THEN [op[t] EXCEPT !.step = "left"] ELSE Idle]

\* The failed request is erased.
Unsent(t) ==
  /\ op[t].step = "failed" /\ MutexFree
  /\ requests' = requests \ {t}
  /\ Returned(t)
  /\ UNCHANGED <<subscribers, deleted, dead, active, done, pending, dispatchVars, workerVars, serverVars>>

EndRequest(t) ==
  /\ op[t].step = "wait" /\ t \in done /\ MutexFree
  /\ requests' = requests \ {t}
  /\ done' = done \ {t}
  /\ Returned(t)
  /\ UNCHANGED <<subscribers, deleted, dead, active, pending, dispatchVars, workerVars, serverVars>>

\* Death is requested without the mutex; dispatch() deletes when it is safe.
MarkDead(t) ==
  /\ op[t].step = "left"
  /\ dead' = [dead EXCEPT ![op[t].sub] = TRUE]
  /\ op' = [op EXCEPT ![t] = Idle]
  /\ UNCHANGED <<subscribers, deleted, active, requests, done, pending, dispatchVars, workerVars, serverVars>>

-----------------------------------------------------------------------------
(* The dispatch thread: DispatchThread::run(), handle(), resubscribe() *)

Spare == {w \in Worker : wpc[w] = "spare"}

\* Mutant: resubscribe() drops the responses that are not its own.
OnlyOutsideResub(ref) ==
  /\ done' = IF ref \in requests /\ dpc = "wait" THEN done \cup {ref} ELSE done
  /\ UNCHANGED <<pending, workerVars>>

\* A response releases the thread that waits for it.
HandleResponse(ref) ==
  /\ done' = IF ref \in requests THEN done \cup {ref} ELSE done
  /\ UNCHANGED <<pending, workerVars>>

\* A message goes to a spare worker; without one it is queued.
HandleMessage(s) ==
  /\ IF Spare # {}
     THEN \E w \in Spare :
            /\ wpc' = [wpc EXCEPT ![w] = "look"]
            /\ msg' = [msg EXCEPT ![w] = s]
            /\ UNCHANGED pending
     ELSE pending' = Append(pending, s) /\ UNCHANGED <<wpc, msg>>
  /\ UNCHANGED <<done, handlers>>

Receive ==
  /\ inbox # << >>
  /\ inbox' = Tail(inbox)
  /\ UNCHANGED <<conn, due, sent, joined, lost, refused, published, drops>>

\* The response to the JOIN that resubscribe() waits for.
Mine(m) ==
  /\ asked /\ m.type = "response"
  /\ m.to = RequestOf(Dispatcher, "JOIN", Head(resub), round)

Handle ==
  /\ dpc = "wait" \/ asked
  /\ inbox # << >> /\ Head(inbox).type # "down" /\ ~ Mine(Head(inbox))
  /\ Receive
  /\ IF Head(inbox).type = "response"
     THEN HandleResponse(Head(inbox).to.from)
     ELSE HandleMessage(Head(inbox).subject)
  /\ UNCHANGED <<subscribers, deleted, dead, active, requests, dispatchVars, op>>

\* A restart: everything is subscribed to again, from the beginning when the
\* connection fails in the middle.
\* Mutant: a failure in the middle does not start it again.
CarriesOn ==
  /\ inbox # << >> /\ Head(inbox).type = "down"
  /\ dpc = "wait" \/ asked
  /\ Receive
  /\ dpc' = "resub" /\ asked' = FALSE /\ faulted' = FALSE /\ round' = round + 1
  /\ resub' = IF dpc = "resub" THEN Tail(resub) ELSE subscribers
  /\ UNCHANGED <<clientVars, workerVars, op>>

Restarted ==
  /\ inbox # << >> /\ Head(inbox).type = "down"
  /\ dpc = "wait" \/ asked
  /\ Receive
  /\ dpc' = "resub" /\ asked' = FALSE /\ faulted' = FALSE /\ round' = round + 1
  /\ resub' = subscribers
  /\ UNCHANGED <<clientVars, workerVars, op>>

\* The next subscriber that is not dead; after the last one the mutex is free.
SkipDead ==
  /\ dpc = "resub" /\ ~asked /\ resub # << >> /\ dead[Head(resub)]
  /\ resub' = Tail(resub)
  /\ UNCHANGED <<clientVars, dpc, asked, faulted, round, workerVars, op, serverVars>>

\* The result of send() is not looked at.
SendJoin ==
  /\ dpc = "resub" /\ ~asked /\ resub # << >> /\ ~dead[Head(resub)]
  /\ asked' = TRUE
  /\ \/ sent' = sent \cup {RequestOf(Dispatcher, "JOIN", Head(resub), round)}
     \/ ~conn /\ UNCHANGED sent
  /\ refused' = refused \ {Head(resub)}
  /\ UNCHANGED <<clientVars, dpc, resub, faulted, round, workerVars, op, conn, due, inbox, joined,
                 lost, published, drops>>

Joined ==
  /\ inbox # << >> /\ Mine(Head(inbox)) /\ Head(inbox).ok
  /\ Receive
  /\ asked' = FALSE
  /\ resub' = Tail(resub)
  /\ UNCHANGED <<clientVars, dpc, faulted, round, workerVars, op>>

\* An error response to the JOIN is logged, and the loop goes on to wait for
\* an OK which nobody will send, with the mutex held.
JoinRefused ==
  /\ inbox # << >> /\ Mine(Head(inbox)) /\ ~Head(inbox).ok
  /\ Receive
  /\ faulted' = TRUE
  /\ UNCHANGED <<clientVars, dpc, resub, asked, round, workerVars, op>>

Resubscribed ==
  /\ dpc = "resub" /\ ~asked /\ resub = << >>
  /\ dpc' = "wait"
  /\ UNCHANGED <<clientVars, resub, asked, faulted, round, workerVars, op, serverVars>>

-----------------------------------------------------------------------------
(* Workers: dispatch() *)

\* The dead and inactive Subscribers are deleted, those of the subject marked.
Doomed == {s \in Range(subscribers) : dead[s] /\ active[s] = 0}

\* Mutant: a dead Subscriber is deleted though a handler uses it.
LookBoldly(w) ==
  LET gone == {s \in Range(subscribers) : dead[s]}
      mine == Keeping(subscribers, {msg[w]} \ gone)
  IN /\ wpc[w] = "look" /\ MutexFree
     /\ subscribers' = Keeping(subscribers, Sub \ gone)
     /\ deleted' = deleted \cup gone
     /\ active' = [s \in Sub |-> active[s] + (IF s \in Range(mine) THEN 1 ELSE 0)]
     /\ handlers' = [handlers EXCEPT ![w] = mine]
     /\ wpc' = [wpc EXCEPT ![w] = "handle"]
     /\ UNCHANGED <<dead, requests, done, pending, dispatchVars, msg, op, serverVars>>

Look(w) ==
  LET gone == Doomed
      mine == Keeping(subscribers, {msg[w]} \ gone)
  IN /\ wpc[w] = "look" /\ MutexFree
     /\ subscribers' = Keeping(subscribers, Sub \ gone)
     /\ deleted' = deleted \cup gone
     /\ active' = [s \in Sub |-> active[s] + (IF s \in Range(mine) THEN 1 ELSE 0)]
     /\ handlers' = [handlers EXCEPT ![w] = mine]
     /\ wpc' = [wpc EXCEPT ![w] = "handle"]
     /\ UNCHANGED <<dead, requests, done, pending, dispatchVars, msg, op, serverVars>>

\* handle() has returned for all of them; the marks are taken back.
Handled(w) ==
  /\ wpc[w] = "handle" /\ op[w] = Idle /\ MutexFree
  /\ active' = [s \in Sub |-> active[s] - (IF s \in Range(handlers[w]) THEN 1 ELSE 0)]
  /\ handlers' = [handlers EXCEPT ![w] = << >>]
  /\ msg' = [msg EXCEPT ![w] = None]
  /\ wpc' = [wpc EXCEPT ![w] = "poll"]
  /\ UNCHANGED <<subscribers, deleted, dead, requests, done, pending, dispatchVars, op, serverVars>>

\* poll() of the queue; when it is empty the worker goes back to the pool.
\* Mutant: it goes back without a look at the queue.
NoPoll(w) ==
  /\ wpc[w] = "poll"
  /\ wpc' = [wpc EXCEPT ![w] = "leaving"]
  /\ UNCHANGED <<clientVars, dispatchVars, msg, handlers, op, serverVars>>

Poll(w) ==
  /\ wpc[w] = "poll"
  /\ wpc' = [wpc EXCEPT ![w] = IF pending = << >> THEN "leaving" ELSE "take"]
  /\ UNCHANGED <<clientVars, dispatchVars, msg, handlers, op, serverVars>>

\* wait(), which blocks when another worker has taken the message first.
Take(w) ==
  /\ wpc[w] = "take" /\ pending # << >>
  /\ pending' = Tail(pending)
  /\ msg' = [msg EXCEPT ![w] = Head(pending)]
  /\ wpc' = [wpc EXCEPT ![w] = "look"]
  /\ UNCHANGED <<subscribers, deleted, dead, active, requests, done, dispatchVars, handlers, op, serverVars>>

Replace(w) ==
  /\ wpc[w] = "leaving"
  /\ wpc' = [wpc EXCEPT ![w] = "spare"]
  /\ UNCHANGED <<clientVars, dispatchVars, msg, handlers, op, serverVars>>

-----------------------------------------------------------------------------
(* Transport and server *)

\* What the receive thread posts up.  While the send thread restarts the
\* socket, one message can come before the flag (TubeClient, OneOvertakes).
Arrives(m) ==
  /\ inbox' = inbox \o (IF due THEN <<m, Down>> ELSE <<m>>)
  /\ due' = FALSE

\* The server: the Publisher handles a request and answers it, or the
\* Correlator sends a fault when nobody has, or not in time.  The Publisher
\* has then refused the request, or handles it all the same.
Answer ==
  /\ conn
  /\ \E r \in sent, ok \in BOOLEAN :
       /\ sent' = sent \ {r}
       /\ joined' \in {IF r.kind = "JOIN" THEN joined \cup {r.subject} ELSE joined \ {r.subject}}
                      \cup (IF ok THEN {} ELSE {joined})
       /\ refused' = IF r.kind = "JOIN" /\ ~ok THEN refused \cup {r.subject}
                                              ELSE refused \ {r.subject}
       /\ Arrives(Response(r, ok))
  /\ UNCHANGED <<clientVars, dispatchVars, workerVars, op, conn, lost, published, drops>>

Publish(s) ==
  /\ conn /\ s \in joined
  /\ published < MaxMessages
  /\ published' = published + 1
  /\ Arrives(Publication(s))
  /\ UNCHANGED <<clientVars, dispatchVars, workerVars, op, conn, sent, joined, lost, refused, drops>>

\* The connection is lost, and the server drops its subscriptions.
Drop ==
  /\ conn
  /\ drops < MaxDrops
  /\ conn' = FALSE
  /\ drops' = drops + 1
  /\ joined' = {} /\ refused' = {}
  /\ UNCHANGED <<clientVars, dispatchVars, workerVars, op, due, inbox, sent, lost, published>>

\* A request is written to a dead socket, or was before it died.  One that has
\* not left the send queue survives.
SendLost ==
  /\ ~conn
  /\ \E r \in sent : sent' = sent \ {r} /\ lost' = lost \cup {r.from}
  /\ UNCHANGED <<clientVars, dispatchVars, workerVars, op, conn, due, inbox, joined, refused,
                 published, drops>>

\* restart_socket(): there is a new connection, and then its flag, for which
\* transport.wait() returns false.
Reconnect ==
  /\ ~conn /\ ~due
  /\ conn' = TRUE /\ due' = TRUE
  /\ UNCHANGED <<clientVars, dispatchVars, workerVars, op, inbox, sent, joined, lost, refused,
                 published, drops>>

FlagDown ==
  /\ due
  /\ due' = FALSE
  /\ inbox' = Append(inbox, Down)
  /\ UNCHANGED <<clientVars, dispatchVars, workerVars, op, conn, sent, joined, lost, refused,
                 published, drops>>

-----------------------------------------------------------------------------
CallerRun(t) ==
  RegisterRequest(t) \/ SendRequest(t) \/ Unsent(t) \/ EndRequest(t) \/ MarkDead(t)
DispatchRun ==
  Handle \/ Restarted \/ SkipDead \/ SendJoin \/ Joined \/ JoinRefused \/ Resubscribed
WorkerRun(w) == Look(w) \/ Handled(w) \/ Poll(w) \/ Take(w) \/ Replace(w)
ServerRun == Answer \/ Reconnect \/ FlagDown

MNext ==
  \/ \E t \in Caller :
       \/ CallerRun(t) \/ Delayed(t) \/ SendFails(t)
       \/ \E s \in Sub : Disconnect(t, s)
  \/ \E u \in User, s \in Sub : Register(u, s)
  \/ DispatchRun
  \/ \E w \in Worker : WorkerRun(w)
  \/ ServerRun \/ SendLost \/ Drop \/ \E s \in Sub : Publish(s)

MSpec == MInit /\ [][MNext]_mvars

\* All threads run, the handlers return, the server answers, and a connection
\* that is lost is opened again.
MFairness ==
  /\ \A t \in Caller : WF_mvars(CallerRun(t))
  /\ WF_mvars(DispatchRun)
  /\ \A w \in Worker : WF_mvars(WorkerRun(w))
  /\ WF_mvars(ServerRun)

MFairSpec == MSpec /\ MFairness

-----------------------------------------------------------------------------
\* No pointer outlives what it points to: a worker never calls a Subscriber
\* that dispatch() in another worker has deleted, and the map of requests never
\* keeps a request that lived on the stack of a thread which has returned.
PointersLive ==
  /\ \A w \in Worker : Range(handlers[w]) \cap deleted = {}
  /\ \A t \in requests : op[t].step \in {"send", "failed", "wait"}

\* The dispatch thread waits, with the mutex, for an OK after a fault.  Only the
\* next restart of the connection ends it.
Stuck == dpc = "resub" /\ asked /\ faulted

\* After any number of restarts, and failures in the middle of resubscribing,
\* every Subscriber comes to be subscribed at the server, unless the server has
\* refused it since the connection was made, it is disconnected (a LEAVE lost
\* with its connection leaves its thread waiting), or resubscribe() is stuck
\* at a fault.
SubscriptionsRestored == \A s \in Sub :
  (s \in Range(subscribers) /\ ~dead[s]) ~>
    \/ s \in joined \/ s \in refused \/ dead[s]
    \/ \E t \in Caller : op[t].kind = "LEAVE" /\ op[t].sub = s /\ t \in lost
    \/ Stuck

\* A request is answered, its thread released and its entry in the map erased,
\* also when other threads, workers and a resubscription are waiting for the
\* same dispatch thread.  Two things keep it: the request was lost with its
\* connection, for nothing repeats it, or resubscribe() is stuck at a fault.
RequestsReturn == \A t \in Caller :
  (t \in requests) ~> (t \notin requests \/ t \in lost \/ Stuck)

\* A message for which there was no spare worker is taken up by a busy one that
\* has yet to look at the queue, unless every such handler waits for ever for
\* the answer to a request lost with its connection, or for the mutex of a
\* resubscribe() that is stuck.  (A message queued after the last busy worker's
\* look stays until a worker is busy again.)
Busy == {w \in Worker : wpc[w] \in {"look", "handle", "poll", "take"}}

PendingHandled ==
  (pending # << >> /\ Busy # {}) ~>
    (pending = << >> \/ (Busy # {} /\ Busy \subseteq lost) \/ Stuck)

\* "Loop dispatching message until we get a response to this": when the server
\* answers all it is asked, and the connection stays, resubscribe() comes to an
\* end and lets go of the mutex.
ResubscribeEnds == (dpc = "resub") ~> (dpc = "wait")
=============================================================================
