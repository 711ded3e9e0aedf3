-------------------------- MODULE SyncRequestCache --------------------------
(***************************************************************************)
(* ObTools::Tube::SyncRequestCache (libs/tube/sync-request.cc) with the    *)
(* threads around it in SyncClient and BiSyncServer: requesters inside     *)
(* request(), the receiver that passes responses on, the timeout thread    *)
(* and shutdown().  An action is one section under request_mutex, or one   *)
(* step of the way of a message through the queue of its send thread.      *)
(*                                                                         *)
(* A request is known by a serial number; the peers answer each request at *)
(* most once, in any order, or never.  Requesters use a new Message for    *)
(* each request: start_request() only ORs the id into the flags.           *)
(***************************************************************************)
EXTENDS Naturals, FiniteSets

CONSTANTS Requester,    \* threads that call request()
          EndPoint,     \* peers
          IdSpace,      \* number of request ids (2^14 in the code)
          MaxRequests,  \* bound on the number of requests made
          MaxSend,      \* max_send_queue
          NoEntry       \* no record under an id

\* "if all possible IDs are used and blocked, this will lock up!"
ASSUME IdAssumption ==
  /\ IsFiniteSet(Requester)
  /\ IdSpace \in Nat /\ Cardinality(Requester) < IdSpace
ASSUME RequestAssumption == MaxRequests \in Nat /\ MaxSend \in Nat

VARIABLES
  request_id,    \* the id to try next
  requests,      \* the map of request records, by id
  serial,        \* number of requests made
  mine,          \* mine[r]: id and serial number of r's request, if it makes one
  pc,            \* "idle", "started", "polling" (the queue's length), "room",
                 \* "sent", "waiting" (in ready.wait)
  woken,         \* waiting requesters that have been notified
  queue,         \* queue[e]: requests in send_q for peer e
  sending,       \* sending[e]: the send thread for e takes messages from it
  wire,          \* requests that peers have received and not answered
  alive,         \* the client or server has not been shut down
  flushed        \* requests.shutdown() has been called

vars == <<request_id, requests, serial, mine, pc, woken, queue, sending, wire,
          alive, flushed>>
sendVars == <<queue, sending, wire>>

Id == 0..(IdSpace - 1)

\* response = 0 is the invalid message of a new record.
Request == [client : EndPoint, rq : 1..MaxRequests,
            response : 0..MaxRequests, expired : BOOLEAN]
ASSUME EntryAssumption == NoEntry \notin Request

Label == {"idle", "started", "polling", "room", "sent", "waiting"}

NoRequest == [id |-> 0, rq |-> 0]

Live == {id \in Id : requests[id] # NoEntry}

Goto(r, l) == pc' = [pc EXCEPT ![r] = l]

\* ready.notify_one() on the records of a set of ids: nothing happens where
\* nobody waits yet.
Notify(ids) ==
  woken' = woken \cup {r \in Requester : pc[r] = "waiting" /\ mine[r].id \in ids}

Init ==
  /\ request_id = 0
  /\ requests = [id \in Id |-> NoEntry]
  /\ serial = 0
  /\ mine = [r \in Requester |-> NoRequest]
  /\ pc = [r \in Requester |-> "idle"]
  /\ woken = {}
  /\ queue = [e \in EndPoint |-> {}]
  /\ sending = [e \in EndPoint |-> TRUE]
  /\ wire = {}
  /\ alive = TRUE
  /\ flushed = FALSE

-----------------------------------------------------------------------------
(* request() *)

\* The ids tried in turn; one in use is skipped.
Try(k) == (request_id + k) % IdSpace

\* Mutant: the duplicate is not skipped.
NotSkipped == 0

FirstFree ==
  CHOOSE k \in Id : Try(k) \notin Live /\ \A j \in 0..(k - 1) : Try(j) \in Live

\* requests.emplace(id, client): it would not replace a record under that id.
Emplace(id, e) ==
  requests' = [requests EXCEPT ![id] =
    IF id \in Live THEN @ ELSE [client |-> e, rq |-> serial + 1,
                                response |-> 0, expired |-> FALSE]]

\* Mutant: the next id is the same again.
SameAgain(id) == id

NextId(id) == (id + 1) % IdSpace

start_request(r, e) ==
  /\ pc[r] = "idle"
  /\ serial < MaxRequests
  /\ LET id == Try(FirstFree) IN
     /\ request_id' = NextId(id)
     /\ Emplace(id, e)
     /\ mine' = [mine EXCEPT ![r] = [id |-> id, rq |-> serial + 1]]
  /\ serial' = serial + 1
  /\ Goto(r, "started")
  /\ UNCHANGED <<woken, sendVars, alive, flushed>>

PeerOf(r) == requests[mine[r].id].client

Full(e) == Cardinality(queue[e]) > MaxSend

\* The peer's session is found, and its mutex held for reading from here to
\* the message's being queued; or there is none to send to, and request()
\* goes on all the same.
FindSession(r) ==
  /\ pc[r] = "started"
  /\ \E l \in {"polling", "sent"} : Goto(r, l)
  /\ UNCHANGED <<request_id, requests, serial, mine, woken, sendVars, alive, flushed>>

\* "while (send_q.waiting() > max_send_queue)": no step while it is full, and
\* no end to it but room in the queue.
PollQueue(r) ==
  /\ pc[r] = "polling"
  /\ ~Full(PeerOf(r))
  /\ Goto(r, "room")
  /\ UNCHANGED <<request_id, requests, serial, mine, woken, sendVars, alive, flushed>>

send(r) ==
  /\ pc[r] = "room"
  /\ queue' = [queue EXCEPT ![PeerOf(r)] = @ \cup {mine[r]}]
  /\ Goto(r, "sent")
  /\ UNCHANGED <<request_id, requests, serial, mine, woken, sending, wire, alive,
                 flushed>>

\* wait_response() up to ready.wait(): it does not look at the response first.
wait_response(r) ==
  /\ pc[r] = "sent"
  /\ Goto(r, "waiting")
  /\ UNCHANGED <<request_id, requests, serial, mine, woken, sendVars, alive, flushed>>

\* The rest of it, whatever ended the wait.
wait_returns(r) ==
  /\ pc[r] = "waiting"
  /\ r \in woken
  /\ requests' = [requests EXCEPT ![mine[r].id] = NoEntry]
  /\ woken' = woken \ {r}
  /\ mine' = [mine EXCEPT ![r] = NoRequest]
  /\ Goto(r, "idle")
  /\ UNCHANGED <<request_id, serial, sendVars, alive, flushed>>

\* std::condition_variable::wait may return without a notification.
SpuriousWakeup(r) ==
  /\ pc[r] = "waiting"
  /\ r \notin woken
  /\ woken' = woken \cup {r}
  /\ UNCHANGED <<request_id, requests, serial, mine, pc, sendVars, alive, flushed>>

-----------------------------------------------------------------------------
(* The send thread of a peer *)

\* A message is written to the socket; it may still be lost with the socket.
send_messages(e) ==
  /\ sending[e]
  /\ \E m \in queue[e] :
       /\ queue' = [queue EXCEPT ![e] = @ \ {m}]
       /\ wire' \in {wire, wire \cup {m}}
  /\ UNCHANGED <<request_id, requests, serial, mine, pc, woken, sending, alive,
                 flushed>>

\* The thread leaves its loop on a dead socket (the server's), or sleeps in
\* check_socket() until there is a connection (the client's).
SenderStops(e) ==
  /\ sending[e]
  /\ sending' = [sending EXCEPT ![e] = FALSE]
  /\ UNCHANGED <<request_id, requests, serial, mine, pc, woken, queue, wire, alive,
                 flushed>>

\* The client's socket is restored, or nobody holds the session of the server,
\* which goes with its queue, and the peer connects again.
SenderResumes(e) ==
  /\ ~sending[e]
  /\ sending' = [sending EXCEPT ![e] = TRUE]
  /\ \/ UNCHANGED queue
     \/ /\ \A r \in Requester : pc[r] \in {"polling", "room"} => PeerOf(r) # e
        /\ queue' = [queue EXCEPT ![e] = {}]
  /\ UNCHANGED <<request_id, requests, serial, mine, pc, woken, wire, alive, flushed>>

-----------------------------------------------------------------------------
(* The receiver *)

\* A response comes before its id can have come round again: at least
\* IdSpace - Cardinality(Requester) requests are made in between.
InTime(m) == serial - m.rq <= IdSpace - Cardinality(Requester)

\* The response to m is stored and signalled, or dropped as unknown.
handle_response(m) ==
  /\ m \in wire
  /\ InTime(m)
  /\ wire' = wire \ {m}
  /\ IF m.id \in Live
     THEN /\ requests' = [requests EXCEPT ![m.id].response = m.rq]
          /\ Notify({m.id})
     ELSE UNCHANGED <<requests, woken>>
  /\ UNCHANGED <<request_id, serial, mine, pc, queue, sending, alive, flushed>>

-----------------------------------------------------------------------------
(* The timeout thread, and the clock *)

\* Mutant: a request that has its response is not woken again.
do_timeouts_unanswered ==
  /\ alive
  /\ Notify({id \in Live : requests[id].expired /\ requests[id].response = 0})
  /\ UNCHANGED <<request_id, requests, serial, mine, pc, sendVars, alive, flushed>>

do_timeouts ==
  /\ alive
  /\ Notify({id \in Live : requests[id].expired})
  /\ UNCHANGED <<request_id, requests, serial, mine, pc, sendVars, alive, flushed>>

\* The timeout passes since the request under id was started.
Expire(id) ==
  /\ id \in Live
  /\ ~requests[id].expired
  /\ requests' = [requests EXCEPT ![id].expired = TRUE]
  /\ UNCHANGED <<request_id, serial, mine, pc, woken, sendVars, alive, flushed>>

-----------------------------------------------------------------------------
(* shutdown *)

\* A session of a BiSyncServer finishes: shutdown(client).
shutdown_client(e) ==
  /\ Notify({id \in Live : requests[id].client = e})
  /\ UNCHANGED <<request_id, requests, serial, mine, pc, sendVars, alive, flushed>>

\* SyncClient::shutdown(): Client::shutdown() clears alive, which also ends
\* the timeout thread; then requests.shutdown().
die ==
  /\ alive
  /\ alive' = FALSE
  /\ UNCHANGED <<request_id, requests, serial, mine, pc, woken, sendVars, flushed>>

shutdown ==
  /\ ~alive
  /\ ~flushed
  /\ flushed' = TRUE
  /\ Notify(Live)
  /\ UNCHANGED <<request_id, requests, serial, mine, pc, sendVars, alive>>

-----------------------------------------------------------------------------
RequestStep(r) ==
  \/ FindSession(r) \/ PollQueue(r) \/ send(r)
  \/ wait_response(r)
  \/ wait_returns(r)

Next ==
  \/ \E r \in Requester : \/ \E e \in EndPoint : start_request(r, e)
                          \/ RequestStep(r)
                          \/ SpuriousWakeup(r)
  \/ \E m \in wire : handle_response(m)
  \/ do_timeouts
  \/ \E id \in Id : Expire(id)
  \/ \E e \in EndPoint : \/ send_messages(e) \/ SenderStops(e) \/ SenderResumes(e)
                         \/ shutdown_client(e)
  \/ die
  \/ shutdown

Spec == Init /\ [][Next]_vars

\* Requesters and send threads run when they can, time passes, the timeout
\* thread turns and a shutdown goes on to its end.  No peer need answer, and
\* none whose send thread has stopped need come back.
Fairness ==
  /\ \A r \in Requester : WF_vars(RequestStep(r))
  /\ \A e \in EndPoint : WF_vars(send_messages(e))
  /\ \A id \in Id : WF_vars(Expire(id))
  /\ WF_vars(do_timeouts)
  /\ WF_vars(shutdown)

FairSpec == Spec /\ Fairness

-----------------------------------------------------------------------------
(* Properties *)

\* Types of the cache and of the requesters' state.
TypeOK ==
  /\ request_id \in Id
  /\ requests \in [Id -> Request \cup {NoEntry}]
  /\ serial \in 0..MaxRequests
  /\ mine \in [Requester -> [id : Id, rq : 0..MaxRequests]]
  /\ pc \in [Requester -> Label]
  /\ woken \subseteq {r \in Requester : pc[r] = "waiting"}
  /\ queue \in [EndPoint -> SUBSET [id : Id, rq : 1..MaxRequests]]
  /\ sending \in [EndPoint -> BOOLEAN]
  /\ wire \subseteq [id : Id, rq : 1..MaxRequests]
  /\ alive \in BOOLEAN /\ flushed \in BOOLEAN

\* The cache holds one record for each request that has not returned, under
\* the id its message carries, and no other: no two requests share a record
\* when the ids wrap round, and none is left behind (~SyncRequestCache waits
\* until the map is empty).
CacheExact ==
  /\ Live = {mine[r].id : r \in {q \in Requester : pc[q] # "idle"}}
  /\ \A r \in Requester : pc[r] # "idle" => requests[mine[r].id].rq = mine[r].rq
  /\ \A r, q \in Requester : r # q /\ pc[r] # "idle" /\ pc[q] # "idle"
                               => mine[r].id # mine[q].id

\* The response a request returns is the one to that request, also when
\* earlier requests have timed out and their responses come late.
ResponseMatches ==
  \A id \in Live : requests[id].response \in {0, requests[id].rq}

\* r polls a full queue that nobody takes messages from.
Held(r) ==
  pc[r] = "polling" /\ Full(PeerOf(r)) /\ ~sending[PeerOf(r)]

\* Until a shutdown every request() returns, whether or not its response comes,
\* and whether it comes before or after the wait has started.  One thing can
\* hold it for ever: a full queue whose send thread has stopped.
RequestReturns ==
  \A r \in Requester : (pc[r] # "idle") ~> (pc[r] = "idle" \/ ~alive \/ Held(r))

\* "blocks waiting for a response, or timeout/failure": what is said of
\* request(), without that exception.
RequestTimesOut ==
  \A r \in Requester : (pc[r] # "idle") ~> (pc[r] = "idle" \/ ~alive)

\* "(call before actually sending message, in case response is instant)": a
\* requester does not sleep on a response that has already arrived.
InstantResponse ==
  \A r \in Requester :
    pc[r] = "waiting" /\ r \notin woken => requests[mine[r].id].response = 0
=============================================================================
