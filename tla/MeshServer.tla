----------------------------- MODULE MeshServer -----------------------------
(***************************************************************************)
(* The XMLMesh server (xmlmesh/server): messages of the clients pass from  *)
(* a transport through the Correlator, which owes each request a reply, to *)
(* the Publisher, which copies them to the subscribers and answers JOIN    *)
(* and LEAVE itself.  Services have one thread each for the messages they  *)
(* bring in, and the main thread's tick times correlations out.            *)
(*                                                                         *)
(* Each client comes through a transport of its own, whose thread takes a  *)
(* message through all the services.  There is one subject.  A correlation *)
(* may have expired at any tick.                                           *)
(*                                                                         *)
(* A message points to its Correlation, and nothing locks it.  What a      *)
(* thread does with one that another thread has deleted is undefined: it   *)
(* may crash, or go on with whatever it finds there.                       *)
(***************************************************************************)
EXTENDS Naturals, Sequences, FiniteSets

LOCAL INSTANCE SequencesExt

CONSTANTS Peer,       \* clients of the mesh
          Request,    \* ids of their requests
          Kind        \* what they ask for: all the kinds below, or fewer to bound a run

\* Something of the subscribers; to subscribe; not to any more; to subscribe to
\* what is outside the Publisher's pattern; an illegal subscription message.
AllKinds == {"ask", "join", "leave", "refused", "illegal"}

ASSUME KindAssumption == Kind \subseteq AllKinds

VARIABLES
  up,           \* clients whose connection is open
  inq,          \* what each client has sent and its thread has not taken
  kind,         \* kind[r]: "new", or what was sent under the id r
  source,       \* client that sent r
  thread,       \* [pc, id, todo] of the thread of each client
  request_cache,  \* ids of the correlations in the cache
  corr,         \* the Correlations: tracking messages, forwarded, replied
  dying,        \* ids taken from the cache by tidy(), to be deleted
  subscriptions,
  received,     \* <<client, id>>: requests that reached a subscriber
  replies,      \* number of responses originated to each request
  faults        \* number of faults that the Correlator has made up for it

meshVars == <<up, inq, kind, source, thread, request_cache, corr, dying,
              subscriptions, received, replies, faults>>

IdleThread == [pc |-> "idle", id |-> 0, todo |-> << >>]
NoCorrelation == [tracking |-> FALSE, forwarded |-> FALSE, replied |-> FALSE]

MeshInit ==
  /\ up = Peer
  /\ inq = [c \in Peer |-> << >>]
  /\ kind = [r \in Request |-> "new"]
  /\ source = [r \in Request |-> CHOOSE c \in Peer : TRUE]
  /\ thread = [c \in Peer |-> IdleThread]
  /\ request_cache = {} /\ dying = {}
  /\ corr = [r \in Request |-> NoCorrelation]
  /\ \E S \in SUBSET Peer : subscriptions = SetToSeq(S)     \* from earlier JOINs
  /\ received = {}
  /\ replies = [r \in Request |-> 0] /\ faults = [r \in Request |-> 0]

Goto(c, l) == thread' = [thread EXCEPT ![c].pc = l]
Rests(c) == thread' = [thread EXCEPT ![c] = IdleThread]

\* The correlation of r has been deleted.
Gone(r) ==
  /\ r \notin request_cache \cup dying
  /\ \A c \in Peer : thread[c].id = r => thread[c].pc \notin {"originate", "replied"}

\* The thread is about to use a correlation that is no longer there.
Dangling(c) ==
  /\ Gone(thread[c].id)
  /\ \/ thread[c].pc \in {"track", "orphan", "mark"}
     \/ thread[c].pc \in {"notify", "dies"} /\ corr[thread[c].id].tracking

Crashed == \E c \in Peer : thread[c].pc = "crashed"

-----------------------------------------------------------------------------
(* Clients *)

Ask(c, r, k) ==
  /\ c \in up /\ kind[r] = "new"
  /\ kind' = [kind EXCEPT ![r] = k]
  /\ source' = [source EXCEPT ![r] = c]
  /\ inq' = [inq EXCEPT ![c] = Append(@, [type |-> "request", id |-> r])]
  /\ UNCHANGED <<up, thread, request_cache, corr, dying, subscriptions, received, replies, faults>>

Respond(c, r) ==
  /\ c \in up /\ <<c, r>> \in received
  /\ received' = received \ {<<c, r>>}
  /\ inq' = [inq EXCEPT ![c] = Append(@, [type |-> "response", id |-> r])]
  /\ UNCHANGED <<up, kind, source, thread, request_cache, corr, dying, subscriptions, replies, faults>>

Disconnects(c) ==
  /\ c \in up
  /\ up' = up \ {c}
  /\ inq' = [inq EXCEPT ![c] = Append(@, [type |-> "finished", id |-> 0])]
  /\ UNCHANGED <<kind, source, thread, request_cache, corr, dying, subscriptions, received, replies, faults>>

-----------------------------------------------------------------------------
(* dispatch() and the Correlator *)

Takes(c, type) ==
  /\ thread[c] = IdleThread
  /\ inq[c] # << >> /\ Head(inq[c]).type = type
  /\ inq' = [inq EXCEPT ![c] = Tail(@)]

\* A request opens a correlation, which then tracks the message.
Opens(c) ==
  LET r == Head(inq[c]).id
  IN /\ Takes(c, "request")
     /\ request_cache' = request_cache \cup {r}
     /\ corr' = [corr EXCEPT ![r] = NoCorrelation]
     /\ thread' = [thread EXCEPT ![c] = [pc |-> "track", id |-> r, todo |-> << >>]]
     /\ UNCHANGED <<up, kind, source, dying, subscriptions, received, replies, faults>>

Tracks(c) ==
  /\ thread[c].pc = "track"
  /\ corr' = [corr EXCEPT ![thread[c].id].tracking = TRUE]
  /\ Goto(c, "publisher")
  /\ UNCHANGED <<up, inq, kind, source, request_cache, dying, subscriptions, received, replies, faults>>

\* A response is turned round if its correlation is there, or dropped.
TurnsRound(c, r, dropped) ==
  /\ request_cache' = request_cache \ {r}
  /\ thread' = [thread EXCEPT ![c] =
       IF r \in request_cache THEN [@ EXCEPT !.pc = "originate", !.id = r] ELSE dropped]

TakesResponse(c) ==
  /\ Takes(c, "response")
  /\ TurnsRound(c, Head(inq[c]).id, IdleThread)
  /\ UNCHANGED <<up, kind, source, corr, dying, subscriptions, received, replies, faults>>

Originates(c) ==
  /\ thread[c].pc = "originate"
  /\ replies' = [replies EXCEPT ![thread[c].id] = @ + 1]
  /\ Goto(c, "replied")
  /\ UNCHANGED <<up, inq, kind, source, request_cache, corr, dying, subscriptions, received, faults>>

\* notify_replied(), and the deletion, which lets go of the messages.
Replied(c) ==
  /\ thread[c].pc = "replied"
  /\ corr' = [corr EXCEPT ![thread[c].id] = [@ EXCEPT !.tracking = FALSE, !.replied = TRUE]]
  /\ Rests(c)
  /\ UNCHANGED <<up, inq, kind, source, request_cache, dying, subscriptions, received, replies, faults>>

\* The destructor originates a fault to those that have had no reply.
\* Mutant: it does not.
DestroySilently(rs) ==
  /\ corr' = [r \in Request |-> IF r \in rs THEN [corr[r] EXCEPT !.tracking = FALSE] ELSE corr[r]]
  /\ UNCHANGED faults

Destroy(rs) ==
  /\ corr' = [r \in Request |-> IF r \in rs THEN [corr[r] EXCEPT !.tracking = FALSE] ELSE corr[r]]
  /\ faults' = [r \in Request |-> faults[r] + (IF r \in rs /\ ~corr[r].replied THEN 1 ELSE 0)]

\* DISCONNECTION: all correlations of the client go.
Finishes(c) ==
  LET gone == {r \in request_cache : source[r] = c}
  IN /\ Takes(c, "finished")
     /\ request_cache' = request_cache \ gone
     /\ Destroy(gone)
     /\ Goto(c, "unsubscribe_all")
     /\ UNCHANGED <<up, kind, source, dying, subscriptions, received, replies>>

\* tidy() takes what has expired under the lock and deletes it without.
Tidies(rs) ==
  /\ dying = {} /\ rs # {} /\ rs \subseteq request_cache
  /\ request_cache' = request_cache \ rs
  /\ dying' = rs
  /\ UNCHANGED <<up, inq, kind, source, thread, corr, subscriptions, received, replies, faults>>

TidyDeletes == \E r \in dying :
  /\ dying' = dying \ {r}
  /\ Destroy({r})
  /\ UNCHANGED <<up, inq, kind, source, thread, request_cache, subscriptions, received, replies>>

-----------------------------------------------------------------------------
(* The Publisher: a message is copied under the read lock *)

Reading == \E c \in Peer : thread[c].pc \in {"publish", "notify"}

\* A JOIN to a subject that the Publisher has not been given is let through to
\* those who subscribe to subscription messages, if there are any.
Publishes(c) ==
  /\ thread[c].pc = "publisher" /\ kind[thread[c].id] \in {"ask", "refused"}
  /\ \E subs \in {subscriptions} \cup (IF kind[thread[c].id] = "refused" THEN {<< >>} ELSE {}) :
       thread' = [thread EXCEPT ![c].pc = "publish", ![c].todo = subs]
  /\ UNCHANGED <<up, inq, kind, source, request_cache, corr, dying, subscriptions, received, replies, faults>>

\* The transport sends to a subscriber, if it can, and then says so.
SendsCopy(c) ==
  LET s == Head(thread[c].todo)
  IN /\ thread[c].pc = "publish" /\ thread[c].todo # << >>
     /\ received' = IF s \in up THEN received \cup {<<s, thread[c].id>>} ELSE received
     /\ thread' = [thread EXCEPT ![c].pc = IF s \in up THEN "notify" ELSE "publish",
                                 ![c].todo = Tail(@)]
     /\ UNCHANGED <<up, inq, kind, source, request_cache, corr, dying, subscriptions, replies, faults>>

\* Mutant: the forwarding is not recorded.
NotifiesNobody(c) ==
  /\ thread[c].pc = "notify"
  /\ Goto(c, "publish")
  /\ UNCHANGED <<up, inq, kind, source, request_cache, corr, dying, subscriptions, received, replies, faults>>

NotifiesForwarded(c) ==
  /\ thread[c].pc = "notify"
  /\ corr' = [corr EXCEPT ![thread[c].id].forwarded = @ \/ corr[thread[c].id].tracking]
  /\ Goto(c, "publish")
  /\ UNCHANGED <<up, inq, kind, source, request_cache, dying, subscriptions, received, replies, faults>>

\* The lock is let go; the message goes back to its transport, where it dies.
Published(c) ==
  /\ thread[c].pc = "publish" /\ thread[c].todo = << >>
  /\ Goto(c, "dies")
  /\ UNCHANGED <<up, inq, kind, source, request_cache, corr, dying, subscriptions, received, replies, faults>>

\* The last copy of a message dies.  If nobody has been sent one, and there has
\* been no reply, there will be none.
Detaches(c) ==
  LET r == thread[c].id
      orphan == corr[r].tracking /\ ~corr[r].forwarded /\ ~corr[r].replied
  IN /\ thread[c].pc = "dies"
     /\ \E found \in {orphan} \cup (IF Dangling(c) THEN BOOLEAN ELSE {}) :
          thread' = [thread EXCEPT ![c] = IF found THEN [@ EXCEPT !.pc = "orphan"] ELSE IdleThread]
     /\ corr' = [corr EXCEPT ![r].tracking = FALSE]
     /\ UNCHANGED <<up, inq, kind, source, request_cache, dying, subscriptions, received, replies, faults>>

\* handle_orphan(): a fault, to wherever a deleted correlation says.
HandlesOrphan(c) ==
  LET r == thread[c].id
  IN /\ thread[c].pc = "orphan"
     /\ \E n \in {1} \cup (IF Dangling(c) THEN {0} ELSE {}) : faults' = [faults EXCEPT ![r] = @ + n]
     /\ Goto(c, "mark")
     /\ UNCHANGED <<up, inq, kind, source, request_cache, corr, dying, subscriptions, received, replies>>

\* Only then is the correlation marked.
MarksReplied(c) ==
  /\ thread[c].pc = "mark"
  /\ corr' = [corr EXCEPT ![thread[c].id].replied = TRUE]
  /\ Rests(c)
  /\ UNCHANGED <<up, inq, kind, source, request_cache, dying, subscriptions, received, replies, faults>>

Crashes(c) ==
  /\ Dangling(c)
  /\ Goto(c, "crashed")
  /\ UNCHANGED <<up, inq, kind, source, request_cache, corr, dying, subscriptions, received, replies, faults>>

AllBut(c) == SelectSeq(subscriptions, LAMBDA s : s # c)

\* JOIN begins with the unsubscribe() that is all of LEAVE.
Unsubscribes(c) ==
  /\ thread[c].pc = "publisher" /\ kind[thread[c].id] \in {"join", "leave"}
  /\ ~Reading
  /\ subscriptions' = AllBut(c)
  /\ Goto(c, IF kind[thread[c].id] = "join" THEN "subscribe" ELSE "respond")
  /\ UNCHANGED <<up, inq, kind, source, request_cache, corr, dying, received, replies, faults>>

Subscribes(c) ==
  /\ thread[c].pc = "subscribe" /\ ~Reading
  /\ subscriptions' = Append(subscriptions, c)
  /\ Goto(c, "respond")
  /\ UNCHANGED <<up, inq, kind, source, request_cache, corr, dying, received, replies, faults>>

\* A subscription message that is not one, or has no known operation.
Illegal(c) ==
  /\ thread[c].pc = "publisher" /\ kind[thread[c].id] = "illegal"
  /\ Goto(c, "respond")
  /\ UNCHANGED <<up, inq, kind, source, request_cache, corr, dying, subscriptions, received, replies, faults>>

\* The Publisher's response, an OK or a fault, goes back through the Correlator.
\* Without a correlation it is dropped, and the message dies like any other.
Responds(c) ==
  /\ thread[c].pc = "respond"
  /\ TurnsRound(c, thread[c].id, [thread[c] EXCEPT !.pc = "dies"])
  /\ UNCHANGED <<up, inq, kind, source, corr, dying, subscriptions, received, replies, faults>>

UnsubscribesAll(c) ==
  /\ thread[c].pc = "unsubscribe_all" /\ ~Reading
  /\ subscriptions' = AllBut(c)
  /\ Rests(c)
  /\ UNCHANGED <<up, inq, kind, source, request_cache, corr, dying, received, replies, faults>>

-----------------------------------------------------------------------------
ThreadStep(c) ==
  \/ Opens(c) \/ Tracks(c) \/ TakesResponse(c) \/ Originates(c) \/ Replied(c) \/ Finishes(c)
  \/ Publishes(c) \/ SendsCopy(c) \/ NotifiesForwarded(c) \/ Published(c)
  \/ Detaches(c) \/ HandlesOrphan(c) \/ MarksReplied(c) \/ Crashes(c)
  \/ Unsubscribes(c) \/ Subscribes(c) \/ Illegal(c) \/ Responds(c) \/ UnsubscribesAll(c)

ThreadRun(c) == ~Crashed /\ ThreadStep(c)

\* Whatever has been in the cache for the timeout goes in the end.
TickRun == ~Crashed /\ (Tidies(request_cache) \/ TidyDeletes)

MeshNext ==
  /\ ~Crashed
  /\ \/ \E c \in Peer :
          \/ \E r \in Request, k \in Kind : Ask(c, r, k)
          \/ \E r \in Request : Respond(c, r)
          \/ Disconnects(c) \/ ThreadStep(c)
     \/ \E rs \in SUBSET Request : Tidies(rs)
     \/ TidyDeletes

MeshSpec == MeshInit /\ [][MeshNext]_meshVars

MeshFairSpec == MeshSpec /\ (\A c \in Peer : WF_meshVars(ThreadRun(c))) /\ WF_meshVars(TickRun)

-----------------------------------------------------------------------------
\* However a late response, the time-out, the death of the last copy and the
\* client's disconnection meet, the client that asked gets one response, or
\* faults, and never both: a request that somebody has answered is not reported
\* as one that nobody would.  It gets two faults at most, one from the death of
\* the last copy and one from the destructor of the correlation.
OneAnswer == \A r \in Request :
  /\ replies[r] <= 1 /\ faults[r] <= 2
  /\ replies[r] = 0 \/ faults[r] = 0

\* Each request is replied to in the end, also if nobody has subscribed, the
\* subscribers have gone, or none of them ever answers; unless the server has
\* crashed on a deleted correlation.
RequestAnswered == \A r \in Request :
  (r \in request_cache) ~> (replies[r] + faults[r] > 0 \/ Crashed)

\* "Set replied so we don't do it again when the correlation times out": there
\* is one reply to a request at most.
RepliedOnce == \A r \in Request : replies[r] + faults[r] <= 1

\* "Make sure we are cut loose from any messages which are still being tracked
\* by us": detach() does not go on with a correlation that tidy() has deleted.
CutLoose == \A c \in Peer : thread[c].pc \in {"orphan", "mark"} => ~Gone(thread[c].id)
=============================================================================
