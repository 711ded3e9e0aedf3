----------------------------- MODULE MeshProofs -----------------------------
(***************************************************************************)
(* Proofs about XMLMesh, for any number of clients, requests, workers and  *)
(* subscribers: in the server a request has one response or faults, never  *)
(* both, and in the MultiClient no pointer outlives what it points to.     *)
(*                                                                         *)
(* Server.  Four parties may reply to a request: the thread that turns a   *)
(* response round, tidy(), the disconnection of its client, and the thread *)
(* that lets go of the last copy of the message.  The first three compete  *)
(* for the correlation, which one of them takes from the cache.  The last  *)
(* one does not take it, and marks it only after its fault: two faults can *)
(* go out (Owed), but as long as somebody may have been sent a copy, the   *)
(* thread does not take the message for an orphan (Expecting).             *)
(*                                                                         *)
(* Client.  dispatch() deletes a dead Subscriber when its count of active  *)
(* handlers is zero; the count is the number of workers that hold it       *)
(* (Counted), and no list leads to a deleted Subscriber (Listed).          *)
(***************************************************************************)
EXTENDS MeshServer, MultiClient, ListTheorems, SequenceTheorems, FiniteSetTheorems, TLAPS

Carries == {"track", "publisher", "publish", "notify", "subscribe", "respond", "dies", "orphan",
            "mark", "crashed"}
Places == Carries \cup {"idle", "originate", "replied", "unsubscribe_all"}
Kinds == AllKinds \cup {"new"}
Message == [type : {"request", "response"}, id : Request] \cup [type : {"finished"}, id : {0}]
Correlation == [tracking : BOOLEAN, forwarded : BOOLEAN, replied : BOOLEAN]

ThreadType ==
  /\ DOMAIN thread = Peer
  /\ \A c \in Peer :
       /\ DOMAIN thread[c] = {"pc", "id", "todo"}
       /\ thread[c].pc \in Places
       /\ thread[c].pc \notin {"idle", "unsubscribe_all"} => thread[c].id \in Request

MeshType ==
  /\ up \subseteq Peer
  /\ inq \in [Peer -> Seq(Message)]
  /\ kind \in [Request -> Kinds]
  /\ ThreadType
  /\ request_cache \subseteq Request /\ dying \subseteq Request
  /\ request_cache \cap dying = {}
  /\ corr \in [Request -> Correlation]
  /\ replies \in [Request -> Nat] /\ faults \in [Request -> Nat]

\* The thread of c carries the request r, or a reply to it.
Carrying(c, r) == thread[c].pc \in Carries /\ thread[c].id = r
Replying(c, r) == thread[c].pc \in {"originate", "replied"} /\ thread[c].id = r

\* The thread may still send a fault in answer to r.
Owing(c, r) == Carrying(c, r) /\ thread[c].pc \notin {"mark", "crashed"}

\* As far as the thread can see nobody has a copy, unless it is about to say so.
Orphaning(c, r) ==
  /\ Carrying(c, r) /\ thread[c].pc \notin {"notify", "crashed"}
  /\ \/ thread[c].pc \in {"track", "orphan", "mark"}
     \/ corr[r].tracking /\ ~corr[r].forwarded

InQueue(t, r) == \E c \in Peer : \E i \in 1..Len(inq[c]) :
  inq[c][i].type = t /\ inq[c][i].id = r

\* Somebody may answer r, or has done so.
Awaited(r) == InQueue("response", r) \/ \E c \in Peer : <<c, r>> \in received

Live(r) == r \in request_cache \cup dying

\* A request that the server has not seen.
Fresh(r) == kind[r] = "new" \/ InQueue("request", r)

QueuedOnce == \A c, d \in Peer : \A i \in 1..Len(inq[c]), j \in 1..Len(inq[d]) :
  inq[c][i].type = "request" /\ inq[d][j] = inq[c][i] => c = d /\ i = j

SentOnce ==
  /\ \A r \in Request : kind[r] = "new" => ~InQueue("request", r)
  /\ QueuedOnce

Unseen(r) ==
  /\ ~Live(r) /\ ~Awaited(r) /\ replies[r] = 0 /\ faults[r] = 0
  /\ \A c \in Peer : ~Carrying(c, r) /\ ~Replying(c, r)

\* One thread carries the request, and one a reply to it.
OneThread == \A c, d \in Peer, r \in Request :
  (Carrying(c, r) /\ Carrying(d, r)) \/ (Replying(c, r) /\ Replying(d, r)) => c = d

\* Where a response may come from, or has come, no thread takes the message for
\* one that nobody has, nor does any pointer to its correlation stay behind.
Expecting(r) ==
  /\ (Awaited(r) /\ Live(r)) \/ (\E c \in Peer : Replying(c, r)) \/ replies[r] > 0 =>
       \A c \in Peer : ~Orphaning(c, r)
  /\ Awaited(r) /\ Live(r) => faults[r] = 0
  /\ replies[r] > 0 /\ (\A c \in Peer : ~Replying(c, r)) => ~corr[r].tracking

\* What has been sent in answer to r, and what may still be.
Owed(r) ==
  /\ replies[r] <= 1 /\ faults[r] <= 2 /\ (replies[r] = 0 \/ faults[r] = 0)
  /\ Live(r) => replies[r] = 0 /\ faults[r] <= 1
  /\ \A c \in Peer : Owing(c, r) => faults[r] <= 1 /\ (Live(r) => faults[r] = 0)
  /\ \A c \in Peer : Replying(c, r) =>
       ~Live(r) /\ faults[r] = 0 /\ replies[r] = IF thread[c].pc = "originate" THEN 0 ELSE 1

RequestInv(r) == (Fresh(r) => Unseen(r)) /\ Expecting(r) /\ Owed(r)

MeshInv ==
  /\ MeshType /\ SentOnce /\ OneThread
  /\ \A r \in Request : RequestInv(r)

-----------------------------------------------------------------------------
(* The queues of messages *)

LEMMA QueuePut ==
  ASSUME MeshType, QueuedOnce, NEW c \in Peer, NEW m \in Message,
         m.type = "request" => ~InQueue("request", m.id),
         inq' = [inq EXCEPT ![c] = Append(@, m)]
  PROVE  /\ inq' \in [Peer -> Seq(Message)]
         /\ QueuedOnce'
         /\ \A t, r : InQueue(t, r)' <=> InQueue(t, r) \/ (m.type = t /\ m.id = r)
  <1> DEFINE q == inq[c]
             z == Append(q, m)
  <1>1. q \in Seq(Message) /\ Len(q) \in Nat
    BY LenProperties DEF MeshType
  <1>2. /\ z \in Seq(Message) /\ Len(z) = Len(q) + 1
        /\ \A i \in 1..Len(q) : z[i] = q[i]
        /\ z[Len(q) + 1] = m
    BY <1>1, AppendProperties
  <1>3. inq' = [inq EXCEPT ![c] = z]
    OBVIOUS
  <1> HIDE DEF z
  <1>4. /\ inq' \in [Peer -> Seq(Message)]
        /\ inq'[c] = z /\ \A d \in Peer \ {c} : inq'[d] = inq[d]
    BY <1>2, <1>3 DEF MeshType
  <1>5. \A i \in 1..Len(z) : i \in 1..Len(q) \/ i = Len(q) + 1
    BY <1>1, <1>2
  <1>6. Len(q) + 1 \in 1..Len(z) /\ \A i \in 1..Len(q) : i \in 1..Len(z)
    BY <1>1, <1>2
  <1>7. ASSUME NEW t, NEW r
        PROVE  InQueue(t, r)' <=> InQueue(t, r) \/ (m.type = t /\ m.id = r)
    <2>1. InQueue(t, r)' => InQueue(t, r) \/ (m.type = t /\ m.id = r)
      BY <1>2, <1>4, <1>5 DEF InQueue
    <2>2. InQueue(t, r) => InQueue(t, r)'
      BY <1>2, <1>4, <1>6 DEF InQueue
    <2>3. m.type = t /\ m.id = r => InQueue(t, r)'
      BY <1>2, <1>4, <1>6 DEF InQueue
    <2> QED BY <2>1, <2>2, <2>3
  <1>8. ASSUME NEW d \in Peer, NEW e \in Peer, NEW i \in 1..Len(inq'[d]), NEW j \in 1..Len(inq'[e]),
               inq'[d][i].type = "request", inq'[e][j] = inq'[d][i]
        PROVE  d = e /\ i = j
    <2>1. CASE (d # c \/ i \in 1..Len(q)) /\ (e # c \/ j \in 1..Len(q))
      BY <1>2, <1>4, <1>8, <2>1 DEF QueuedOnce
    <2>2. CASE d = c /\ i = Len(q) + 1
      <3>1. inq'[d][i] = m /\ ~InQueue("request", m.id)
        BY <1>2, <1>4, <1>8, <2>2
      <3>2. e = c /\ j = Len(q) + 1
        BY <1>2, <1>4, <1>5, <1>8, <3>1 DEF InQueue
      <3> QED BY <2>2, <3>2
    <2>3. CASE e = c /\ j = Len(q) + 1
      <3>1. inq'[d][i] = m /\ ~InQueue("request", m.id)
        BY <1>2, <1>4, <1>8, <2>3
      <3>2. d = c /\ i = Len(q) + 1
        BY <1>2, <1>4, <1>5, <1>8, <3>1 DEF InQueue
      <3> QED BY <2>3, <3>2
    <2> QED BY <1>4, <1>5, <2>1, <2>2, <2>3
  <1>9. QueuedOnce'
    BY <1>8 DEF QueuedOnce
  <1> QED BY <1>4, <1>7, <1>9

LEMMA QueueTake ==
  ASSUME MeshType, QueuedOnce, NEW c \in Peer, inq[c] # << >>,
         inq' = [inq EXCEPT ![c] = Tail(@)]
  PROVE  /\ inq' \in [Peer -> Seq(Message)]
         /\ QueuedOnce'
         /\ Head(inq[c]) \in Message
         /\ InQueue(Head(inq[c]).type, Head(inq[c]).id)
         /\ \A t, r : InQueue(t, r)' => InQueue(t, r)
         /\ \A r : Head(inq[c]).type = "request" /\ r = Head(inq[c]).id => ~InQueue("request", r)'
  <1> DEFINE q == inq[c]
             z == Tail(q)
             m == Head(q)
  <1>1. q \in Seq(Message) /\ Len(q) \in Nat \ {0} /\ m = q[1] /\ m \in Message
    BY EmptySeq, HeadTailProperties DEF MeshType
  <1>2. /\ z \in Seq(Message) /\ Len(z) = Len(q) - 1
        /\ \A i \in 1..Len(z) : z[i] = q[i + 1]
    BY HeadTailProperties DEF MeshType
  <1>3. inq' = [inq EXCEPT ![c] = z]
    OBVIOUS
  <1> HIDE DEF z, m
  <1>4. /\ inq' \in [Peer -> Seq(Message)]
        /\ inq'[c] = z /\ \A d \in Peer \ {c} : inq'[d] = inq[d]
    BY <1>2, <1>3 DEF MeshType
  <1>5. 1 \in 1..Len(q) /\ \A i \in 1..Len(z) : i + 1 \in 1..Len(q) /\ i + 1 # 1
    BY <1>1, <1>2
  <1>6. InQueue(m.type, m.id)
    BY <1>1, <1>5 DEF InQueue
  <1>7. ASSUME NEW t, NEW r, InQueue(t, r)' PROVE InQueue(t, r)
    BY <1>2, <1>4, <1>5, <1>7 DEF InQueue
  <1>8. ASSUME NEW d \in Peer, NEW i \in 1..Len(inq'[d])
        PROVE  \E k \in 1..Len(inq[d]) : inq[d][k] = inq'[d][i] /\ (d = c => k = i + 1)
    BY <1>2, <1>4, <1>5
  <1>9. QueuedOnce'
    <2> SUFFICES ASSUME NEW d \in Peer, NEW e \in Peer,
                        NEW i \in 1..Len(inq'[d]), NEW j \in 1..Len(inq'[e]),
                        inq'[d][i].type = "request", inq'[e][j] = inq'[d][i]
                 PROVE  d = e /\ i = j
      BY DEF QueuedOnce
    <2>1. PICK k \in 1..Len(inq[d]) :
            inq[d][k] = inq'[d][i] /\ (IF d = c THEN k = i + 1 ELSE k = i)
      BY <1>2, <1>4, <1>5
    <2>2. PICK l \in 1..Len(inq[e]) :
            inq[e][l] = inq'[e][j] /\ (IF e = c THEN l = j + 1 ELSE l = j)
      BY <1>2, <1>4, <1>5
    <2>3. d = e /\ k = l
      BY <2>1, <2>2 DEF QueuedOnce
    <2>4. i \in Int /\ j \in Int
      OBVIOUS
    <2> QED BY <2>1, <2>2, <2>3, <2>4
  <1>10. ASSUME m.type = "request", NEW r, r = m.id PROVE ~InQueue("request", r)'
    <2> SUFFICES ASSUME NEW d \in Peer, NEW i \in 1..Len(inq'[d]),
                        inq'[d][i].type = "request", inq'[d][i].id = r
                 PROVE  FALSE
      BY DEF InQueue
    <2>1. PICK k \in 1..Len(inq[d]) : inq[d][k] = inq'[d][i] /\ (d = c => k = i + 1)
      BY <1>8
    <2>2. inq[d][k] \in Message /\ inq[d][k].type = "request" /\ inq[d][k].id = m.id
      BY <1>10, <2>1, ElementOfSeq DEF MeshType
    <2>3. inq[d][k] = m
      BY <1>1, <1>10, <2>2 DEF Message
    <2>4. d = c /\ k = 1
      BY <1>1, <1>5, <2>2, <2>3 DEF QueuedOnce
    <2>5. k = i + 1 /\ i \in 1..Len(z)
      BY <1>4, <2>1, <2>4
    <2> QED BY <1>5, <2>4, <2>5
  <1> QED BY <1>1, <1>4, <1>6, <1>7, <1>9, <1>10 DEF m

-----------------------------------------------------------------------------
(* Steps that leave a request alone *)

\* No thread gets nearer to a fault.
Calmer(c, r) ==
  /\ Carrying(c, r)' => Carrying(c, r)
  /\ Owing(c, r)' => Owing(c, r)
  /\ Orphaning(c, r)' => Orphaning(c, r)
  /\ Replying(c, r)' <=> Replying(c, r)
  /\ Replying(c, r) => thread'[c].pc = thread[c].pc

LEMMA Untouched ==
  ASSUME NEW r \in Request, RequestInv(r),
         kind'[r] = kind[r], replies'[r] = replies[r], faults'[r] = faults[r],
         corr'[r].tracking => corr[r].tracking,
         Live(r)' <=> Live(r),
         InQueue("request", r)' => InQueue("request", r),
         Awaited(r)' => Awaited(r),
         \A c \in Peer : Calmer(c, r)
  PROVE  RequestInv(r)'
  <1>1. (Fresh(r) => Unseen(r))'
    BY DEF RequestInv, Fresh, Unseen, Calmer
  <1>2. Expecting(r)'
    BY DEF RequestInv, Expecting, Calmer
  <1>3. Owed(r)'
    BY DEF RequestInv, Owed, Calmer
  <1> QED BY <1>1, <1>2, <1>3 DEF RequestInv

\* The threads that stay where they are.
LEMMA Stays ==
  ASSUME NEW c \in Peer, NEW r \in Request, thread'[c] = thread[c],
         corr'[r] = corr[r] \/ (~corr'[r].tracking)
  PROVE  Calmer(c, r)
  <1>1. (Carrying(c, r)' <=> Carrying(c, r)) /\ (Owing(c, r)' <=> Owing(c, r))
    BY DEF Carrying, Owing
  <1>2. Orphaning(c, r)' => Orphaning(c, r)
    BY <1>1 DEF Orphaning
  <1>3. Replying(c, r)' <=> Replying(c, r)
    BY DEF Replying
  <1> QED BY <1>1, <1>2, <1>3 DEF Calmer

\* A thread goes on, and the others stay.
LEMMA Went ==
  ASSUME ThreadType, NEW c \in Peer, NEW l, Goto(c, l)
  PROVE  /\ DOMAIN thread' = Peer /\ DOMAIN thread'[c] = {"pc", "id", "todo"}
         /\ thread'[c].pc = l /\ thread'[c].id = thread[c].id
         /\ \A d \in Peer \ {c} : thread'[d] = thread[d]
  BY DEF ThreadType, Goto

LEMMA Rested ==
  ASSUME ThreadType, NEW c \in Peer, Rests(c)
  PROVE  /\ DOMAIN thread' = Peer /\ DOMAIN thread'[c] = {"pc", "id", "todo"}
         /\ thread'[c].pc = "idle"
         /\ \A d \in Peer \ {c} : thread'[d] = thread[d]
  BY DEF ThreadType, Rests, IdleThread

LEMMA OneMoved ==
  ASSUME ThreadType, NEW c \in Peer,
         DOMAIN thread' = Peer, DOMAIN thread'[c] = {"pc", "id", "todo"},
         thread'[c].pc \in Places,
         thread'[c].pc \notin {"idle", "unsubscribe_all"} => thread'[c].id \in Request,
         \A d \in Peer \ {c} : thread'[d] = thread[d]
  PROVE  ThreadType'
  BY DEF ThreadType

\* Steps of a thread that take nothing from the queues.
LEMMA QueuesKept ==
  ASSUME MeshInv, UNCHANGED <<inq, kind>>
  PROVE  /\ SentOnce' /\ inq' \in [Peer -> Seq(Message)]
         /\ \A t, x : InQueue(t, x)' <=> InQueue(t, x)
  <1>1. inq' = inq /\ kind' = kind
    OBVIOUS
  <1> QED BY <1>1 DEF MeshInv, MeshType, SentOnce, QueuedOnce, InQueue

\* The thread of c goes from one place to the next, and no request is nearer to
\* a reply for it.
LEMMA MoveKeeps ==
  ASSUME MeshInv, NEW c \in Peer,
         UNCHANGED <<up, inq, kind, request_cache, dying, received, replies, faults>>,
         corr' \in [Request -> Correlation], ThreadType',
         \A x \in Request : corr'[x] = corr[x] \/ ~corr'[x].tracking,
         \A d \in Peer \ {c} : thread'[d] = thread[d],
         \A x \in Request : Calmer(c, x)
  PROVE  MeshInv'
  <1>1. SentOnce' /\ \A t, x : InQueue(t, x)' <=> InQueue(t, x)
    BY QueuesKept
  <1>2. MeshType'
    BY DEF MeshInv, MeshType
  <1>3. \A d \in Peer, x \in Request : Calmer(d, x)
    BY Stays
  <1>4. OneThread'
    BY <1>3 DEF MeshInv, OneThread, Calmer
  <1>5. \A x \in Request : (Awaited(x)' <=> Awaited(x)) /\ (Live(x)' <=> Live(x))
    BY <1>1 DEF Awaited, Live
  <1>6. ASSUME NEW x \in Request PROVE RequestInv(x)'
    BY <1>1, <1>3, <1>5, Untouched DEF MeshInv
  <1> QED BY <1>1, <1>2, <1>4, <1>6 DEF MeshInv

-----------------------------------------------------------------------------
(* Clients *)

LEMMA AskKeeps ==
  ASSUME MeshInv, NEW c \in Peer, NEW r \in Request, NEW k \in Kind, Ask(c, r, k)
  PROVE  MeshInv'
  <1> DEFINE m == [type |-> "request", id |-> r]
  <1>1. /\ m \in Message /\ m.type = "request" /\ m.id = r
        /\ inq' = [inq EXCEPT ![c] = Append(@, m)]
        /\ kind' = [kind EXCEPT ![r] = k] /\ kind[r] = "new"
        /\ UNCHANGED <<up, thread, request_cache, corr, dying, received, replies, faults>>
    BY DEF Ask, Message
  <1>2. MeshType /\ QueuedOnce /\ ~InQueue("request", r) /\ Unseen(r)
    BY <1>1 DEF MeshInv, SentOnce, RequestInv, Fresh
  <1> HIDE DEF m
  <1>3. /\ inq' \in [Peer -> Seq(Message)] /\ QueuedOnce'
        /\ \A t, x : InQueue(t, x)' <=> InQueue(t, x) \/ (t = "request" /\ x = r)
    BY <1>1, <1>2, QueuePut
  <1>4. /\ kind' \in [Request -> Kinds] /\ kind'[r] = k /\ kind'[r] # "new"
        /\ \A x \in Request \ {r} : kind'[x] = kind[x]
    BY <1>1, KindAssumption DEF MeshInv, MeshType, Kinds, AllKinds
  <1>5. MeshType'
    BY <1>1, <1>3, <1>4 DEF MeshInv, MeshType, ThreadType
  <1>6. SentOnce'
    BY <1>3, <1>4 DEF MeshInv, SentOnce
  <1>7. \A x \in Request, d \in Peer : Calmer(d, x)
    BY <1>1, Stays
  <1>8. \A x \in Request : (Awaited(x)' <=> Awaited(x)) /\ (Live(x)' <=> Live(x))
    BY <1>1, <1>3 DEF Awaited, Live
  <1>9. OneThread'
    BY <1>7 DEF MeshInv, OneThread, Calmer
  <1>10. ASSUME NEW x \in Request PROVE RequestInv(x)'
    <2>1. CASE x # r
      BY <1>1, <1>3, <1>4, <1>7, <1>8, <2>1, Untouched DEF MeshInv
    <2>2. CASE x = r
      <3>1. Unseen(x)'
        BY <1>1, <1>2, <1>7, <1>8, <2>2 DEF Unseen, Calmer
      <3>2. Expecting(x)'
        BY <3>1 DEF Unseen, Expecting
      <3>3. Owed(x)'
        BY <3>1 DEF Unseen, Owed, Owing
      <3> QED BY <3>1, <3>2, <3>3 DEF RequestInv
    <2> QED BY <2>1, <2>2
  <1> QED BY <1>5, <1>6, <1>9, <1>10 DEF MeshInv

\* A subscriber's answer, and a client that goes: no request gets nearer to a
\* reply than it was.
LEMMA ClientKeeps ==
  ASSUME MeshInv, NEW c \in Peer, Disconnects(c) \/ \E r \in Request : Respond(c, r)
  PROVE  MeshInv'
  <1>1. PICK m \in Message :
          /\ inq' = [inq EXCEPT ![c] = Append(@, m)] /\ m.type # "request"
          /\ m.type = "response" => m.id \in Request /\ <<c, m.id>> \in received
          /\ UNCHANGED <<kind, thread, request_cache, corr, dying, replies, faults>>
          /\ up' \subseteq up /\ received' \subseteq received
    <2>1. CASE Disconnects(c)
      <3>1. [type |-> "finished", id |-> 0] \in Message
        BY DEF Message
      <3> QED BY <2>1, <3>1 DEF Disconnects
    <2>2. ASSUME NEW r \in Request, Respond(c, r)
          PROVE  \E m \in Message :
            /\ inq' = [inq EXCEPT ![c] = Append(@, m)] /\ m.type # "request"
            /\ m.type = "response" => m.id \in Request /\ <<c, m.id>> \in received
            /\ UNCHANGED <<kind, thread, request_cache, corr, dying, replies, faults>>
            /\ up' \subseteq up /\ received' \subseteq received
      <3>1. [type |-> "response", id |-> r] \in Message
        BY DEF Message
      <3> QED BY <2>2, <3>1 DEF Respond
    <2> QED BY <2>1, <2>2
  <1>2. /\ inq' \in [Peer -> Seq(Message)] /\ QueuedOnce'
        /\ \A t, x : InQueue(t, x)' <=> InQueue(t, x) \/ (m.type = t /\ m.id = x)
    BY <1>1, QueuePut DEF MeshInv, SentOnce
  <1>3. MeshType'
    BY <1>1, <1>2 DEF MeshInv, MeshType, ThreadType
  <1>4. SentOnce'
    BY <1>1, <1>2 DEF MeshInv, SentOnce
  <1>5. \A x \in Request, d \in Peer : Calmer(d, x)
    BY <1>1, Stays
  <1>6. \A x \in Request : (Awaited(x)' => Awaited(x)) /\ (Live(x)' <=> Live(x))
    BY <1>1, <1>2 DEF Awaited, Live
  <1>7. OneThread'
    BY <1>5 DEF MeshInv, OneThread, Calmer
  <1>8. ASSUME NEW x \in Request PROVE RequestInv(x)'
    BY <1>1, <1>2, <1>5, <1>6, Untouched DEF MeshInv
  <1> QED BY <1>3, <1>4, <1>7, <1>8 DEF MeshInv

-----------------------------------------------------------------------------
(* The Correlator *)

LEMMA OpensKeeps ==
  ASSUME MeshInv, NEW c \in Peer, Opens(c)
  PROVE  MeshInv'
  <1> DEFINE q == Head(inq[c])
  <1>1. /\ inq[c] # << >> /\ q.type = "request" /\ thread[c] = IdleThread
        /\ inq' = [inq EXCEPT ![c] = Tail(@)]
        /\ request_cache' = request_cache \cup {q.id}
        /\ corr' = [corr EXCEPT ![q.id] = NoCorrelation]
        /\ thread' = [thread EXCEPT ![c] = [pc |-> "track", id |-> q.id, todo |-> << >>]]
        /\ UNCHANGED <<up, kind, dying, received, replies, faults>>
    BY DEF Opens, Takes
  <1>2. /\ inq' \in [Peer -> Seq(Message)] /\ QueuedOnce'
        /\ q \in Message /\ InQueue(q.type, q.id)
        /\ \A t, x : InQueue(t, x)' => InQueue(t, x)
        /\ \A x : q.type = "request" /\ x = q.id => ~InQueue("request", x)'
    BY <1>1, QueueTake DEF MeshInv, SentOnce
  <1> HIDE DEF q
  <1>3. PICK r \in Request : r = q.id
    BY <1>1, <1>2 DEF Message
  <1>4. InQueue("request", r) /\ Unseen(r) /\ kind[r] # "new" /\ ~InQueue("request", r)'
    BY <1>1, <1>2, <1>3 DEF MeshInv, SentOnce, RequestInv, Fresh
  <1>5. /\ corr' \in [Request -> Correlation]
        /\ \A x \in Request \ {r} : corr'[x] = corr[x]
        /\ ~corr'[r].tracking
    BY <1>1, <1>3 DEF MeshInv, MeshType, NoCorrelation, Correlation
  <1>6. /\ DOMAIN thread' = Peer /\ DOMAIN thread'[c] = {"pc", "id", "todo"}
        /\ thread'[c].pc = "track" /\ thread'[c].id = r
        /\ \A d \in Peer \ {c} : thread'[d] = thread[d]
        /\ thread[c].pc = "idle"
    BY <1>1, <1>3 DEF MeshInv, MeshType, ThreadType, IdleThread
  <1>7. MeshType'
    <2>1. r \notin dying
      BY <1>4 DEF Unseen, Live
    <2>2. ThreadType'
      BY <1>6, OneMoved DEF MeshInv, MeshType, Places, Carries
    <2> QED BY <1>1, <1>2, <1>3, <1>5, <2>1, <2>2 DEF MeshInv, MeshType
  <1>8. SentOnce'
    BY <1>1, <1>2 DEF MeshInv, SentOnce
  <1>9. /\ \A d \in Peer \ {c}, x \in Request : Calmer(d, x)
        /\ \A x \in Request \ {r} : Calmer(c, x)
        /\ ~Replying(c, r)'
    <2>1. \A d \in Peer \ {c}, x \in Request : Calmer(d, x)
      BY <1>5, <1>6, Stays
    <2>2. \A x \in Request \ {r} : Calmer(c, x)
      BY <1>6 DEF Calmer, Carrying, Owing, Orphaning, Replying
    <2> QED BY <1>6, <2>1, <2>2 DEF Replying
  <1>10. \A x \in Request : Awaited(x)' => Awaited(x)
    BY <1>1, <1>2 DEF Awaited
  <1>11. \A x \in Request \ {r} : Live(x)' <=> Live(x)
    BY <1>1, <1>3 DEF Live
  <1>12. \A d \in Peer : /\ d # c => ~Carrying(d, r)'
                         /\ ~Replying(d, r)'
    BY <1>4, <1>9 DEF Unseen, Calmer
  <1>13. OneThread'
    BY <1>9, <1>12 DEF MeshInv, OneThread, Calmer
  <1>14. ASSUME NEW x \in Request PROVE RequestInv(x)'
    <2>1. CASE x # r
      BY <1>1, <1>2, <1>5, <1>9, <1>10, <1>11, <2>1, Untouched DEF MeshInv
    <2>2. CASE x = r
      <3>1. Live(x)' /\ ~Awaited(x)' /\ replies'[x] = 0 /\ faults'[x] = 0
        BY <1>1, <1>3, <1>4, <1>10, <2>2 DEF Unseen, Live
      <3>2. ~Fresh(x)'
        BY <1>1, <1>4, <2>2 DEF Fresh
      <3>3. Expecting(x)'
        BY <1>12, <2>2, <3>1 DEF Expecting
      <3>4. Owed(x)'
        BY <1>12, <2>2, <3>1 DEF Owed
      <3> QED BY <3>2, <3>3, <3>4 DEF RequestInv
    <2> QED BY <2>1, <2>2
  <1> QED BY <1>7, <1>8, <1>13, <1>14 DEF MeshInv

\* msg.track(): where a thread is about to do it nobody has the message yet.
LEMMA TracksKeeps ==
  ASSUME MeshInv, NEW c \in Peer, Tracks(c)
  PROVE  MeshInv'
  <1>1. PICK r \in Request : r = thread[c].id
    BY DEF Tracks, MeshInv, MeshType, ThreadType
  <1>2. /\ thread[c].pc = "track" /\ corr' = [corr EXCEPT ![r].tracking = TRUE]
        /\ UNCHANGED <<up, inq, kind, request_cache, dying, received, replies, faults>>
    BY <1>1 DEF Tracks
  <1>3. /\ DOMAIN thread' = Peer /\ DOMAIN thread'[c] = {"pc", "id", "todo"}
        /\ thread'[c].pc = "publisher" /\ thread'[c].id = r
        /\ \A d \in Peer \ {c} : thread'[d] = thread[d]
    BY <1>1, Went DEF Tracks, MeshInv, MeshType
  <1>4. /\ corr' \in [Request -> Correlation]
        /\ \A x \in Request \ {r} : corr'[x] = corr[x]
    BY <1>2 DEF MeshInv, MeshType, Correlation
  <1>5. MeshType'
    <2>1. ThreadType'
      BY <1>3, OneMoved DEF MeshInv, MeshType, Places, Carries
    <2> QED BY <1>2, <1>4, <2>1 DEF MeshInv, MeshType
  <1>6. SentOnce' /\ \A t, x : InQueue(t, x)' <=> InQueue(t, x)
    BY <1>2, QueuesKept
  <1>7. \A x \in Request : (Awaited(x)' <=> Awaited(x)) /\ (Live(x)' <=> Live(x))
    BY <1>2, <1>6 DEF Awaited, Live
  <1>8. /\ \A d \in Peer, x \in Request \ {r} : Calmer(d, x)
        /\ \A d \in Peer, x \in Request :
             /\ Carrying(d, x)' <=> Carrying(d, x)
             /\ Owing(d, x)' <=> Owing(d, x)
             /\ Replying(d, x)' <=> Replying(d, x)
             /\ Replying(d, x) => thread'[d].pc = thread[d].pc
    <2>1. \A d \in Peer, x \in Request :
             /\ Carrying(d, x)' <=> Carrying(d, x)
             /\ Owing(d, x)' <=> Owing(d, x)
             /\ Replying(d, x)' <=> Replying(d, x)
             /\ Replying(d, x) => thread'[d].pc = thread[d].pc
      BY <1>1, <1>2, <1>3 DEF Carrying, Owing, Replying, Carries
    <2>2. ASSUME NEW d \in Peer, NEW x \in Request \ {r} PROVE Calmer(d, x)
      <3>1. CASE d = c
        BY <1>1, <1>3, <2>1, <3>1 DEF Calmer, Orphaning, Carrying
      <3>2. CASE d # c
        BY <1>3, <1>4, <3>2, Stays
      <3> QED BY <3>1, <3>2
    <2> QED BY <2>1, <2>2
  <1>9. OneThread'
    BY <1>8 DEF MeshInv, OneThread
  <1>10. ASSUME NEW x \in Request PROVE RequestInv(x)'
    <2>1. CASE x # r
      BY <1>2, <1>4, <1>6, <1>7, <1>8, <2>1, Untouched DEF MeshInv
    <2>2. CASE x = r
      <3>1. Carrying(c, r) /\ Orphaning(c, r)
        BY <1>1, <1>2 DEF Carrying, Orphaning, Carries
      <3>2. ~(Awaited(r) /\ Live(r)) /\ (\A d \in Peer : ~Replying(d, r)) /\ ~(replies[r] > 0)
        BY <3>1 DEF MeshInv, RequestInv, Expecting
      <3>3. Expecting(x)'
        BY <1>2, <1>7, <1>8, <2>2, <3>2 DEF Expecting
      <3>4. ~Fresh(x)'
        BY <1>2, <1>6, <2>2, <3>1 DEF MeshInv, RequestInv, Fresh, Unseen
      <3>5. Owed(x)'
        BY <1>2, <1>7, <1>8 DEF MeshInv, RequestInv, Owed
      <3> QED BY <3>3, <3>4, <3>5 DEF RequestInv
    <2> QED BY <2>1, <2>2
  <1> QED BY <1>5, <1>6, <1>9, <1>10 DEF MeshInv

\* A reply to r is turned round: the thread of c takes the correlation.
LEMMA TurnsRoundKeeps ==
  ASSUME MeshInv, NEW c \in Peer, NEW r \in Request, NEW dropped, TurnsRound(c, r, dropped),
         UNCHANGED <<up, kind, corr, dying, received, replies, faults>>,
         inq' \in [Peer -> Seq(Message)], QueuedOnce',
         \A t, x : InQueue(t, x)' => InQueue(t, x),
         DOMAIN dropped = {"pc", "id", "todo"},
         \/ thread[c].pc = "idle" /\ Awaited(r) /\ dropped.pc = "idle"
         \/ thread[c].pc = "respond" /\ thread[c].id = r /\ dropped.pc = "dies" /\ dropped.id = r
  PROVE  MeshInv'
  <1>1. /\ DOMAIN thread' = Peer /\ DOMAIN thread'[c] = {"pc", "id", "todo"}
        /\ IF r \in request_cache THEN thread'[c].pc = "originate" /\ thread'[c].id = r
                                  ELSE thread'[c] = dropped
        /\ \A d \in Peer \ {c} : thread'[d] = thread[d]
    BY DEF TurnsRound, MeshInv, MeshType, ThreadType
  <1>2. request_cache' = request_cache \ {r}
    BY DEF TurnsRound
  <1>3. MeshType'
    <2>1. /\ thread'[c].pc \in {"originate", "idle", "dies"}
          /\ thread'[c].pc # "idle" => thread'[c].id \in Request
      BY <1>1
    <2>2. ThreadType'
      BY <1>1, <2>1, OneMoved DEF MeshInv, MeshType, Places, Carries
    <2> QED BY <1>2, <2>2 DEF MeshInv, MeshType
  <1>4. SentOnce'
    BY DEF MeshInv, SentOnce
  <1>5. \A x \in Request : Awaited(x)' => Awaited(x)
    BY DEF Awaited
  <1>6. \A d \in Peer \ {c}, x \in Request : Calmer(d, x)
    BY <1>1, Stays
  <1>7. /\ \A x \in Request : /\ Carrying(c, x)' => Carrying(c, x) /\ r \notin request_cache
                              /\ ~Replying(c, x)
                              /\ Replying(c, x)' => x = r /\ r \in request_cache
        /\ \A x \in Request : x # r \/ r \notin request_cache => Calmer(c, x)
    <2>1. \A x \in Request : /\ Carrying(c, x)' => Carrying(c, x) /\ r \notin request_cache
                             /\ ~Replying(c, x)
                             /\ Replying(c, x)' => x = r /\ r \in request_cache
      BY <1>1 DEF Carrying, Replying, Carries
    <2>2. ASSUME NEW x \in Request, x # r \/ r \notin request_cache PROVE Calmer(c, x)
      BY <1>1, <2>1, <2>2 DEF Calmer, Owing, Orphaning, Carrying, Replying, Carries
    <2> QED BY <2>1, <2>2
  <1>8. OneThread'
    <2>1. \A d \in Peer : Replying(c, r)' => ~Replying(d, r)
      BY <1>7 DEF MeshInv, RequestInv, Owed, Live
    <2> QED BY <1>6, <1>7, <2>1 DEF MeshInv, OneThread, Calmer
  <1>9. ASSUME NEW x \in Request PROVE RequestInv(x)'
    <2>1. CASE x # r \/ r \notin request_cache
      <3>1. Live(x)' <=> Live(x)
        BY <1>2, <2>1 DEF Live
      <3>2. \A d \in Peer : Calmer(d, x)
        BY <1>6, <1>7, <2>1
      <3> QED BY <1>5, <3>1, <3>2, Untouched DEF MeshInv
    <2>2. CASE x = r /\ r \in request_cache
      <3>1. Live(r) /\ ~Live(r)'
        BY <1>2, <2>2 DEF Live, MeshInv, MeshType
      <3>2. replies[r] = 0 /\ faults[r] = 0 /\ \A d \in Peer \ {c} : ~Orphaning(d, r)
        <4>1. CASE thread[c].pc = "idle" /\ Awaited(r)
          BY <3>1, <4>1 DEF MeshInv, RequestInv, Expecting, Owed
        <4>2. CASE thread[c].pc = "respond" /\ thread[c].id = r
          <5>1. Carrying(c, r) /\ Owing(c, r)
            BY <4>2 DEF Carrying, Owing, Carries
          <5>2. \A d \in Peer \ {c} : ~Carrying(d, r)
            BY <5>1 DEF MeshInv, OneThread
          <5> QED BY <3>1, <5>1, <5>2 DEF MeshInv, RequestInv, Owed, Orphaning
        <4> QED BY <4>1, <4>2
      <3>3. \A d \in Peer : ~Replying(d, r)
        BY <3>1 DEF MeshInv, RequestInv, Owed
      <3>4. \A d \in Peer : Replying(d, r)' => d = c
        BY <1>6, <3>3 DEF Calmer
      <3>5. \A d \in Peer : ~Orphaning(d, r)'
        <4>1. ~Orphaning(c, r)'
          BY <1>7, <2>2 DEF Orphaning
        <4> QED BY <1>6, <3>2, <4>1 DEF Calmer
      <3>6. ~Fresh(x)'
        BY <2>2, <3>1 DEF Fresh, MeshInv, RequestInv, Unseen
      <3>7. Expecting(x)'
        BY <2>2, <3>1, <3>2, <3>5 DEF Expecting
      <3>8. thread'[c].pc = "originate"
        BY <1>1, <2>2
      <3>9. Owed(x)'
        BY <2>2, <3>1, <3>2, <3>4, <3>8 DEF Owed
      <3> QED BY <3>6, <3>7, <3>9 DEF RequestInv
    <2> QED BY <2>1, <2>2
  <1> QED BY <1>3, <1>4, <1>8, <1>9 DEF MeshInv

LEMMA TakesResponseKeeps ==
  ASSUME MeshInv, NEW c \in Peer, TakesResponse(c)
  PROVE  MeshInv'
  <1> DEFINE q == Head(inq[c])
  <1>1. /\ inq[c] # << >> /\ q.type = "response" /\ thread[c] = IdleThread
        /\ inq' = [inq EXCEPT ![c] = Tail(@)] /\ TurnsRound(c, q.id, IdleThread)
        /\ UNCHANGED <<up, kind, corr, dying, received, replies, faults>>
    BY DEF TakesResponse, Takes
  <1>2. /\ inq' \in [Peer -> Seq(Message)] /\ QueuedOnce'
        /\ q \in Message /\ InQueue(q.type, q.id)
        /\ \A t, x : InQueue(t, x)' => InQueue(t, x)
    BY <1>1, QueueTake DEF MeshInv, SentOnce
  <1> HIDE DEF q
  <1>3. PICK r \in Request : r = q.id
    BY <1>1, <1>2 DEF Message
  <1>4. thread[c].pc = "idle" /\ Awaited(r)
    BY <1>1, <1>2, <1>3 DEF Awaited, IdleThread
  <1>5. DOMAIN IdleThread = {"pc", "id", "todo"} /\ IdleThread.pc = "idle"
    BY DEF IdleThread
  <1> QED BY <1>1, <1>2, <1>3, <1>4, <1>5, TurnsRoundKeeps

LEMMA RespondsKeeps ==
  ASSUME MeshInv, NEW c \in Peer, Responds(c)
  PROVE  MeshInv'
  <1>1. PICK r \in Request : r = thread[c].id
    BY DEF Responds, MeshInv, MeshType, ThreadType
  <1>2. /\ \A t, x : InQueue(t, x)' => InQueue(t, x)
        /\ inq' \in [Peer -> Seq(Message)] /\ QueuedOnce'
    BY QueuesKept DEF Responds, SentOnce
  <1> DEFINE dropped == [thread[c] EXCEPT !.pc = "dies"]
  <1>3. DOMAIN dropped = {"pc", "id", "todo"} /\ dropped.pc = "dies" /\ dropped.id = r
    BY <1>1 DEF MeshInv, MeshType, ThreadType
  <1>4. thread[c].pc = "respond" /\ TurnsRound(c, r, dropped)
    BY <1>1 DEF Responds
  <1>5. UNCHANGED <<up, kind, corr, dying, received, replies, faults>>
    BY DEF Responds
  <1> HIDE DEF dropped
  <1> QED BY <1>1, <1>2, <1>3, <1>4, <1>5, TurnsRoundKeeps

LEMMA OriginatesKeeps ==
  ASSUME MeshInv, NEW c \in Peer, Originates(c)
  PROVE  MeshInv'
  <1>1. PICK r \in Request : r = thread[c].id
    BY DEF Originates, MeshInv, MeshType, ThreadType
  <1>2. /\ thread[c].pc = "originate" /\ replies' = [replies EXCEPT ![r] = @ + 1]
        /\ UNCHANGED <<up, inq, kind, request_cache, corr, dying, received, faults>>
    BY <1>1 DEF Originates
  <1>3. /\ DOMAIN thread' = Peer /\ DOMAIN thread'[c] = {"pc", "id", "todo"}
        /\ thread'[c].pc = "replied" /\ thread'[c].id = r
        /\ \A d \in Peer \ {c} : thread'[d] = thread[d]
    BY <1>1, Went DEF Originates, MeshInv, MeshType
  <1>4. Replying(c, r) /\ replies[r] = 0 /\ faults[r] = 0 /\ ~Live(r)
    BY <1>1, <1>2 DEF Replying, MeshInv, RequestInv, Owed
  <1>5. /\ replies' \in [Request -> Nat] /\ replies'[r] = 1
        /\ \A x \in Request \ {r} : replies'[x] = replies[x]
    BY <1>2, <1>4 DEF MeshInv, MeshType
  <1>6. MeshType'
    <2>1. ThreadType'
      BY <1>3, OneMoved DEF MeshInv, MeshType, Places
    <2> QED BY <1>2, <1>5, <2>1 DEF MeshInv, MeshType
  <1>7. /\ SentOnce' /\ \A t, x : InQueue(t, x)' <=> InQueue(t, x)
    BY <1>2, QueuesKept
  <1>8. \A x \in Request : (Awaited(x)' <=> Awaited(x)) /\ (Live(x)' <=> Live(x))
    BY <1>2, <1>7 DEF Awaited, Live
  <1>9. /\ \A d \in Peer, x \in Request : d # c \/ x # r => Calmer(d, x)
        /\ ~Carrying(c, r)' /\ Replying(c, r)'
    <2>1. \A d \in Peer \ {c}, x \in Request : Calmer(d, x)
      BY <1>2, <1>3, Stays
    <2>2. \A x \in Request \ {r} : Calmer(c, x)
      BY <1>1, <1>3 DEF Calmer, Carrying, Owing, Orphaning, Replying
    <2> QED BY <1>3, <2>1, <2>2 DEF Carrying, Replying, Carries
  <1>10. OneThread'
    BY <1>4, <1>9 DEF MeshInv, OneThread, Calmer
  <1>11. ASSUME NEW x \in Request PROVE RequestInv(x)'
    <2>1. CASE x # r
      BY <1>2, <1>5, <1>7, <1>8, <1>9, <2>1, Untouched DEF MeshInv
    <2>2. CASE x = r
      <3>1. ~Fresh(x)'
        BY <1>2, <1>4, <1>7, <2>2 DEF MeshInv, RequestInv, Fresh, Unseen
      <3>2. \A d \in Peer : ~Orphaning(d, r)'
        <4>1. \A d \in Peer : ~Orphaning(d, r)
          BY <1>4 DEF MeshInv, RequestInv, Expecting
        <4> QED BY <1>9, <4>1 DEF Calmer, Orphaning
      <3>3. Expecting(x)'
        BY <1>2, <1>4, <1>8, <1>9, <2>2, <3>2 DEF Expecting
      <3>4. \A d \in Peer : Replying(d, r)' => d = c
        BY <1>4, <1>9 DEF MeshInv, OneThread, Calmer
      <3>5. Owed(x)'
        BY <1>2, <1>3, <1>4, <1>5, <1>8, <2>2, <3>4 DEF Owed
      <3> QED BY <3>1, <3>3, <3>5 DEF RequestInv
    <2> QED BY <2>1, <2>2
  <1> QED BY <1>6, <1>7, <1>10, <1>11 DEF MeshInv

LEMMA RepliedKeeps ==
  ASSUME MeshInv, NEW c \in Peer, Replied(c)
  PROVE  MeshInv'
  <1>1. PICK r \in Request : r = thread[c].id
    BY DEF Replied, MeshInv, MeshType, ThreadType
  <1>2. /\ thread[c].pc = "replied"
        /\ corr' = [corr EXCEPT ![r] = [@ EXCEPT !.tracking = FALSE, !.replied = TRUE]]
        /\ UNCHANGED <<up, inq, kind, request_cache, dying, received, replies, faults>>
    BY <1>1 DEF Replied
  <1>3. /\ DOMAIN thread' = Peer /\ DOMAIN thread'[c] = {"pc", "id", "todo"}
        /\ thread'[c].pc = "idle" /\ \A d \in Peer \ {c} : thread'[d] = thread[d]
    BY Rested DEF Replied, MeshInv, MeshType
  <1>4. Replying(c, r) /\ replies[r] = 1 /\ faults[r] = 0 /\ ~Live(r)
    BY <1>1, <1>2 DEF Replying, MeshInv, RequestInv, Owed
  <1>5. /\ corr' \in [Request -> Correlation]
        /\ ~corr'[r].tracking /\ \A x \in Request \ {r} : corr'[x] = corr[x]
    BY <1>2 DEF MeshInv, MeshType, Correlation
  <1>6. MeshType'
    <2>1. ThreadType'
      BY <1>3, OneMoved DEF MeshInv, MeshType, Places
    <2> QED BY <1>2, <1>5, <2>1 DEF MeshInv, MeshType
  <1>7. /\ SentOnce' /\ \A t, x : InQueue(t, x)' <=> InQueue(t, x)
    BY <1>2, QueuesKept
  <1>8. \A x \in Request : (Awaited(x)' <=> Awaited(x)) /\ (Live(x)' <=> Live(x))
    BY <1>2, <1>7 DEF Awaited, Live
  <1>9. /\ \A d \in Peer, x \in Request : d # c \/ x # r => Calmer(d, x)
        /\ ~Carrying(c, r)' /\ ~Replying(c, r)'
    <2>1. \A d \in Peer \ {c}, x \in Request : Calmer(d, x)
      BY <1>3, <1>5, Stays
    <2>2. \A x \in Request \ {r} : Calmer(c, x)
      BY <1>1, <1>3 DEF Calmer, Carrying, Owing, Orphaning, Replying, Carries
    <2> QED BY <1>3, <2>1, <2>2 DEF Carrying, Replying, Carries
  <1>10. OneThread'
    BY <1>9 DEF MeshInv, OneThread, Calmer
  <1>11. ASSUME NEW x \in Request PROVE RequestInv(x)'
    <2>1. CASE x # r
      BY <1>2, <1>5, <1>7, <1>8, <1>9, <2>1, Untouched DEF MeshInv
    <2>2. CASE x = r
      <3>1. ~Fresh(x)'
        BY <1>2, <1>4, <1>7, <2>2 DEF MeshInv, RequestInv, Fresh, Unseen
      <3>2. \A d \in Peer : ~Orphaning(d, r)'
        <4>1. \A d \in Peer : ~Orphaning(d, r)
          BY <1>4 DEF MeshInv, RequestInv, Expecting
        <4> QED BY <1>9, <4>1 DEF Calmer, Orphaning
      <3>3. Expecting(x)'
        BY <1>2, <1>4, <1>5, <1>8, <2>2, <3>2 DEF Expecting
      <3>4. \A d \in Peer : ~Replying(d, r)'
        BY <1>4, <1>9 DEF MeshInv, OneThread, Calmer
      <3>5. Owed(x)'
        BY <1>2, <1>4, <1>8, <2>2, <3>4 DEF Owed
      <3> QED BY <3>1, <3>3, <3>5 DEF RequestInv
    <2> QED BY <2>1, <2>2
  <1> QED BY <1>6, <1>7, <1>10, <1>11 DEF MeshInv

LEMMA DestroyType ==
  ASSUME MeshType, NEW rs, Destroy(rs)
  PROVE  /\ corr' \in [Request -> Correlation]
         /\ faults' \in [Request -> Nat]
         /\ \A r \in Request : r \in rs =>
              ~corr'[r].tracking /\ (faults'[r] = faults[r] \/ faults'[r] = faults[r] + 1)
         /\ \A r \in Request : r \notin rs => faults'[r] = faults[r] /\ corr'[r] = corr[r]
  <1> DEFINE n == [r \in Request |-> IF r \in rs /\ ~corr[r].replied THEN 1 ELSE 0]
  <1>1. \A r \in Request : /\ corr[r] \in Correlation /\ faults[r] \in Nat
                           /\ [corr[r] EXCEPT !.tracking = FALSE] \in Correlation
                           /\ [corr[r] EXCEPT !.tracking = FALSE].tracking = FALSE
    BY DEF MeshType, Correlation
  <1>2. \A r \in Request : n[r] \in {0, 1} /\ (r \notin rs => n[r] = 0)
    OBVIOUS
  <1>3. faults' = [r \in Request |-> faults[r] + n[r]]
    BY DEF Destroy
  <1> HIDE DEF n
  <1>4. ASSUME NEW r \in Request
        PROVE  /\ faults[r] + n[r] \in Nat
               /\ faults[r] + n[r] = faults[r] \/ faults[r] + n[r] = faults[r] + 1
               /\ r \notin rs => faults[r] + n[r] = faults[r]
    <2>1. faults[r] \in Nat
      BY <1>1
    <2>2. CASE n[r] = 0
      BY <2>1, <2>2
    <2>3. CASE n[r] = 1 /\ r \in rs
      BY <2>1, <2>3
    <2> QED BY <1>2, <2>2, <2>3
  <1>5. corr' = [r \in Request |-> IF r \in rs THEN [corr[r] EXCEPT !.tracking = FALSE] ELSE corr[r]]
    BY DEF Destroy
  <1> QED BY <1>1, <1>3, <1>4, <1>5

\* The correlations rs are deleted, by tidy() or at a disconnection.
LEMMA DestroyKeeps ==
  ASSUME MeshInv, NEW rs, \A r \in rs : r \in Request /\ Live(r), Destroy(rs),
         \A r \in Request : Live(r)' <=> Live(r) /\ r \notin rs,
         UNCHANGED <<kind, received, replies>>, MeshType', SentOnce',
         \A t, x : InQueue(t, x)' => InQueue(t, x),
         \A d \in Peer, x \in Request : Calmer(d, x)
  PROVE  MeshInv'
  <1>1. /\ \A r \in Request : r \in rs =>
             ~corr'[r].tracking /\ (faults'[r] = faults[r] \/ faults'[r] = faults[r] + 1)
        /\ \A r \in Request : r \notin rs => faults'[r] = faults[r] /\ corr'[r] = corr[r]
    BY DestroyType DEF MeshInv
  <1>2. \A x \in Request : Awaited(x)' => Awaited(x)
    BY DEF Awaited
  <1>3. OneThread'
    BY DEF MeshInv, OneThread, Calmer
  <1>4. ASSUME NEW x \in Request PROVE RequestInv(x)'
    <2>1. CASE x \notin rs
      BY <1>1, <1>2, <2>1, Untouched DEF MeshInv
    <2>2. CASE x \in rs
      <3>1. Live(x) /\ ~Live(x)' /\ replies'[x] = 0
        BY <2>2 DEF MeshInv, RequestInv, Owed
      <3>2. \A c \in Peer : ~Replying(c, x)'
        BY <3>1 DEF MeshInv, RequestInv, Owed, Calmer
      <3>3. ~Fresh(x)'
        BY <3>1 DEF MeshInv, RequestInv, Fresh, Unseen
      <3>4. Expecting(x)'
        BY <3>1, <3>2 DEF Expecting
      <3>5. faults[x] \in Nat /\ faults[x] <= 1 /\ \A c \in Peer : Owing(c, x)' => faults[x] = 0
        BY <3>1 DEF MeshInv, MeshType, RequestInv, Owed, Calmer
      <3>6. faults'[x] <= 2 /\ \A c \in Peer : Owing(c, x)' => faults'[x] <= 1
        BY <1>1, <2>2, <3>5
      <3>7. Owed(x)'
        BY <3>1, <3>2, <3>6 DEF Owed
      <3> QED BY <3>3, <3>4, <3>7 DEF RequestInv
    <2> QED BY <2>1, <2>2
  <1> QED BY <1>3, <1>4 DEF MeshInv

LEMMA FinishesKeeps ==
  ASSUME MeshInv, NEW c \in Peer, Finishes(c)
  PROVE  MeshInv'
  <1>1. PICK gone \in SUBSET request_cache :
          request_cache' = request_cache \ gone /\ Destroy(gone)
    BY DEF Finishes
  <1>2. /\ inq[c] # << >> /\ thread[c] = IdleThread
        /\ inq' = [inq EXCEPT ![c] = Tail(@)] /\ Goto(c, "unsubscribe_all")
        /\ UNCHANGED <<up, kind, dying, received, replies>>
    BY DEF Finishes, Takes
  <1>3. /\ inq' \in [Peer -> Seq(Message)] /\ QueuedOnce'
        /\ \A t, x : InQueue(t, x)' => InQueue(t, x)
    BY <1>2, QueueTake DEF MeshInv, SentOnce
  <1>4. /\ DOMAIN thread' = Peer /\ DOMAIN thread'[c] = {"pc", "id", "todo"}
        /\ thread'[c].pc = "unsubscribe_all" /\ thread[c].pc = "idle"
        /\ \A d \in Peer \ {c} : thread'[d] = thread[d]
    BY <1>2, Went DEF MeshInv, MeshType, IdleThread
  <1>5. /\ corr' \in [Request -> Correlation] /\ faults' \in [Request -> Nat]
        /\ \A x \in Request : corr'[x] = corr[x] \/ ~corr'[x].tracking
    BY <1>1, DestroyType DEF MeshInv
  <1>6. MeshType'
    <2>1. ThreadType'
      BY <1>4, OneMoved DEF MeshInv, MeshType, Places
    <2> QED BY <1>1, <1>2, <1>3, <1>5, <2>1 DEF MeshInv, MeshType
  <1>7. SentOnce'
    BY <1>2, <1>3 DEF MeshInv, SentOnce
  <1>8. \A d \in Peer, x \in Request : Calmer(d, x)
    <2>1. \A d \in Peer \ {c}, x \in Request : Calmer(d, x)
      BY <1>4, <1>5, Stays
    <2>2. \A x \in Request : Calmer(c, x)
      BY <1>4 DEF Calmer, Carrying, Owing, Orphaning, Replying, Carries
    <2> QED BY <2>1, <2>2
  <1>9. /\ \A r \in gone : r \in Request /\ Live(r)
        /\ \A r \in Request : Live(r)' <=> Live(r) /\ r \notin gone
    BY <1>1, <1>2 DEF MeshInv, MeshType, Live
  <1> QED BY <1>1, <1>2, <1>3, <1>6, <1>7, <1>8, <1>9, DestroyKeeps

LEMMA TidyDeletesKeeps ==
  ASSUME MeshInv, TidyDeletes
  PROVE  MeshInv'
  <1>1. PICK r \in dying : dying' = dying \ {r} /\ Destroy({r})
    BY DEF TidyDeletes
  <1>2. UNCHANGED <<up, inq, kind, thread, request_cache, received, replies>>
    BY DEF TidyDeletes
  <1>3. SentOnce' /\ \A t, x : InQueue(t, x)' => InQueue(t, x)
    BY <1>2, QueuesKept
  <1>4. /\ corr' \in [Request -> Correlation] /\ faults' \in [Request -> Nat]
        /\ \A x \in Request : corr'[x] = corr[x] \/ ~corr'[x].tracking
    BY <1>1, DestroyType DEF MeshInv
  <1>5. MeshType'
    BY <1>1, <1>2, <1>4 DEF MeshInv, MeshType, ThreadType
  <1>6. \A d \in Peer, x \in Request : Calmer(d, x)
    BY <1>2, <1>4, Stays
  <1>7. /\ \A x \in {r} : x \in Request /\ Live(x)
        /\ \A x \in Request : Live(x)' <=> Live(x) /\ x \notin {r}
    BY <1>1, <1>2 DEF MeshInv, MeshType, Live
  <1> QED BY <1>1, <1>2, <1>3, <1>5, <1>6, <1>7, DestroyKeeps

LEMMA TidiesKeeps ==
  ASSUME MeshInv, NEW rs \in SUBSET Request, Tidies(rs)
  PROVE  MeshInv'
  <1>1. /\ rs \subseteq request_cache /\ request_cache' = request_cache \ rs
        /\ dying = {} /\ dying' = rs
        /\ UNCHANGED <<up, inq, kind, thread, corr, received, replies, faults>>
    BY DEF Tidies
  <1>2. SentOnce' /\ \A t, x : InQueue(t, x)' <=> InQueue(t, x)
    BY <1>1, QueuesKept
  <1>3. MeshType'
    BY <1>1 DEF MeshInv, MeshType, ThreadType
  <1>4. \A d \in Peer, x \in Request : Calmer(d, x)
    BY <1>1, Stays
  <1>5. OneThread'
    BY <1>4 DEF MeshInv, OneThread, Calmer
  <1>6. \A x \in Request : (Awaited(x)' <=> Awaited(x)) /\ (Live(x)' <=> Live(x))
    BY <1>1, <1>2 DEF Awaited, Live
  <1>7. ASSUME NEW x \in Request PROVE RequestInv(x)'
    BY <1>1, <1>2, <1>4, <1>6, Untouched DEF MeshInv
  <1> QED BY <1>2, <1>3, <1>5, <1>7 DEF MeshInv

-----------------------------------------------------------------------------
(* The Publisher *)

\* Steps at which the message only goes from one place to the next, or the
\* server crashes.
LEMMA MovesKeeps ==
  ASSUME MeshInv, NEW c \in Peer,
         \/ Publishes(c) \/ Published(c) \/ Unsubscribes(c) \/ Subscribes(c) \/ Illegal(c)
         \/ UnsubscribesAll(c) \/ Crashes(c)
  PROVE  MeshInv'
  <1>1. UNCHANGED <<up, inq, kind, request_cache, corr, dying, received, replies, faults>>
    BY DEF Publishes, Published, Unsubscribes, Subscribes, Illegal, UnsubscribesAll, Crashes
  <1> DEFINE Quiet == {"publisher", "publish", "subscribe", "respond", "dies"}
  <1>2. /\ DOMAIN thread' = Peer /\ DOMAIN thread'[c] = {"pc", "id", "todo"}
        /\ \A d \in Peer \ {c} : thread'[d] = thread[d]
        /\ \/ thread[c].pc \in Quiet /\ thread'[c].pc \in Quiet /\ thread'[c].id = thread[c].id
           \/ /\ thread[c].pc \in Carries /\ thread'[c].pc = "crashed"
              /\ thread'[c].id = thread[c].id
           \/ thread[c].pc = "unsubscribe_all" /\ thread'[c].pc = "idle"
    <2>1. CASE Publishes(c)
      <3>1. PICK subs : thread' = [thread EXCEPT ![c].pc = "publish", ![c].todo = subs]
        BY <2>1 DEF Publishes
      <3>2. thread[c].pc = "publisher"
        BY <2>1 DEF Publishes
      <3> QED BY <3>1, <3>2 DEF MeshInv, MeshType, ThreadType
    <2>2. CASE Published(c)
      BY <2>2, Went DEF Published, MeshInv, MeshType
    <2>3. CASE Unsubscribes(c)
      BY <2>3, Went DEF Unsubscribes, MeshInv, MeshType
    <2>4. CASE Subscribes(c)
      BY <2>4, Went DEF Subscribes, MeshInv, MeshType
    <2>5. CASE Illegal(c)
      BY <2>5, Went DEF Illegal, MeshInv, MeshType
    <2>6. CASE UnsubscribesAll(c)
      BY <2>6, Rested DEF UnsubscribesAll, MeshInv, MeshType
    <2>7. CASE Crashes(c)
      <3>1. thread[c].pc \in Carries
        BY <2>7 DEF Crashes, Dangling, Carries
      <3> QED BY <2>7, <3>1, Went DEF Crashes, MeshInv, MeshType
    <2> QED BY <2>1, <2>2, <2>3, <2>4, <2>5, <2>6, <2>7
  <1>3. ThreadType'
    <2>1. thread[c].pc \in Carries => thread[c].id \in Request
      BY DEF MeshInv, MeshType, ThreadType, Carries
    <2> QED BY <1>2, <2>1, OneMoved DEF MeshInv, MeshType, Places, Carries
  <1>4. \A x \in Request : Calmer(c, x)
    BY <1>1, <1>2 DEF Calmer, Carrying, Owing, Orphaning, Replying, Carries
  <1> QED BY <1>1, <1>2, <1>3, <1>4, MoveKeeps DEF MeshInv, MeshType

\* A subscriber is sent a copy: the thread will say so before the message dies.
LEMMA SendsCopyKeeps ==
  ASSUME MeshInv, NEW c \in Peer, SendsCopy(c)
  PROVE  MeshInv'
  <1>1. PICK r \in Request : r = thread[c].id
    BY DEF SendsCopy, MeshInv, MeshType, ThreadType
  <1>2. /\ thread[c].pc = "publish"
        /\ UNCHANGED <<up, inq, kind, request_cache, corr, dying, replies, faults>>
    BY DEF SendsCopy
  <1>3. /\ DOMAIN thread' = Peer /\ DOMAIN thread'[c] = {"pc", "id", "todo"}
        /\ thread'[c].id = r /\ thread'[c].pc \in {"publish", "notify"}
        /\ \A d \in Peer \ {c} : thread'[d] = thread[d]
    BY <1>1 DEF SendsCopy, MeshInv, MeshType, ThreadType
  <1>4. /\ thread'[c].pc # "notify" => received' = received
        /\ \A d \in Peer, x \in Request : <<d, x>> \in received' => <<d, x>> \in received \/ x = r
    BY <1>1 DEF SendsCopy, MeshInv, MeshType, ThreadType
  <1>5. MeshType'
    <2>1. ThreadType'
      BY <1>3, OneMoved DEF MeshInv, MeshType, Places, Carries
    <2> QED BY <1>2, <2>1 DEF MeshInv, MeshType
  <1>6. SentOnce' /\ \A t, x : InQueue(t, x)' <=> InQueue(t, x)
    BY <1>2, QueuesKept
  <1>7. \A d \in Peer, x \in Request : Calmer(d, x)
    <2>1. \A d \in Peer \ {c}, x \in Request : Calmer(d, x)
      BY <1>2, <1>3, Stays
    <2>2. \A x \in Request : Calmer(c, x)
      BY <1>1, <1>2, <1>3 DEF Calmer, Carrying, Owing, Orphaning, Replying, Carries
    <2> QED BY <2>1, <2>2
  <1>8. OneThread'
    BY <1>7 DEF MeshInv, OneThread, Calmer
  <1>9. \A x \in Request : Live(x)' <=> Live(x)
    BY <1>2 DEF Live
  <1>10. ASSUME NEW x \in Request PROVE RequestInv(x)'
    <2>1. CASE x # r \/ thread'[c].pc # "notify"
      <3>1. Awaited(x)' => Awaited(x)
        BY <1>4, <1>6, <2>1 DEF Awaited
      <3> QED BY <1>2, <1>6, <1>7, <1>9, <3>1, Untouched DEF MeshInv
    <2>2. CASE x = r /\ thread'[c].pc = "notify"
      <3>1. Carrying(c, r) /\ Owing(c, r)
        BY <1>1, <1>2 DEF Carrying, Owing, Carries
      <3>2. ~Fresh(x)'
        BY <1>2, <1>6, <2>2, <3>1 DEF MeshInv, RequestInv, Fresh, Unseen
      <3>3. \A d \in Peer : ~Orphaning(d, x)'
        <4>1. \A d \in Peer \ {c} : ~Carrying(d, r)
          BY <3>1 DEF MeshInv, OneThread
        <4>2. \A d \in Peer \ {c} : ~Carrying(d, r)'
          BY <1>7, <4>1 DEF Calmer
        <4> QED BY <2>2, <4>2 DEF Orphaning
      <3>4. Live(x) => faults[x] = 0
        BY <2>2, <3>1 DEF MeshInv, RequestInv, Owed
      <3>5. Expecting(x)'
        BY <1>2, <1>7, <1>9, <3>3, <3>4 DEF MeshInv, RequestInv, Expecting, Calmer
      <3>6. Owed(x)'
        BY <1>2, <1>7, <1>9 DEF MeshInv, RequestInv, Owed, Calmer
      <3> QED BY <3>2, <3>5, <3>6 DEF RequestInv
    <2> QED BY <2>1, <2>2
  <1> QED BY <1>5, <1>6, <1>8, <1>10 DEF MeshInv

LEMMA NotifiesKeeps ==
  ASSUME MeshInv, NEW c \in Peer, NotifiesForwarded(c)
  PROVE  MeshInv'
  <1>1. PICK r \in Request : r = thread[c].id
    BY DEF NotifiesForwarded, MeshInv, MeshType, ThreadType
  <1>2. /\ thread[c].pc = "notify"
        /\ corr' = [corr EXCEPT ![r].forwarded = @ \/ corr[r].tracking]
        /\ UNCHANGED <<up, inq, kind, request_cache, dying, received, replies, faults>>
    BY <1>1 DEF NotifiesForwarded
  <1>3. /\ DOMAIN thread' = Peer /\ DOMAIN thread'[c] = {"pc", "id", "todo"}
        /\ thread'[c].id = r /\ thread'[c].pc = "publish"
        /\ \A d \in Peer \ {c} : thread'[d] = thread[d]
    BY <1>1, Went DEF NotifiesForwarded, MeshInv, MeshType
  <1>4. /\ corr' \in [Request -> Correlation]
        /\ corr'[r].tracking = corr[r].tracking
        /\ corr'[r].forwarded \/ ~corr'[r].tracking
        /\ \A x \in Request \ {r} : corr'[x] = corr[x]
    BY <1>2 DEF MeshInv, MeshType, Correlation
  <1>5. MeshType'
    <2>1. ThreadType'
      BY <1>3, OneMoved DEF MeshInv, MeshType, Places, Carries
    <2> QED BY <1>2, <1>4, <2>1 DEF MeshInv, MeshType
  <1>6. SentOnce' /\ \A t, x : InQueue(t, x)' <=> InQueue(t, x)
    BY <1>2, QueuesKept
  <1>7. \A d \in Peer, x \in Request : Calmer(d, x)
    <2>1. ASSUME NEW d \in Peer \ {c}, NEW x \in Request PROVE Calmer(d, x)
      <3>1. CASE x # r
        BY <1>3, <1>4, <3>1, Stays
      <3>2. CASE x = r
        BY <1>3, <1>4, <3>2 DEF Calmer, Carrying, Owing, Orphaning, Replying
      <3> QED BY <3>1, <3>2
    <2>2. \A x \in Request : Calmer(c, x)
      BY <1>1, <1>2, <1>3, <1>4 DEF Calmer, Carrying, Owing, Orphaning, Replying, Carries
    <2> QED BY <2>1, <2>2
  <1>8. OneThread'
    BY <1>7 DEF MeshInv, OneThread, Calmer
  <1>9. \A x \in Request : (Awaited(x)' <=> Awaited(x)) /\ (Live(x)' <=> Live(x))
    BY <1>2, <1>6 DEF Awaited, Live
  <1>10. ASSUME NEW x \in Request PROVE RequestInv(x)'
    BY <1>2, <1>4, <1>6, <1>7, <1>9, Untouched DEF MeshInv
  <1> QED BY <1>5, <1>6, <1>8, <1>10 DEF MeshInv

\* The last copy dies.  The thread takes it for an orphan only if nobody has a
\* copy, or the correlation is gone; a response can come in neither case.
LEMMA DetachesKeeps ==
  ASSUME MeshInv, NEW c \in Peer, Detaches(c)
  PROVE  MeshInv'
  <1>1. PICK r \in Request : r = thread[c].id
    BY DEF Detaches, MeshInv, MeshType, ThreadType
  <1>2. /\ thread[c].pc = "dies"
        /\ corr' = [corr EXCEPT ![r].tracking = FALSE]
        /\ UNCHANGED <<up, inq, kind, request_cache, dying, received, replies, faults>>
    BY <1>1 DEF Detaches
  <1>3. /\ DOMAIN thread' = Peer /\ DOMAIN thread'[c] = {"pc", "id", "todo"}
        /\ \A d \in Peer \ {c} : thread'[d] = thread[d]
        /\ \/ thread'[c].pc = "idle"
           \/ /\ thread'[c].pc = "orphan" /\ thread'[c].id = r
              /\ (corr[r].tracking /\ ~corr[r].forwarded) \/ Dangling(c)
    <2>1. PICK found \in BOOLEAN :
            /\ thread' = [thread EXCEPT ![c] =
                            IF found THEN [@ EXCEPT !.pc = "orphan"] ELSE IdleThread]
            /\ found => (corr[r].tracking /\ ~corr[r].forwarded) \/ Dangling(c)
      BY <1>1 DEF Detaches
    <2>2. CASE found
      BY <1>1, <2>1, <2>2 DEF MeshInv, MeshType, ThreadType
    <2>3. CASE ~found
      BY <2>1, <2>3 DEF MeshInv, MeshType, ThreadType, IdleThread
    <2> QED BY <2>2, <2>3
  <1>4. /\ corr' \in [Request -> Correlation] /\ ~corr'[r].tracking
        /\ \A x \in Request \ {r} : corr'[x] = corr[x]
    BY <1>2 DEF MeshInv, MeshType, Correlation
  <1>5. ThreadType'
    BY <1>3, OneMoved DEF MeshInv, MeshType, Places, Carries
  <1>6. Carrying(c, r) /\ Owing(c, r)
    BY <1>1, <1>2 DEF Carrying, Owing, Carries
  <1>7. \A d \in Peer \ {c} : ~Carrying(d, r)
    BY <1>6 DEF MeshInv, OneThread
  <1>8. thread'[c].pc = "orphan" =>
          ~(Awaited(r) /\ Live(r)) /\ (\A d \in Peer : ~Replying(d, r)) /\ ~(replies[r] > 0)
    <2>1. CASE corr[r].tracking /\ ~corr[r].forwarded
      <3>1. Orphaning(c, r)
        BY <1>2, <1>6, <2>1 DEF Orphaning
      <3> QED BY <3>1 DEF MeshInv, RequestInv, Expecting
    <2>2. CASE Dangling(c)
      <3>1. ~Live(r) /\ (\A d \in Peer : ~Replying(d, r)) /\ corr[r].tracking
        BY <1>1, <1>2, <2>2 DEF Dangling, Gone, Live, Replying
      <3> QED BY <3>1 DEF MeshInv, RequestInv, Expecting
    <2> QED BY <1>3, <2>1, <2>2
  <1>9. /\ \A d \in Peer, x \in Request : d # c \/ x # r => Calmer(d, x)
        /\ Carrying(c, r)' => thread'[c].pc = "orphan"
        /\ ~Replying(c, r)' /\ ~Replying(c, r)
    <2>1. \A d \in Peer \ {c}, x \in Request : Calmer(d, x)
      BY <1>3, <1>4, Stays
    <2>2. \A x \in Request \ {r} : Calmer(c, x)
      BY <1>1, <1>2, <1>3 DEF Calmer, Carrying, Owing, Orphaning, Replying, Carries
    <2> QED BY <1>2, <1>3, <2>1, <2>2 DEF Carrying, Replying, Carries
  <1>10. MeshType'
    BY <1>2, <1>4, <1>5 DEF MeshInv, MeshType
  <1>11. SentOnce' /\ \A t, x : InQueue(t, x)' <=> InQueue(t, x)
    BY <1>2, QueuesKept
  <1>12. OneThread'
    BY <1>6, <1>7, <1>9 DEF MeshInv, OneThread, Calmer
  <1>13. \A x \in Request : (Awaited(x)' <=> Awaited(x)) /\ (Live(x)' <=> Live(x))
    BY <1>2, <1>11 DEF Awaited, Live
  <1>14. ASSUME NEW x \in Request PROVE RequestInv(x)'
    <2>1. CASE x # r
      BY <1>2, <1>4, <1>9, <1>11, <1>13, <2>1, Untouched DEF MeshInv
    <2>2. CASE x = r
      <3>1. ~Fresh(x)'
        BY <1>2, <1>6, <1>11, <2>2 DEF MeshInv, RequestInv, Fresh, Unseen
      <3>2. \A d \in Peer : Replying(d, x)' <=> Replying(d, x)
        BY <1>9, <2>2 DEF Calmer
      <3>3. CASE thread'[c].pc = "orphan"
        <4>1. Expecting(x)'
          BY <1>2, <1>8, <1>13, <2>2, <3>2, <3>3 DEF Expecting
        <4> HIDE DEF Calmer
        <4>2. Owed(x)'
          <5>1. faults[r] <= 1 /\ (Live(r) => faults[r] = 0)
            BY <1>6 DEF MeshInv, RequestInv, Owed
          <5>2. replies[r] <= 1 /\ faults[r] <= 2 /\ (replies[r] = 0 \/ faults[r] = 0)
                /\ (Live(r) => replies[r] = 0 /\ faults[r] <= 1)
            BY DEF MeshInv, RequestInv, Owed
          <5> QED BY <1>2, <1>8, <1>13, <2>2, <3>2, <3>3, <5>1, <5>2 DEF Owed
        <4> QED BY <3>1, <4>1, <4>2 DEF RequestInv
      <3>4. CASE thread'[c].pc # "orphan"
        <4>1. \A d \in Peer : ~Carrying(d, x)'
          BY <1>7, <1>9, <2>2, <3>4 DEF Calmer
        <4>2. Expecting(x)'
          BY <1>2, <1>4, <1>13, <2>2, <3>2, <4>1 DEF MeshInv, RequestInv, Expecting, Orphaning
        <4>3. \A d \in Peer : Replying(d, r) => thread'[d].pc = thread[d].pc
          BY <1>3, <1>9
        <4>4. Owed(x)'
          BY <1>2, <1>13, <2>2, <3>2, <4>1, <4>3 DEF MeshInv, RequestInv, Owed, Owing
        <4> QED BY <3>1, <4>2, <4>4 DEF RequestInv
      <3> QED BY <3>3, <3>4
    <2> QED BY <2>1, <2>2
  <1> QED BY <1>10, <1>11, <1>12, <1>14 DEF MeshInv

\* The fault of an orphan, with the correlation still in the cache or not.
LEMMA OrphanKeeps ==
  ASSUME MeshInv, NEW c \in Peer, HandlesOrphan(c)
  PROVE  MeshInv'
  <1>1. PICK r \in Request : r = thread[c].id
    BY DEF HandlesOrphan, MeshInv, MeshType, ThreadType
  <1>2. PICK n \in {0, 1} : faults' = [faults EXCEPT ![r] = @ + n]
    BY <1>1 DEF HandlesOrphan
  <1>3. /\ thread[c].pc = "orphan"
        /\ UNCHANGED <<up, inq, kind, request_cache, corr, dying, received, replies>>
    BY DEF HandlesOrphan
  <1>4. /\ DOMAIN thread' = Peer /\ DOMAIN thread'[c] = {"pc", "id", "todo"}
        /\ thread'[c].pc = "mark" /\ thread'[c].id = r
        /\ \A d \in Peer \ {c} : thread'[d] = thread[d]
    BY <1>1, Went DEF HandlesOrphan, MeshInv, MeshType
  <1>5. Carrying(c, r) /\ Owing(c, r) /\ Orphaning(c, r)
    BY <1>1, <1>3 DEF Carrying, Owing, Orphaning, Carries
  <1>6. /\ faults[r] \in Nat /\ faults[r] <= 1 /\ (Live(r) => faults[r] = 0)
        /\ replies[r] \in Nat /\ replies[r] = 0
        /\ \A d \in Peer : ~Replying(d, r)
        /\ ~(Awaited(r) /\ Live(r))
    <2>1. ~(replies[r] > 0) /\ replies[r] \in Nat
      BY <1>5 DEF MeshInv, MeshType, RequestInv, Expecting
    <2> QED BY <1>5, <2>1 DEF MeshInv, MeshType, RequestInv, Expecting, Owed
  <1>7. /\ faults' \in [Request -> Nat] /\ faults'[r] <= 2 /\ (Live(r) => faults'[r] <= 1)
        /\ \A x \in Request \ {r} : faults'[x] = faults[x]
    BY <1>2, <1>6 DEF MeshInv, MeshType
  <1>8. MeshType'
    <2>1. ThreadType'
      BY <1>4, OneMoved DEF MeshInv, MeshType, Places, Carries
    <2> QED BY <1>3, <1>7, <2>1 DEF MeshInv, MeshType
  <1>9. SentOnce' /\ \A t, x : InQueue(t, x)' <=> InQueue(t, x)
    BY <1>3, QueuesKept
  <1>10. \A d \in Peer, x \in Request : Calmer(d, x)
    <2>1. \A d \in Peer \ {c}, x \in Request : Calmer(d, x)
      BY <1>3, <1>4, Stays
    <2>2. \A x \in Request : Calmer(c, x)
      BY <1>1, <1>3, <1>4 DEF Calmer, Carrying, Owing, Orphaning, Replying, Carries
    <2> QED BY <2>1, <2>2
  <1>11. OneThread'
    BY <1>10 DEF MeshInv, OneThread, Calmer
  <1>12. \A x \in Request : (Awaited(x)' <=> Awaited(x)) /\ (Live(x)' <=> Live(x))
    BY <1>3, <1>9 DEF Awaited, Live
  <1>13. ASSUME NEW x \in Request PROVE RequestInv(x)'
    <2>1. CASE x # r
      BY <1>3, <1>7, <1>9, <1>10, <1>12, <2>1, Untouched DEF MeshInv
    <2>2. CASE x = r
      <3>1. ~Fresh(x)'
        BY <1>3, <1>5, <1>9, <2>2 DEF MeshInv, RequestInv, Fresh, Unseen
      <3>2. \A d \in Peer : ~Replying(d, x)'
        BY <1>6, <1>10, <2>2 DEF Calmer
      <3>3. \A d \in Peer : ~Owing(d, x)'
        <4>1. \A d \in Peer \ {c} : ~Owing(d, r)
          BY <1>5 DEF MeshInv, OneThread, Owing
        <4>2. ~Owing(c, r)'
          BY <1>4 DEF Owing
        <4> QED BY <1>10, <2>2, <4>1, <4>2 DEF Calmer
      <3>4. Expecting(x)'
        BY <1>3, <1>6, <1>12, <2>2, <3>2 DEF Expecting
      <3>5. Owed(x)'
        BY <1>3, <1>6, <1>7, <1>12, <2>2, <3>2, <3>3 DEF Owed
      <3> QED BY <3>1, <3>4, <3>5 DEF RequestInv
    <2> QED BY <2>1, <2>2
  <1> QED BY <1>8, <1>9, <1>11, <1>13 DEF MeshInv

LEMMA MarksKeeps ==
  ASSUME MeshInv, NEW c \in Peer, MarksReplied(c)
  PROVE  MeshInv'
  <1>1. PICK r \in Request : r = thread[c].id
    BY DEF MarksReplied, MeshInv, MeshType, ThreadType
  <1>2. /\ thread[c].pc = "mark"
        /\ corr' = [corr EXCEPT ![r].replied = TRUE]
        /\ UNCHANGED <<up, inq, kind, request_cache, dying, received, replies, faults>>
    BY <1>1 DEF MarksReplied
  <1>3. /\ DOMAIN thread' = Peer /\ DOMAIN thread'[c] = {"pc", "id", "todo"}
        /\ thread'[c].pc = "idle" /\ \A d \in Peer \ {c} : thread'[d] = thread[d]
    BY Rested DEF MarksReplied, MeshInv, MeshType
  <1>4. /\ corr' \in [Request -> Correlation]
        /\ \A x \in Request : /\ corr'[x].tracking = corr[x].tracking
                              /\ corr'[x].forwarded = corr[x].forwarded
    BY <1>2 DEF MeshInv, MeshType, Correlation
  <1>5. MeshType'
    <2>1. ThreadType'
      BY <1>3, OneMoved DEF MeshInv, MeshType, Places
    <2> QED BY <1>2, <1>4, <2>1 DEF MeshInv, MeshType
  <1>6. SentOnce' /\ \A t, x : InQueue(t, x)' <=> InQueue(t, x)
    BY <1>2, QueuesKept
  <1>7. \A d \in Peer, x \in Request : Calmer(d, x)
    <2>1. ASSUME NEW d \in Peer \ {c}, NEW x \in Request PROVE Calmer(d, x)
      BY <1>3, <1>4 DEF Calmer, Carrying, Owing, Orphaning, Replying
    <2>2. \A x \in Request : Calmer(c, x)
      BY <1>2, <1>3 DEF Calmer, Carrying, Owing, Orphaning, Replying, Carries
    <2> QED BY <2>1, <2>2
  <1>8. OneThread'
    BY <1>7 DEF MeshInv, OneThread, Calmer
  <1>9. \A x \in Request : (Awaited(x)' <=> Awaited(x)) /\ (Live(x)' <=> Live(x))
    BY <1>2, <1>6 DEF Awaited, Live
  <1>10. ASSUME NEW x \in Request PROVE RequestInv(x)'
    BY <1>2, <1>4, <1>6, <1>7, <1>9, Untouched DEF MeshInv
  <1> QED BY <1>5, <1>6, <1>8, <1>10 DEF MeshInv

-----------------------------------------------------------------------------
LEMMA MeshInitial ==
  ASSUME MeshInit
  PROVE  MeshInv
  <1>1. \A c \in Peer : /\ inq[c] = << >> /\ Len(inq[c]) = 0
                        /\ thread[c] = IdleThread /\ thread[c].pc = "idle"
    BY EmptySeq DEF MeshInit, IdleThread
  <1>2. inq \in [Peer -> Seq(Message)]
    BY EmptySeq DEF MeshInit
  <1>3. \A t, r : ~InQueue(t, r)
    BY <1>1 DEF InQueue
  <1>4. MeshType
    <2>1. ThreadType
      BY <1>1 DEF MeshInit, ThreadType, IdleThread, Places
    <2>2. corr \in [Request -> Correlation]
      BY DEF MeshInit, NoCorrelation, Correlation
    <2> QED BY <1>2, <2>1, <2>2 DEF MeshInit, MeshType, Kinds
  <1>5. SentOnce
    BY <1>1, <1>3 DEF SentOnce, QueuedOnce
  <1>6. \A c \in Peer : \A r : ~Carrying(c, r) /\ ~Replying(c, r)
    BY <1>1 DEF Carrying, Replying, Carries
  <1>7. OneThread
    BY <1>6 DEF OneThread
  <1>8. ASSUME NEW r \in Request PROVE RequestInv(r)
    <2>1. Unseen(r)
      BY <1>3, <1>6 DEF MeshInit, Unseen, Live, Awaited
    <2>2. Expecting(r)
      BY <2>1 DEF Unseen, Expecting
    <2>3. Owed(r)
      BY <2>1 DEF Unseen, Owed, Owing
    <2> QED BY <2>1, <2>2, <2>3 DEF RequestInv
  <1> QED BY <1>4, <1>5, <1>7, <1>8 DEF MeshInv

LEMMA MeshStep ==
  ASSUME MeshInv, [MeshNext]_meshVars
  PROVE  MeshInv'
  <1>1. CASE UNCHANGED meshVars
    <2>1. SentOnce' /\ \A t, x : InQueue(t, x)' <=> InQueue(t, x)
      BY <1>1, QueuesKept DEF meshVars
    <2>2. MeshType'
      BY <1>1 DEF MeshInv, MeshType, ThreadType, meshVars
    <2>3. \A d \in Peer, x \in Request : Calmer(d, x)
      BY <1>1, Stays DEF meshVars
    <2>4. OneThread'
      BY <2>3 DEF MeshInv, OneThread, Calmer
    <2>5. \A x \in Request : (Awaited(x)' <=> Awaited(x)) /\ (Live(x)' <=> Live(x))
      BY <1>1, <2>1 DEF Awaited, Live, meshVars
    <2>6. ASSUME NEW x \in Request PROVE RequestInv(x)'
      BY <1>1, <2>1, <2>3, <2>5, Untouched DEF MeshInv, meshVars
    <2> QED BY <2>1, <2>2, <2>4, <2>6 DEF MeshInv
  <1>2. ASSUME NEW c \in Peer, ThreadStep(c) PROVE MeshInv'
    BY <1>2, OpensKeeps, TracksKeeps, TakesResponseKeeps, OriginatesKeeps, RepliedKeeps,
       FinishesKeeps, MovesKeeps, SendsCopyKeeps, NotifiesKeeps, DetachesKeeps, OrphanKeeps,
       MarksKeeps, RespondsKeeps DEF ThreadStep
  <1> QED BY <1>1, <1>2, AskKeeps, ClientKeeps, TidiesKeeps, TidyDeletesKeeps DEF MeshNext

\* The invariant of the server: what is queued, carried by a thread, in the
\* Correlator's cache and owed agrees for every request.
THEOREM MeshInvariant == MeshSpec => []MeshInv
  BY MeshInitial, MeshStep, PTL DEF MeshSpec

\* The Correlator, Correlation's destructor and the notifications of a message's
\* death never originate a fault to a request that has a response, nor a second
\* response, nor a third fault, however the threads of the services, the tick
\* and the clients alternate.
THEOREM AnswersOnce == MeshSpec => []OneAnswer
  <1>1. MeshInv => OneAnswer
    BY DEF MeshInv, RequestInv, Owed, OneAnswer
  <1> QED BY <1>1, MeshInvariant, PTL

-----------------------------------------------------------------------------
(* MultiClient *)

Steps == {"none", "connected", "request", "send", "failed", "wait", "left"}
WorkerPlaces == {"spare", "look", "handle", "poll", "take", "leaving"}
Operation == [kind : {"none", "JOIN", "LEAVE"}, sub : Sub \cup {None}, step : Steps]

ClientType ==
  /\ subscribers \in Seq(Sub) /\ deleted \subseteq Sub
  /\ active \in [Sub -> Nat]
  /\ requests \subseteq Caller
  /\ wpc \in [Worker -> WorkerPlaces]
  /\ handlers \in [Worker -> Seq(Sub)]
  /\ op \in [Caller -> Operation]

\* The workers that have yet to call s, or are calling it.
Using(s) == {w \in Worker : s \in Range(handlers[w])}

Counted == \A s \in Sub : active[s] = Cardinality(Using(s))
Listed == Range(subscribers) \cap deleted = {}
Unused == \A w \in Worker : wpc[w] # "handle" => handlers[w] = << >>

HeldLive == \A w \in Worker : Range(handlers[w]) \cap deleted = {}
RequestsLive == \A t \in requests : op[t].step \in {"send", "failed", "wait"}

ClientInv == ClientType /\ Counted /\ Listed /\ Unused /\ HeldLive /\ RequestsLive

LEMMA NoneHeld == Range(<< >>) = {}
  BY DEF Range

LEMMA ClientInitial == MInit => ClientInv
  <1> SUFFICES ASSUME MInit PROVE ClientInv
    OBVIOUS
  <1>1. ClientType
    BY DEF MInit, ClientType, Idle, Operation, Steps, WorkerPlaces
  <1>2. \A s \in Sub : Using(s) = {}
    BY NoneHeld DEF MInit, Using
  <1>3. Counted
    BY <1>2, FS_EmptySet DEF MInit, Counted
  <1> QED BY <1>1, <1>3, NoneHeld DEF MInit, ClientInv, Listed, Unused, HeldLive, RequestsLive

\* What leaves the list, the marks and the handlers alone.
LEMMA ListsKept ==
  ASSUME ClientInv, UNCHANGED <<subscribers, deleted, active, handlers>>,
         wpc' \in [Worker -> WorkerPlaces],
         \A w \in Worker : wpc'[w] # "handle" => wpc[w] # "handle",
         requests' \subseteq Caller, op' \in [Caller -> Operation],
         RequestsLive'
  PROVE  ClientInv'
  <1>1. ClientType'
    BY DEF ClientInv, ClientType
  <1>2. Counted' /\ Listed' /\ HeldLive'
    BY DEF ClientInv, Counted, Listed, HeldLive, Using
  <1>3. Unused'
    BY DEF ClientInv, Unused
  <1> QED BY <1>1, <1>2, <1>3 DEF ClientInv

\* One thread's operation goes on, and its request is in the map while it is
\* being sent or waited for.
LEMMA OperationKept ==
  ASSUME ClientInv, NEW t \in Caller, NEW o \in Operation,
         op' = [op EXCEPT ![t] = o],
         requests' \subseteq requests \cup {t},
         t \in requests' => o.step \in {"send", "failed", "wait"}
  PROVE  /\ requests' \subseteq Caller /\ op' \in [Caller -> Operation]
         /\ RequestsLive'
  <1>1. requests' \subseteq Caller /\ op' \in [Caller -> Operation]
    BY DEF ClientInv, ClientType
  <1>2. \A u \in requests' : op'[u].step \in {"send", "failed", "wait"}
    <2> SUFFICES ASSUME NEW u \in requests' PROVE op'[u].step \in {"send", "failed", "wait"}
      OBVIOUS
    <2>1. CASE u = t
      BY <2>1 DEF ClientInv, ClientType
    <2>2. CASE u # t
      <3>1. u \in requests /\ op'[u] = op[u]
        BY <1>1, <2>2 DEF ClientInv, ClientType
      <3> QED BY <3>1 DEF ClientInv, RequestsLive
    <2> QED BY <2>1, <2>2
  <1> QED BY <1>1, <1>2 DEF RequestsLive

LEMMA CallerKeeps ==
  ASSUME ClientInv, NEW t \in Caller, CallerRun(t) \/ Delayed(t) \/ SendFails(t) \/ \E s \in Sub : Disconnect(t, s)
  PROVE  ClientInv'
  <1>1. /\ op[t] \in Operation
        /\ op[t].kind \in {"none", "JOIN", "LEAVE"} /\ op[t].sub \in Sub \cup {None}
        /\ t \in requests => op[t].step \in {"send", "failed", "wait"}
    BY DEF ClientInv, ClientType, RequestsLive, Operation
  <1>2. Idle \in Operation /\ Idle.step = "none"
    BY DEF Idle, Operation, Steps
  <1>3. CASE RegisterRequest(t)
    <2>1. PICK o : o = [kind |-> op[t].kind, sub |-> op[t].sub, step |-> "send"]
      OBVIOUS
    <2>2. o \in Operation /\ o.step = "send" /\ op' = [op EXCEPT ![t] = o]
      BY <1>1, <1>3, <2>1 DEF RegisterRequest, Step, Operation, Steps
    <2>3. RequestsLive' /\ requests' \subseteq Caller /\ op' \in [Caller -> Operation]
      BY <1>3, <2>2, OperationKept DEF RegisterRequest
    <2> QED BY <1>3, <2>3, ListsKept DEF RegisterRequest, workerVars, ClientInv, ClientType
  <1>4. CASE SendRequest(t) \/ SendFails(t)
    <2>1. PICK l \in {"failed", "wait"} : Step(t, op[t].kind, op[t].sub, l)
      BY <1>4 DEF SendRequest, SendFails
    <2>2. PICK o : o = [kind |-> op[t].kind, sub |-> op[t].sub, step |-> l]
      OBVIOUS
    <2>3. o \in Operation /\ o.step = l /\ op' = [op EXCEPT ![t] = o]
      BY <1>1, <2>1, <2>2 DEF Step, Operation, Steps
    <2>4. UNCHANGED <<subscribers, deleted, active, handlers, requests, wpc>>
      BY <1>4 DEF SendRequest, SendFails, clientVars, workerVars
    <2>5. RequestsLive' /\ requests' \subseteq Caller /\ op' \in [Caller -> Operation]
      BY <2>3, <2>4, OperationKept
    <2> QED BY <2>4, <2>5, ListsKept DEF ClientInv, ClientType
  <1>5. CASE EndRequest(t) \/ Unsent(t)
    <2>1. PICK o : o = IF op[t].kind = "LEAVE" THEN [op[t] EXCEPT !.step = "left"] ELSE Idle
      OBVIOUS
    <2>2. o \in Operation
      BY <1>1, <1>2, <2>1 DEF Operation, Steps
    <2>3. op' = [op EXCEPT ![t] = o] /\ requests' = requests \ {t}
      BY <1>5, <2>1 DEF EndRequest, Unsent, Returned
    <2>4. RequestsLive' /\ requests' \subseteq Caller /\ op' \in [Caller -> Operation]
      BY <2>2, <2>3, OperationKept
    <2>5. UNCHANGED <<subscribers, deleted, active, handlers, wpc>>
      BY <1>5 DEF EndRequest, Unsent, workerVars
    <2> QED BY <2>4, <2>5, ListsKept DEF ClientInv, ClientType
  <1>6. CASE MarkDead(t) \/ Delayed(t)
    <2>1. t \notin requests /\ op' = [op EXCEPT ![t] = Idle] /\ requests' = requests
      BY <1>1, <1>6 DEF MarkDead, Delayed, clientVars
    <2>2. RequestsLive' /\ requests' \subseteq Caller /\ op' \in [Caller -> Operation]
      BY <1>2, <2>1, OperationKept
    <2> QED BY <1>6, <2>2, ListsKept DEF MarkDead, Delayed, clientVars, workerVars, ClientInv, ClientType
  <1>7. ASSUME NEW s \in Sub, Disconnect(t, s) PROVE ClientInv'
    <2>1. PICK o : o = [kind |-> "LEAVE", sub |-> s, step |-> "request"]
      OBVIOUS
    <2>2. o \in Operation /\ op' = [op EXCEPT ![t] = o]
      BY <1>7, <2>1 DEF Disconnect, Step, Operation, Steps
    <2>3. t \notin requests
      BY <1>1, <1>2, <1>7 DEF Disconnect
    <2>4. RequestsLive' /\ requests' \subseteq Caller /\ op' \in [Caller -> Operation]
      BY <1>7, <2>2, <2>3, OperationKept DEF Disconnect, clientVars
    <2> QED BY <1>7, <2>4, ListsKept DEF Disconnect, clientVars, workerVars, ClientInv, ClientType
  <1> QED BY <1>3, <1>4, <1>5, <1>6, <1>7 DEF CallerRun

LEMMA RegisterKeeps ==
  ASSUME ClientInv, NEW u \in User, NEW s \in Sub, Register(u, s)
  PROVE  ClientInv'
  <1>1. u \in Caller
    BY DEF Caller
  <1>2. u \notin requests
    <2>1. op[u].step = "none"
      BY DEF Register, Idle
    <2> QED BY <2>1 DEF ClientInv, RequestsLive
  <1>3. PICK o : o = [kind |-> "JOIN", sub |-> s, step |-> "connected"]
    OBVIOUS
  <1>4. o \in Operation /\ op' = [op EXCEPT ![u] = o]
    BY <1>3 DEF Register, Step, Operation, Steps
  <1>5. RequestsLive' /\ requests' \subseteq Caller /\ op' \in [Caller -> Operation]
    BY <1>1, <1>2, <1>4, OperationKept DEF Register
  <1>6. /\ subscribers' \in Seq(Sub) /\ Range(subscribers') = Range(subscribers) \cup {s}
        /\ s \notin deleted
    BY AppendElements DEF Register, ClientInv, ClientType
  <1>7. UNCHANGED <<deleted, active, wpc, handlers>>
    BY DEF Register, workerVars
  <1>8. ClientType' /\ Listed'
    BY <1>5, <1>6, <1>7 DEF ClientInv, ClientType, Listed
  <1>9. Counted' /\ Unused' /\ HeldLive'
    BY <1>7 DEF ClientInv, Counted, Unused, HeldLive, Using
  <1> QED BY <1>5, <1>8, <1>9 DEF ClientInv

LEMMA DispatchKeeps ==
  ASSUME ClientInv, DispatchRun \/ ServerRun \/ SendLost \/ Drop \/ (\E s \in Sub : Publish(s))
  PROVE  ClientInv'
  <1>1. UNCHANGED <<subscribers, deleted, active, handlers, requests, op>>
    BY DEF DispatchRun, Handle, HandleResponse, HandleMessage, Restarted, SkipDead, SendJoin, Joined,
           JoinRefused, Resubscribed, ServerRun, Answer, Reconnect, FlagDown, SendLost, Drop, Publish, clientVars, workerVars
  <1>2. wpc' = wpc \/ \E w \in Spare : wpc' = [wpc EXCEPT ![w] = "look"]
    BY DEF DispatchRun, Handle, HandleResponse, HandleMessage, Restarted, SkipDead, SendJoin, Joined,
           JoinRefused, Resubscribed, ServerRun, Answer, Reconnect, FlagDown, SendLost, Drop, Publish, workerVars
  <1>3. /\ wpc' \in [Worker -> WorkerPlaces]
        /\ \A w \in Worker : wpc'[w] # "handle" => wpc[w] # "handle"
    BY <1>2 DEF ClientInv, ClientType, WorkerPlaces, Spare
  <1>4. RequestsLive' /\ requests' \subseteq Caller /\ op' \in [Caller -> Operation]
    BY <1>1 DEF ClientInv, ClientType, RequestsLive
  <1> QED BY <1>1, <1>3, <1>4, ListsKept

\* The Subscribers that dispatch() deletes are held by no worker.
LEMMA DoomedFree ==
  ASSUME ClientInv, NEW s \in Doomed
  PROVE  /\ s \in Sub /\ s \in Range(subscribers)
         /\ \A w \in Worker : s \notin Range(handlers[w])
  <1>1. s \in Range(subscribers) /\ active[s] = 0
    BY DEF Doomed
  <1>2. s \in Sub
    <2>1. subscribers \in [1..Len(subscribers) -> Sub]
      BY DEF ClientInv, ClientType
    <2> QED BY <1>1, <2>1 DEF Range
  <1>3. IsFiniteSet(Using(s))
    BY MeshThreads, FS_Subset DEF Using
  <1>4. Using(s) = {}
    BY <1>1, <1>2, <1>3, FS_EmptySet DEF ClientInv, Counted
  <1> QED BY <1>1, <1>2, <1>4 DEF Using

LEMMA LookKeeps ==
  ASSUME ClientInv, NEW w \in Worker, Look(w)
  PROVE  ClientInv'
  <1> DEFINE gone == Doomed
             mine == Keeping(subscribers, {msg[w]} \ gone)
             rest == Keeping(subscribers, Sub \ gone)
  <1>1. subscribers \in Seq(Sub) /\ handlers \in [Worker -> Seq(Sub)] /\ active \in [Sub -> Nat]
    BY DEF ClientInv, ClientType
  <1>2. /\ mine \in Seq(Sub) /\ rest \in Seq(Sub)
        /\ Range(mine) = Range(subscribers) \cap ({msg[w]} \ gone)
        /\ Range(rest) = Range(subscribers) \cap (Sub \ gone)
    BY <1>1, KeepingElements
  <1>3. /\ wpc[w] = "look"
        /\ subscribers' = rest /\ deleted' = deleted \cup gone
        /\ active' = [s \in Sub |-> active[s] + (IF s \in Range(mine) THEN 1 ELSE 0)]
        /\ handlers' = [handlers EXCEPT ![w] = mine]
        /\ wpc' = [wpc EXCEPT ![w] = "handle"]
        /\ UNCHANGED <<requests, op>>
    BY DEF Look
  <1>4. \A s \in gone : s \in Sub /\ \A v \in Worker : s \notin Range(handlers[v])
    BY DoomedFree
  <1> HIDE DEF gone, mine, rest
  <1>5. handlers'[w] = mine /\ \A v \in Worker \ {w} : handlers'[v] = handlers[v]
    BY <1>1, <1>3
  <1>6. ClientType'
    <2>1. active' \in [Sub -> Nat]
      BY <1>1, <1>3
    <2>2. handlers' \in [Worker -> Seq(Sub)] /\ wpc' \in [Worker -> WorkerPlaces]
      BY <1>1, <1>2, <1>3 DEF ClientInv, ClientType, WorkerPlaces
    <2>3. deleted' \subseteq Sub
      BY <1>3, <1>4 DEF ClientInv, ClientType
    <2> QED BY <1>2, <1>3, <2>1, <2>2, <2>3 DEF ClientInv, ClientType
  <1>7. Counted'
    <2> SUFFICES ASSUME NEW s \in Sub PROVE active'[s] = Cardinality(Using(s)')
      BY DEF Counted
    <2>1. IsFiniteSet(Using(s)) /\ active[s] = Cardinality(Using(s)) /\ active[s] \in Nat
      BY <1>1, MeshThreads, FS_Subset DEF ClientInv, Counted, Using
    <2>2. w \notin Using(s)
      BY <1>3, NoneHeld DEF ClientInv, Unused, Using
    <2>3. CASE s \in Range(mine)
      <3>1. Using(s)' = Using(s) \cup {w}
        BY <1>5, <2>3 DEF Using
      <3> QED BY <1>3, <2>1, <2>2, <2>3, <3>1, FS_AddElement
    <2>4. CASE s \notin Range(mine)
      <3>1. Using(s)' = Using(s)
        BY <1>5, <2>2, <2>4 DEF Using
      <3> QED BY <1>3, <2>1, <2>4, <3>1
    <2> QED BY <2>3, <2>4
  <1>8. Listed'
    BY <1>2, <1>3 DEF ClientInv, Listed
  <1>9. Unused'
    <2> SUFFICES ASSUME NEW v \in Worker, wpc'[v] # "handle" PROVE handlers'[v] = << >>
      BY DEF Unused
    <2>1. v # w /\ wpc[v] # "handle"
      BY <1>3 DEF ClientInv, ClientType
    <2> QED BY <1>5, <2>1 DEF ClientInv, Unused
  <1>10. HeldLive'
    <2> SUFFICES ASSUME NEW v \in Worker PROVE Range(handlers'[v]) \cap deleted' = {}
      BY DEF HeldLive
    <2>1. CASE v = w
      BY <1>2, <1>3, <1>5, <2>1 DEF ClientInv, Listed
    <2>2. CASE v # w
      BY <1>3, <1>4, <1>5, <2>2 DEF ClientInv, HeldLive
    <2> QED BY <2>1, <2>2
  <1>11. RequestsLive'
    BY <1>3 DEF ClientInv, RequestsLive
  <1> QED BY <1>6, <1>7, <1>8, <1>9, <1>10, <1>11 DEF ClientInv

LEMMA HandledKeeps ==
  ASSUME ClientInv, NEW w \in Worker, Handled(w)
  PROVE  ClientInv'
  <1>1. handlers \in [Worker -> Seq(Sub)] /\ active \in [Sub -> Nat]
    BY DEF ClientInv, ClientType
  <1>2. /\ active' = [s \in Sub |-> active[s] - (IF s \in Range(handlers[w]) THEN 1 ELSE 0)]
        /\ handlers' = [handlers EXCEPT ![w] = << >>]
        /\ wpc' = [wpc EXCEPT ![w] = "poll"]
        /\ UNCHANGED <<subscribers, deleted, requests, op>>
    BY DEF Handled
  <1>3. handlers'[w] = << >> /\ \A v \in Worker \ {w} : handlers'[v] = handlers[v]
    BY <1>1, <1>2
  <1>4. ASSUME NEW s \in Sub PROVE active'[s] = Cardinality(Using(s)') /\ active'[s] \in Nat
    <2>1. IsFiniteSet(Using(s)) /\ active[s] = Cardinality(Using(s)) /\ active[s] \in Nat
      BY <1>1, MeshThreads, FS_Subset DEF ClientInv, Counted, Using
    <2>2. w \notin Using(s)'
      BY <1>3, NoneHeld DEF Using
    <2>3. CASE s \in Range(handlers[w])
      <3>1. Using(s)' = Using(s) \ {w} /\ w \in Using(s)
        BY <1>3, <2>2, <2>3 DEF Using
      <3>2. IsFiniteSet(Using(s)') /\ Cardinality(Using(s)') = Cardinality(Using(s)) - 1
        BY <2>1, <3>1, FS_RemoveElement
      <3>3. Cardinality(Using(s)') \in Nat
        BY <3>2, FS_CardinalityType
      <3> QED BY <1>2, <2>1, <2>3, <3>2, <3>3
    <2>4. CASE s \notin Range(handlers[w])
      <3>1. Using(s)' = Using(s)
        BY <1>3, <2>2, <2>4 DEF Using
      <3> QED BY <1>2, <2>1, <2>4, <3>1
    <2> QED BY <2>3, <2>4
  <1>5. ClientType'
    <2>1. active' \in [Sub -> Nat]
      BY <1>2, <1>4
    <2>2. handlers' \in [Worker -> Seq(Sub)] /\ wpc' \in [Worker -> WorkerPlaces]
      BY <1>1, <1>2 DEF ClientInv, ClientType, WorkerPlaces
    <2> QED BY <1>2, <2>1, <2>2 DEF ClientInv, ClientType
  <1>6. Counted'
    BY <1>4 DEF Counted
  <1>7. Unused'
    <2> SUFFICES ASSUME NEW v \in Worker, wpc'[v] # "handle" PROVE handlers'[v] = << >>
      BY DEF Unused
    <2>1. CASE v = w
      BY <1>3, <2>1
    <2>2. CASE v # w
      BY <1>2, <1>3, <2>2 DEF ClientInv, ClientType, Unused
    <2> QED BY <2>1, <2>2
  <1>8. HeldLive'
    <2> SUFFICES ASSUME NEW v \in Worker PROVE Range(handlers'[v]) \cap deleted' = {}
      BY DEF HeldLive
    <2>1. CASE v = w
      BY <1>3, <2>1, NoneHeld
    <2>2. CASE v # w
      BY <1>2, <1>3, <2>2 DEF ClientInv, HeldLive
    <2> QED BY <2>1, <2>2
  <1>9. Listed' /\ RequestsLive'
    BY <1>2 DEF ClientInv, Listed, RequestsLive
  <1> QED BY <1>5, <1>6, <1>7, <1>8, <1>9 DEF ClientInv

LEMMA WorkerKeeps ==
  ASSUME ClientInv, NEW w \in Worker, WorkerRun(w)
  PROVE  ClientInv'
  <1>1. CASE Poll(w) \/ Take(w) \/ Replace(w)
    <2>1. UNCHANGED <<subscribers, deleted, active, handlers, requests, op>>
      BY <1>1 DEF Poll, Take, Replace, clientVars
    <2>2. wpc[w] # "handle" /\ \E p \in WorkerPlaces : wpc' = [wpc EXCEPT ![w] = p]
      BY <1>1 DEF Poll, Take, Replace, WorkerPlaces
    <2>3. /\ wpc' \in [Worker -> WorkerPlaces]
          /\ \A v \in Worker : wpc'[v] # "handle" => wpc[v] # "handle"
      BY <2>2 DEF ClientInv, ClientType
    <2>4. RequestsLive' /\ requests' \subseteq Caller /\ op' \in [Caller -> Operation]
      BY <2>1 DEF ClientInv, ClientType, RequestsLive
    <2> QED BY <2>1, <2>3, <2>4, ListsKept
  <1> QED BY <1>1, LookKeeps, HandledKeeps DEF WorkerRun

LEMMA ClientStep ==
  ASSUME ClientInv, [MNext]_mvars
  PROVE  ClientInv'
  <1>1. CASE UNCHANGED mvars
    <2>1. UNCHANGED <<subscribers, deleted, active, handlers, requests, op, wpc>>
      BY <1>1 DEF mvars, clientVars, workerVars
    <2>2. /\ RequestsLive' /\ requests' \subseteq Caller /\ op' \in [Caller -> Operation]
          /\ wpc' \in [Worker -> WorkerPlaces]
      BY <2>1 DEF ClientInv, ClientType, RequestsLive
    <2> QED BY <2>1, <2>2, ListsKept
  <1> QED BY <1>1, CallerKeeps, RegisterKeeps, DispatchKeeps, WorkerKeeps DEF MNext

\* The invariant of the MultiClient: the marks of a Subscriber are the workers
\* that hold it, and neither list nor handler leads to a deleted one.
THEOREM ClientInvariant == MSpec => []ClientInv
  BY ClientInitial, ClientStep, PTL DEF MSpec

\* dispatch() deletes no Subscriber that another worker is about to call, and
\* request() leaves no pointer to its stack in the map: for any number of
\* users, workers, subscribers, messages and lost connections.
THEOREM PointersOutlive == MSpec => []PointersLive
  <1>1. ClientInv => PointersLive
    BY DEF ClientInv, HeldLive, RequestsLive, PointersLive
  <1> QED BY <1>1, ClientInvariant, PTL
=============================================================================
