------------------------ MODULE ConnectionPoolProofs ------------------------
(***************************************************************************)
(* Proofs about ConnectionPool, for any clients, connections and limits:   *)
(* a connection has one user and is never lost, a blocked claim() is       *)
(* answered once, the pool respects its maximum, and the background thread *)
(* its minimum.                                                            *)
(*                                                                         *)
(* The argument.  What a client holds is listed and not available, and     *)
(* everything that deletes or hands out a connection takes it from the     *)
(* available ones - except release(), which gives the client's own one to  *)
(* the front request.  That is safe because a queued request holds         *)
(* nothing, is queued once and leaves the queue as it is signalled         *)
(* (Waiting): the queue, not the blocked thread, says who may be served.   *)
(***************************************************************************)
EXTENDS ConnectionPool, FiniteSetTheorems, SequenceTheorems, TLAPS

Queued(s) == {s[i] : i \in DOMAIN s}
Once(s)   == \A i, j \in DOMAIN s : s[i] = s[j] => i = j

\* RequestsAnswered, with the queue as a set.
Waiting ==
  /\ Once(pending_requests)
  /\ \A c \in Client :
       /\ c \in Queued(pending_requests) <=> pc[c] = "blocked" /\ c \notin signalled
       /\ c \in Queued(pending_requests) => held[c] = NoConn
       /\ pc[c] = "using" => held[c] # NoConn
       /\ pc[c] \in {"idle", "gap"} => held[c] = NoConn
       /\ c \in signalled => pc[c] = "blocked"

IInv == TypeOK /\ ExclusiveUse /\ NoneLost /\ Waiting

-----------------------------------------------------------------------------
(* Queues of requests *)

\* Queueing a client that is not queued.
LEMMA Enqueued ==
  ASSUME NEW s \in Seq(Client), NEW c \in Client, Once(s), c \notin Queued(s)
  PROVE  /\ Append(s, c) \in Seq(Client)
         /\ Queued(Append(s, c)) = Queued(s) \cup {c}
         /\ Once(Append(s, c))
<1> DEFINE a == Append(s, c)
<1>1. /\ a \in Seq(Client)
      /\ Len(a) = Len(s) + 1
      /\ \A i \in 1..Len(s) : a[i] = s[i]
      /\ a[Len(s) + 1] = c
  BY AppendProperties
<1>2. Len(s) \in Nat /\ DOMAIN s = 1..Len(s) /\ DOMAIN a = 1..(Len(s) + 1)
  BY <1>1, LenProperties
<1> HIDE DEF a
<1>3. Queued(a) = Queued(s) \cup {c}
  <2>1. ASSUME NEW i \in DOMAIN a PROVE a[i] \in Queued(s) \cup {c}
    <3>1. i \in 1..Len(s) \/ i = Len(s) + 1
      BY <1>2
    <3> QED BY <3>1, <1>1, <1>2 DEF Queued
  <2>2. ASSUME NEW i \in DOMAIN s PROVE s[i] \in Queued(a)
    <3>1. i \in DOMAIN a /\ a[i] = s[i]
      BY <1>1, <1>2
    <3> QED BY <3>1 DEF Queued
  <2>3. c \in Queued(a)
    <3>1. Len(s) + 1 \in DOMAIN a
      BY <1>2
    <3> QED BY <3>1, <1>1 DEF Queued
  <2> QED BY <2>1, <2>2, <2>3 DEF Queued
<1>4. Once(a)
  <2> SUFFICES ASSUME NEW i \in DOMAIN a, NEW j \in DOMAIN a, a[i] = a[j]
               PROVE  i = j
    BY DEF Once
  <2>1. \A k \in DOMAIN s : s[k] # c
    BY DEF Queued
  <2>2. /\ i \in DOMAIN s \/ i = Len(s) + 1
        /\ j \in DOMAIN s \/ j = Len(s) + 1
    BY <1>2
  <2> QED BY <2>1, <2>2, <1>1, <1>2 DEF Once
<1> QED BY <1>1, <1>3, <1>4 DEF a

\* Taking the front request off.
LEMMA Dequeued ==
  ASSUME NEW s \in Seq(Client), s # << >>, Once(s)
  PROVE  /\ Head(s) \in Client
         /\ Head(s) \in Queued(s)
         /\ Tail(s) \in Seq(Client)
         /\ Queued(Tail(s)) = Queued(s) \ {Head(s)}
         /\ Once(Tail(s))
<1> DEFINE t == Tail(s)
<1>1. /\ Head(s) \in Client
      /\ t \in Seq(Client)
      /\ Len(t) = Len(s) - 1
      /\ \A i \in 1..Len(t) : t[i] = s[i + 1]
      /\ Head(s) = s[1]
  BY HeadTailProperties
<1>2. Len(s) \in Nat \ {0} /\ DOMAIN s = 1..Len(s) /\ DOMAIN t = 1..(Len(s) - 1)
  BY <1>1, LenProperties, EmptySeq
<1> HIDE DEF t
<1>3. ASSUME NEW i \in DOMAIN t PROVE i + 1 \in DOMAIN s /\ t[i] = s[i + 1]
  BY <1>1, <1>2
<1>4. Queued(t) = Queued(s) \ {Head(s)}
  <2>1. ASSUME NEW i \in DOMAIN t PROVE t[i] \in Queued(s) /\ t[i] # Head(s)
    <3>1. 1 \in DOMAIN s /\ i + 1 # 1
      BY <1>2
    <3> QED BY <3>1, <1>1, <1>3 DEF Queued, Once
  <2>2. ASSUME NEW i \in DOMAIN s, s[i] # Head(s) PROVE s[i] \in Queued(t)
    <3>1. i - 1 \in DOMAIN t /\ (i - 1) + 1 = i
      BY <1>1, <1>2, <2>2
    <3>2. t[i - 1] = s[i]
      BY <3>1, <1>3
    <3> QED BY <3>1, <3>2 DEF Queued
  <2> QED BY <2>1, <2>2 DEF Queued
<1>5. Once(t)
  <2> SUFFICES ASSUME NEW i \in DOMAIN t, NEW j \in DOMAIN t, t[i] = t[j]
               PROVE  i = j
    BY DEF Once
  <2>1. i + 1 = j + 1
    BY <1>3 DEF Once
  <2> QED BY <2>1, <1>2
<1>6. Head(s) \in Queued(s)
  <2>1. 1 \in DOMAIN s
    BY <1>2
  <2> QED BY <2>1, <1>1 DEF Queued
<1> QED BY <1>1, <1>4, <1>5, <1>6 DEF t

-----------------------------------------------------------------------------
(* The inductive invariant *)

LEMMA Initially == Init => IInv
<1> SUFFICES ASSUME Init PROVE IInv
  OBVIOUS
<1>1. TypeOK
  BY DEF Init, TypeOK, Refills
<1>2. ExclusiveUse /\ NoneLost
  BY DEF Init, ExclusiveUse, NoneLost
<1>3. Queued(pending_requests) = {} /\ Once(pending_requests)
  BY DEF Init, Queued, Once
<1>4. Waiting
  BY <1>3 DEF Init, Waiting
<1> QED BY <1>1, <1>2, <1>4 DEF IInv

\* A claim() that ends in its first section, or goes on to the second.
LEMMA ClaimKeeps ==
  ASSUME IInv, NEW c \in Client, claim(c)
  PROVE  IInv'
<1> USE DEF IInv
<1>1. pc[c] = "idle" /\ held[c] = NoConn /\ c \notin Queued(pending_requests)
  BY DEF claim, Waiting
<1>2. UNCHANGED <<pending_requests, signalled, overdue>>
  BY DEF claim
<1>3. CASE claim_available(c)
  <2>1. PICK failed \in SUBSET (available \cap broken), k \in available \ broken :
          /\ connections' = connections \ failed
          /\ available' = available \ (failed \cup {k})
          /\ broken' = broken \ failed
          /\ inactive' = inactive \ (failed \cup {k})
          /\ held' = [held EXCEPT ![c] = k]
          /\ pc' = [pc EXCEPT ![c] = "using"]
    BY <1>3 DEF claim_available, Give, Goto
  <2>2. k \in Conn /\ k \in connections /\ k # NoConn
    BY ConnAssumption DEF TypeOK, NoneLost
  <2>3. TypeOK'
    BY <2>1, <2>2, <1>2 DEF TypeOK
  <2>4. ExclusiveUse'
    BY <2>1, <2>2, <1>1 DEF TypeOK, ExclusiveUse
  <2>5. NoneLost'
    <3>1. ASSUME NEW d \in connections' \ available'
          PROVE  \E x \in Client : held'[x] = d
      <4>1. d \in connections \ available => \E x \in Client \ {c} : held[x] = d
        BY <1>1, ConnAssumption DEF TypeOK, NoneLost
      <4>2. d = k \/ d \in connections \ available
        BY <2>1
      <4> QED BY <4>1, <4>2, <2>1 DEF TypeOK
    <3> QED BY <3>1, <2>1 DEF NoneLost
  <2>6. Waiting'
    BY <2>1, <2>2, <1>1, <1>2 DEF TypeOK, Waiting
  <2> QED BY <2>3, <2>4, <2>5, <2>6
<1>4. CASE claim_new(c)
  <2>1. PICK k \in Conn \ Remaining :
          /\ connections' = Remaining \cup {k}
          /\ held' = [held EXCEPT ![c] = k]
    BY <1>4 DEF claim_new, Give
  <2>2. /\ available' = {}
        /\ broken' = broken \ available
        /\ inactive' = inactive \ available
        /\ pc' = [pc EXCEPT ![c] = "using"]
    BY <1>4 DEF claim_new, DropAvailable, Goto
  <2>3. k # NoConn /\ k \notin connections \ available
    BY ConnAssumption, <2>1 DEF Remaining
  <2>4. TypeOK'
    BY <2>1, <2>2, <1>2 DEF TypeOK, Remaining
  <2>5. ExclusiveUse'
    BY <2>1, <2>2, <2>3, <1>1 DEF TypeOK, ExclusiveUse, Remaining
  <2>6. NoneLost'
    <3>1. ASSUME NEW d \in connections' \ available'
          PROVE  \E x \in Client : held'[x] = d
      <4>1. d \in connections \ available => \E x \in Client \ {c} : held[x] = d
        BY <1>1, ConnAssumption DEF TypeOK, NoneLost
      <4>2. d = k \/ d \in connections \ available
        BY <2>1, <2>2 DEF Remaining
      <4> QED BY <4>1, <4>2, <2>1 DEF TypeOK
    <3> QED BY <3>1, <2>2 DEF NoneLost
  <2>7. Waiting'
    BY <2>1, <2>2, <2>3, <1>1, <1>2 DEF TypeOK, Waiting
  <2> QED BY <2>4, <2>5, <2>6, <2>7
<1>5. CASE claim_fails(c) \/ claim_full(c)
  <2>1. /\ connections' = connections \ available
        /\ available' = {}
        /\ broken' = broken \ available
        /\ inactive' = inactive \ available
        /\ held' = held
        /\ pc' = pc \/ pc' = [pc EXCEPT ![c] = "gap"]
    BY <1>5 DEF claim_fails, claim_full, DropAvailable, Remaining, Goto
  <2>2. TypeOK'
    BY <2>1, <1>2 DEF TypeOK
  <2>3. ExclusiveUse' /\ NoneLost'
    BY <2>1 DEF ExclusiveUse, NoneLost
  <2>4. Waiting'
    BY <2>1, <1>1, <1>2 DEF TypeOK, Waiting
  <2> QED BY <2>2, <2>3, <2>4
<1> QED BY <1>3, <1>4, <1>5 DEF claim

LEMMA QueueKeeps ==
  ASSUME IInv, NEW c \in Client, claim_queue(c)
  PROVE  IInv'
<1> USE DEF IInv
<1>1. /\ pc[c] = "gap"
      /\ pending_requests' = Append(pending_requests, c)
      /\ pc' = [pc EXCEPT ![c] = "blocked"]
      /\ UNCHANGED <<connections, available, broken, inactive, signalled, overdue, held>>
  BY DEF claim_queue, Goto
<1>2. /\ pending_requests \in Seq(Client) /\ Once(pending_requests)
      /\ c \notin Queued(pending_requests) /\ c \notin signalled /\ held[c] = NoConn
  BY <1>1 DEF TypeOK, Waiting
<1>3. /\ pending_requests' \in Seq(Client)
      /\ Queued(pending_requests') = Queued(pending_requests) \cup {c}
      /\ Once(pending_requests')
  BY <1>1, <1>2, Enqueued
<1>4. TypeOK'
  BY <1>1, <1>3 DEF TypeOK
<1>5. ExclusiveUse' /\ NoneLost'
  BY <1>1 DEF ExclusiveUse, NoneLost
<1>6. Waiting'
  BY <1>1, <1>2, <1>3 DEF TypeOK, Waiting
<1> QED BY <1>4, <1>5, <1>6

LEMMA ReturnKeeps ==
  ASSUME IInv, NEW c \in Client, claim_return(c)
  PROVE  IInv'
<1> USE DEF IInv
<1>1. /\ pc[c] = "blocked" /\ c \in signalled
      /\ signalled' = signalled \ {c}
      /\ overdue' = overdue \ {c}
      /\ pc' = [pc EXCEPT ![c] = IF held[c] = NoConn THEN "idle" ELSE "using"]
      /\ UNCHANGED <<connections, available, broken, inactive, pending_requests, held>>
  BY DEF claim_return, Goto
<1>2. TypeOK'
  BY <1>1 DEF TypeOK
<1>3. ExclusiveUse' /\ NoneLost'
  BY <1>1 DEF ExclusiveUse, NoneLost
<1>4. Waiting'
  BY <1>1 DEF TypeOK, Waiting
<1> QED BY <1>2, <1>3, <1>4

LEMMA ReleaseKeeps ==
  ASSUME IInv, NEW c \in Client, release(c)
  PROVE  IInv'
<1> USE DEF IInv
<1>1. /\ pc[c] = "using"
      /\ pc' = [pc EXCEPT ![c] = "idle"]
      /\ UNCHANGED <<connections, broken, inactive, overdue>>
  BY DEF release, Goto
<1>2. /\ held[c] # NoConn /\ held[c] \in Conn /\ held[c] \in connections \ available
      /\ c \notin Queued(pending_requests) /\ c \notin signalled
  BY <1>1 DEF TypeOK, Waiting, ExclusiveUse
<1>3. CASE pending_requests # << >>
  <2> DEFINE d == Head(pending_requests)
  <2>1. /\ held' = [held EXCEPT ![c] = NoConn, ![d] = held[c]]
        /\ signalled' = signalled \cup {d}
        /\ pending_requests' = Tail(pending_requests)
        /\ UNCHANGED available
    BY <1>3 DEF release
  <2>2. /\ d \in Client /\ d \in Queued(pending_requests)
        /\ pending_requests' \in Seq(Client)
        /\ Queued(pending_requests') = Queued(pending_requests) \ {d}
        /\ Once(pending_requests')
    BY <1>3, <2>1, Dequeued DEF TypeOK, Waiting
  <2> HIDE DEF d
  <2>3. pc[d] = "blocked" /\ d \notin signalled /\ held[d] = NoConn /\ d # c
    BY <2>2, <1>2 DEF Waiting
  <2>4. /\ held'[c] = NoConn /\ held'[d] = held[c]
        /\ \A x \in Client \ {c, d} : held'[x] = held[x]
    BY <2>1, <2>2, <2>3 DEF TypeOK
  <2>5. TypeOK'
    BY <1>1, <1>2, <2>1, <2>2 DEF TypeOK
  <2>6. ExclusiveUse'
    BY <1>1, <1>2, <2>1, <2>2, <2>3, <2>4 DEF ExclusiveUse
  <2>7. NoneLost'
    <3>1. ASSUME NEW k \in connections \ available
          PROVE  \E x \in Client : held'[x] = k
      <4>1. PICK x \in Client : held[x] = k
        BY DEF NoneLost
      <4> QED BY <4>1, <2>2, <2>3, <2>4, ConnAssumption DEF TypeOK
    <3> QED BY <3>1, <1>1, <2>1 DEF NoneLost
  <2>8. Waiting'
    BY <1>1, <1>2, <2>1, <2>2, <2>3, <2>4 DEF TypeOK, Waiting
  <2> QED BY <2>5, <2>6, <2>7, <2>8
<1>4. CASE pending_requests = << >>
  <2>1. /\ held' = [held EXCEPT ![c] = NoConn]
        /\ available' = available \cup {held[c]}
        /\ UNCHANGED <<signalled, pending_requests>>
    BY <1>4 DEF release, Give
  <2>2. TypeOK'
    BY <1>1, <1>2, <2>1 DEF TypeOK
  <2>3. ExclusiveUse'
    BY <1>1, <1>2, <2>1 DEF TypeOK, ExclusiveUse
  <2>4. NoneLost'
    <3>1. ASSUME NEW k \in connections' \ available'
          PROVE  \E x \in Client : held'[x] = k
      BY <1>1, <2>1 DEF TypeOK, NoneLost
    <3> QED BY <3>1, <1>1, <1>2, <2>1 DEF NoneLost
  <2>5. Waiting'
    BY <1>1, <1>2, <2>1 DEF TypeOK, Waiting
  <2> QED BY <2>2, <2>3, <2>4, <2>5
<1> QED BY <1>3, <1>4

\* run() deletes available connections only, and lists the new ones.
LEMMA RunKeeps ==
  ASSUME IInv, run
  PROVE  IInv'
<1> USE DEF IInv
<1> DEFINE failed == available \cap broken
           good   == connections \ failed
           idle   == available \ failed
<1>1. PICK reaped \in Reapable(good, idle) : \E new \in Refills(good \ reaped) :
        /\ connections' = (good \ reaped) \cup new
        /\ available' = (idle \ reaped) \cup new
        /\ broken' = broken \ failed
        /\ inactive' = ((inactive \cap idle) \ reaped) \ new
  BY DEF run
<1>2. PICK new \in Refills(good \ reaped) :
        /\ connections' = (good \ reaped) \cup new
        /\ available' = (idle \ reaped) \cup new
        /\ broken' = broken \ failed
        /\ inactive' = ((inactive \cap idle) \ reaped) \ new
  BY <1>1
<1>3. reaped \subseteq idle /\ new \subseteq Conn \ (good \ reaped)
  BY DEF Reapable, Refills
<1>4. UNCHANGED <<overdue, held, pc>> /\ TimeOutFront
  BY DEF run
<1>5. /\ ~ (pending_requests # << >> /\ Head(pending_requests) \in overdue)
           => UNCHANGED <<signalled, pending_requests>>
      /\ pending_requests # << >> /\ Head(pending_requests) \in overdue
           => /\ signalled' = signalled \cup {Head(pending_requests)}
              /\ pending_requests' = Tail(pending_requests)
  BY <1>4 DEF TimeOutFront
<1>6. connections' \ available' = connections \ available
  BY <1>2, <1>3 DEF NoneLost
<1>7. ExclusiveUse' /\ NoneLost'
  <2>1. available' \subseteq connections'
    BY <1>2, <1>3 DEF NoneLost
  <2> QED BY <1>4, <1>6, <2>1 DEF ExclusiveUse, NoneLost
<1>8. /\ connections' \subseteq Conn /\ available' \subseteq Conn
      /\ broken' \subseteq Conn /\ inactive' \subseteq Conn
  BY <1>2, <1>3 DEF TypeOK
<1>9. CASE ~ (pending_requests # << >> /\ Head(pending_requests) \in overdue)
  <2>1. UNCHANGED <<signalled, pending_requests>>
    BY <1>5, <1>9
  <2>2. TypeOK'
    BY <1>4, <1>8, <2>1 DEF TypeOK
  <2>3. Waiting'
    BY <1>4, <2>1 DEF Waiting
  <2> QED BY <1>7, <2>2, <2>3
<1>10. CASE pending_requests # << >> /\ Head(pending_requests) \in overdue
  <2> DEFINE d == Head(pending_requests)
  <2>1. signalled' = signalled \cup {d} /\ pending_requests' = Tail(pending_requests)
    BY <1>5, <1>10
  <2>2. /\ d \in Client /\ d \in Queued(pending_requests)
        /\ pending_requests' \in Seq(Client)
        /\ Queued(pending_requests') = Queued(pending_requests) \ {d}
        /\ Once(pending_requests')
    BY <1>10, <2>1, Dequeued DEF TypeOK, Waiting
  <2> HIDE DEF d
  <2>3. TypeOK'
    BY <1>4, <1>8, <2>1, <2>2 DEF TypeOK
  <2>4. Waiting'
    BY <1>4, <2>1, <2>2 DEF Waiting
  <2> QED BY <1>7, <2>3, <2>4
<1> QED BY <1>9, <1>10

LEMMA Stuttering ==
  ASSUME IInv, UNCHANGED vars
  PROVE  IInv'
<1>1. TypeOK' /\ ExclusiveUse' /\ NoneLost'
  BY DEF IInv, vars, TypeOK, ExclusiveUse, NoneLost
<1>2. Waiting'
  BY DEF IInv, vars, Waiting
<1> QED BY <1>1, <1>2 DEF IInv

\* The database and the clock only mark connections and requests.
LEMMA EnvironmentKeeps ==
  ASSUME IInv,
         (\E k \in Conn : Fails(k) \/ GrowsInactive(k))
           \/ \E c \in Client : GrowsOverdue(c)
  PROVE  IInv'
<1>1. /\ UNCHANGED <<connections, available, pending_requests, signalled, held, pc>>
      /\ broken' \subseteq Conn /\ inactive' \subseteq Conn /\ overdue' \subseteq Client
  BY DEF IInv, TypeOK, Fails, GrowsInactive, GrowsOverdue
<1>2. TypeOK' /\ ExclusiveUse' /\ NoneLost'
  BY <1>1 DEF IInv, TypeOK, ExclusiveUse, NoneLost
<1>3. Waiting'
  BY <1>1 DEF IInv, Waiting
<1> QED BY <1>2, <1>3 DEF IInv

LEMMA Inductive == IInv /\ [Next]_vars => IInv'
<1> SUFFICES ASSUME IInv, [Next]_vars PROVE IInv'
  OBVIOUS
<1>1. CASE \E c \in Client : claim(c)
  BY <1>1, ClaimKeeps
<1>2. CASE \E c \in Client : claim_queue(c)
  BY <1>2, QueueKeeps
<1>3. CASE \E c \in Client : claim_return(c)
  BY <1>3, ReturnKeeps
<1>4. CASE \E c \in Client : release(c)
  BY <1>4, ReleaseKeeps
<1>5. CASE (\E k \in Conn : Fails(k) \/ GrowsInactive(k))
             \/ \E c \in Client : GrowsOverdue(c)
  BY <1>5, EnvironmentKeeps
<1>6. CASE run
  BY <1>6, RunKeeps
<1>7. CASE UNCHANGED vars
  BY <1>7, Stuttering
<1> QED BY <1>1, <1>2, <1>3, <1>4, <1>5, <1>6, <1>7 DEF Next

\* The strengthened invariant holds in every state of the pool of pool.cc.
THEOREM InductiveInvariant == Spec => []IInv
  BY Initially, Inductive, PTL DEF Spec

\* The types of the pool's lists and requests.
THEOREM TypeCorrect == Spec => []TypeOK
<1>1. IInv => TypeOK
  BY DEF IInv
<1> QED BY <1>1, InductiveInvariant, PTL

\* A connection that claim() returned, or release() passed on, has one user
\* and is not deleted under it.
THEOREM OneUser == Spec => []ExclusiveUse
<1>1. IInv => ExclusiveUse
  BY DEF IInv
<1> QED BY <1>1, InductiveInvariant, PTL

\* No connection leaks: it is available or somebody's.
THEOREM Accounted == Spec => []NoneLost
<1>1. IInv => NoneLost
  BY DEF IInv
<1> QED BY <1>1, InductiveInvariant, PTL

\* A blocked claim() is answered exactly once, by release() or by the timeout.
THEOREM AnsweredOnce == Spec => []RequestsAnswered
<1>1. ASSUME IInv PROVE RequestsAnswered
  <2>1. /\ Once(pending_requests)
        /\ pending_requests \in Seq(Client)
        /\ \A i \in DOMAIN pending_requests : pending_requests[i] \in Client
    BY <1>1 DEF IInv, TypeOK, Waiting
  <2>2. ASSUME NEW i \in DOMAIN pending_requests
        PROVE  LET c == pending_requests[i] IN
               /\ pc[c] = "blocked" /\ c \notin signalled /\ held[c] = NoConn
               /\ \A j \in DOMAIN pending_requests : pending_requests[j] = c => i = j
    BY <1>1, <2>1 DEF IInv, Waiting, Queued, Once
  <2>3. ASSUME NEW c \in Client
        PROVE  /\ pc[c] = "blocked" /\ c \notin signalled
                    => \E i \in DOMAIN pending_requests : pending_requests[i] = c
               /\ pc[c] = "using" => held[c] # NoConn
               /\ pc[c] \in {"idle", "gap"} => held[c] = NoConn
               /\ c \in signalled => pc[c] = "blocked"
    BY <1>1 DEF IInv, Waiting, Queued
  <2> QED BY <2>2, <2>3 DEF RequestsAnswered
<1> QED BY <1>1, InductiveInvariant, PTL

-----------------------------------------------------------------------------
(* The size of the pool *)

LEMMA Sizes ==
  ASSUME NEW S \in SUBSET Conn, NEW T \in SUBSET S
  PROVE  /\ IsFiniteSet(S) /\ Cardinality(S) \in Nat
         /\ Cardinality(T) \in Nat /\ Cardinality(T) <= Cardinality(S)
<1>1. IsFiniteSet(S) /\ IsFiniteSet(T)
  BY FS_Subset, ConnAssumption
<1> QED BY <1>1, FS_Subset, FS_CardinalityType

\* fill_to_minimum() stops at the minimum.
LEMMA Refilled ==
  ASSUME NEW S \in SUBSET Conn, NEW new \in Refills(S)
  PROVE  /\ S \cup new \in SUBSET Conn
         /\ \/ new = {}
            \/ Cardinality(S \cup new) <= min_connections
<1>1. new \in SUBSET (Conn \ S) /\ S \cap new = {}
  BY DEF Refills
<1>2. /\ IsFiniteSet(S) /\ Cardinality(S) \in Nat
      /\ IsFiniteSet(new) /\ Cardinality(new) \in Nat
  BY <1>1, Sizes
<1>3. Cardinality(S \cup new) = Cardinality(S) + Cardinality(new) - Cardinality(S \cap new)
  BY <1>2, FS_Union
<1>4. Cardinality(S \cap new) = 0
  BY <1>1, FS_EmptySet
<1>5. new # {} => Cardinality(S) + Cardinality(new) <= min_connections
  BY DEF Refills
<1> QED BY <1>1, <1>2, <1>3, <1>4, <1>5

\* What run() does to the list of connections.
LEMMA RunSteps ==
  ASSUME TypeOK, run
  PROVE  LET good == connections \ (available \cap broken) IN
         \E reaped \in Reapable(good, available \ (available \cap broken)) :
           \E new \in Refills(good \ reaped) : connections' = (good \ reaped) \cup new
  BY DEF run

LEMMA Bounded == IInv /\ PoolBound /\ [Next]_vars => PoolBound'
<1> SUFFICES ASSUME IInv, PoolBound, [Next]_vars PROVE PoolBound'
  OBVIOUS
<1>1. connections \in SUBSET Conn /\ Cardinality(connections) <= max_connections
  BY DEF IInv, TypeOK, PoolBound
<1>2. ASSUME connections' \subseteq connections PROVE PoolBound'
  BY <1>1, <1>2, Sizes, SizeAssumption DEF PoolBound
<1>3. ASSUME NEW c \in Client, claim_new(c) PROVE PoolBound'
  <2>1. PICK k \in Conn \ Remaining : connections' = Remaining \cup {k}
    BY <1>3 DEF claim_new
  <2>2. Remaining \in SUBSET Conn
    BY <1>1 DEF Remaining
  <2>3. IsFiniteSet(Remaining) /\ Cardinality(Remaining) \in Nat
    BY <2>2, Sizes
  <2>4. Cardinality(connections') = Cardinality(Remaining) + 1
    BY <2>1, <2>3, FS_AddElement
  <2>5. Cardinality(Remaining) < max_connections
    BY <1>3 DEF claim_new
  <2> QED BY <2>3, <2>4, <2>5, SizeAssumption DEF PoolBound
<1>4. CASE run
  <2> DEFINE good == connections \ (available \cap broken)
  <2>1. PICK reaped : \E new \in Refills(good \ reaped) :
          connections' = (good \ reaped) \cup new
    BY <1>4, RunSteps DEF IInv
  <2>2. PICK new \in Refills(good \ reaped) : connections' = (good \ reaped) \cup new
    BY <2>1
  <2>3. good \ reaped \in SUBSET Conn
    BY <1>1
  <2>4. new = {} \/ Cardinality(connections') <= min_connections
    BY <2>2, <2>3, Refilled
  <2>5. CASE new = {}
    BY <1>2, <2>2, <2>5
  <2>6. CASE Cardinality(connections') <= min_connections
    <3>1. connections' \in SUBSET Conn
      BY <2>2, <2>3, Refilled
    <3>2. Cardinality(connections') \in Nat
      BY <3>1, Sizes
    <3> QED BY <2>6, <3>2, SizeAssumption DEF PoolBound
  <2> QED BY <2>4, <2>5, <2>6
<1>5. CASE \E c \in Client : claim(c)
  <2>1. PICK c \in Client : claim(c)
    BY <1>5
  <2>2. CASE claim_available(c) \/ claim_fails(c) \/ claim_full(c)
    <3>1. connections' \subseteq connections
      BY <2>2 DEF claim_available, claim_fails, claim_full, Remaining
    <3> QED BY <3>1, <1>2
  <2> QED BY <2>1, <2>2, <1>3 DEF claim
<1>6. CASE UNCHANGED connections
  BY <1>2, <1>6
<1>7. run \/ (\E c \in Client : claim(c)) \/ UNCHANGED connections
  BY DEF Next, vars, claim_queue, claim_return, release, GrowsOverdue, Fails,
         GrowsInactive
<1> QED BY <1>4, <1>5, <1>6, <1>7

\* There are never more than max_connections connections.
THEOREM Maximum == Spec => []PoolBound
<1>1. Init => PoolBound
  <2> SUFFICES ASSUME Init PROVE PoolBound
    OBVIOUS
  <2>1. PICK new \in Refills({}) : connections = new
    BY DEF Init
  <2>2. {} \cup new \in SUBSET Conn /\ (new = {} \/ Cardinality({} \cup new) <= min_connections)
    BY <2>1, Refilled
  <2>3. connections \in SUBSET Conn
        /\ (Cardinality(connections) = 0 \/ Cardinality(connections) <= min_connections)
    <3>1. {} \cup new = new
      OBVIOUS
    <3> QED BY <3>1, <2>1, <2>2, FS_EmptySet
  <2>4. Cardinality(connections) \in Nat
    BY <2>3, Sizes
  <2> QED BY <2>3, <2>4, SizeAssumption DEF PoolBound
<1> QED BY <1>1, Bounded, InductiveInvariant, PTL DEF Spec

LEMMA MinimumKept ==
  ASSUME IInv, Next, broken = {}, Cardinality(connections) >= min_connections
  PROVE  Cardinality(connections') >= min_connections
<1>1. connections \in SUBSET Conn
  BY DEF IInv, TypeOK
<1>2. Cardinality(connections) \in Nat
  BY <1>1, Sizes
<1>3. ASSUME connections \subseteq connections', connections' \in SUBSET Conn
      PROVE  Cardinality(connections') >= min_connections
  <2>1. /\ Cardinality(connections') \in Nat
        /\ Cardinality(connections) <= Cardinality(connections')
    BY <1>3, Sizes
  <2> QED BY <1>2, <2>1, SizeAssumption
<1>4. CASE run
  <2> DEFINE idle == available \ (available \cap broken)
  <2>1. connections \ (available \cap broken) = connections
    OBVIOUS
  <2>2. PICK reaped \in Reapable(connections, idle) :
          \E new \in Refills(connections \ reaped) :
            connections' = (connections \ reaped) \cup new
    BY <1>4, <2>1, RunSteps DEF IInv
  <2>3. PICK new \in Refills(connections \ reaped) :
          connections' = (connections \ reaped) \cup new
    BY <2>2
  <2>4. connections' \in SUBSET Conn /\ connections \ reaped \in SUBSET connections'
    BY <1>1, <2>3, Refilled
  <2>5. /\ Cardinality(connections') \in Nat
        /\ Cardinality(connections \ reaped) \in Nat
        /\ Cardinality(connections \ reaped) <= Cardinality(connections')
    BY <2>4, Sizes
  <2>6. \/ Cardinality(connections \ reaped) >= min_connections
        \/ reaped = {}
    <3>1. \/ Cardinality(connections \ reaped) >= min_connections
          \/ Cardinality(connections \ reaped) = min_connections
          \/ reaped = {}
      BY <2>2 DEF Reapable
    <3> QED BY <3>1, SizeAssumption
  <2>7. CASE reaped = {}
    BY <1>3, <2>4, <2>7
  <2>8. CASE Cardinality(connections \ reaped) >= min_connections
    BY <2>5, <2>8, SizeAssumption
  <2> QED BY <2>6, <2>7, <2>8
<1>5. CASE \E c \in Client : claim(c)
  <2>1. PICK c \in Client : claim(c)
    BY <1>5
  <2>2. CASE claim_available(c)
    BY <1>1, <1>3, <2>2 DEF claim_available
  <2>3. CASE claim_new(c) \/ claim_fails(c) \/ claim_full(c)
    <3>1. available = {}
      BY <2>3 DEF claim_new, claim_fails, claim_full, NoneAvailable
    <3>2. Remaining = connections
      BY <3>1 DEF Remaining
    <3>3. connections \subseteq connections' /\ connections' \in SUBSET Conn
      BY <1>1, <2>3, <3>2 DEF claim_new, claim_fails, claim_full
    <3> QED BY <1>3, <3>3
  <2> QED BY <2>1, <2>2, <2>3 DEF claim
<1>6. CASE UNCHANGED connections
  BY <1>1, <1>3, <1>6
<1>7. run \/ (\E c \in Client : claim(c)) \/ UNCHANGED connections
  BY DEF Next, claim_queue, claim_return, release, GrowsOverdue, Fails, GrowsInactive
<1> QED BY <1>4, <1>5, <1>6, <1>7

\* While the database drops no connection, no step takes the pool below
\* min_connections: reaping in run() stops there.
THEOREM Minimum == Spec => KeepsMinimum
<1>1. IInv /\ [Next]_vars =>
        [broken = {} /\ Cardinality(connections) >= min_connections
           => Cardinality(connections') >= min_connections]_vars
  BY MinimumKept
<1> QED BY <1>1, InductiveInvariant, PTL DEF Spec, KeepsMinimum
=============================================================================
