----------------------------- MODULE TubeProofs -----------------------------
(***************************************************************************)
(* Proofs about Tube::Server, for any connections, senders and addresses:  *)
(* nobody is left with a pointer to a ClientSession that is gone.          *)
(*                                                                         *)
(* An entry of the map points to a session with that address (Entries), so *)
(* the session's own removal is enough to get rid of it, whatever other    *)
(* sessions have had the address.  A thread that polls has the read lock   *)
(* (Polls), and the removal needs the write lock.  The send thread starts  *)
(* after the session exists and has ended before it goes (Senders).        *)
(*                                                                         *)
(* And about Tube::Client, for any bounds on traffic and trouble: one      *)
(* message of a new connection at most overtakes the flag of the restart.  *)
(* Every restart flagged has been seen by wait() or has its flag in the    *)
(* queue (Announced).  A socket is at most one ahead of the flags, under   *)
(* the mutex (Restarts, Epochs), and the receive thread can have loaded it *)
(* by then only if the send thread opened it; when a message of it is in   *)
(* the queue, the receive thread waits for the mutex (Posted).             *)
(***************************************************************************)
EXTENDS TubeServer, TubeClient, FiniteSetTheorems, SequenceTheorems, TLAPS

Entries == \A e \in EndPoint : sessions[e] # None => address[sessions[e]] = e

Addressed == \A c \in Conn : worker[c] # "none" => address[c] \in EndPoint

Senders == \A c \in Conn :
  /\ worker[c] \in {"none", "add"} => sender[c] = "off"
  /\ worker[c] \in {"remove", "gone"} => ~Running(c)

Polls == \A t \in Thread :
  /\ held[t] = IF call[t] = "poll" THEN <<"R">> ELSE << >>
  /\ call[t] = "poll" => cs[t] \in Conn
  /\ call[t] = "find" => target[t] \in EndPoint

ServerInv == TypeOK /\ SessionsLive /\ Entries /\ Addressed /\ Senders /\ Polls

-----------------------------------------------------------------------------
Standing == Handling \cup {"read", "reap", "remove"}

\* SessionsLive, said of the next state: no session goes, no thread begins to
\* poll and no entry is made.
LEMMA LiveKept ==
  ASSUME ServerInv, UNCHANGED <<sessions, call, cs>>,
         \A d \in Conn : worker[d] \in Standing => worker'[d] \in Standing,
         \A d \in Conn : Running(d)' => Running(d)
  PROVE  SessionsLive'
  <1>1. /\ \A e \in EndPoint : sessions[e] \in Conn \cup {None}
        /\ \A t \in Thread : call[t] = "poll" => cs[t] \in Conn
    BY DEF ServerInv, TypeOK, Polls
  <1>2. \A d \in Conn : Running(d)' => worker'[d] \in Standing
    BY DEF ServerInv, SessionsLive, Exists, Standing
  <1> QED BY <1>1, <1>2 DEF ServerInv, SessionsLive, Exists, Standing

LEMMA OneHold ==
  /\ <<"R">> # << >>
  /\ SubSeq(<<"R">>, 1, Len(<<"R">>) - 1) = << >>
  /\ Append(<< >>, "R") = <<"R">>
  OBVIOUS

LEMMA InitialState ==
  ASSUME Init
  PROVE  ServerInv
  <1>1. TypeOK
    BY ThreadAssumption DEF Init, TypeOK, Lock!Init, Handling
  <1>2. Entries /\ Addressed /\ Senders
    BY DEF Init, Entries, Addressed, Senders, Running
  <1>3. SessionsLive /\ Polls
    BY DEF Init, SessionsLive, Polls, Running, Lock!Init
  <1> QED BY <1>1, <1>2, <1>3 DEF ServerInv

\* Steps that touch neither the map nor a call of send().
LEMMA WorkerGoesOn ==
  ASSUME ServerInv, NEW c \in Conn, Read(c) \/ ReadEnds(c) \/ Reaped(c)
                                    \/ \E result \in BOOLEAN : HandlerReturns(c, result)
  PROVE  ServerInv'
  <1>1. /\ UNCHANGED <<alive, address, up, sender, salive, queue, sessions, held,
                       call, target, cs, sends>>
        /\ reads' \in Nat
        /\ worker[c] \in Handling \cup {"read", "reap"}
        /\ \E l \in Handling \cup {"read", "reap", "remove"} :
             worker' = [worker EXCEPT ![c] = l] /\ (l = "remove" => ~Running(c))
    <2>1. CASE Read(c)
      <3>1. reads' \in Nat
        BY <2>1 DEF Read, ServerInv, TypeOK
      <3> DEFINE l == IF alive THEN "handle" ELSE "finished"
      <3>2. worker' = [worker EXCEPT ![c] = l] /\ l \in Handling /\ l # "remove"
        BY <2>1 DEF Read, Goto, Handling
      <3> QED BY <2>1, <3>1, <3>2 DEF Read, sessionVars, callVars
    <2>2. CASE ReadEnds(c)
      BY <2>2 DEF ReadEnds, Goto, sessionVars, callVars, Handling, ServerInv, TypeOK
    <2>3. CASE Reaped(c)
      BY <2>3 DEF Reaped, Goto, sessionVars, callVars, ServerInv, TypeOK
    <2>4. ASSUME NEW result \in BOOLEAN, HandlerReturns(c, result)
          PROVE  /\ UNCHANGED <<alive, address, up, sender, salive, queue, sessions, held,
                                call, target, cs, sends, reads>>
                 /\ worker[c] \in Handling
                 /\ \E l \in Handling \cup {"read", "reap", "remove"} :
                      worker' = [worker EXCEPT ![c] = l] /\ (l = "remove" => ~Running(c))
      BY <2>4, ZenonT(30) DEF HandlerReturns, Goto, Loop, sessionVars, callVars, Handling
    <2>5. reads \in Nat
      BY DEF ServerInv, TypeOK
    <2> QED BY <2>1, <2>2, <2>3, <2>4, <2>5
  <1>2. PICK l \in Handling \cup {"read", "reap", "remove"} :
          worker' = [worker EXCEPT ![c] = l] /\ (l = "remove" => ~Running(c))
    BY <1>1
  <1>3. worker'[c] = l /\ \A d \in Conn \ {c} : worker'[d] = worker[d]
    BY <1>2 DEF ServerInv, TypeOK
  <1>4. TypeOK'
    BY <1>1, <1>2 DEF ServerInv, TypeOK
  <1>5. \A d \in Conn : Running(d)' <=> Running(d)
    BY <1>1 DEF Running
  <1>6. SessionsLive'
    <2>1. \A d \in Conn : worker[d] \in Standing => worker'[d] \in Standing
      BY <1>2, <1>3 DEF Standing
    <2> QED BY <1>1, <1>5, <2>1, LiveKept
  <1>7. Entries' /\ Polls'
    BY <1>1 DEF ServerInv, Entries, Polls
  <1>8. Addressed'
    BY <1>1, <1>3 DEF ServerInv, Addressed, Handling
  <1>9. Senders'
    BY <1>1, <1>2, <1>3, <1>5 DEF ServerInv, Senders, Handling
  <1> QED BY <1>4, <1>6, <1>7, <1>8, <1>9 DEF ServerInv

LEMMA AcceptKeeps ==
  ASSUME ServerInv, NEW c \in Conn, NEW e \in EndPoint, Accept(c, e)
  PROVE  ServerInv'
  <1>1. /\ worker[c] = "none" /\ worker' = [worker EXCEPT ![c] = "add"]
        /\ address' = [address EXCEPT ![c] = e] /\ up' = [up EXCEPT ![c] = TRUE]
        /\ UNCHANGED <<alive, sender, salive, queue, sessions, held, call, target, cs, sends, reads>>
    BY DEF Accept, Goto, callVars
  <1>2. /\ worker'[c] = "add" /\ \A d \in Conn \ {c} : worker'[d] = worker[d]
        /\ address'[c] = e /\ \A d \in Conn \ {c} : address'[d] = address[d]
    BY <1>1 DEF ServerInv, TypeOK
  <1>3. TypeOK'
    BY <1>1 DEF ServerInv, TypeOK
  <1>4. SessionsLive'
    <2>1. \A d \in Conn : worker[d] \in Standing => worker'[d] \in Standing
      BY <1>1, <1>2 DEF Standing, Handling
    <2> QED BY <1>1, <2>1, LiveKept DEF Running
  <1>5. Entries'
    <2>1. \A f \in EndPoint : sessions[f] # None => sessions[f] \in Conn \ {c}
      BY <1>1 DEF ServerInv, TypeOK, SessionsLive, Exists, Handling
    <2> QED BY <1>1, <1>2, <2>1 DEF ServerInv, Entries
  <1>6. Addressed' /\ Senders'
    BY <1>1, <1>2 DEF ServerInv, Addressed, Senders, Running
  <1>7. Polls'
    BY <1>1 DEF ServerInv, Polls
  <1> QED BY <1>3, <1>4, <1>5, <1>6, <1>7 DEF ServerInv

LEMMA AddSessionKeeps ==
  ASSUME ServerInv, NEW c \in Conn, AddSession(c)
  PROVE  ServerInv'
  <1>1. /\ worker[c] = "add" /\ worker' = [worker EXCEPT ![c] = "started"]
        /\ sessions' = [sessions EXCEPT ![address[c]] = c]
        /\ salive' = [salive EXCEPT ![c] = TRUE] /\ sender' = [sender EXCEPT ![c] = "top"]
        /\ UNCHANGED <<alive, address, up, queue, held, call, target, cs, sends, reads>>
    BY DEF AddSession, Goto, callVars
  <1>2. /\ worker'[c] = "started" /\ \A d \in Conn \ {c} : worker'[d] = worker[d]
        /\ \A d \in Conn \ {c} : sender'[d] = sender[d]
    BY <1>1 DEF ServerInv, TypeOK
  <1>3. address[c] \in EndPoint
    BY <1>1 DEF ServerInv, Addressed
  <1>4. \A e \in EndPoint : sessions'[e] = IF e = address[c] THEN c ELSE sessions[e]
    BY <1>1, <1>3 DEF ServerInv, TypeOK
  <1>5. TypeOK'
    BY <1>1, <1>3 DEF ServerInv, TypeOK, Handling
  <1>6. \A d \in Conn : worker[d] \in Standing => worker'[d] \in Standing
    BY <1>2 DEF Standing, Handling
  <1>7. SessionsLive'
    <2>1. /\ \A e \in EndPoint : sessions[e] \in Conn \cup {None}
          /\ \A t \in Thread : call[t] = "poll" => cs[t] \in Conn
      BY DEF ServerInv, TypeOK, Polls
    <2>2. worker'[c] \in Standing
      BY <1>2 DEF Standing, Handling
    <2>3. \A e \in EndPoint : sessions'[e] # None => worker'[sessions'[e]] \in Standing
      BY <1>4, <1>6, <2>1, <2>2 DEF ServerInv, SessionsLive, Exists, Standing
    <2>4. \A t \in Thread : call'[t] = "poll" => worker'[cs'[t]] \in Standing
      BY <1>1, <1>6, <2>1 DEF ServerInv, SessionsLive, Exists, Standing
    <2>5. \A d \in Conn : Running(d)' => worker'[d] \in Standing
      BY <1>2, <1>6, <2>2 DEF ServerInv, SessionsLive, Exists, Standing, Running
    <2> QED BY <2>3, <2>4, <2>5 DEF SessionsLive, Exists, Standing
  <1>8. Entries'
    BY <1>1, <1>4 DEF ServerInv, Entries
  <1>9. Addressed' /\ Senders'
    BY <1>1, <1>2, <1>3 DEF ServerInv, Addressed, Senders, Running
  <1>10. Polls'
    BY <1>1 DEF ServerInv, Polls
  <1> QED BY <1>5, <1>7, <1>8, <1>9, <1>10 DEF ServerInv

\* The write lock keeps the removal away from those that poll, and the entry
\* that could point to the session is the one that is erased.
LEMMA RemoveSessionKeeps ==
  ASSUME ServerInv, NEW c \in Conn, RemoveSession(c)
  PROVE  ServerInv'
  <1>1. /\ worker[c] = "remove" /\ worker' = [worker EXCEPT ![c] = "gone"]
        /\ sessions' = [sessions EXCEPT ![address[c]] = None]
        /\ up' = [up EXCEPT ![c] = FALSE] /\ queue' = [queue EXCEPT ![c] = 0]
        /\ UNCHANGED <<alive, address, sender, salive, held, call, target, cs, sends, reads>>
    BY DEF RemoveSession, Goto, callVars
  <1>2. worker'[c] = "gone" /\ \A d \in Conn \ {c} : worker'[d] = worker[d]
    BY <1>1 DEF ServerInv, TypeOK
  <1>3. address[c] \in EndPoint
    BY <1>1 DEF ServerInv, Addressed
  <1>4. \A e \in EndPoint : sessions'[e] = IF e = address[c] THEN None ELSE sessions[e]
    BY <1>1, <1>3 DEF ServerInv, TypeOK
  <1>5. \A t \in Thread : call[t] # "poll"
    BY OneHold DEF RemoveSession, NoHolds, Lock!HoldsNothing, ServerInv, Polls
  <1>6. TypeOK'
    BY <1>1, <1>3 DEF ServerInv, TypeOK
  <1>7. SessionsLive'
    <2>1. \A e \in EndPoint : sessions'[e] # None => sessions'[e] \in Conn \ {c}
      BY <1>4 DEF ServerInv, TypeOK, Entries
    <2>2. \A e \in EndPoint : sessions'[e] # None => worker'[sessions'[e]] \in Standing
      BY <1>2, <1>4, <2>1 DEF ServerInv, SessionsLive, Exists, Standing
    <2>3. \A d \in Conn : Running(d)' => worker'[d] \in Standing
      BY <1>1, <1>2 DEF ServerInv, SessionsLive, Senders, Exists, Standing, Running
    <2> QED BY <1>1, <1>5, <2>2, <2>3 DEF SessionsLive, Exists, Standing
  <1>8. Entries'
    BY <1>1, <1>4 DEF ServerInv, Entries
  <1>9. Addressed' /\ Senders'
    BY <1>1, <1>2, <1>3 DEF ServerInv, Addressed, Senders, Running
  <1>10. Polls'
    BY <1>1 DEF ServerInv, Polls
  <1> QED BY <1>6, <1>7, <1>8, <1>9, <1>10 DEF ServerInv

\* The send thread, and what ends a connection.
LEMMA SenderKeeps ==
  ASSUME ServerInv, NEW c \in Conn,
         SendThreadRun(c) \/ StopSender(c) \/ PeerGoes(c) \/ Die(c)
  PROVE  ServerInv'
  <1>1. /\ UNCHANGED <<alive, worker, address, sessions, held, call, target, cs, sends, reads>>
        /\ up' \in [Conn -> BOOLEAN] /\ salive' \in [Conn -> BOOLEAN]
        /\ \/ sender' = sender
           \/ Running(c) /\ \E l \in {"top", "wait", "write", "dead"} : sender' = [sender EXCEPT ![c] = l]
    <2>1. CASE SendThreadRun(c)
      BY <2>1 DEF SendThreadRun, SenderTop, SenderTakes, SenderWrites, SenderFails, SendThread,
                  Running, callVars, ServerInv, TypeOK
    <2>2. CASE StopSender(c)
      BY <2>2 DEF StopSender, callVars, ServerInv, TypeOK
    <2>3. CASE PeerGoes(c) \/ Die(c)
      BY <2>3 DEF PeerGoes, Die, callVars, ServerInv, TypeOK
    <2> QED BY <2>1, <2>2, <2>3
  <1>2. queue' \in [Conn -> Nat]
    <2>1. CASE SenderTakes(c)
      BY <2>1 DEF SenderTakes, ServerInv, TypeOK
    <2>2. CASE StopSender(c)
      BY <2>2 DEF StopSender, ServerInv, TypeOK
    <2>3. CASE ~SenderTakes(c) /\ ~StopSender(c)
      BY <2>3 DEF SendThreadRun, SenderTop, SenderWrites, SenderFails, PeerGoes, Die, ServerInv, TypeOK
    <2> QED BY <2>1, <2>2, <2>3
  <1>3. /\ sender' \in [Conn -> {"off", "top", "wait", "write", "dead"}]
        /\ \A d \in Conn : sender'[d] = sender[d] \/ Running(d)
    BY <1>1 DEF ServerInv, TypeOK
  <1>4. TypeOK'
    BY <1>1, <1>2, <1>3 DEF ServerInv, TypeOK
  <1>5. \A d \in Conn : Running(d)' => Running(d)
    BY <1>3 DEF Running
  <1>6. SessionsLive'
    BY <1>1, <1>5, LiveKept
  <1>7. Senders'
    BY <1>1, <1>3, <1>5 DEF ServerInv, Senders, Running
  <1>8. Entries' /\ Addressed' /\ Polls'
    BY <1>1 DEF ServerInv, Entries, Addressed, Polls
  <1> QED BY <1>4, <1>6, <1>7, <1>8 DEF ServerInv

-----------------------------------------------------------------------------
(* Server::send() *)

LEMMA CallKeeps ==
  ASSUME ServerInv, NEW t \in Thread, NEW e \in EndPoint, Call(t, e)
  PROVE  ServerInv'
  <1>1. /\ call[t] = "out" /\ call' = [call EXCEPT ![t] = "find"]
        /\ target' = [target EXCEPT ![t] = e] /\ sends' = sends + 1
        /\ UNCHANGED <<alive, worker, address, up, sender, salive, queue, sessions, held, cs, reads>>
    BY DEF Call, sessionVars
  <1>2. /\ call'[t] = "find" /\ \A u \in Thread \ {t} : call'[u] = call[u]
        /\ target'[t] = e /\ \A u \in Thread \ {t} : target'[u] = target[u]
    BY <1>1 DEF ServerInv, TypeOK
  <1>3. TypeOK'
    BY <1>1 DEF ServerInv, TypeOK
  <1>4. SessionsLive'
    BY <1>1, <1>2 DEF ServerInv, SessionsLive, Exists, Running
  <1>5. Entries' /\ Addressed' /\ Senders'
    BY <1>1 DEF ServerInv, Entries, Addressed, Senders, Running
  <1>6. Polls'
    BY <1>1, <1>2 DEF ServerInv, Polls
  <1> QED BY <1>3, <1>4, <1>5, <1>6 DEF ServerInv

LEMMA FindKeeps ==
  ASSUME ServerInv, NEW t \in Thread, Find(t)
  PROVE  ServerInv'
  <1>1. /\ call[t] = "find" /\ sessions[target[t]] # None
        /\ cs' = [cs EXCEPT ![t] = sessions[target[t]]]
        /\ call' = [call EXCEPT ![t] = "poll"]
        /\ UNCHANGED <<alive, worker, address, up, sender, salive, queue, sessions, target, sends, reads>>
    BY DEF Find, sessionVars
  <1>2. target[t] \in EndPoint /\ sessions[target[t]] \in Conn
    BY <1>1 DEF ServerInv, Polls, TypeOK
  <1>3. /\ call'[t] = "poll" /\ \A u \in Thread \ {t} : call'[u] = call[u]
        /\ cs'[t] = sessions[target[t]] /\ \A u \in Thread \ {t} : cs'[u] = cs[u]
    BY <1>1 DEF ServerInv, TypeOK
  <1>4. held' = [held EXCEPT ![t] = <<"R">>]
    <2>1. held[t] = << >>
      BY <1>1 DEF ServerInv, Polls
    <2> QED BY <2>1, OneHold DEF Find, Lock!AcquireRead, Lock!Entered
  <1>5. TypeOK'
    <2>1. held' \in [Thread -> {<< >>, <<"R">>}]
      BY <1>4 DEF ServerInv, TypeOK
    <2> QED BY <1>1, <1>2, <2>1 DEF ServerInv, TypeOK
  <1>6. SessionsLive'
    <2>1. \A e \in EndPoint : sessions'[e] # None => worker'[sessions'[e]] \in Standing
      BY <1>1 DEF ServerInv, SessionsLive, Exists, Standing
    <2>2. \A u \in Thread : call'[u] = "poll" => worker'[cs'[u]] \in Standing
      BY <1>1, <1>2, <1>3, <2>1 DEF ServerInv, SessionsLive, Exists, Standing
    <2>3. \A d \in Conn : Running(d)' => worker'[d] \in Standing
      BY <1>1 DEF ServerInv, SessionsLive, Exists, Standing, Running
    <2> QED BY <2>1, <2>2, <2>3 DEF SessionsLive, Exists, Standing
  <1>7. Entries' /\ Addressed' /\ Senders'
    BY <1>1 DEF ServerInv, Entries, Addressed, Senders, Running
  <1>8. Polls'
    <2>1. held'[t] = <<"R">> /\ \A u \in Thread \ {t} : held'[u] = held[u]
      BY <1>4 DEF ServerInv, TypeOK
    <2> QED BY <1>1, <1>2, <1>3, <2>1 DEF ServerInv, Polls
  <1> QED BY <1>5, <1>6, <1>7, <1>8 DEF ServerInv

LEMMA SendReturnsKeeps ==
  ASSUME ServerInv, NEW t \in Thread, NoSession(t) \/ Queue(t)
  PROVE  ServerInv'
  <1>1. /\ call' = [call EXCEPT ![t] = "out"] /\ target' = [target EXCEPT ![t] = None]
        /\ cs' = [cs EXCEPT ![t] = None]
        /\ UNCHANGED <<alive, worker, address, up, sender, salive, sessions, sends, reads>>
    BY DEF NoSession, Queue, Leave, sessionVars
  <1>2. /\ call'[t] = "out" /\ \A u \in Thread \ {t} : call'[u] = call[u] /\ cs'[u] = cs[u]
        /\ \A u \in Thread \ {t} : target'[u] = target[u]
    BY <1>1 DEF ServerInv, TypeOK
  <1>3. queue' \in [Conn -> Nat]
    <2>1. CASE NoSession(t)
      BY <2>1 DEF NoSession, sessionVars, ServerInv, TypeOK
    <2>2. CASE Queue(t)
      BY <2>2 DEF Queue, ServerInv, TypeOK, Polls
    <2> QED BY <2>1, <2>2
  <1>4. held' = [held EXCEPT ![t] = << >>]
    <2>1. CASE NoSession(t)
      <3>1. held' = held /\ held[t] = << >>
        BY <2>1 DEF NoSession, ServerInv, Polls
      <3> QED BY <3>1 DEF ServerInv, TypeOK
    <2>2. CASE Queue(t)
      <3>1. held[t] = <<"R">>
        BY <2>2 DEF Queue, ServerInv, Polls
      <3> QED BY <2>2, <3>1, OneHold DEF Queue, Lock!Release, Lock!Left
    <2> QED BY <2>1, <2>2
  <1>5. TypeOK'
    <2>1. held' \in [Thread -> {<< >>, <<"R">>}]
      BY <1>4 DEF ServerInv, TypeOK
    <2> QED BY <1>1, <1>3, <2>1 DEF ServerInv, TypeOK
  <1>6. SessionsLive'
    BY <1>1, <1>2 DEF ServerInv, SessionsLive, Exists, Running
  <1>7. Entries' /\ Addressed' /\ Senders'
    BY <1>1 DEF ServerInv, Entries, Addressed, Senders, Running
  <1>8. Polls'
    <2>1. held'[t] = << >> /\ \A u \in Thread \ {t} : held'[u] = held[u]
      BY <1>4 DEF ServerInv, TypeOK
    <2> QED BY <1>2, <2>1 DEF ServerInv, Polls
  <1> QED BY <1>5, <1>6, <1>7, <1>8 DEF ServerInv

-----------------------------------------------------------------------------
\* The inductive invariant of the tube server.
THEOREM InductiveInvariant == Spec => []ServerInv
  <1>1. ServerInv /\ [Next]_vars => ServerInv'
    <2> SUFFICES ASSUME ServerInv, [Next]_vars PROVE ServerInv'
      OBVIOUS
    <2>1. CASE UNCHANGED vars
      BY <2>1 DEF ServerInv, TypeOK, SessionsLive, Entries, Addressed, Senders, Polls, Exists,
                  Running, vars, sessionVars, callVars
    <2>2. CASE Shutdown
      BY <2>2 DEF ServerInv, TypeOK, SessionsLive, Entries, Addressed, Senders, Polls, Exists,
                  Running, Shutdown, sessionVars, callVars
    <2>3. ASSUME NEW c \in Conn,
                 \/ \E e \in EndPoint : Accept(c, e)
                 \/ Process(c) \/ Read(c) \/ ReadEnds(c) \/ SendThreadRun(c)
                 \/ PeerGoes(c) \/ Die(c)
          PROVE  ServerInv'
      BY <2>3, AcceptKeeps, AddSessionKeeps, WorkerGoesOn, RemoveSessionKeeps, SenderKeeps DEF Process
    <2>4. ASSUME NEW t \in Thread, Send(t) \/ \E e \in EndPoint : Call(t, e)
          PROVE  ServerInv'
      BY <2>4, CallKeeps, FindKeeps, SendReturnsKeeps DEF Send
    <2> QED BY <2>1, <2>2, <2>3, <2>4 DEF Next
  <1> QED BY <1>1, InitialState, PTL DEF Spec

\* The state of Tube::Server, its sessions and its callers keeps its types.
THEOREM TypeCorrect == Spec => []TypeOK
  <1>1. ServerInv => TypeOK
    BY DEF ServerInv
  <1> QED BY <1>1, InductiveInvariant, PTL

\* A ClientSession on a worker's stack outlives every pointer to it, in
\* SessionMap, in send() and in its ServerSendThread, for any number of
\* connections from any addresses.
THEOREM SessionsOutlive == Spec => []SessionsLive
  <1>1. ServerInv => SessionsLive
    BY DEF ServerInv
  <1> QED BY <1>1, InductiveInvariant, PTL

-----------------------------------------------------------------------------
(* Tube::Client *)

\* The flags among the first n messages of a queue.
FlagsAt(q, n) == {j \in 1..n : q[j] = Flag}
Flags(q, n) == Cardinality(FlagsAt(q, n))

Entry == [tag : {0, 1}, epoch : Nat]
Socket == [id : Nat, connected : BOOLEAN, up : BOOLEAN, epoch : Nat]

ClientLabel == {"top", "nap", "check", "read", "reading", "restart", "connect", "flag", "pause",
                "dead", "crashed", "wait", "look", "write"}

ClientType ==
  /\ receive_q \in Seq(Entry)
  /\ flagged \in Nat /\ seen \in Nat /\ opened \in Nat
  /\ sock \in Socket
  /\ reading \in [id : Nat, epoch : Nat] /\ newest \in Nat
  /\ pc \in [ClientThread -> ClientLabel]
  /\ back \in {"check", "read"}

\* A restart is under the mutex up to its flag, and has its socket by then.
Restarts == \A t \in ClientThread :
  /\ pc[t] \in {"connect", "flag"} => mutex = t
  /\ pc[t] = "flag" => sock.id # 0

Announced == flagged <= seen + Flags(receive_q, Len(receive_q))

\* A connection whose flag has not been sent is one that a thread has just
\* opened, and the receive thread reads from it only if the send thread has.
Early(e) == e <= flagged \/ (e = flagged + 1 /\ pc["send"] = "flag")

Epochs ==
  /\ sock.epoch <= flagged \/ (sock.epoch = flagged + 1 /\ \E t \in ClientThread : pc[t] = "flag")
  /\ Early(reading.epoch) /\ Early(newest)

\* Once it has posted up a message from it, it waits for the mutex.
Posted == \A i \in 1..Len(receive_q) :
  receive_q[i] # Flag =>
    \/ receive_q[i].epoch <= flagged
    \/ receive_q[i].epoch = flagged + 1 /\ pc["send"] = "flag" /\ pc["recv"] = "check"

ClientInv == ClientType /\ Restarts /\ Announced /\ Epochs /\ Posted /\ OneOvertakes

LEMMA FlagsFinite ==
  ASSUME NEW q, NEW n \in Nat
  PROVE  IsFiniteSet(FlagsAt(q, n)) /\ Flags(q, n) \in Nat
<1>1. IsFiniteSet(1..n) BY FS_Interval
<1>2. FlagsAt(q, n) \in SUBSET (1..n) BY DEF FlagsAt
<1>3. IsFiniteSet(FlagsAt(q, n)) BY <1>1, <1>2, FS_Subset
<1> QED BY <1>3, FS_CardinalityType DEF Flags

\* A message at the end leaves the flags before it as they were, and counts
\* as one more when it is a flag.
LEMMA FlagsAppend ==
  ASSUME NEW S, NEW q \in Seq(S), NEW m \in S
  PROVE  /\ \A n \in 0..Len(q) : Flags(Append(q, m), n) = Flags(q, n)
         /\ Flags(Append(q, m), Len(q) + 1) =
              IF m = Flag THEN Flags(q, Len(q)) + 1 ELSE Flags(q, Len(q))
<1> DEFINE a == Append(q, m)
<1>1. \A n \in 0..Len(q) : FlagsAt(a, n) = FlagsAt(q, n) BY DEF FlagsAt
<1>2. Len(q) \in Nat /\ IsFiniteSet(FlagsAt(q, Len(q))) BY FlagsFinite
<1>3. Len(q) + 1 \notin FlagsAt(q, Len(q)) BY <1>2 DEF FlagsAt
<1>4. CASE m = Flag
  <2>1. FlagsAt(a, Len(q) + 1) = FlagsAt(q, Len(q)) \cup {Len(q) + 1} BY <1>4 DEF FlagsAt
  <2> QED BY <1>1, <1>2, <1>3, <1>4, <2>1, FS_AddElement DEF Flags
<1>5. CASE m # Flag
  <2>1. FlagsAt(a, Len(q) + 1) = FlagsAt(q, Len(q)) BY <1>5 DEF FlagsAt
  <2> QED BY <1>1, <1>5, <2>1 DEF Flags
<1> QED BY <1>4, <1>5

\* What wait() takes away at the front.
LEMMA FlagsTail ==
  ASSUME NEW S, NEW q \in Seq(S), q # << >>, NEW n \in 0..(Len(q) - 1)
  PROVE  Flags(q, n + 1) =
           IF Head(q) = Flag THEN Flags(Tail(q), n) + 1 ELSE Flags(Tail(q), n)
<1> DEFINE t == Tail(q)
           rest == FlagsAt(q, n + 1) \ {1}
           f == [j \in FlagsAt(t, n) |-> j + 1]
<1>1. \A j \in 1..n : t[j] = q[j + 1] OBVIOUS
<1>2. f \in Bijection(FlagsAt(t, n), rest)
  <2>1. f \in [FlagsAt(t, n) -> rest] BY <1>1 DEF FlagsAt
  <2>2. \A j, k \in FlagsAt(t, n) : f[j] = f[k] => j = k BY DEF FlagsAt
  <2>3. \A k \in rest : k - 1 \in FlagsAt(t, n) /\ f[k - 1] = k BY <1>1 DEF FlagsAt
  <2> HIDE DEF f, rest
  <2> QED BY <2>1, <2>2, <2>3 DEF Bijection, Injection, IsInjective, Surjection
<1>3. IsFiniteSet(FlagsAt(t, n)) /\ Flags(t, n) \in Nat /\ n + 1 \in Nat BY FlagsFinite
<1>4. Cardinality(rest) = Flags(t, n)
  BY <1>2, <1>3, FS_Bijection DEF ExistsBijection, Flags
<1>5. IsFiniteSet(FlagsAt(q, n + 1)) /\ Flags(q, n + 1) \in Nat BY <1>3, FlagsFinite
<1>6. 1 \in FlagsAt(q, n + 1) <=> Head(q) = Flag BY DEF FlagsAt
<1>7. Cardinality(rest) = IF Head(q) = Flag THEN Flags(q, n + 1) - 1 ELSE Flags(q, n + 1)
  BY <1>5, <1>6, FS_RemoveElement DEF Flags
<1> HIDE DEF rest, t
<1> QED BY <1>3, <1>4, <1>5, <1>7 DEF t

\* OneOvertakes of a queue q, when s flags have been seen.
Leads(q, s, i) == q[i] # Flag /\ q[i].epoch > s + Flags(q, i - 1)
OneLeads(q, s) ==
  \A i \in 1..Len(q) : Leads(q, s, i) =>
    /\ q[i].epoch = s + Flags(q, i - 1) + 1
    /\ \A j \in 1..Len(q) : Leads(q, s, j) /\ q[j].epoch = q[i].epoch => j = i

LEMMA Overtaking ==
  /\ OneOvertakes <=> OneLeads(receive_q, seen)
  /\ OneOvertakes' <=> OneLeads(receive_q', seen')
<1>1. OneOvertakes <=> OneLeads(receive_q, seen)
  BY DEF OneOvertakes, Overtakes, Told, OneLeads, Leads, Flags, FlagsAt
<1>2. OneOvertakes' <=> OneLeads(receive_q', seen')
  BY DEF OneOvertakes, Overtakes, Told, OneLeads, Leads, Flags, FlagsAt
<1> QED BY <1>1, <1>2

\* A message from a connection without its flag is the only one of it there.
LEMMA LeadsAppend ==
  ASSUME NEW q \in Seq(Entry), NEW s \in Nat, OneLeads(q, s), NEW m \in Entry,
         \/ m = Flag
         \/ /\ m.epoch <= s + Flags(q, Len(q)) + 1
            /\ m.epoch > s + Flags(q, Len(q)) =>
                 \A j \in 1..Len(q) : q[j] # Flag => q[j].epoch # m.epoch
  PROVE  OneLeads(Append(q, m), s)
<1> DEFINE a == Append(q, m)
           n == Len(q)
<1>1. n \in Nat /\ Len(a) = n + 1 /\ a[n + 1] = m /\ \A i \in 1..n : a[i] = q[i]
  OBVIOUS
<1>2. \A k \in 0..n : Flags(a, k) = Flags(q, k) /\ Flags(q, k) \in Nat
  BY FlagsAppend, FlagsFinite
<1>3. m.epoch \in Nat
  BY DEF Entry
<1> HIDE DEF a, n
<1>4. \A i \in 1..n : i - 1 \in 0..n /\ (Leads(a, s, i) <=> Leads(q, s, i))
  <2> TAKE i \in 1..n
  <2>1. i - 1 \in 0..n
    BY <1>1
  <2> QED BY <1>1, <1>2, <2>1 DEF Leads
<1>5. Flags(a, (n + 1) - 1) = Flags(q, n) /\ Flags(q, n) \in Nat
  <2>1. (n + 1) - 1 = n /\ n \in 0..n
    BY <1>1
  <2> QED BY <1>2, <2>1
<1>6. Leads(a, s, n + 1) => /\ m # Flag /\ m.epoch = s + Flags(q, n) + 1
                            /\ \A j \in 1..n : q[j] # Flag => q[j].epoch # m.epoch
  <2> SUFFICES ASSUME Leads(a, s, n + 1)
               PROVE  /\ m # Flag /\ m.epoch = s + Flags(q, n) + 1
                      /\ \A j \in 1..n : q[j] # Flag => q[j].epoch # m.epoch
    OBVIOUS
  <2>1. m # Flag /\ m.epoch > s + Flags(q, n)
    BY <1>1, <1>5 DEF Leads
  <2> QED BY <1>3, <1>5, <2>1 DEF n
<1> SUFFICES ASSUME NEW i \in 1..(n + 1), Leads(a, s, i)
             PROVE  /\ a[i].epoch = s + Flags(a, i - 1) + 1
                    /\ \A j \in 1..(n + 1) : Leads(a, s, j) /\ a[j].epoch = a[i].epoch => j = i
  BY <1>1 DEF OneLeads, a
<1>7. \A j \in 1..n : Leads(q, s, j) => q[j] # Flag
  BY DEF Leads
<1>8. CASE i = n + 1
  BY <1>1, <1>4, <1>5, <1>6, <1>7, <1>8
<1>9. CASE i \in 1..n
  <2>1. /\ q[i].epoch = s + Flags(q, i - 1) + 1
        /\ \A j \in 1..n : Leads(q, s, j) /\ q[j].epoch = q[i].epoch => j = i
        /\ Leads(q, s, i)
    BY <1>4, <1>9 DEF OneLeads, n
  <2>2. a[i] = q[i] /\ Flags(a, i - 1) = Flags(q, i - 1)
    BY <1>1, <1>2, <1>4, <1>9
  <2>3. ASSUME NEW j \in 1..(n + 1), Leads(a, s, j), a[j].epoch = a[i].epoch PROVE j = i
    <3>1. CASE j \in 1..n
      BY <1>1, <1>4, <2>1, <2>2, <2>3, <3>1
    <3>2. CASE j = n + 1
      BY <1>1, <1>6, <1>7, <1>9, <2>1, <2>2, <2>3, <3>2
    <3> QED BY <1>1, <3>1, <3>2
  <2> QED BY <2>1, <2>2, <2>3
<1> QED BY <1>1, <1>8, <1>9

\* wait() takes the first message.
LEMMA LeadsTail ==
  ASSUME NEW q \in Seq(Entry), NEW s \in Nat, q # << >>, OneLeads(q, s)
  PROVE  LET s1 == IF Head(q) = Flag THEN s + 1 ELSE s
         IN /\ OneLeads(Tail(q), s1)
            /\ s1 + Flags(Tail(q), Len(Tail(q))) = s + Flags(q, Len(q))
<1> DEFINE t == Tail(q)
           n == Len(q)
           s1 == IF Head(q) = Flag THEN s + 1 ELSE s
<1>1. n \in Nat /\ n # 0 /\ Len(t) = n - 1 /\ \A i \in 1..(n - 1) : t[i] = q[i + 1]
  OBVIOUS
<1>2. \A k \in 0..(n - 1) : s1 + Flags(t, k) = s + Flags(q, k + 1) /\ Flags(t, k) \in Nat
  <2> TAKE k \in 0..(n - 1)
  <2>1. Flags(q, k + 1) = IF Head(q) = Flag THEN Flags(t, k) + 1 ELSE Flags(t, k)
    BY FlagsTail
  <2>2. Flags(t, k) \in Nat BY <1>1, FlagsFinite
  <2> HIDE DEF t, n
  <2> QED BY <2>1, <2>2
<1> HIDE DEF t, n, s1
<1>3. \A i \in 1..(n - 1) : /\ i + 1 \in 1..n /\ t[i] = q[i + 1]
                            /\ s1 + Flags(t, i - 1) = s + Flags(q, (i + 1) - 1)
                            /\ Leads(t, s1, i) <=> Leads(q, s, i + 1)
  <2> TAKE i \in 1..(n - 1)
  <2>1. i + 1 \in 1..n /\ i - 1 \in 0..(n - 1) /\ (i - 1) + 1 = i /\ (i + 1) - 1 = i
    BY <1>1
  <2>2. s1 + Flags(t, i - 1) = s + Flags(q, i)
    BY <1>2, <2>1
  <2> QED BY <1>1, <2>1, <2>2 DEF Leads
<1>4. OneLeads(t, s1)
  <2> SUFFICES ASSUME NEW i \in 1..(n - 1), Leads(t, s1, i)
               PROVE  /\ t[i].epoch = s1 + Flags(t, i - 1) + 1
                      /\ \A j \in 1..(n - 1) : Leads(t, s1, j) /\ t[j].epoch = t[i].epoch => j = i
    BY <1>1 DEF OneLeads
  <2>1. /\ q[i + 1].epoch = s + Flags(q, (i + 1) - 1) + 1
        /\ \A j \in 1..n : Leads(q, s, j) /\ q[j].epoch = q[i + 1].epoch => j = i + 1
    BY <1>3 DEF OneLeads, n
  <2>2. ASSUME NEW j \in 1..(n - 1), Leads(t, s1, j), t[j].epoch = t[i].epoch PROVE j = i
    <3>1. j + 1 = i + 1
      BY <1>3, <2>1, <2>2
    <3> QED BY <1>1, <3>1
  <2> QED BY <1>3, <2>1, <2>2
<1>5. s1 + Flags(t, n - 1) = s + Flags(q, n)
  <2>1. n - 1 \in 0..(n - 1) /\ n - 1 + 1 = n BY <1>1
  <2> QED BY <1>2, <2>1
<1> QED BY <1>1, <1>4, <1>5 DEF t, n, s1

\* A step that leaves the queue and the flags alone.
LEMMA QueueAlone ==
  ASSUME ClientInv, UNCHANGED <<receive_q, flagged, seen>>, ClientType', Restarts', Epochs',
         pc["send"] = "flag" => pc'["send"] = "flag",
         pc["send"] = "flag" /\ pc["recv"] = "check" => pc'["recv"] = "check"
  PROVE  ClientInv'
<1>1. Announced' BY DEF ClientInv, Announced, Flags, FlagsAt
<1>2. Posted' BY DEF ClientInv, Posted
<1>3. OneOvertakes' BY Overtaking DEF ClientInv
<1> QED BY <1>1, <1>2, <1>3 DEF ClientInv

\* A flag is queued, for a restart or by shutdown().
LEMMA FlagQueued ==
  ASSUME ClientInv, receive_q' = Append(receive_q, Flag), seen' = seen,
         ClientType', Restarts', Epochs',
         \/ flagged' = flagged /\ pc' = pc
         \/ flagged' = flagged + 1
  PROVE  ClientInv'
<1> DEFINE n == Len(receive_q)
<1>1. receive_q \in Seq(Entry) /\ n \in Nat /\ seen \in Nat /\ flagged \in Nat /\ Flag \in Entry
  BY DEF ClientInv, ClientType, Entry, Flag
<1>2. /\ Len(receive_q') = n + 1 /\ receive_q'[n + 1] = Flag
      /\ \A i \in 1..n : receive_q'[i] = receive_q[i] /\ receive_q[i].epoch \in Nat
  <2>1. \A e \in Entry : e.epoch \in Nat BY DEF Entry
  <2> QED BY <1>1, <2>1
<1>3. Announced'
  <2>1. Flags(receive_q', n + 1) = Flags(receive_q, n) + 1 /\ Flags(receive_q, n) \in Nat
    BY <1>1, FlagsAppend, FlagsFinite
  <2>2. flagged <= seen + Flags(receive_q, n) BY DEF ClientInv, Announced
  <2> HIDE DEF n
  <2>3. flagged' <= seen' + Flags(receive_q', n + 1) BY <1>1, <2>1, <2>2
  <2> QED BY <1>2, <2>3 DEF Announced, Flags, FlagsAt
<1>4. Posted'
  <2> SUFFICES ASSUME NEW i \in 1..(n + 1), receive_q'[i] # Flag
               PROVE  \/ receive_q'[i].epoch <= flagged'
                      \/ receive_q'[i].epoch = flagged' + 1 /\ pc'["send"] = "flag" /\ pc'["recv"] = "check"
    BY <1>2 DEF Posted
  <2>1. i \in 1..n /\ receive_q'[i] = receive_q[i] /\ receive_q[i].epoch \in Nat BY <1>1, <1>2
  <2>2. \/ receive_q[i].epoch <= flagged
        \/ receive_q[i].epoch = flagged + 1 /\ pc["send"] = "flag" /\ pc["recv"] = "check"
    BY <2>1 DEF ClientInv, Posted
  <2> QED BY <1>1, <2>1, <2>2
<1>5. OneOvertakes'
  BY <1>1, LeadsAppend, Overtaking DEF ClientInv
<1> QED BY <1>3, <1>4, <1>5 DEF ClientInv

\* The receive thread posts up a message.
LEMMA MessageQueued ==
  ASSUME ClientInv, NEW m \in Entry, m # Flag, Early(m.epoch), pc["recv"] = "reading",
         receive_q' = Append(receive_q, m), UNCHANGED <<seen, flagged>>,
         ClientType', Restarts', Epochs', pc' = [pc EXCEPT !["recv"] = "check"]
  PROVE  ClientInv'
<1> DEFINE n == Len(receive_q)
           F == Flags(receive_q, n)
<1>1. /\ receive_q \in Seq(Entry) /\ n \in Nat /\ seen \in Nat /\ flagged \in Nat
      /\ m.epoch \in Nat /\ F \in Nat /\ pc \in [ClientThread -> ClientLabel]
  BY FlagsFinite DEF ClientInv, ClientType, Entry
<1>2. /\ Len(receive_q') = n + 1 /\ receive_q'[n + 1] = m
      /\ \A i \in 1..n : receive_q'[i] = receive_q[i] /\ receive_q[i].epoch \in Nat
  <2>1. \A e \in Entry : e.epoch \in Nat BY DEF Entry
  <2> QED BY <1>1, <2>1
<1>3. flagged <= seen + F BY DEF ClientInv, Announced
<1>4. pc'["recv"] = "check" /\ pc'["send"] = pc["send"] BY <1>1 DEF ClientThread
<1>5. Announced'
  <2>1. Flags(receive_q', n + 1) = F
    BY <1>1, FlagsAppend
  <2> HIDE DEF n, F
  <2>2. flagged' <= seen' + Flags(receive_q', n + 1) BY <1>1, <1>3, <2>1
  <2> QED BY <1>2, <2>2 DEF Announced, Flags, FlagsAt
\* Nothing in the queue is ahead of its flag yet: the thread would be waiting.
<1>6. \A i \in 1..n : receive_q[i] # Flag => receive_q[i].epoch <= flagged
  BY DEF ClientInv, Posted
<1>7. Posted'
  <2> SUFFICES ASSUME NEW i \in 1..(n + 1), receive_q'[i] # Flag
               PROVE  \/ receive_q'[i].epoch <= flagged'
                      \/ receive_q'[i].epoch = flagged' + 1 /\ pc'["send"] = "flag" /\ pc'["recv"] = "check"
    BY <1>2 DEF Posted
  <2>1. CASE i \in 1..n BY <1>2, <1>6, <2>1
  <2>2. CASE i = n + 1 BY <1>2, <1>4, <2>2 DEF Early
  <2> QED BY <1>1, <2>1, <2>2
<1>8. OneOvertakes'
  <2>1. m.epoch <= flagged + 1 BY <1>1 DEF Early
  <2> HIDE DEF F
  <2>2. m.epoch <= seen + F + 1 BY <1>1, <1>3, <2>1
  <2>3. m.epoch > seen + F => \A j \in 1..n : receive_q[j] # Flag => receive_q[j].epoch # m.epoch
    BY <1>1, <1>2, <1>3, <1>6
  <2> QED BY <1>1, <2>2, <2>3, LeadsAppend, Overtaking DEF ClientInv, F
<1> QED BY <1>5, <1>7, <1>8 DEF ClientInv

\* wait() takes a message off the queue, and counts it when it is a flag.
LEMMA Waits ==
  ASSUME ClientInv, Wait
  PROVE  ClientInv'
<1> DEFINE n == Len(receive_q)
<1>1. /\ receive_q \in Seq(Entry) /\ n \in Nat /\ receive_q # << >> /\ n # 0
      /\ receive_q' = Tail(receive_q) /\ seen \in Nat /\ flagged \in Nat
      /\ seen' = IF Head(receive_q) = Flag THEN seen + 1 ELSE seen
      /\ UNCHANGED <<opened, flagged, sock, mutex, pc, back, reading, newest>>
  BY DEF ClientInv, ClientType, Wait, link, readVars
<1>2. /\ receive_q' \in Seq(Entry) /\ Len(receive_q') = n - 1
      /\ \A i \in 1..(n - 1) : receive_q'[i] = receive_q[i + 1]
  BY <1>1
<1>3. /\ OneLeads(receive_q', seen')
      /\ seen' + Flags(receive_q', n - 1) = seen + Flags(receive_q, n)
  BY <1>1, <1>2, LeadsTail, Overtaking DEF ClientInv
<1>4. ClientType' BY <1>1, <1>2 DEF ClientInv, ClientType
<1>5. Announced'
  BY <1>1, <1>2, <1>3 DEF ClientInv, Announced, Flags, FlagsAt
<1>6. Epochs' /\ Restarts' BY <1>1 DEF ClientInv, Epochs, Early, Restarts
<1>7. Posted'
  <2> SUFFICES ASSUME NEW i \in 1..(n - 1), receive_q'[i] # Flag
               PROVE  \/ receive_q'[i].epoch <= flagged
                      \/ receive_q'[i].epoch = flagged + 1 /\ pc["send"] = "flag" /\ pc["recv"] = "check"
    BY <1>1, <1>2 DEF Posted
  <2>1. i + 1 \in 1..n BY <1>1
  <2> QED BY <1>2, <2>1 DEF ClientInv, Posted
<1> QED BY <1>3, <1>4, <1>5, <1>6, <1>7, Overtaking DEF ClientInv

LEMMA InitClient ==
  CInit => ClientInv
<1> SUFFICES ASSUME CInit PROVE ClientInv OBVIOUS
<1>1. receive_q = << >> /\ seen = 0 /\ flagged = 0 /\ Len(receive_q) = 0 BY DEF CInit
<1>2. ClientType BY DEF CInit, ClientType, ClientLabel, Socket, Null
<1>3. Announced
  <2>1. Flags(receive_q, 0) \in Nat BY FlagsFinite
  <2> QED BY <1>1, <2>1 DEF Announced
<1>4. Epochs /\ Restarts BY DEF CInit, Epochs, Early, Null, Restarts
<1>5. Posted /\ OneOvertakes BY <1>1 DEF Posted, OneOvertakes
<1> QED BY <1>2, <1>3, <1>4, <1>5 DEF ClientInv

\* A step of a thread that is neither in a restart nor waiting for the mutex of
\* one, and of which the socket, the queue and the flags know nothing.
LEMMA ThreadGoesOn ==
  ASSUME ClientInv, NEW t \in ClientThread, NEW l \in ClientLabel, pc' = [pc EXCEPT ![t] = l],
         l \notin {"connect", "flag"}, pc[t] \notin {"connect", "flag"},
         pc[t] = "check" => mutex = "free",
         UNCHANGED <<receive_q, flagged, seen, sock, opened, mutex>>,
         back' \in {"check", "read"},
         reading' \in [id : Nat, epoch : Nat], newest' \in Nat, Early(reading'.epoch), Early(newest')
  PROVE  ClientInv'
<1>1. /\ pc \in [ClientThread -> ClientLabel] /\ Restarts
      /\ "send" \in ClientThread /\ "recv" \in ClientThread
  BY DEF ClientInv, ClientType, ClientThread
<1>2. ClientType' BY <1>1 DEF ClientInv, ClientType
<1>3. \A u \in ClientThread : pc'[u] \in {"connect", "flag"} <=> pc[u] \in {"connect", "flag"}
  BY <1>1
<1>4. \A u \in ClientThread : u # t => pc'[u] = pc[u]
  BY <1>1
<1>5. \A u \in ClientThread : pc[u] = "flag" => pc'[u] = "flag"
  BY <1>4
<1>6. Restarts'
  <2> SUFFICES ASSUME NEW u \in ClientThread
               PROVE  /\ pc'[u] \in {"connect", "flag"} => mutex = u
                      /\ pc'[u] = "flag" => sock.id # 0
    BY DEF Restarts
  <2>1. CASE u = t BY <1>1, <2>1
  <2>2. CASE u # t BY <1>1, <1>4, <2>2 DEF Restarts
  <2> QED BY <2>1, <2>2
<1>7. Epochs'
  <2>1. \A e : Early(e) => e <= flagged' \/ (e = flagged' + 1 /\ pc'["send"] = "flag")
    BY <1>1, <1>5 DEF Early
  <2>2. sock.epoch <= flagged \/ (sock.epoch = flagged + 1 /\ \E u \in ClientThread : pc'[u] = "flag")
    BY <1>5 DEF ClientInv, Epochs
  <2> QED BY <2>1, <2>2 DEF Epochs, Early
<1>8. pc["send"] = "flag" /\ pc["recv"] = "check" => pc'["recv"] = "check"
  <2> SUFFICES ASSUME pc["send"] = "flag", pc["recv"] = "check" PROVE t # "recv"
    BY <1>1, <1>4
  <2>1. mutex = "send" BY <1>1 DEF Restarts
  <2> QED BY <2>1
<1> QED BY <1>1, <1>2, <1>5, <1>6, <1>7, <1>8, QueueAlone

\* Every step of the client keeps its invariant.
LEMMA ClientStep ==
  ClientInv /\ [CNext]_cvars => ClientInv'
<1> SUFFICES ASSUME ClientInv, [CNext]_cvars PROVE ClientInv' OBVIOUS
<1>1. /\ receive_q \in Seq(Entry) /\ flagged \in Nat /\ seen \in Nat /\ opened \in Nat
      /\ sock \in Socket /\ reading \in [id : Nat, epoch : Nat] /\ newest \in Nat
      /\ sock.epoch \in Nat /\ reading.epoch \in Nat /\ sock.id \in Nat
      /\ pc \in [ClientThread -> ClientLabel] /\ back \in {"check", "read"}
      /\ "recv" \in ClientThread /\ "send" \in ClientThread
  BY DEF ClientInv, ClientType, Entry, Socket, ClientThread
<1>2. /\ Early(reading.epoch) /\ Early(newest) /\ Early(0)
      /\ sock.epoch <= flagged \/ (sock.epoch = flagged + 1 /\ \E t \in ClientThread : pc[t] = "flag")
  BY <1>1 DEF ClientInv, Epochs, Early
<1>3. \A t \in ClientThread : /\ pc[t] \in {"connect", "flag"} => mutex = t
                              /\ pc[t] = "flag" => sock.id # 0
  BY DEF ClientInv, Restarts
<1>4. ClientThread = {"recv", "send"} /\ "free" \notin ClientThread
  BY DEF ClientThread
<1>5. Null \in [id : Nat, epoch : Nat] /\ Null.epoch = 0 BY DEF Null
\* Steps of the users, the server and shutdown(), which move no thread.
<1>6. CASE \/ UNCHANGED cvars \/ Post \/ ShutdownJoins \/ ShutdownBegins
           \/ ShutdownSocket \/ ConnectionLost
  <2>1. UNCHANGED <<receive_q, flagged, seen, opened, mutex, pc, back, reading, newest>>
    BY <1>6 DEF cvars, counters, link, readVars, user, Post, ShutdownJoins, ShutdownBegins,
                ShutdownSocket, ConnectionLost
  <2>2. sock' \in Socket /\ sock'.epoch = sock.epoch /\ sock'.id = sock.id
    <3>1. sock' = sock \/ sock' = [sock EXCEPT !.up = FALSE]
      BY <1>6 DEF cvars, link, Post, ShutdownJoins, ShutdownBegins, ShutdownSocket, ConnectionLost
    <3> QED BY <1>1, <3>1 DEF Socket
  <2>3. ClientType' BY <1>1, <2>1, <2>2 DEF ClientType, ClientLabel
  <2>4. Restarts' BY <1>3, <2>1, <2>2 DEF Restarts
  <2>5. Epochs' BY <1>2, <2>1, <2>2 DEF Epochs, Early
  <2> QED BY <2>1, <2>3, <2>4, <2>5, QueueAlone
<1>7. CASE Wait BY <1>7, Waits
<1>8. CASE ShutdownQueues
  <2>1. /\ receive_q' = Append(receive_q, Flag)
        /\ UNCHANGED <<seen, flagged, opened, mutex, sock, pc, back, reading, newest>>
    BY <1>8 DEF ShutdownQueues, link, readVars
  <2>2. Flag \in Entry BY DEF Flag, Entry
  <2>3. ClientType' BY <1>1, <2>1, <2>2 DEF ClientType, ClientLabel
  <2>4. Restarts' /\ Epochs' BY <1>2, <1>3, <2>1 DEF Restarts, Epochs, Early
  <2> QED BY <2>1, <2>3, <2>4, FlagQueued
<1>9. ASSUME NEW t \in ClientThread, BeginRestart(t) PROVE ClientInv'
  <2>1. /\ UNCHANGED <<receive_q, flagged, seen, opened, back, reading, newest>>
        /\ sock' = NoSocket /\ mutex' = t /\ mutex = "free" /\ pc[t] = "restart"
        /\ pc' = [pc EXCEPT ![t] = "connect"]
    BY <1>9 DEF BeginRestart, readVars, user, CGoto
  <2>2. NoSocket \in Socket /\ NoSocket.epoch = 0 BY DEF NoSocket, Socket
  <2>3. ClientType' BY <1>1, <2>1, <2>2 DEF ClientType, ClientLabel
  <2>4. \A u \in ClientThread : pc[u] \notin {"connect", "flag"} BY <1>3, <1>4, <2>1
  <2>5. \A u \in ClientThread : pc'[u] # "flag" /\ (pc'[u] = "connect" => u = t)
    BY <1>1, <2>1, <2>4
  <2>6. Restarts' BY <2>1, <2>5 DEF Restarts
  <2>7. reading.epoch <= flagged /\ newest <= flagged BY <1>1, <1>2, <2>4 DEF Early
  <2>8. Epochs' BY <1>1, <2>1, <2>2, <2>7 DEF Epochs, Early
  <2> QED BY <1>1, <2>1, <2>3, <2>4, <2>6, <2>8, QueueAlone
<1>10. ASSUME NEW t \in ClientThread, Connected(t) PROVE ClientInv'
  <2>1. /\ UNCHANGED <<receive_q, flagged, seen, mutex, back, reading, newest>>
        /\ sock' = [id |-> opened + 1, connected |-> TRUE, up |-> TRUE, epoch |-> flagged + 1]
        /\ opened' = opened + 1 /\ pc[t] = "connect"
        /\ pc' = [pc EXCEPT ![t] = "flag"]
    BY <1>10 DEF Connected, NewSocket, readVars, user, CGoto
  <2>2. sock' \in Socket /\ sock'.epoch = flagged + 1 /\ sock'.id # 0 BY <1>1, <2>1 DEF Socket
  <2>3. ClientType' BY <1>1, <2>1, <2>2 DEF ClientType, ClientLabel
  <2>4. mutex = t /\ \A u \in ClientThread : u # t => pc'[u] = pc[u] /\ pc[u] \notin {"connect", "flag"}
    BY <1>1, <1>3, <2>1
  <2>5. Restarts' BY <1>1, <2>1, <2>2, <2>4 DEF Restarts
  <2>6. reading.epoch <= flagged /\ newest <= flagged BY <1>1, <1>2, <2>1, <2>4 DEF Early
  <2>7. pc'[t] = "flag" BY <1>1, <2>1
  <2>8. Epochs' BY <1>1, <2>1, <2>2, <2>6, <2>7 DEF Epochs, Early
  <2> QED BY <1>1, <2>1, <2>3, <2>4, <2>5, <2>8, QueueAlone
<1>11. ASSUME NEW t \in ClientThread, NotConnected(t) PROVE ClientInv'
  <2>1. /\ UNCHANGED <<receive_q, flagged, seen, back, reading, newest>>
        /\ sock' = [NoSocket EXCEPT !.id = opened + 1]
        /\ opened' = opened + 1 /\ pc[t] = "connect"
        /\ pc' = [pc EXCEPT ![t] = IF t = "recv" THEN "nap" ELSE "top"]
    BY <1>11 DEF NotConnected, readVars, user, CGoto
  <2>2. sock' \in Socket /\ sock'.epoch = 0
    <3>1. sock' = [id |-> opened + 1, connected |-> FALSE, up |-> FALSE, epoch |-> 0]
      BY <2>1 DEF NoSocket
    <3> QED BY <1>1, <3>1 DEF Socket
  <2>3. ClientType' BY <1>1, <2>1, <2>2 DEF ClientType, ClientLabel
  <2>4. \A u \in ClientThread : u # t => pc'[u] = pc[u] /\ pc[u] \notin {"connect", "flag"}
    BY <1>1, <1>3, <2>1
  <2>5. \A u \in ClientThread : pc'[u] \notin {"connect", "flag"} /\ pc[u] # "flag"
    BY <1>1, <2>1, <2>4
  <2>6. Restarts' BY <2>5 DEF Restarts
  <2>7. reading.epoch <= flagged /\ newest <= flagged BY <1>1, <1>2, <2>5 DEF Early
  <2>8. Epochs' BY <1>1, <2>1, <2>2, <2>7 DEF Epochs, Early
  <2> QED BY <1>1, <2>1, <2>3, <2>5, <2>6, <2>8, QueueAlone
<1>12. ASSUME NEW t \in ClientThread, FlagRestart(t) PROVE ClientInv'
  <2>1. /\ UNCHANGED <<seen, sock, opened, back, reading, newest>>
        /\ receive_q' = Append(receive_q, Flag) /\ flagged' = flagged + 1 /\ pc[t] = "flag"
        /\ pc' = [pc EXCEPT ![t] = IF t = "recv" THEN back ELSE "top"]
    BY <1>12 DEF FlagRestart, Restarted, readVars, CGoto
  <2>2. Flag \in Entry BY DEF Flag, Entry
  <2>3. ClientType' BY <1>1, <2>1, <2>2 DEF ClientType, ClientLabel
  <2>4. \A u \in ClientThread : u # t => pc'[u] = pc[u] /\ pc[u] \notin {"connect", "flag"}
    BY <1>1, <1>3, <2>1
  <2>5. Restarts' BY <1>1, <2>1, <2>4 DEF Restarts
  <2>6. Epochs' BY <1>1, <1>2, <2>1 DEF Epochs, Early
  <2> QED BY <2>1, <2>3, <2>5, <2>6, FlagQueued
<1>13. CASE ReceiveMessage
  <2>1. PICK m : m = Message(Latest) OBVIOUS
  <2>2. m \in Entry /\ m # Flag /\ m.epoch = Latest /\ Early(m.epoch)
    BY <1>1, <1>2, <2>1 DEF Message, Flag, Entry, Latest
  <2>3. /\ receive_q' = Append(receive_q, m) /\ UNCHANGED <<seen, flagged, opened, sock, mutex>>
        /\ reading' = Null /\ newest' = 0 /\ back' = "check"
        /\ pc["recv"] = "reading" /\ pc' = [pc EXCEPT !["recv"] = "check"]
    BY <1>13, <2>1 DEF ReceiveMessage, DataComes, MessageOver, link, CGoto
  <2>4. ClientType' BY <1>1, <1>5, <2>2, <2>3 DEF ClientType, ClientLabel
  <2>5. pc'["recv"] = "check" /\ pc'["send"] = pc["send"] BY <1>1, <2>3
  <2>6. Restarts' BY <1>3, <1>4, <2>3, <2>5 DEF Restarts
  <2>7. Epochs'
    <3>1. sock.epoch <= flagged \/ (sock.epoch = flagged + 1 /\ \E t \in ClientThread : pc'[t] = "flag")
      BY <1>2, <1>4, <2>3, <2>5
    <3> QED BY <1>1, <1>5, <2>3, <3>1 DEF Epochs, Early
  <2> QED BY <2>2, <2>3, <2>4, <2>6, <2>7, MessageQueued
<1>14. CASE ReceiveLoads /\ sock.id = 0
  <2>1. /\ UNCHANGED <<receive_q, flagged, seen, sock, opened, mutex, back, reading, newest>>
        /\ pc' = [t \in ClientThread |-> "crashed"]
    BY <1>14 DEF ReceiveLoads, Crash, link, user
  <2>2. \A t \in ClientThread : pc[t] # "flag" BY <1>3, <1>14
  <2>3. ClientType' BY <1>1, <2>1 DEF ClientType, ClientLabel
  <2>4. Restarts' BY <2>1 DEF Restarts
  <2>5. Epochs' BY <1>1, <1>2, <2>1, <2>2 DEF Epochs, Early
  <2> QED BY <1>1, <2>1, <2>2, <2>3, <2>4, <2>5, QueueAlone
<1>15. CASE ReceiveLoads /\ sock.id # 0
  <2>1. /\ UNCHANGED <<receive_q, flagged, seen, sock, opened, mutex, back, newest>>
        /\ reading' = [id |-> sock.id, epoch |-> sock.epoch]
        /\ pc["recv"] = "read" /\ pc' = [pc EXCEPT !["recv"] = "reading"]
    BY <1>15 DEF ReceiveLoads, CGoto, link, user
  <2>2. Early(reading'.epoch) BY <1>1, <1>2, <1>4, <2>1 DEF Early
  <2> QED BY <1>1, <1>2, <2>1, <2>2, ThreadGoesOn DEF ClientLabel
<1>16. CASE ReceivePart \/ ReceiveGarbage \/ ReceiveShort \/ ReceiveFails
  <2>1. /\ UNCHANGED <<receive_q, flagged, seen, opened, sock, mutex>>
        /\ reading' = Null /\ newest' \in {0, Latest} /\ back' \in {back, "check"}
        /\ pc["recv"] = "reading"
        /\ \E l \in {"read", "restart", "pause", "nap"} : pc' = [pc EXCEPT !["recv"] = l]
    BY <1>16 DEF ReceivePart, ReceiveGarbage, ReceiveShort, ReceiveFails, DataComes, DataEnds,
                 MessageOver, Failed, CGoto, link, user
  <2>2. newest' \in Nat /\ Early(newest') BY <1>1, <1>2, <2>1 DEF Latest
  <2>3. PICK l \in {"read", "restart", "pause", "nap"} : pc' = [pc EXCEPT !["recv"] = l] BY <2>1
  <2> QED BY <1>1, <1>2, <1>5, <2>1, <2>2, <2>3, ThreadGoesOn DEF ClientLabel
<1>17. CASE ReceiveTop \/ ReceiveCheck
  <2>1. /\ UNCHANGED <<receive_q, flagged, seen, opened, sock, mutex, reading, newest>>
        /\ back' \in {"check", "read"}
        /\ pc["recv"] \in {"top", "nap", "check"}
        /\ pc["recv"] = "check" => mutex = "free"
        /\ \E l \in {"check", "dead", "read", "restart"} : pc' = [pc EXCEPT !["recv"] = l]
    BY <1>1, <1>17 DEF ReceiveTop, ReceiveCheck, CGoto, link, readVars, user
  <2>2. PICK l \in {"check", "dead", "read", "restart"} : pc' = [pc EXCEPT !["recv"] = l] BY <2>1
  <2> QED BY <1>1, <1>2, <2>1, <2>2, ThreadGoesOn DEF ClientLabel
<1>18. ASSUME NEW t \in ClientThread, PauseEnds(t) PROVE ClientInv'
  <2>1. /\ UNCHANGED <<receive_q, flagged, seen, opened, sock, mutex, reading, newest, back>>
        /\ pc[t] = "pause"
        /\ \E l \in {"restart", "nap", "top"} : pc' = [pc EXCEPT ![t] = l]
    BY <1>18 DEF PauseEnds, CGoto, link, readVars, user
  <2>2. PICK l \in {"restart", "nap", "top"} : pc' = [pc EXCEPT ![t] = l] BY <2>1
  <2> QED BY <1>1, <1>2, <2>1, <2>2, ThreadGoesOn DEF ClientLabel
<1>19. CASE SendTop \/ SendTakes \/ SendLooks \/ SendWrites
  <2>1. /\ UNCHANGED <<receive_q, flagged, seen, opened, sock, mutex, reading, newest, back>>
        /\ pc["send"] \in {"top", "wait", "look", "write"}
        /\ \E l \in {"wait", "dead", "look", "top", "write", "pause"} : pc' = [pc EXCEPT !["send"] = l]
    BY <1>19 DEF SendTop, SendTakes, SendLooks, SendWrites, Failed, CGoto, link, readVars, user
  <2>2. PICK l \in {"wait", "dead", "look", "top", "write", "pause"} : pc' = [pc EXCEPT !["send"] = l]
    BY <2>1
  <2> QED BY <1>1, <1>2, <2>1, <2>2, ThreadGoesOn DEF ClientLabel
<1> QED
  BY <1>1, <1>6, <1>7, <1>8, <1>9, <1>10, <1>11, <1>12, <1>13, <1>14, <1>15, <1>16, <1>17, <1>18, <1>19
     DEF CNext, ReceiveRun, ReceiveRead, ReceiveEnds, SendRun, ShutdownRun, Restart

\* The invariant holds in every state of the client.
THEOREM ClientInvariant ==
  CSpec => []ClientInv
  BY InitClient, ClientStep, PTL DEF CSpec

\* However often the connection is lost, whichever thread restarts it and with
\* the other one between two reads of a message, one message of the new
\* connection at most is queued before wait() returns false for the restart.
THEOREM OneEarly ==
  CSpec => []OneOvertakes
<1>1. ClientInv => OneOvertakes BY DEF ClientInv
<1> QED BY <1>1, ClientInvariant, PTL
=============================================================================
