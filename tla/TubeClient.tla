----------------------------- MODULE TubeClient -----------------------------
(***************************************************************************)
(* ObTools::Tube::Client (libs/tube/client.cc): the receive thread and the *)
(* send thread around one socket that either of them may restart, the two  *)
(* queues to the user's threads, shutdown(), and a server that fails.      *)
(*                                                                         *)
(* The mutex is held while a socket is restarted, written to or looked at, *)
(* but not while it is read from: each of the four reads of a message (its *)
(* tag, length, flags and data) loads the pointer afresh.  "connected" is  *)
(* the state a TCPClient was constructed in, which is all that             *)
(* check_socket() sees; "up" says whether the connection still works.      *)
(* fail_on_no_conn only refuses messages before they are queued.           *)
(***************************************************************************)
EXTENDS Naturals, Sequences, FiniteSets

CONSTANTS MaxSend,     \* max_send_queue
          MaxPosts,    \* bound on the messages sent
          MaxMessages, \* bound on the messages received
          MaxTrouble   \* bound on lost connections, garbage and failed connects

ASSUME ClientAssumption ==
  MaxSend \in Nat /\ MaxPosts \in Nat /\ MaxMessages \in Nat /\ MaxTrouble \in Nat

ClientThread == {"recv", "send"}

VARIABLES
  calive,     \* Client::alive
  sock,       \* *socket: id (0 for a null pointer), connected, up, epoch (the
              \* restart that opened it)
  opened,     \* number of TCPClients constructed
  mutex,      \* the thread inside restart_socket(), or "free"
  pc,         \* where a thread is
  back,       \* where the receive thread goes on after a restart
  reading,    \* the socket object that the receive thread is inside a read of
  parts,      \* parts of a message it has read
  newest,     \* the latest connection that one of them came from
  send_q,     \* length of the send queue
  receive_q,  \* messages, with the epoch of the connection they came from
  flagged,    \* restart flags sent
  seen,       \* empty messages that wait() has returned
  stop,       \* steps of shutdown(): "no", "alive", "socket", "queues", "done"
  posted, received, trouble

counters == <<posted, received, trouble>>
link == <<sock, opened, mutex>>
readVars == <<back, reading, parts, newest>>
user == <<receive_q, flagged, seen>>
cvars == <<calive, link, pc, readVars, send_q, user, stop, counters>>

\* tag=0 indicates invalid: an empty message is the flag of a restart.
Flag == [tag |-> 0, epoch |-> 0]
Message(e) == [tag |-> 1, epoch |-> e]

NoSocket == [id |-> 0, connected |-> FALSE, up |-> FALSE, epoch |-> 0]

\* Not inside a read.
Null == [id |-> 0, epoch |-> 0]

\* The constructor has tried to open a first socket; start() has been called.
CInit ==
  /\ calive = TRUE
  /\ \E ok \in BOOLEAN : sock = [id |-> 1, connected |-> ok, up |-> ok, epoch |-> 0]
  /\ opened = 1
  /\ mutex = "free"
  /\ pc = [t \in ClientThread |-> "top"]
  /\ back = "check" /\ reading = Null /\ parts = 0 /\ newest = 0
  /\ send_q = 0 /\ receive_q = << >>
  /\ flagged = 0 /\ seen = 0
  /\ stop = "no"
  /\ posted = 0 /\ received = 0 /\ trouble = 0

CGoto(t, l) == pc' = [pc EXCEPT ![t] = l]
Trouble == trouble < MaxTrouble /\ trouble' = trouble + 1

\* A call through a null pointer ends the process.
Crashed == pc["recv"] = "crashed"
Crash == pc' = [t \in ClientThread |-> "crashed"]

-----------------------------------------------------------------------------
(* Client::restart_socket(), in either thread *)

\* The pointer is zeroed and the old socket deleted, under the mutex, whoever
\* reads from it.
BeginRestart(t) ==
  /\ pc[t] = "restart" /\ mutex = "free"
  /\ mutex' = t
  /\ sock' = NoSocket
  /\ CGoto(t, "connect")
  /\ UNCHANGED <<calive, opened, readVars, send_q, user, stop, counters>>

NewSocket == [id |-> opened + 1, connected |-> TRUE, up |-> TRUE, epoch |-> flagged + 1]

\* Where a thread is when restart_socket() has returned true.
Restarted(t) == IF t = "recv" THEN back ELSE "top"

\* Mutant: the mutex is let go as soon as there is a socket again.
ConnectedAlone(t) ==
  /\ pc[t] = "connect"
  /\ sock' = NewSocket
  /\ opened' = opened + 1
  /\ mutex' = "free"
  /\ CGoto(t, "flag")
  /\ UNCHANGED <<calive, readVars, send_q, user, stop, counters>>

\* The new socket is there for all to see, before the user is told of it.
Connected(t) ==
  /\ pc[t] = "connect"
  /\ sock' = NewSocket
  /\ opened' = opened + 1
  /\ CGoto(t, "flag")
  /\ UNCHANGED <<calive, mutex, readVars, send_q, user, stop, counters>>

\* "Send empty message to flag restart".
FlagRestart(t) ==
  /\ pc[t] = "flag"
  /\ receive_q' = Append(receive_q, Flag)
  /\ flagged' = flagged + 1
  /\ mutex' = "free"
  /\ CGoto(t, Restarted(t))
  /\ UNCHANGED <<calive, sock, opened, readVars, send_q, seen, stop, counters>>

\* A failed one is left "valid but unhappy"; false is returned.
NotConnected(t) ==
  /\ pc[t] = "connect" /\ Trouble
  /\ sock' = [NoSocket EXCEPT !.id = opened + 1]
  /\ opened' = opened + 1
  /\ mutex' = "free"
  /\ CGoto(t, IF t = "recv" THEN "nap" ELSE "top")
  /\ UNCHANGED <<calive, readVars, send_q, user, stop, posted, received>>

Restart(t) == BeginRestart(t) \/ Connected(t) \/ FlagRestart(t)

-----------------------------------------------------------------------------
(* ClientReceiveThread::run() and Client::receive_messages() *)

\* The outer loop; a nap of DEAD_SOCKET_SLEEP_TIME ends there too.
ReceiveTop ==
  /\ pc["recv"] \in {"top", "nap"}
  /\ CGoto("recv", IF calive THEN "check" ELSE "dead")
  /\ UNCHANGED <<calive, link, readVars, send_q, user, stop, counters>>

\* check_socket(); after a restart here the reading goes on.
ReceiveCheck ==
  /\ pc["recv"] = "check" /\ mutex = "free"
  /\ IF sock.connected
     THEN CGoto("recv", "read") /\ UNCHANGED back
     ELSE CGoto("recv", "restart") /\ back' = "read"
  /\ UNCHANGED <<calive, link, reading, parts, newest, send_q, user, stop, counters>>

\* The pointer is loaded, without the mutex, and the read begins.
ReceiveLoads ==
  /\ pc["recv"] = "read"
  /\ IF sock.id = 0
     THEN Crash /\ UNCHANGED reading
     ELSE CGoto("recv", "reading") /\ reading' = [id |-> sock.id, epoch |-> sock.epoch]
  /\ UNCHANGED <<calive, link, back, parts, newest, send_q, user, stop, counters>>

\* The socket that is read from has been deleted.
StaleReader == pc["recv"] = "reading" /\ reading.id # sock.id

\* Something can be read.  What a deleted socket gives is undefined: the data
\* that the connection still carried, a failure, or a read that never ends.
DataComes == pc["recv"] = "reading" /\ (StaleReader \/ sock.up)
DataEnds == pc["recv"] = "reading" /\ (StaleReader \/ ~sock.up)

MessageOver == back' = "check" /\ reading' = Null /\ parts' = 0 /\ newest' = 0

Latest == IF newest < reading.epoch THEN reading.epoch ELSE newest

\* The tag, the length or the flags.
ReceivePart ==
  /\ DataComes /\ parts < 3
  /\ parts' = parts + 1
  /\ newest' = Latest
  /\ reading' = Null
  /\ CGoto("recv", "read")
  /\ UNCHANGED <<calive, link, back, send_q, user, stop, counters>>

\* The data, and the message is posted up.
ReceiveMessage ==
  /\ DataComes /\ parts = 3 /\ received < MaxMessages
  /\ receive_q' = Append(receive_q, Message(Latest))
  /\ received' = received + 1
  /\ MessageOver
  /\ CGoto("recv", "check")
  /\ UNCHANGED <<calive, link, send_q, flagged, seen, stop, posted, trouble>>

\* An unrecognised tag: the socket is restarted at once.
ReceiveGarbage ==
  /\ DataComes /\ parts = 0 /\ Trouble
  /\ MessageOver
  /\ CGoto("recv", "restart")
  /\ UNCHANGED <<calive, link, send_q, user, stop, posted, received>>

\* The connection ends within the data: likewise.
ReceiveShort ==
  /\ DataEnds /\ parts = 3
  /\ MessageOver
  /\ CGoto("recv", "restart")
  /\ UNCHANGED <<calive, link, send_q, user, stop, counters>>

\* A SocketError: with the client alive there is a pause first.
Failed(t) == CGoto(t, IF calive THEN "pause" ELSE IF t = "recv" THEN "nap" ELSE "top")

ReceiveFails ==
  /\ DataEnds
  /\ MessageOver
  /\ Failed("recv")
  /\ UNCHANGED <<calive, link, send_q, user, stop, counters>>

\* The pause ends.
\* Mutant: the receive thread leaves the restart to the send thread.
NoRestart(t) ==
  /\ pc[t] = "pause"
  /\ CGoto(t, IF t = "recv" THEN "nap" ELSE IF calive THEN "restart" ELSE "top")
  /\ UNCHANGED <<calive, link, readVars, send_q, user, stop, counters>>

PauseEnds(t) ==
  /\ pc[t] = "pause"
  /\ CGoto(t, IF calive THEN "restart" ELSE IF t = "recv" THEN "nap" ELSE "top")
  /\ UNCHANGED <<calive, link, readVars, send_q, user, stop, counters>>

-----------------------------------------------------------------------------
(* ClientSendThread::run() and Client::send_messages() *)

SendTop ==
  /\ pc["send"] = "top"
  /\ CGoto("send", IF calive THEN "wait" ELSE "dead")
  /\ UNCHANGED <<calive, link, readVars, send_q, user, stop, counters>>

\* send_q.wait(), and back when the client is not alive.
SendTakes ==
  /\ pc["send"] = "wait" /\ send_q > 0
  /\ send_q' = send_q - 1
  /\ CGoto("send", IF calive THEN "look" ELSE "top")
  /\ UNCHANGED <<calive, link, readVars, user, stop, counters>>

\* check_socket(): the thread sleeps and looks again while it is unhappy.
\* Mutant: it does not look at alive when it wakes.
SleepsOn ==
  /\ pc["send"] = "look" /\ mutex = "free" /\ sock.connected
  /\ CGoto("send", "write")
  /\ UNCHANGED <<calive, link, readVars, send_q, user, stop, counters>>

SendLooks ==
  /\ pc["send"] = "look" /\ mutex = "free"
  /\ \/ sock.connected /\ CGoto("send", "write")
     \/ ~sock.connected /\ ~calive /\ CGoto("send", "top")
  /\ UNCHANGED <<calive, link, readVars, send_q, user, stop, counters>>

\* The message is written under the mutex, perhaps into a connection that has
\* gone, or it is lost with a SocketError.
SendWrites ==
  /\ pc["send"] = "write" /\ mutex = "free"
  /\ \/ sock.connected /\ CGoto("send", "top")
     \/ ~sock.up /\ Failed("send")
  /\ UNCHANGED <<calive, link, readVars, send_q, user, stop, counters>>

-----------------------------------------------------------------------------
(* The user's threads, shutdown() and the server *)

\* send(), which polls the length of the queue.
Post ==
  /\ ~Crashed
  /\ posted < MaxPosts /\ send_q <= MaxSend
  /\ posted' = posted + 1
  /\ send_q' = send_q + 1
  /\ UNCHANGED <<calive, link, pc, readVars, user, stop, received, trouble>>

\* wait(): false for an empty message.
Wait ==
  /\ ~Crashed
  /\ receive_q # << >>
  /\ receive_q' = Tail(receive_q)
  /\ seen' = IF Head(receive_q) = Flag THEN seen + 1 ELSE seen
  /\ UNCHANGED <<calive, link, pc, readVars, send_q, flagged, stop, counters>>

\* shutdown(): alive is cleared, the socket is shut down without the mutex,
\* both queues get a bogus message, and the threads are waited for and joined.
ShutdownBegins ==
  /\ stop = "no" /\ ~Crashed
  /\ stop' = "alive" /\ calive' = FALSE
  /\ UNCHANGED <<link, pc, readVars, send_q, user, counters>>

ShutdownSocket ==
  /\ stop = "alive" /\ ~Crashed
  /\ stop' = "socket"
  /\ sock' = [sock EXCEPT !.up = FALSE]
  /\ UNCHANGED <<calive, opened, mutex, pc, readVars, send_q, user, counters>>

ShutdownQueues ==
  /\ stop = "socket" /\ ~Crashed
  /\ stop' = "queues"
  /\ send_q' = send_q + 1
  /\ receive_q' = Append(receive_q, Flag)
  /\ UNCHANGED <<calive, link, pc, readVars, flagged, seen, counters>>

ShutdownJoins ==
  /\ stop = "queues" /\ \A t \in ClientThread : pc[t] = "dead"
  /\ stop' = "done"
  /\ UNCHANGED <<calive, link, pc, readVars, send_q, user, counters>>

ConnectionLost ==
  /\ sock.up /\ Trouble /\ ~Crashed
  /\ sock' = [sock EXCEPT !.up = FALSE]
  /\ UNCHANGED <<calive, opened, mutex, pc, readVars, send_q, user, stop, posted, received>>

-----------------------------------------------------------------------------
ReceiveRun ==
  ReceiveTop \/ ReceiveCheck \/ ReceiveLoads \/ PauseEnds("recv") \/ Restart("recv")
ReceiveRead == ReceivePart \/ ReceiveMessage \/ ReceiveGarbage
ReceiveEnds == ReceiveShort \/ ReceiveFails
SendRun == SendTop \/ SendTakes \/ SendLooks \/ SendWrites \/ PauseEnds("send") \/ Restart("send")
ShutdownRun == ShutdownSocket \/ ShutdownQueues \/ ShutdownJoins

CNext ==
  \/ ReceiveRun \/ ReceiveRead \/ ReceiveEnds
  \/ SendRun \/ ShutdownRun
  \/ \E t \in ClientThread : NotConnected(t)
  \/ Post \/ Wait \/ ShutdownBegins \/ ConnectionLost

CSpec == CInit /\ [][CNext]_cvars

\* The threads run; a read of a connection that is down fails, one of a
\* deleted socket need not; a connect succeeds when the server is well again.
CFairness ==
  /\ WF_cvars(ReceiveRun)
  /\ WF_cvars(~StaleReader /\ ReceiveEnds)
  /\ WF_cvars(SendRun)
  /\ WF_cvars(ShutdownRun)

CFairSpec == CSpec /\ CFairness

-----------------------------------------------------------------------------
\* Flags that wait() has returned, or will before it returns message i.
Told(i) == seen + Cardinality({j \in 1..(i - 1) : receive_q[j] = Flag})

\* Message i comes from a connection that the user has not been told of.
Overtakes(i) == receive_q[i] # Flag /\ receive_q[i].epoch > Told(i)

\* wait() returns false for a restart before it returns the messages of the new
\* connection, so that the user can subscribe again, but for one: while the
\* send thread restarts the socket, the receive thread may be between two reads
\* and have a message of the new socket posted up before the flag is; it then
\* waits for the mutex.
OneOvertakes ==
  \A i \in 1..Len(receive_q) : Overtakes(i) =>
    /\ receive_q[i].epoch = Told(i) + 1
    /\ \A j \in 1..Len(receive_q) :
         Overtakes(j) /\ receive_q[j].epoch = receive_q[i].epoch => j = i

\* A connection that is lost is opened again, unless the client is shut down
\* or the receive thread uses a socket that the send thread deleted: it may be
\* caught in it, or find the pointer null.
Recovers == ~sock.up ~> (sock.up \/ ~calive \/ StaleReader \/ Crashed)

\* shutdown() ends both threads, with one exception: a restart that was under
\* way leaves the receive thread reading from a connection that nobody shuts
\* down, or using a deleted socket.
ShutdownStops ==
  ~calive ~> \/ Crashed
             \/ /\ pc["send"] = "dead"
                /\ pc["recv"] = "dead" \/ (pc["recv"] = "reading" /\ (StaleReader \/ sock.up))

\* The receive thread never reads from a socket that has been deleted.
\* ("Ensure this is called only in one thread (the receive thread)",
\* client.cc:70, of restart_socket().)
ReaderSocketLive == ~StaleReader
=============================================================================
