--------------------------- MODULE ConnectionPool ---------------------------
(***************************************************************************)
(* ObTools::DB::ConnectionPool (libs/db/pool.cc, ot-db.h): clients claim   *)
(* and release database connections; a background thread drops failed and  *)
(* inactive ones, refills the pool and times out blocked claims.           *)
(*                                                                         *)
(* Every action is one section under the pool's mutex.  claim() is two: it *)
(* lets the mutex go between finding the pool full and queueing its        *)
(* PendingRequest.  Time is abstracted to which connections have been      *)
(* unused for max_inactivity and which requests are past claim_timeout;    *)
(* the database to which connections still test good and whether the       *)
(* factory succeeds.  The lists of connections are sets: only size and     *)
(* membership matter, not which idle connection is the front one.          *)
(***************************************************************************)
EXTENDS Naturals, Sequences, FiniteSets

CONSTANTS Client,            \* threads that claim and release
          Conn,              \* addresses of Connection objects
          NoConn,            \* the null pointer
          min_connections, max_connections

ASSUME ConnAssumption ==
  IsFiniteSet(Conn) /\ IsFiniteSet(Client) /\ NoConn \notin Conn
ASSUME SizeAssumption ==
  /\ min_connections \in Nat /\ max_connections \in Nat
  /\ min_connections <= max_connections

VARIABLES
  connections,       \* all connections
  available,         \* connections not claimed
  broken,            \* connections that no longer test good
  inactive,          \* connections with last_used max_inactivity ago or more
  pending_requests,  \* the clients whose requests are queued, oldest first
  signalled,         \* clients whose request's `available' is signalled
  overdue,           \* clients whose request was made claim_timeout ago
  held,              \* held[c]: pr->connection, or the connection c uses
  pc                 \* "idle", "gap", "blocked" (in pr->available.wait), "using"

vars == <<connections, available, broken, inactive, pending_requests,
          signalled, overdue, held, pc>>

Goto(c, l) == pc' = [pc EXCEPT ![c] = l]
Give(c, k) == held' = [held EXCEPT ![c] = k]

\* The new connections fill_to_minimum() may add to the set conns: the factory
\* may fail at any of them.
Refills(conns) ==
  {new \in SUBSET (Conn \ conns) :
     new # {} => Cardinality(conns) + Cardinality(new) <= min_connections}

\* The constructor fills the pool.
Init ==
  /\ connections \in Refills({})
  /\ available = connections
  /\ broken = {}
  /\ inactive = {}
  /\ pending_requests = << >>
  /\ signalled = {}
  /\ overdue = {}
  /\ held = [c \in Client |-> NoConn]
  /\ pc = [c \in Client |-> "idle"]

-----------------------------------------------------------------------------
(* claim() *)

\* Mutant: a failed connection is deleted but stays listed.
claim_available_listed(c) ==
  \E failed \in SUBSET (available \cap broken), k \in available \ broken :
    /\ available' = available \ (failed \cup {k})
    /\ broken' = broken \ failed
    /\ inactive' = inactive \ (failed \cup {k})
    /\ Give(c, k)
    /\ Goto(c, "using")
    /\ UNCHANGED connections

\* An available connection that tests good is returned; failed ones met before
\* it are deleted.
claim_available(c) ==
  \E failed \in SUBSET (available \cap broken), k \in available \ broken :
    /\ connections' = connections \ failed
    /\ available' = available \ (failed \cup {k})
    /\ broken' = broken \ failed
    /\ inactive' = inactive \ (failed \cup {k})
    /\ Give(c, k)
    /\ Goto(c, "using")

\* None was good, and all of them are deleted.
NoneAvailable == available \subseteq broken
Remaining     == connections \ available

DropAvailable ==
  /\ available' = {}
  /\ broken' = broken \ available
  /\ inactive' = inactive \ available

\* Mutant: the pool may grow by one more.
claim_new_over(c) ==
  /\ NoneAvailable
  /\ Cardinality(Remaining) <= max_connections
  /\ \E k \in Conn \ Remaining :
       /\ connections' = Remaining \cup {k}
       /\ Give(c, k)
  /\ Goto(c, "using")
  /\ DropAvailable

\* A new connection is created.
claim_new(c) ==
  /\ NoneAvailable
  /\ Cardinality(Remaining) < max_connections
  /\ \E k \in Conn \ Remaining :
       /\ connections' = Remaining \cup {k}
       /\ Give(c, k)
  /\ Goto(c, "using")
  /\ DropAvailable

\* Mutant: what the factory returned is listed before it is looked at.
claim_fails_listed(c) ==
  /\ NoneAvailable
  /\ Cardinality(Remaining) < max_connections
  /\ connections' = Remaining \cup {NoConn}
  /\ DropAvailable
  /\ UNCHANGED <<held, pc>>

\* The factory fails: 0 is returned.
claim_fails(c) ==
  /\ NoneAvailable
  /\ Cardinality(Remaining) < max_connections
  /\ connections' = Remaining
  /\ DropAvailable
  /\ UNCHANGED <<held, pc>>

\* The pool is full: the mutex is released before the request is queued.
claim_full(c) ==
  /\ NoneAvailable
  /\ Cardinality(Remaining) >= max_connections
  /\ connections' = Remaining
  /\ DropAvailable
  /\ Goto(c, "gap")
  /\ UNCHANGED held

claim(c) ==
  /\ pc[c] = "idle"
  /\ claim_available(c) \/ claim_new(c) \/ claim_fails(c) \/ claim_full(c)
  /\ UNCHANGED <<pending_requests, signalled, overdue>>

\* The second section: the request is queued, and the client blocks on it.
claim_queue(c) ==
  /\ pc[c] = "gap"
  /\ pending_requests' = Append(pending_requests, c)
  /\ Goto(c, "blocked")
  /\ UNCHANGED <<connections, available, broken, inactive, signalled, overdue,
                 held>>

\* pr->available.wait() returns, and so does claim(): with a connection, or
\* with 0 after a timeout.
claim_return(c) ==
  /\ pc[c] = "blocked"
  /\ c \in signalled
  /\ signalled' = signalled \ {c}
  /\ overdue' = overdue \ {c}
  /\ Goto(c, IF held[c] = NoConn THEN "idle" ELSE "using")
  /\ UNCHANGED <<connections, available, broken, inactive, pending_requests,
                 held>>

-----------------------------------------------------------------------------
(* release() *)

\* Mutant: a connection given to a request is made available as well.
release_twice(c) ==
  /\ pc[c] = "using"
  /\ Goto(c, "idle")
  /\ available' = available \cup {held[c]}
  /\ \/ /\ pending_requests # << >>
        /\ held' = [held EXCEPT ![c] = NoConn, ![Head(pending_requests)] = held[c]]
        /\ signalled' = signalled \cup {Head(pending_requests)}
        /\ pending_requests' = Tail(pending_requests)
     \/ /\ pending_requests = << >>
        /\ Give(c, NoConn)
        /\ UNCHANGED <<signalled, pending_requests>>
  /\ UNCHANGED <<connections, broken, inactive, overdue>>

\* The connection goes to the first pending request, tested or not, or back to
\* the available ones.  A client releases what it holds, and once, as AutoConnection
\* does; of a second release the code logs an error and changes nothing, unless
\* there is a pending request, to which it gives the connection again.
release(c) ==
  /\ pc[c] = "using"
  /\ Goto(c, "idle")
  /\ \/ /\ pending_requests # << >>
        /\ held' = [held EXCEPT ![c] = NoConn, ![Head(pending_requests)] = held[c]]
        /\ signalled' = signalled \cup {Head(pending_requests)}
        /\ pending_requests' = Tail(pending_requests)
        /\ UNCHANGED available
     \/ /\ pending_requests = << >>
        /\ available' = available \cup {held[c]}
        /\ Give(c, NoConn)
        /\ UNCHANGED <<signalled, pending_requests>>
  /\ UNCHANGED <<connections, broken, inactive, overdue>>

-----------------------------------------------------------------------------
(* run(): one turn of the background loop *)

\* Mutant: every inactive connection is reaped.
ReapableAll(conns, idle) == {inactive \cap idle}

\* Inactive connections are looked at one by one, and reaped while there are
\* more than min_connections: as many as there are, or as exceed the minimum.
Reapable(conns, idle) ==
  {r \in SUBSET (inactive \cap idle) :
     \/ r = inactive \cap idle /\ Cardinality(conns \ r) >= min_connections
     \/ Cardinality(conns \ r) = min_connections
     \/ r = {} /\ Cardinality(conns) <= min_connections}

\* Mutants: the request is not taken off the queue; it is not signalled.
TimeOutKept ==
  /\ signalled' = IF pending_requests # << >> /\ Head(pending_requests) \in overdue
                  THEN signalled \cup {Head(pending_requests)} ELSE signalled
  /\ UNCHANGED pending_requests

TimeOutSilent ==
  /\ pending_requests' = IF pending_requests # << >> /\ Head(pending_requests) \in overdue
                         THEN Tail(pending_requests) ELSE pending_requests
  /\ UNCHANGED signalled

\* "Check for blocked claim request timeout": only the front one.
TimeOutFront ==
  IF pending_requests # << >> /\ Head(pending_requests) \in overdue
  THEN /\ signalled' = signalled \cup {Head(pending_requests)}
       /\ pending_requests' = Tail(pending_requests)
  ELSE UNCHANGED <<signalled, pending_requests>>

run ==
  LET failed == available \cap broken
      good   == connections \ failed
      idle   == available \ failed
  IN  /\ \E reaped \in Reapable(good, idle) :
           \E new \in Refills(good \ reaped) :
             /\ connections' = (good \ reaped) \cup new
             /\ available' = (idle \ reaped) \cup new
             /\ broken' = broken \ failed
             /\ inactive' = ((inactive \cap idle) \ reaped) \ new
      /\ TimeOutFront
      /\ UNCHANGED <<overdue, held, pc>>

-----------------------------------------------------------------------------
(* The database and the clock *)

\* The database drops a connection.
Fails(k) ==
  /\ k \in connections \ broken
  /\ broken' = broken \cup {k}
  /\ UNCHANGED <<connections, available, inactive, pending_requests, signalled,
                 overdue, held, pc>>

\* max_inactivity passes since last_used of k.
GrowsInactive(k) ==
  /\ k \in connections \ inactive
  /\ inactive' = inactive \cup {k}
  /\ UNCHANGED <<connections, available, broken, pending_requests, signalled,
                 overdue, held, pc>>

\* claim_timeout passes since the request of c was made.
GrowsOverdue(c) ==
  /\ pc[c] \in {"gap", "blocked"}
  /\ c \notin overdue
  /\ overdue' = overdue \cup {c}
  /\ UNCHANGED <<connections, available, broken, inactive, pending_requests,
                 signalled, held, pc>>

-----------------------------------------------------------------------------
Next ==
  \/ \E c \in Client : \/ claim(c) \/ claim_queue(c) \/ claim_return(c)
                       \/ release(c) \/ GrowsOverdue(c)
  \/ \E k \in Conn : Fails(k) \/ GrowsInactive(k)
  \/ run

Spec == Init /\ [][Next]_vars

\* The background thread keeps turning, time passes, and a client inside
\* claim() runs when it can.  Clients need not claim, nor ever release.
Fairness ==
  /\ WF_vars(run)
  /\ \A c \in Client : /\ WF_vars(claim_queue(c))
                       /\ WF_vars(claim_return(c))
                       /\ WF_vars(GrowsOverdue(c))

FairSpec == Spec /\ Fairness

-----------------------------------------------------------------------------
(* Properties *)

\* Types of the lists and of the requests.
TypeOK ==
  /\ connections \subseteq Conn
  /\ available \subseteq Conn
  /\ broken \subseteq Conn
  /\ inactive \subseteq Conn
  /\ pending_requests \in Seq(Client)
  /\ signalled \subseteq Client
  /\ overdue \subseteq Client
  /\ held \in [Client -> Conn \cup {NoConn}]
  /\ pc \in [Client -> {"idle", "gap", "blocked", "using"}]

\* No connection has two users: what a client uses, or a served request has
\* been given, is neither available nor held by any other client, and it has
\* not been deleted by the background thread or by another claim().
ExclusiveUse ==
  \A c \in Client : held[c] # NoConn =>
    /\ held[c] \in connections \ available
    /\ \A d \in Client \ {c} : held[d] # held[c]

\* No connection is lost: each one is available, or some client uses it or is
\* about to return from claim() with it.
NoneLost ==
  /\ available \subseteq connections
  /\ \A k \in connections \ available : \E c \in Client : held[c] = k

\* A request is answered once: a queued request has not been signalled, by a
\* release() or by a timeout, and is queued once; a request that is blocked
\* and not queued has been signalled; a client at work has its connection.
RequestsAnswered ==
  /\ \A i \in DOMAIN pending_requests :
       LET c == pending_requests[i] IN
       /\ pc[c] = "blocked" /\ c \notin signalled /\ held[c] = NoConn
       /\ \A j \in DOMAIN pending_requests : pending_requests[j] = c => i = j
  /\ \A c \in Client :
       /\ pc[c] = "blocked" /\ c \notin signalled
            => \E i \in DOMAIN pending_requests : pending_requests[i] = c
       /\ pc[c] = "using" => held[c] # NoConn
       /\ pc[c] \in {"idle", "gap"} => held[c] = NoConn
       /\ c \in signalled => pc[c] = "blocked"

\* "Maximum ever created".
PoolBound == Cardinality(connections) <= max_connections

\* The background thread reaps inactive connections only down to the minimum:
\* while the database drops none the pool never falls below it.
KeepsMinimum ==
  [][broken = {} /\ Cardinality(connections) >= min_connections
       => Cardinality(connections') >= min_connections]_vars

\* claim() returns: a client that finds the pool full is not left blocked,
\* whether or not anybody releases a connection.
ClaimReturns ==
  \A c \in Client : (pc[c] \in {"gap", "blocked"}) ~> (pc[c] \in {"idle", "using"})

\* "Returns connection, or 0 if one could not be created or all are active":
\* when the background thread fails a request, no connection is available.
FailsOnlyWhenAllActive ==
  [][\A c \in Client : c \in signalled' \ signalled /\ held'[c] = NoConn
       => available' = {}]_vars
=============================================================================
