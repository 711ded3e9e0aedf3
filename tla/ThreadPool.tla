----------------------------- MODULE ThreadPool -----------------------------
(***************************************************************************)
(* ObTools::MT::ThreadPool and PoolThread (libs/mt/ot-mt.h, pool.cc): the  *)
(* pool behind TCPServer, the tube server and FunctionPool.                *)
(*                                                                         *)
(* A process is a pool thread (Worker) or a user of the pool (Client);     *)
(* Main calls shutdown() and the setters.  An action is one section under  *)
(* the pool's `mymutex', or one access to a flag outside it: the reads of  *)
(* shutting_down and dying and the write of in_use.clear() take no lock.   *)
(* The mutex is a variable because replace() and shutdown() join other     *)
(* threads while they hold it.                                             *)
(***************************************************************************)
EXTENDS Integers, Sequences, FiniteSets, FiniteSetsExt, Lists

CONSTANTS Worker,       \* addresses at which pool threads are allocated
          Client,       \* threads that call wait(), kick() and replace()
          Main,         \* the thread that calls shutdown() and the setters
          Nobody,       \* no process, no worker
          MinChoices,   \* values min_spares is given
          MaxChoices,   \* values max_threads is given (0 = no limit)
          UIntSize      \* number of values of unsigned int, scaled down

ASSUME ProcAssumption ==
  /\ IsFiniteSet(Worker) /\ Worker \subseteq Nat
  /\ IsFiniteSet(Client)
  /\ Worker \cap Client = {}
  /\ Main \notin Worker \cup Client
  /\ Nobody \notin Worker \cup Client \cup {Main}
ASSUME SizeAssumption ==
  /\ UIntSize \in Nat /\ UIntSize > Cardinality(Worker) + 1
  /\ MinChoices \subseteq 0..(UIntSize - 1)
  /\ MaxChoices \subseteq 0..(UIntSize - 1)

VARIABLES
  spares, actives,           \* the two lists of the pool
  min_spares, max_threads,
  shutting_down,
  mymutex,                   \* the process that holds the mutex across steps
  pc,                        \* where each process is
  in_use, dying, running,    \* the flags of each worker
  got,                       \* got[c]: the worker client c was given
  victim                     \* the spare a replace() is killing

poolVars   == <<spares, actives, min_spares, max_threads, shutting_down, mymutex>>
workerVars == <<in_use, dying, running>>
vars       == <<poolVars, workerVars, pc, got, victim>>

Proc == Worker \cup Client \cup {Main}

Unallocated == {w \in Worker : pc[w] = "none"}
Allocated   == Worker \ Unallocated

Goto(p, l) == pc' = [pc EXCEPT ![p] = l]

-----------------------------------------------------------------------------
(* fill() *)

\* "Always creates at least one spare".
WantedSpares(min) == IF min = 0 THEN 1 ELSE min

\* Mutant: the threads at work are left out of the limit.
ShortfallOfSpares(spare, active, wanted, limit, free) ==
  LET room == IF limit = 0 THEN free ELSE limit - spare
  IN  Max({0, Min({wanted - spare, room, free})})

\* How many threads fill() creates, one by one, before its loop ends (or the
\* addresses run out, which bounds a pool without a limit).
Shortfall(spare, active, wanted, limit, free) ==
  LET room == IF limit = 0 THEN free ELSE limit - spare - active
  IN  Max({0, Min({wanted - spare, room, free})})

\* n new threads, as a list.  Addresses are interchangeable, so the allocator
\* may as well take the lowest free ones in order.
NewThreads(from, n) ==
  {s \in [1..n -> from] :
     \A i \in 1..n : Cardinality({w \in from : w < s[i]}) = i - 1}

\* What fill() may append now, for a given setting of min_spares.
Fill(min) ==
  NewThreads(Unallocated,
             Shortfall(Len(spares), Len(actives), WantedSpares(min),
                       max_threads, Cardinality(Unallocated)))

\* PoolThread's constructor: !in_use, started, waiting to be kicked.
Construct(ws) ==
  /\ in_use'  = [w \in Worker |-> IF w \in ws THEN FALSE ELSE in_use[w]]
  /\ dying'   = [w \in Worker |-> IF w \in ws THEN FALSE ELSE dying[w]]
  /\ running' = [w \in Worker |-> IF w \in ws THEN TRUE ELSE running[w]]

Started(ws, f) == [p \in Proc |-> IF p \in ws THEN "wait" ELSE f[p]]

\* The constructor of the pool fills it.
Init ==
  /\ min_spares \in MinChoices
  /\ max_threads \in MaxChoices
  /\ actives = << >>
  /\ shutting_down = FALSE
  /\ mymutex = Nobody
  /\ got = [c \in Client |-> Nobody]
  /\ victim = Nobody
  /\ spares \in NewThreads(Worker, Shortfall(0, 0, WantedSpares(min_spares),
                                            max_threads, Cardinality(Worker)))
  /\ in_use = [w \in Worker |-> FALSE]
  /\ dying = [w \in Worker |-> FALSE]
  /\ running = [w \in Worker |-> w \in Range(spares)]
  /\ pc = [p \in Proc |-> IF p \in Worker
                          THEN IF p \in Range(spares) THEN "wait" ELSE "none"
                          ELSE "idle"]

-----------------------------------------------------------------------------
(* wait() and remove(), called by a client; kick() *)

\* wait() tests shutting_down, and so does remove(): neither takes the lock.
wait(c) ==
  /\ pc[c] \in {"idle", "waiting"}
  /\ Goto(c, IF shutting_down THEN "idle" ELSE "remove")
  /\ shutting_down => pc[c] = "waiting"
  /\ UNCHANGED <<poolVars, workerVars, got, victim>>

\* Mutant: wait() gives up when there is no spare.
remove_once(c) ==
  /\ pc[c] = "remove"
  /\ mymutex = Nobody
  /\ \E new \in Fill(min_spares) :
       LET sp == spares \o new IN
       /\ Construct(Range(new))
       /\ IF sp = << >>
          THEN /\ pc' = [Started(Range(new), pc) EXCEPT ![c] = "idle"]
               /\ UNCHANGED <<spares, actives, got>>
          ELSE /\ pc' = [Started(Range(new), pc) EXCEPT ![c] = "got"]
               /\ spares' = Tail(sp)
               /\ actives' = Append(actives, Head(sp))
               /\ got' = [got EXCEPT ![c] = Head(sp)]
  /\ UNCHANGED <<min_spares, max_threads, shutting_down, mymutex, victim>>

\* The locked part of remove(); without a spare wait() goes round again.
remove(c) ==
  /\ pc[c] = "remove"
  /\ mymutex = Nobody
  /\ \E new \in Fill(min_spares) :
       LET sp == spares \o new IN
       /\ Construct(Range(new))
       /\ IF sp = << >>
          THEN /\ pc' = [Started(Range(new), pc) EXCEPT ![c] = "waiting"]
               /\ UNCHANGED <<spares, actives, got>>
          ELSE /\ pc' = [Started(Range(new), pc) EXCEPT ![c] = "got"]
               /\ spares' = Tail(sp)
               /\ actives' = Append(actives, Head(sp))
               /\ got' = [got EXCEPT ![c] = Head(sp)]
  /\ UNCHANGED <<min_spares, max_threads, shutting_down, mymutex, victim>>

\* After a shutdown the object may be gone: the write then hits freed memory,
\* and changes no pool thread.
kick(c) ==
  /\ pc[c] = "got"
  /\ in_use' = IF got[c] \in Allocated THEN [in_use EXCEPT ![got[c]] = TRUE]
                                       ELSE in_use
  /\ got' = [got EXCEPT ![c] = Nobody]
  /\ Goto(c, "idle")
  /\ UNCHANGED <<poolVars, dying, running, victim>>

\* The client found no use for the thread and calls replace() (TCPServer::run
\* when a peer is refused).
refuse(c) ==
  /\ pc[c] = "got"
  /\ Goto(c, "replace")
  /\ UNCHANGED <<poolVars, workerVars, got, victim>>

-----------------------------------------------------------------------------
(* The thread function of PoolThread::start() *)

\* in_use.wait() has returned: "Check for die request".
woken(w) ==
  /\ pc[w] = "wait"
  /\ in_use[w]
  /\ Goto(w, IF dying[w] THEN "ending" ELSE "run")
  /\ UNCHANGED <<poolVars, workerVars, got, victim>>

\* run() of the subclass returns, and dying is looked at again.
run_returns(w) ==
  /\ pc[w] = "run"
  /\ Goto(w, IF dying[w] THEN "ending" ELSE "clear")
  /\ UNCHANGED <<poolVars, workerVars, got, victim>>

\* Mutant: in_use is not cleared before the thread goes back to the spares.
clear_forgotten(w) ==
  /\ pc[w] = "clear"
  /\ Goto(w, "replace")
  /\ UNCHANGED <<poolVars, workerVars, got, victim>>

\* in_use.clear(), then replacer.replace(this).
clear(w) ==
  /\ pc[w] = "clear"
  /\ in_use' = [in_use EXCEPT ![w] = FALSE]
  /\ Goto(w, "replace")
  /\ UNCHANGED <<poolVars, dying, running, got, victim>>

\* running.signal(false), and the thread is over.
ends(w) ==
  /\ pc[w] = "ending"
  /\ running' = [running EXCEPT ![w] = FALSE]
  /\ Goto(w, "exited")
  /\ UNCHANGED <<poolVars, in_use, dying, got, victim>>

-----------------------------------------------------------------------------
(* replace(t), called by t itself or by the client that holds t *)

Replacing(p) == IF p \in Worker THEN p ELSE got[p]
AfterReplace(p) == IF p \in Worker THEN "wait" ELSE "idle"
Dropped(p) == IF p \in Client THEN [got EXCEPT ![p] = Nobody] ELSE got

\* The test of shutting_down, before the lock: "Just lose it".
replace(p) ==
  /\ pc[p] = "replace"
  /\ IF shutting_down
     THEN Goto(p, AfterReplace(p)) /\ got' = Dropped(p)
     ELSE Goto(p, "lock") /\ UNCHANGED got
  /\ UNCHANGED <<poolVars, workerVars, victim>>

\* Mutant: no allowance for the thread about to be returned.
TooManySparesOffByOne(sp) == Len(sp) > min_spares

\* spares.size() && spares.size() > min_spares-1, in unsigned arithmetic.
TooManySpares(sp) == Len(sp) > 0 /\ Len(sp) > (min_spares - 1) % UIntSize

\* Mutant: the thread is told to die but not woken.
die_unsignalled(t) ==
  /\ dying' = IF running[t] THEN [dying EXCEPT ![t] = TRUE] ELSE dying
  /\ UNCHANGED in_use

\* PoolThread::die() up to the join: nothing if the thread is not running.
die(t) ==
  /\ dying'  = IF running[t] THEN [dying EXCEPT ![t] = TRUE] ELSE dying
  /\ in_use' = IF running[t] THEN [in_use EXCEPT ![t] = TRUE] ELSE in_use

\* Mutant: the thread to kill is not taken off the list.
TrimKeeping(p, sp) ==
  /\ spares' = sp
  /\ victim' = sp[Len(sp)]
  /\ die(sp[Len(sp)])
  /\ mymutex' = p
  /\ UNCHANGED got

\* The loop that empties the spares, one turn up to the join in die(true), and
\* what follows it: t goes back to the spares.
Trim(p, sp) ==
  /\ spares' = SubSeq(sp, 1, Len(sp) - 1)
  /\ victim' = sp[Len(sp)]
  /\ die(sp[Len(sp)])
  /\ mymutex' = p
  /\ UNCHANGED got

Return(p, sp) ==
  /\ spares' = Append(sp, Replacing(p))
  /\ victim' = Nobody
  /\ mymutex' = Nobody
  /\ got' = Dropped(p)
  /\ UNCHANGED <<dying, in_use>>

TrimOrReturn(p, sp) == IF TooManySpares(sp) THEN Trim(p, sp) ELSE Return(p, sp)

\* Mutant: t stays in the actives.
replace_locked_listed(p) ==
  /\ pc[p] = "lock"
  /\ mymutex = Nobody
  /\ TrimOrReturn(p, spares)
  /\ Goto(p, IF TooManySpares(spares) THEN "join" ELSE AfterReplace(p))
  /\ UNCHANGED <<actives, min_spares, max_threads, shutting_down, running>>

replace_locked(p) ==
  /\ pc[p] = "lock"
  /\ mymutex = Nobody
  /\ actives' = Keeping(actives, Worker \ {Replacing(p)})
  /\ TrimOrReturn(p, spares)
  /\ Goto(p, IF TooManySpares(spares) THEN "join" ELSE AfterReplace(p))
  /\ UNCHANGED <<min_spares, max_threads, shutting_down, running>>

\* die(true) has joined its thread: it is deleted, and the loop goes round.
replace_joined(p) ==
  /\ pc[p] = "join"
  /\ pc[victim] = "exited"
  /\ TrimOrReturn(p, spares)
  /\ pc' = [pc EXCEPT ![victim] = "none",
                      ![p] = IF TooManySpares(spares) THEN "join" ELSE AfterReplace(p)]
  /\ UNCHANGED <<actives, min_spares, max_threads, shutting_down, running>>

-----------------------------------------------------------------------------
(* Main: the setters and shutdown() *)

set_min_spares(n) ==
  /\ pc[Main] = "idle"
  /\ mymutex = Nobody
  /\ min_spares' = n
  /\ \E new \in Fill(n) :
       /\ spares' = spares \o new
       /\ Construct(Range(new))
       /\ pc' = Started(Range(new), pc)
  /\ UNCHANGED <<actives, max_threads, shutting_down, mymutex, got, victim>>

set_max_threads(n) ==
  /\ pc[Main] = "idle"
  /\ mymutex = Nobody
  /\ max_threads' = n
  /\ UNCHANGED <<spares, actives, min_spares, shutting_down, mymutex,
                 workerVars, pc, got, victim>>

\* The flag is tested and set before the lock is taken.
shutdown ==
  /\ pc[Main] = "idle"
  /\ ~shutting_down
  /\ shutting_down' = TRUE
  /\ Goto(Main, "lock")
  /\ UNCHANGED <<spares, actives, min_spares, max_threads, mymutex,
                 workerVars, got, victim>>

shutdown_locked ==
  /\ pc[Main] = "lock"
  /\ mymutex = Nobody
  /\ mymutex' = Main
  /\ Goto(Main, "next")
  /\ UNCHANGED <<spares, actives, min_spares, max_threads, shutting_down,
                 workerVars, got, victim>>

\* The thread shutdown() deals with: the actives first, then the spares.
Doomed == Head(actives \o spares)

\* t->die(); after that it waits a little, and deletes t in any case.
shutdown_die ==
  /\ pc[Main] = "next"
  /\ actives \o spares # << >>
  /\ die(Doomed)
  /\ Goto(Main, "delete")
  /\ UNCHANGED <<poolVars, running, got, victim>>

\* delete t: ~Thread() cancels, which clears running and joins.
shutdown_delete ==
  /\ pc[Main] = "delete"
  /\ running' = [running EXCEPT ![Doomed] = FALSE]
  /\ Goto(Main, "join")
  /\ UNCHANGED <<poolVars, in_use, dying, got, victim>>

shutdown_joined ==
  /\ pc[Main] = "join"
  /\ pc[Doomed] = "exited"
  /\ pc' = [pc EXCEPT ![Doomed] = "none", ![Main] = "next"]
  /\ IF actives # << >>
     THEN actives' = Tail(actives) /\ UNCHANGED spares
     ELSE spares' = Tail(spares) /\ UNCHANGED actives
  /\ UNCHANGED <<min_spares, max_threads, shutting_down, mymutex,
                 workerVars, got, victim>>

shutdown_returns ==
  /\ pc[Main] = "next"
  /\ actives \o spares = << >>
  /\ mymutex' = Nobody
  /\ Goto(Main, "down")
  /\ UNCHANGED <<spares, actives, min_spares, max_threads, shutting_down,
                 workerVars, got, victim>>

-----------------------------------------------------------------------------
WorkerStep(w) == woken(w) \/ run_returns(w) \/ clear(w) \/ ends(w)
ReplaceStep(p) == replace(p) \/ replace_locked(p) \/ replace_joined(p)
ClientStep(c) == wait(c) \/ remove(c) \/ kick(c) \/ refuse(c)
ShutdownStep == \/ shutdown_locked \/ shutdown_die \/ shutdown_delete
                \/ shutdown_joined \/ shutdown_returns

Next ==
  \/ \E w \in Worker : WorkerStep(w)
  \/ \E p \in Worker \cup Client : ReplaceStep(p)
  \/ \E c \in Client : ClientStep(c)
  \/ \E n \in MinChoices : set_min_spares(n)
  \/ \E n \in MaxChoices : set_max_threads(n)
  \/ shutdown
  \/ ShutdownStep

Spec == Init /\ [][Next]_vars

\* Every thread that can run does, and one that keeps asking for the mutex is
\* not passed over for ever; run() and a client's use of a thread come to an
\* end.  Nothing makes a client ask for a thread, or Main call anything.
Fairness ==
  /\ \A w \in Worker : SF_vars(WorkerStep(w) \/ ReplaceStep(w))
  /\ \A c \in Client : SF_vars(pc[c] # "idle" /\ (ClientStep(c) \/ ReplaceStep(c)))
  /\ SF_vars(ShutdownStep)

FairSpec == Spec /\ Fairness

-----------------------------------------------------------------------------
(* Properties *)

\* Types, and that the flags of the workers belong to allocated ones.
TypeOK ==
  /\ spares \in Seq(Worker) /\ actives \in Seq(Worker)
  /\ min_spares \in MinChoices /\ max_threads \in MaxChoices
  /\ shutting_down \in BOOLEAN
  /\ mymutex \in Proc \cup {Nobody}
  /\ pc \in [Proc -> {"none", "wait", "run", "clear", "ending", "exited",
                      "idle", "waiting", "remove", "got", "replace", "lock",
                      "join", "next", "delete", "down"}]
  /\ in_use \in [Worker -> BOOLEAN]
  /\ dying \in [Worker -> BOOLEAN]
  /\ running \in [Worker -> BOOLEAN]
  /\ got \in [Client -> Worker \cup {Nobody}]
  /\ victim \in Worker \cup {Nobody}

\* Until a shutdown, every thread of the pool is in exactly one place: once in
\* spares, once in actives, being killed by a replace(), or on its way from
\* actives to spares inside that replace(); and the lists hold no thread that
\* has been deleted.  No thread is lost and none is listed twice.
Count(w, s) == Cardinality({i \in DOMAIN s : s[i] = w})
InTransit(w) == \E p \in Worker \cup Client : pc[p] = "join" /\ Replacing(p) = w
PlacedOnce ==
  ~shutting_down =>
    \A w \in Worker :
      Count(w, spares) + Count(w, actives)
        + (IF w = victim THEN 1 ELSE 0) + (IF InTransit(w) THEN 1 ELSE 0)
      = (IF w \in Allocated THEN 1 ELSE 0)

\* Until a shutdown, a thread handed out by remove() is nobody else's, waits
\* to be kicked and has not been told to die: the kick() that follows starts
\* exactly one run().  (in_use.clear() comes before replace() for this.)
HandedOutIdle ==
  ~shutting_down =>
    \A c \in Client : got[c] # Nobody =>
      /\ pc[got[c]] = "wait" /\ ~in_use[got[c]] /\ ~dying[got[c]]
      /\ got[c] \in Range(actives) \/ pc[c] = "join"
      /\ \A d \in Client \ {c} : got[d] # got[c]

\* Until a shutdown no thread is told to die while it works or is in use: only
\* spares above the minimum are killed.
OnlySparesKilled ==
  ~shutting_down =>
    \A w \in Worker : dying[w] /\ w \in Allocated =>
      /\ pc[w] \in {"wait", "ending", "exited"}
      /\ w \notin Range(spares) \cup Range(actives)

\* "not more than 'max' in all": there are never more pool threads than the
\* largest limit set, the ones being killed and replaced included.
ThreadLimit ==
  0 \notin MaxChoices => Cardinality(Allocated) <= Max(MaxChoices)

\* "Empty spares above minimum amount, allowing for the one we're about to
\* replace": a replace() that returns leaves at most the wanted spares.
SparesTrimmed ==
  [][\A p \in Worker \cup Client :
       pc[p] \in {"lock", "join"} /\ pc'[p] \in {"wait", "idle"}
         => Len(spares') <= WantedSpares(min_spares)]_vars

\* "Guarantees to return one eventually, unless it's being shut down": while
\* some client is in wait(), some client is given a thread.
Asking(c) == pc[c] \in {"waiting", "remove"}
WaitServed ==
  (\E c \in Client : Asking(c)) ~> (shutting_down \/ \E c \in Client : pc[c] = "got")

\* Until a shutdown, a replace() that kills spares under the mutex comes to an
\* end: the join cannot wait for a thread that needs the mutex.
ReplaceEnds ==
  \A p \in Worker \cup Client : (pc[p] = "join") ~> (shutting_down \/ pc[p] # "join")

\* "Shut down pool - cancel and stop all threads": a shutdown() returns.
ShutdownReturns == shutting_down ~> (pc[Main] = "down")
=============================================================================
