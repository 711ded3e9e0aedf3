------------------------------- MODULE RWMutex ------------------------------
(***************************************************************************)
(* ObTools::MT::RWMutex (libs/mt/ot-mt.h): the recursive reader/writer     *)
(* lock behind the session maps of tube, the publisher of xmlmesh and the  *)
(* caches.  The internal mutex `mymutex' is held from the entry of an      *)
(* operation to its end, except inside condition_variable::wait, so every  *)
(* action below is one such section: from the entry, or from the return    *)
(* of a wait, to the next wait or to the end of the operation.             *)
(*                                                                         *)
(* Clients are threads that nest RWReadLock and RWWriteLock scopes in any  *)
(* way the class comment allows (no write within a read).                  *)
(***************************************************************************)
EXTENDS Naturals, Sequences, FiniteSets

CONSTANTS Thread,    \* the client threads
          NoThread,  \* the default-constructed thread::id
          MaxDepth   \* bound on the nesting of one thread's scopes

ASSUME ThreadAssumption   == IsFiniteSet(Thread) /\ NoThread \notin Thread
ASSUME MaxDepthAssumption == MaxDepth \in Nat \ {0}

VARIABLES
  readers_active,    \* number of counted read holds
  writers_waiting,   \* number of writers queued
  writer_active,     \* a writer has the lock
  count,             \* recursion count of the active writer
  writer,            \* id of the latest writer
  held,              \* held[t]: the scopes t is in, innermost last
  pc,                \* where each thread is: see Location
  asleep             \* threads blocked inside a condition_variable::wait

vars == <<readers_active, writers_waiting, writer_active, count, writer,
          held, pc, asleep>>

\* "run": in client code.  The others are the three waits of the class:
\*   "rwait" on no_writer in lock_reader, "wgate" on no_readers and
\*   "wturn" on no_writer in lock_writer.
Location == {"run", "rwait", "wgate", "wturn"}
Mode     == {"R", "W"}

HoldsRead(t)  == held[t] # << >> /\ held[t][1] = "R"
HoldsWrite(t) == held[t] # << >> /\ held[t][1] = "W"
Queued        == {t \in Thread : pc[t] \in {"wgate", "wturn"}}

\* Mutant: unlock_writer wakes writers only.
WritersOnNoWriter == {t \in Thread : pc[t] = "wturn"}

\* notify_all on each of the two condition variables.
OnNoReaders == {t \in Thread : pc[t] = "wgate"}
OnNoWriter  == {t \in Thread : pc[t] \in {"rwait", "wturn"}}

\* "Check if we already own this as a writer".
Own(t) == writer_active /\ writer = t

Enter(t, m) == held' = [held EXCEPT ![t] = Append(@, m)]
Leave(t)    == held' = [held EXCEPT ![t] = SubSeq(@, 1, Len(@) - 1)]
Goto(t, l)  == pc' = [pc EXCEPT ![t] = l]

\* The constructor leaves count uninitialised: any value will do.
Init ==
  /\ readers_active = 0
  /\ writers_waiting = 0
  /\ writer_active = FALSE
  /\ count \in 0..MaxDepth
  /\ writer = NoThread
  /\ held = [t \in Thread |-> << >>]
  /\ pc = [t \in Thread |-> "run"]
  /\ asleep = {}

-----------------------------------------------------------------------------
(* Readers *)

\* Mutant: queued writers are forgotten, only an active one counts.
ActiveWriterOnly == writer_active

Writing == writers_waiting > 0 \/ writer_active

WaitNoWriter(t) ==
  /\ Goto(t, "rwait")
  /\ asleep' = asleep \cup {t}
  /\ UNCHANGED <<readers_active, held>>

ClaimRead(t) ==
  /\ readers_active' = readers_active + 1
  /\ Enter(t, "R")
  /\ Goto(t, "run")
  /\ UNCHANGED asleep

\* Mutant: every reader looks for writers, the recursive one too.
lock_reader_eager(t) ==
  /\ pc[t] = "run"
  /\ Len(held[t]) < MaxDepth
  /\ \/ Own(t) /\ Enter(t, "R") /\ UNCHANGED <<readers_active, pc, asleep>>
     \/ ~Own(t) /\ Writing /\ WaitNoWriter(t)
     \/ ~Own(t) /\ ~Writing /\ ClaimRead(t)
  /\ UNCHANGED <<writers_waiting, writer_active, count, writer>>

\* Only the first reader in looks for writers.
lock_reader(t) ==
  /\ pc[t] = "run"
  /\ Len(held[t]) < MaxDepth
  /\ \/ Own(t) /\ Enter(t, "R") /\ UNCHANGED <<readers_active, pc, asleep>>
     \/ ~Own(t) /\ readers_active = 0 /\ Writing /\ WaitNoWriter(t)
     \/ ~Own(t) /\ (readers_active > 0 \/ ~Writing) /\ ClaimRead(t)
  /\ UNCHANGED <<writers_waiting, writer_active, count, writer>>

\* A reader that has waited looks again, whatever readers_active says now.
lock_reader_woken(t) ==
  /\ pc[t] = "rwait"
  /\ t \notin asleep
  /\ IF Writing THEN WaitNoWriter(t) ELSE ClaimRead(t)
  /\ UNCHANGED <<writers_waiting, writer_active, count, writer>>

MayUnlock(t, m) ==
  /\ pc[t] = "run"
  /\ held[t] # << >>
  /\ held[t][Len(held[t])] = m

\* Mutant: a read inside a write is counted down like any other.
unlock_reader_always(t) ==
  /\ MayUnlock(t, "R")
  /\ Leave(t)
  /\ readers_active' = readers_active - 1
  /\ asleep' = IF readers_active' = 0 THEN asleep \ OnNoReaders ELSE asleep
  /\ UNCHANGED <<writers_waiting, writer_active, count, writer, pc>>

unlock_reader(t) ==
  /\ MayUnlock(t, "R")
  /\ Leave(t)
  /\ \/ Own(t) /\ UNCHANGED <<readers_active, asleep>>
     \/ /\ ~Own(t)
        /\ readers_active' = readers_active - 1
        /\ asleep' = IF readers_active' = 0 THEN asleep \ OnNoReaders
                                            ELSE asleep
  /\ UNCHANGED <<writers_waiting, writer_active, count, writer, pc>>

-----------------------------------------------------------------------------
(* Writers.  `waiting' is the value of writers_waiting inside the section. *)

PassWriterGate(t, waiting) ==
  \/ /\ writer_active
     /\ Goto(t, "wturn")
     /\ asleep' = asleep \cup {t}
     /\ writers_waiting' = waiting
     /\ UNCHANGED <<writer_active, writer, count, held>>
  \/ /\ ~writer_active
     /\ writers_waiting' = waiting - 1
     /\ writer_active' = TRUE
     /\ writer' = t
     /\ count' = 1
     /\ Enter(t, "W")
     /\ Goto(t, "run")
     /\ UNCHANGED asleep

PassReaderGate(t, waiting) ==
  \/ /\ readers_active > 0
     /\ Goto(t, "wgate")
     /\ asleep' = asleep \cup {t}
     /\ writers_waiting' = waiting
     /\ UNCHANGED <<writer_active, writer, count, held>>
  \/ /\ readers_active = 0
     /\ PassWriterGate(t, waiting)

\* Mutant: a nested write is not counted.
lock_writer_uncounted(t) ==
  /\ pc[t] = "run"
  /\ Len(held[t]) < MaxDepth
  /\ ~HoldsRead(t)
  /\ \/ /\ Own(t)
        /\ Enter(t, "W")
        /\ UNCHANGED <<count, writers_waiting, writer_active, writer, pc, asleep>>
     \/ ~Own(t) /\ PassReaderGate(t, writers_waiting + 1)
  /\ UNCHANGED readers_active

\* "A write within a read is NOT OK": clients never try it.
lock_writer(t) ==
  /\ pc[t] = "run"
  /\ Len(held[t]) < MaxDepth
  /\ ~HoldsRead(t)
  /\ \/ /\ Own(t)
        /\ count' = count + 1
        /\ Enter(t, "W")
        /\ UNCHANGED <<writers_waiting, writer_active, writer, pc, asleep>>
     \/ ~Own(t) /\ PassReaderGate(t, writers_waiting + 1)
  /\ UNCHANGED readers_active

lock_writer_woken(t) ==
  /\ t \notin asleep
  /\ \/ pc[t] = "wgate" /\ PassReaderGate(t, writers_waiting)
     \/ pc[t] = "wturn" /\ PassWriterGate(t, writers_waiting)
  /\ UNCHANGED readers_active

\* Mutant: any unlock frees the mutex, the inner ones too.
unlock_writer_always(t) ==
  /\ MayUnlock(t, "W")
  /\ Leave(t)
  /\ count' = count - 1
  /\ writer_active' = FALSE
  /\ asleep' = asleep \ OnNoWriter
  /\ UNCHANGED <<readers_active, writers_waiting, writer, pc>>

unlock_writer(t) ==
  /\ MayUnlock(t, "W")
  /\ Leave(t)
  /\ count' = count - 1
  /\ writer_active' = (writer_active /\ count' # 0)
  /\ asleep' = IF count' = 0 THEN asleep \ OnNoWriter ELSE asleep
  /\ UNCHANGED <<readers_active, writers_waiting, writer, pc>>

-----------------------------------------------------------------------------
\* std::condition_variable::wait may return without a notification.
SpuriousWakeup(t) ==
  /\ t \in asleep
  /\ asleep' = asleep \ {t}
  /\ UNCHANGED <<readers_active, writers_waiting, writer_active, count,
                 writer, held, pc>>

Lock(t)   == lock_reader(t) \/ lock_writer(t)
Woken(t)  == lock_reader_woken(t) \/ lock_writer_woken(t)
Unlock(t) == unlock_reader(t) \/ unlock_writer(t)

Next == \E t \in Thread : Lock(t) \/ Woken(t) \/ Unlock(t) \/ SpuriousWakeup(t)

Spec == Init /\ [][Next]_vars

\* A notified thread gets mymutex back and runs; a client leaves its scopes.
\* Nothing makes a client lock, and nothing wakes a thread spuriously.
Fairness == \A t \in Thread : WF_vars(Woken(t)) /\ WF_vars(Unlock(t))

FairSpec == Spec /\ Fairness

-----------------------------------------------------------------------------
(* Properties *)

\* The state variables keep their C++ types; threads blocked in a wait are in
\* one of the three waits of lock_reader and lock_writer.
TypeOK ==
  /\ readers_active \in Nat
  /\ writers_waiting \in Nat
  /\ writer_active \in BOOLEAN
  /\ count \in Nat
  /\ writer \in Thread \cup {NoThread}
  /\ held \in [Thread -> Seq(Mode)]
  /\ pc \in [Thread -> Location]
  /\ asleep \subseteq {t \in Thread : pc[t] # "run"}

\* Mutual exclusion: while a thread is in a write scope no other thread is in
\* a scope of either kind, whatever was nested and whoever was woken first.
Exclusion ==
  \A t, u \in Thread : HoldsWrite(t) /\ t # u => held[u] = << >>

\* "A read within another read is OK": a thread that holds the lock is never
\* put to sleep by lock_reader or lock_writer, even when a writer has queued
\* between its outer and its inner read (the deadlock the comment in
\* lock_reader warns of).
HoldersNeverBlock ==
  \A t \in Thread : pc[t] # "run" => held[t] = << >>

\* The counted read holds: every scope of a thread whose outermost one is a
\* read; a read inside a write is not counted.
SharedHolds ==
  {h \in Thread \X (1..MaxDepth) : HoldsRead(h[1]) /\ h[2] <= Len(held[h[1]])}

\* readers_active and writers_waiting agree with who holds and who queues, and
\* count with the write scopes of the owner: an unlock in the wrong branch of
\* the recursion test would make them drift apart.
CountsExact ==
  /\ readers_active = Cardinality(SharedHolds)
  /\ writers_waiting = Cardinality(Queued)
  /\ writer_active =>
       count = Cardinality({i \in DOMAIN held[writer] : held[writer][i] = "W"})

\* No lost wakeup: when nobody holds the lock and somebody is waiting for it,
\* somebody gets it, by the notifications of unlock_reader and unlock_writer
\* alone.
Free    == \A t \in Thread : held[t] = << >>
Waiting == \E t \in Thread : pc[t] # "run"
LockHandedOn == (Free /\ Waiting) ~> ~Free

\* When writers are queued, some writer gets the lock: readers cannot keep all
\* of them out for ever.  The class comment says "Implements writer priority"
\* and lock_writer counts itself in writers_waiting "to ensure priority".
WriterPriority ==
  (Queued # {}) ~> (\E t \in Thread : HoldsWrite(t))

\* The mutex implements the abstract lock: every section either changes no
\* hold, or acquires or releases one as the abstract lock allows.
Abstract == INSTANCE RWLock WITH Thread <- Thread, MaxDepth <- MaxDepth, held <- held
ImplementsRWLock == Abstract!Spec
=============================================================================
