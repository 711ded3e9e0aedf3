------------------------------- MODULE RWLock -------------------------------
(***************************************************************************)
(* What a multiple-readers / single-writer lock promises its clients, with *)
(* the recursion rules of libs/mt: a thread's nested holds form a stack    *)
(* (the RWReadLock and RWWriteLock objects are scoped), a write may hold   *)
(* further reads and writes inside it, a read only further reads.          *)
(* RWMutex is shown to implement this specification.                       *)
(***************************************************************************)
EXTENDS Naturals, Sequences

CONSTANTS Thread,    \* the client threads
          MaxDepth   \* bound on the nesting of one thread's holds

VARIABLE held        \* held[t]: the nested holds of t, innermost last

HoldsNothing(t) == held[t] = << >>
HoldsRead(t)    == held[t] # << >> /\ held[t][1] = "R"   \* shared with readers
HoldsWrite(t)   == held[t] # << >> /\ held[t][1] = "W"   \* exclusive

\* The effect on held of t entering and of t leaving a scope.
Entered(t, m) == [held EXCEPT ![t] = Append(@, m)]
Left(t)       == [held EXCEPT ![t] = SubSeq(@, 1, Len(@) - 1)]

Init == held = [t \in Thread |-> << >>]

AcquireRead(t) ==
  /\ Len(held[t]) < MaxDepth
  /\ \A u \in Thread \ {t} : ~HoldsWrite(u)
  /\ held' = Entered(t, "R")

AcquireWrite(t) ==
  /\ Len(held[t]) < MaxDepth
  /\ ~HoldsRead(t)
  /\ \A u \in Thread \ {t} : HoldsNothing(u)
  /\ held' = Entered(t, "W")

Release(t) ==
  /\ ~HoldsNothing(t)
  /\ held' = Left(t)

Next == \E t \in Thread : AcquireRead(t) \/ AcquireWrite(t) \/ Release(t)

Spec == Init /\ [][Next]_held
=============================================================================
