-------------------------------- MODULE Fifo --------------------------------
(***************************************************************************)
(* What a bounded queue between one writer and one reader promises: items  *)
(* are taken in the order in which they were put, each at most once, and   *)
(* never more than capacity wait.  The reader may skip some.               *)
(***************************************************************************)
EXTENDS Naturals, Sequences

CONSTANTS capacity, Item

VARIABLES queue,    \* items put and not yet taken
          taken     \* the item taken last

FifoInit == queue = << >> /\ taken = 0

Put == \E item \in Item :
  /\ Len(queue) < capacity
  /\ queue' = Append(queue, item)
  /\ UNCHANGED taken

Get ==
  /\ queue # << >>
  /\ taken' = Head(queue)
  /\ queue' = Tail(queue)

Skip == \E n \in 1 .. Len(queue) :
  /\ queue' = SubSeq(queue, n + 1, Len(queue))
  /\ UNCHANGED taken

FifoNext == Put \/ Get \/ Skip
FifoSpec == FifoInit /\ [][FifoNext]_<<queue, taken>>
=============================================================================
