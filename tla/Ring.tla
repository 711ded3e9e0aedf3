-------------------------------- MODULE Ring --------------------------------
(***************************************************************************)
(* ObTools::Ring::Buffer (libs/ring/ot-ring.h): a ring without locks, for  *)
(* one thread that puts and one that gets.  A load or store of an atomic   *)
(* index, and the copy of an item, is a step of its own.                   *)
(*                                                                         *)
(* An item is the number of the putter's call that puts it.                *)
(***************************************************************************)
EXTENDS Naturals, Sequences

CONSTANTS Length,     \* number of items asked for
          MaxPuts     \* bound on the items put

ASSUME RingAssumption == Length \in Nat \ {0} /\ MaxPuts \in Nat

VARIABLES
  items, in_index, out_index,   \* the Buffer; there is one slot more than Length
  puts,                         \* the number of the putter's next call
  putter, getter,               \* [pc, index]: where each thread is, what it has loaded
  got, latest                   \* the getter's copy, and the item it got last

ringVars == <<items, in_index, out_index, puts, putter, getter, got, latest>>

Slots == 0 .. Length
Rest == [pc |-> "rest", index |-> 0]

RingInit ==
  /\ items = [i \in Slots |-> 0] /\ in_index = 0 /\ out_index = 0
  /\ puts = 1 /\ putter = Rest /\ getter = Rest /\ got = 0 /\ latest = 0

inc(n) == IF n + 1 >= Length + 1 THEN 0 ELSE n + 1

-----------------------------------------------------------------------------
(* put(): full, or write the item and then publish it *)

\* Mutant: the index is not taken round the ring.
FullUnwrapped == in_index + 1 = out_index

Full == inc(in_index) = out_index

PutLooks ==
  /\ putter.pc = "rest" /\ puts <= MaxPuts
  /\ ~Full
  /\ putter' = [pc |-> "write", index |-> inc(in_index)]
  /\ UNCHANGED <<items, in_index, out_index, puts, getter, got, latest>>

PutWrites ==
  /\ putter.pc = "write"
  /\ items' = [items EXCEPT ![in_index] = puts]
  /\ putter' = [putter EXCEPT !.pc = "publish"]
  /\ UNCHANGED <<in_index, out_index, puts, getter, got, latest>>

PutPublishes ==
  /\ putter.pc = "publish"
  /\ in_index' = putter.index
  /\ puts' = puts + 1
  /\ putter' = Rest
  /\ UNCHANGED <<items, out_index, getter, got, latest>>

-----------------------------------------------------------------------------
(* get(): empty, or copy the item and then release its slot *)

GetLooks ==
  /\ getter.pc = "rest"
  /\ out_index # in_index
  /\ getter' = [getter EXCEPT !.pc = "copy"]
  /\ UNCHANGED <<items, in_index, out_index, puts, putter, got, latest>>

GetCopies ==
  /\ getter.pc = "copy"
  /\ got' = items[out_index]
  /\ getter' = [getter EXCEPT !.pc = "release"]
  /\ UNCHANGED <<items, in_index, out_index, puts, putter, latest>>

GetReleases ==
  /\ getter.pc = "release"
  /\ out_index' = inc(out_index)
  /\ latest' = got
  /\ getter' = Rest
  /\ UNCHANGED <<items, in_index, puts, putter, got>>

-----------------------------------------------------------------------------
(* flush_from_get() and flush_from_put(): load one index, store the other *)

FlushGetLoads ==
  /\ getter.pc = "rest"
  /\ getter' = [pc |-> "flush", index |-> in_index]
  /\ UNCHANGED <<items, in_index, out_index, puts, putter, got, latest>>

FlushGetStores ==
  /\ getter.pc = "flush"
  /\ out_index' = getter.index
  /\ getter' = Rest
  /\ UNCHANGED <<items, in_index, puts, putter, got, latest>>

\* flush_from_put() while the getter rests, which it cannot then disturb.
FlushPut ==
  /\ putter.pc = "rest" /\ getter.pc = "rest" /\ puts <= MaxPuts
  /\ in_index' = out_index
  /\ puts' = puts + 1
  /\ UNCHANGED <<items, out_index, putter, getter, got, latest>>

\* flush_from_put() at any time, its load and its store a step each.
FlushPutLoads ==
  /\ putter.pc = "rest" /\ puts <= MaxPuts
  /\ putter' = [pc |-> "flush", index |-> out_index]
  /\ UNCHANGED <<items, in_index, out_index, puts, getter, got, latest>>

FlushPutStores ==
  /\ putter.pc = "flush"
  /\ in_index' = putter.index
  /\ puts' = puts + 1
  /\ putter' = Rest
  /\ UNCHANGED <<items, out_index, getter, got, latest>>

-----------------------------------------------------------------------------
RingNext ==
  \/ PutLooks \/ PutWrites \/ PutPublishes
  \/ GetLooks \/ GetCopies \/ GetReleases
  \/ FlushGetLoads \/ FlushGetStores \/ FlushPut

RingNextFlush == RingNext \/ FlushPutLoads \/ FlushPutStores

RingSpec == RingInit /\ [][RingNext]_ringVars
RingSpecFlush == RingInit /\ [][RingNextFlush]_ringVars

-----------------------------------------------------------------------------
used == IF out_index <= in_index THEN in_index - out_index
                                 ELSE in_index + Length + 1 - out_index

Contents == [n \in 1 .. used |-> items[(out_index + n - 1) % (Length + 1)]]

Abstract == INSTANCE Fifo WITH
  capacity <- Length, Item <- 1 .. MaxPuts, queue <- Contents, taken <- latest

\* Whatever the order of the two threads' loads, copies and stores, also when
\* the getter flushes, or the putter does while the getter rests, the ring is a
\* bounded queue: put() and get() take effect where they store their index.
ImplementsFifo == Abstract!FifoSpec

\* What the getter will find in the ring it has not got before, and in order,
\* also when the putter flushes it with the flush that is the putter's.
NoReplay == \A n \in 1 .. used :
  /\ Contents[n] > latest
  /\ n > 1 => Contents[n] > Contents[n - 1]
=============================================================================
