-------------------------------- MODULE RingBuf --------------------------------
(***************************************************************************)
(* The byte queue lib/driver/ringbuf.h, as operators on a record.  An      *)
(* index is wrapped before its next use and not after its last one: both   *)
(* indices go up to SIZE.  put() and get() are not atomic, and C++ does    *)
(* not say whether "buf[in++] = data" steps the index or writes the buffer *)
(* first, so the parts are operators of their own.                         *)
(***************************************************************************)
EXTENDS Integers, Sequences

(* A new queue; the buffer of a global one is zeroed.                       *)
NewRing(size, zero) ==
  [in |-> 0, out |-> 0, buf |-> [i \in 0 .. size - 1 |-> zero]]

Rings(size, data) ==
  [in : 0 .. size, out : 0 .. size, buf : [0 .. size - 1 -> data]]

IsEmpty(ring) == ring.in = ring.out

IsFull(ring, size) == (ring.in + 1 - ring.out) % size = 0

WrapIn(ring, size)  == IF ring.in >= size THEN [ring EXCEPT !.in = 0] ELSE ring
WrapOut(ring, size) == IF ring.out >= size THEN [ring EXCEPT !.out = 0] ELSE ring

StepIn(ring)  == [ring EXCEPT !.in = @ + 1]
StepOut(ring) == [ring EXCEPT !.out = @ + 1]

Store(ring, slot, data) == [ring EXCEPT !.buf[slot] = data]

(* put() and get() where nothing can come in between.                       *)
Put(ring, size, data) ==
  LET wrapped == WrapIn(ring, size)
  IN  StepIn(Store(wrapped, wrapped.in, data))

GetData(ring, size) == LET wrapped == WrapOut(ring, size)
                       IN  wrapped.buf[wrapped.out]

Get(ring, size) == StepOut(WrapOut(ring, size))

(* The number of bytes in the queue, and the queue itself, oldest first.    *)
Count(ring, size) == (ring.in - ring.out) % size

Contents(ring, size) ==
  [i \in 1 .. Count(ring, size) |-> ring.buf[(ring.out + i - 1) % size]]
=============================================================================
