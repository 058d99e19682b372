----------------------------- MODULE UartIrqProofs -----------------------------
(***************************************************************************)
(* Proofs about UartIrq, for all queue sizes and any amount of traffic:    *)
(* what the main program and the interrupt handler do to the two queues,   *)
(* in any interleaving and for both orders in which C++ may compile        *)
(* "buf[in++] = data" and "return buf[out++]".                             *)
(***************************************************************************)
EXTENDS UartIrq, SequenceTheorems, TLAPS

-----------------------------------------------------------------------------
(* A queue, without remainders. *)

(* The place of the byte j places behind the oldest one.                    *)
Place(out, j, size) == IF out + j >= size THEN out + j - size ELSE out + j

(* The indices of a queue of n bytes.  An index that equals the size and 0  *)
(* are the same place, and yet a queue is empty only if the indices are     *)
(* equal: the in index of a queue that is not empty is never 0.             *)
Linked(ring, size, n) ==
  /\ n \in 0 .. size - 1
  /\ n = 0 => ring.in = ring.out
  /\ n > 0 => /\ ring.in >= 1
              /\ ring.in = ring.out + n \/ ring.in = ring.out + n - size

(* The bytes in it are the n after the first k of s.                        *)
Queued(ring, size, n, s, k) ==
  \A j \in 0 .. n - 1 : ring.buf[Place(ring.out, j, size)] = s[k + 1 + j]

(* The inductive invariant.                                                 *)

Sending == {"wait", "txmask", "txwrap", "put", "putindex", "putdata"}

(* Bytes in txBuf: all that were sent, but for the one in the hands of      *)
(* uart0SendChar and those on the line.                                     *)
TxCount == sent - Len(wire) - IF pc \in Sending THEN 1 ELSE 0

(* Bytes taken out of rxBuf, and those left in it.                          *)
Removed == Len(got) + IF pc \in {"getdata", "rxunmask"} THEN 1 ELSE 0
RxCount == Len(taken) - Removed - IF rxReady THEN 1 ELSE 0

Numbers == [i \in Nat |-> i]

(* Within a step from one access to the next, an index is within its buffer.*)
IndexInv ==
  /\ pc \in {"put", "putindex"} => txBuf.in < TxSize
  /\ pc = "putdata" => slot < TxSize
  /\ pc \in {"get", "getindex"} => rxBuf.out < RxSize
  /\ pc = "getdata" => slot < RxSize

(* As long as the handler did not take a byte in the middle of a put, txBuf *)
(* holds what was sent and is not on the line; in the middle of the put,    *)
(* the place for one more is free.                                          *)
TxInv ==
  ~crossed =>
    /\ TxCount \in 0 .. TxSize - 1
    /\ \A i \in 1 .. Len(wire) : wire[i] = i
    /\ Queued(txBuf, TxSize, TxCount, Numbers, Len(wire))
    /\ pc \notin {"put", "putindex", "putdata"} => Linked(txBuf, TxSize, TxCount)
    /\ pc \in {"txmask", "txwrap", "put", "putindex", "putdata"} => TxCount < TxSize - 1
    /\ pc \in {"put", "putindex"} => txBuf.in = Place(txBuf.out, TxCount, TxSize)
    /\ pc = "putindex" => txBuf.buf[txBuf.in] = sent
    /\ pc = "putdata" => /\ slot = Place(txBuf.out, TxCount, TxSize)
                         /\ txBuf.in = slot + 1

(* rxBuf holds what was taken from the line and not removed; what           *)
(* uart0RecvChar has in its hands is the byte before.                       *)
RxInv ==
  /\ Linked(rxBuf, RxSize, RxCount)
  /\ Queued(rxBuf, RxSize, RxCount, taken, Removed)
  /\ Removed <= Len(taken)
  /\ \A i \in 1 .. Len(got) : got[i] = taken[i]
  /\ rxReady => Len(taken) > 0 /\ rxData = taken[Len(taken)]
  /\ pc \in {"rxwrap", "get", "getindex"} => RxCount > 0
  /\ pc = "getindex" => data = taken[Removed + 1]
  /\ pc = "getdata" => rxBuf.out = slot + 1 /\ rxBuf.buf[slot] = taken[Removed]
  /\ pc = "rxunmask" => data = taken[Removed]

IInv == TypeOK /\ IndexInv /\ TxInv /\ RxInv

-----------------------------------------------------------------------------
(* What the operations on a queue do. *)

(* A queue of n bytes is empty and full when IsEmpty and IsFull say so, and *)
(* Count is n.                                                              *)
LEMMA LinkedFacts ==
  ASSUME NEW size \in Nat, size >= 2, NEW ring \in Rings(size, Bytes),
         NEW n, Linked(ring, size, n)
  PROVE  /\ IsEmpty(ring) <=> n = 0
         /\ IsFull(ring, size) <=> n = size - 1
         /\ Count(ring, size) = n
<1>1. ring.in \in 0 .. size /\ ring.out \in 0 .. size /\ n \in 0 .. size - 1
  BY DEF Rings, Linked
<1>2. ring.in - ring.out = n \/ ring.in - ring.out = n - size
  BY <1>1 DEF Linked
<1>3. (ring.in - ring.out) % size = n
  BY <1>1, <1>2
<1>4. IsEmpty(ring) <=> n = 0
  BY <1>1 DEF Linked, IsEmpty
<1>5. CASE n = size - 1
  <2>1. ring.in + 1 - ring.out = size \/ ring.in + 1 - ring.out = 0
    BY <1>1, <1>2, <1>5
  <2>2. (ring.in + 1 - ring.out) % size = 0
    BY <2>1
  <2> QED BY <2>2, <1>3, <1>4, <1>5 DEF IsFull, Count
<1>6. CASE n < size - 1
  <2>1. \/ ring.in + 1 - ring.out = n + 1
        \/ ring.in + 1 - ring.out = n + 1 - size
    BY <1>1, <1>2
  <2>2. (ring.in + 1 - ring.out) % size = n + 1
    BY <2>1, <1>1, <1>6
  <2> QED BY <2>2, <1>1, <1>3, <1>4, <1>6 DEF IsFull, Count
<1> QED BY <1>1, <1>5, <1>6

(* There is a place for each number of bytes but a full ring's.             *)
LEMMA PlaceType ==
  ASSUME NEW size \in Nat, NEW out \in 0 .. size, NEW n \in 0 .. size - 1
  PROVE  Place(out, n, size) \in 0 .. size - 1
  BY DEF Place

(* The next place to be written, when the in index has been wrapped.        *)
LEMMA WrapInPlace ==
  ASSUME NEW size \in Nat, size >= 2, NEW ring \in Rings(size, Bytes),
         NEW n, Linked(ring, size, n)
  PROVE  /\ WrapIn(ring, size) \in Rings(size, Bytes)
         /\ WrapIn(ring, size).in = Place(ring.out, n, size)
         /\ WrapIn(ring, size).in < size
         /\ WrapIn(ring, size).out = ring.out
         /\ WrapIn(ring, size).buf = ring.buf
<1>1. /\ ring.in \in 0 .. size /\ ring.out \in 0 .. size
      /\ ring.buf \in [0 .. size - 1 -> Bytes] /\ n \in 0 .. size - 1
      /\ ring = [in |-> ring.in, out |-> ring.out, buf |-> ring.buf]
  BY DEF Rings, Linked
<1>2. WrapIn(ring, size) = [in |-> IF ring.in >= size THEN 0 ELSE ring.in,
                            out |-> ring.out, buf |-> ring.buf]
  BY <1>1 DEF WrapIn
<1>3. (IF ring.in >= size THEN 0 ELSE ring.in) = Place(ring.out, n, size)
  BY <1>1 DEF Linked, Place
<1> QED BY <1>1, <1>2, <1>3 DEF Rings

(* A byte stored in the next place is the newest one.                       *)
LEMMA StoredFacts ==
  ASSUME NEW size \in Nat, size >= 2, NEW ring \in Rings(size, Bytes),
         NEW n \in 0 .. size - 2, NEW s, NEW k \in Nat,
         Queued(ring, size, n, s, k), NEW d, d = s[k + 1 + n]
  PROVE  /\ Queued(Store(ring, Place(ring.out, n, size), d), size, n + 1, s, k)
         /\ ring.out >= 1 =>
              Store(ring, Place(ring.out, n, size), d).buf[ring.out - 1]
                = ring.buf[ring.out - 1]
<1> DEFINE out == ring.out
           buf == ring.buf
           new == [buf EXCEPT ![Place(out, n, size)] = d]
<1>1. out \in 0 .. size /\ buf \in [0 .. size - 1 -> Bytes]
  BY DEF Rings
<1>2. Place(out, n, size) \in 0 .. size - 1
  BY <1>1 DEF Place
<1>3. ASSUME NEW j \in 0 .. n - 1
      PROVE  /\ Place(out, j, size) \in 0 .. size - 1
             /\ Place(out, j, size) # Place(out, n, size)
  BY <1>1 DEF Place
<1>4. \A j \in 0 .. n - 1 : buf[Place(out, j, size)] = s[k + 1 + j]
  BY DEF Queued
<1>5. ASSUME NEW j \in 0 .. n PROVE new[Place(out, j, size)] = s[k + 1 + j]
  <2>1. CASE j = n
    BY <2>1, <1>1, <1>2
  <2>2. CASE j \in 0 .. n - 1
    BY <2>2, <1>1, <1>3, <1>4
  <2> QED BY <2>1, <2>2
<1>6. out >= 1 => out - 1 \in 0 .. size - 1 /\ out - 1 # Place(out, n, size)
  BY <1>1 DEF Place
<1>7. out >= 1 => new[out - 1] = buf[out - 1]
  BY <1>1, <1>6
<1>8. /\ Store(ring, Place(ring.out, n, size), d).buf = new
      /\ Store(ring, Place(ring.out, n, size), d).out = out
  BY DEF Store, Rings
<1>9. 0 .. (n + 1) - 1 = 0 .. n
  OBVIOUS
<1> HIDE DEF new
<1> QED BY <1>5, <1>7, <1>8, <1>9 DEF Queued

(* The indices once the in index has been stepped past that place.          *)
LEMMA LinkedNext ==
  ASSUME NEW size \in Nat, size >= 2, NEW ring \in Rings(size, Bytes),
         NEW n \in 0 .. size - 2, ring.in = Place(ring.out, n, size) + 1
  PROVE  Linked(ring, size, n + 1)
<1>1. ring.out \in 0 .. size /\ ring.in \in 0 .. size
  BY DEF Rings
<1>2. /\ ring.in >= 1
      /\ ring.in = ring.out + (n + 1) \/ ring.in = ring.out + (n + 1) - size
  BY <1>1 DEF Place
<1>3. n + 1 \in 0 .. size - 1 /\ n + 1 # 0
  OBVIOUS
<1> QED BY <1>2, <1>3 DEF Linked

(* put() where nothing can come in between: the queue gets longer by the    *)
(* byte, and the place before its oldest byte keeps what it has.            *)
LEMMA PutFacts ==
  ASSUME NEW size \in Nat, size >= 2, NEW ring \in Rings(size, Bytes),
         NEW n, Linked(ring, size, n), n # size - 1,
         NEW s, NEW k \in Nat, Queued(ring, size, n, s, k),
         NEW d \in Bytes, d = s[k + 1 + n]
  PROVE  /\ Put(ring, size, d) \in Rings(size, Bytes)
         /\ Linked(Put(ring, size, d), size, n + 1)
         /\ Queued(Put(ring, size, d), size, n + 1, s, k)
         /\ Put(ring, size, d).out = ring.out
         /\ ring.out >= 1 => Put(ring, size, d).buf[ring.out - 1] = ring.buf[ring.out - 1]
<1> DEFINE at == Place(ring.out, n, size)
           wrapped == WrapIn(ring, size)
           stored == Store(wrapped, at, d)
<1>1. /\ ring.out \in 0 .. size /\ n \in 0 .. size - 2 /\ at \in 0 .. size - 1
  BY DEF Rings, Linked, Place
<1>2. /\ wrapped \in Rings(size, Bytes) /\ wrapped.in = at
      /\ wrapped.out = ring.out /\ wrapped.buf = ring.buf
  BY WrapInPlace
<1>3. Queued(wrapped, size, n, s, k)
  BY <1>2 DEF Queued
<1> HIDE DEF wrapped
<1>4. /\ Queued(stored, size, n + 1, s, k)
      /\ ring.out >= 1 => stored.buf[ring.out - 1] = ring.buf[ring.out - 1]
  BY <1>1, <1>2, <1>3, StoredFacts
<1>5. /\ stored \in Rings(size, Bytes) /\ stored.in = at /\ stored.out = ring.out
  BY <1>1, <1>2 DEF Rings, Store
<1> HIDE DEF stored
<1>6. /\ Put(ring, size, d) = StepIn(stored)
      /\ StepIn(stored) \in Rings(size, Bytes)
      /\ StepIn(stored).in = at + 1 /\ StepIn(stored).out = ring.out
      /\ StepIn(stored).buf = stored.buf
  <2>1. Put(ring, size, d) = StepIn(stored)
    BY <1>2 DEF Put, wrapped, stored
  <2>2. StepIn(stored) = [in |-> at + 1, out |-> ring.out, buf |-> stored.buf]
    BY <1>5 DEF Rings, StepIn
  <2>3. stored.buf \in [0 .. size - 1 -> Bytes]
    BY <1>5 DEF Rings
  <2> HIDE DEF at
  <2>4. [in |-> at + 1, out |-> ring.out, buf |-> stored.buf] \in Rings(size, Bytes)
    BY <2>3, <1>1 DEF Rings
  <2> QED BY <2>1, <2>2, <2>4
<1>7. Linked(Put(ring, size, d), size, n + 1)
  BY <1>1, <1>6, LinkedNext
<1>8. Queued(Put(ring, size, d), size, n + 1, s, k)
  BY <1>4, <1>5, <1>6 DEF Queued
<1> QED BY <1>4, <1>6, <1>7, <1>8

(* Stepping the out index drops the oldest byte.                            *)
LEMMA Dropped ==
  ASSUME NEW size \in Nat, size >= 2, NEW ring \in Rings(size, Bytes),
         NEW n, Linked(ring, size, n), n > 0, ring.out < size,
         NEW s, NEW k \in Nat, Queued(ring, size, n, s, k)
  PROVE  /\ StepOut(ring) \in Rings(size, Bytes)
         /\ Linked(StepOut(ring), size, n - 1)
         /\ Queued(StepOut(ring), size, n - 1, s, k + 1)
         /\ StepOut(ring) = [in |-> ring.in, out |-> ring.out + 1, buf |-> ring.buf]
         /\ ring.buf[ring.out] = s[k + 1]
<1>1. /\ ring.in \in 0 .. size /\ ring.out \in 0 .. size - 1
      /\ ring.buf \in [0 .. size - 1 -> Bytes] /\ n \in 1 .. size - 1
      /\ ring = [in |-> ring.in, out |-> ring.out, buf |-> ring.buf]
  BY DEF Rings, Linked
<1>2. StepOut(ring) = [in |-> ring.in, out |-> ring.out + 1, buf |-> ring.buf]
  BY <1>1 DEF StepOut
<1>3. StepOut(ring) \in Rings(size, Bytes)
  BY <1>1, <1>2 DEF Rings
<1>4. Linked(StepOut(ring), size, n - 1)
  BY <1>1, <1>2 DEF Linked
<1>5. ASSUME NEW j \in 0 .. n - 2
      PROVE  ring.buf[Place(ring.out + 1, j, size)] = s[(k + 1) + 1 + j]
  <2>1. j + 1 \in 0 .. n - 1 /\ k + 1 + (j + 1) = (k + 1) + 1 + j
    BY <1>1
  <2>2. Place(ring.out + 1, j, size) = Place(ring.out, j + 1, size)
    BY <1>1 DEF Place
  <2>3. ring.buf[Place(ring.out, j + 1, size)] = s[k + 1 + (j + 1)]
    BY <2>1 DEF Queued
  <2> QED BY <2>1, <2>2, <2>3
<1>6. Queued(StepOut(ring), size, n - 1, s, k + 1)
  <2>1. 0 .. (n - 1) - 1 = 0 .. n - 2
    BY <1>1
  <2>2. StepOut(ring).buf = ring.buf /\ StepOut(ring).out = ring.out + 1
    BY <1>2
  <2> QED BY <2>1, <2>2, <1>5 DEF Queued
<1>7. ring.buf[ring.out] = s[k + 1]
  <2>1. 0 \in 0 .. n - 1 /\ k + 1 + 0 = k + 1 /\ Place(ring.out, 0, size) = ring.out
    BY <1>1 DEF Place
  <2>2. ring.buf[Place(ring.out, 0, size)] = s[k + 1 + 0]
    BY <2>1 DEF Queued
  <2> QED BY <2>1, <2>2
<1> QED BY <1>2, <1>3, <1>4, <1>6, <1>7

(* Wrapping the out index of a queue that is not empty changes nothing.     *)
LEMMA WrapOutFacts ==
  ASSUME NEW size \in Nat, size >= 2, NEW ring \in Rings(size, Bytes),
         NEW n, Linked(ring, size, n), n > 0,
         NEW s, NEW k \in Nat, Queued(ring, size, n, s, k)
  PROVE  /\ WrapOut(ring, size) \in Rings(size, Bytes)
         /\ Linked(WrapOut(ring, size), size, n)
         /\ Queued(WrapOut(ring, size), size, n, s, k)
         /\ WrapOut(ring, size).out < size
<1>1. /\ ring.in \in 0 .. size /\ ring.out \in 0 .. size
      /\ ring.buf \in [0 .. size - 1 -> Bytes] /\ n \in 1 .. size - 1
      /\ ring = [in |-> ring.in, out |-> ring.out, buf |-> ring.buf]
  BY DEF Rings, Linked
<1> DEFINE o == IF ring.out >= size THEN 0 ELSE ring.out
<1>2. WrapOut(ring, size) = [in |-> ring.in, out |-> o, buf |-> ring.buf]
  BY <1>1 DEF WrapOut
<1>3. WrapOut(ring, size) \in Rings(size, Bytes)
  BY <1>1, <1>2 DEF Rings
<1>4. Linked(WrapOut(ring, size), size, n)
  BY <1>1, <1>2 DEF Linked
<1>5. \A j \in 0 .. n - 1 : Place(o, j, size) = Place(ring.out, j, size)
  BY <1>1 DEF Place
<1>6. Queued(WrapOut(ring, size), size, n, s, k)
  <2> HIDE DEF o
  <2> QED BY <1>2, <1>5 DEF Queued
<1> QED BY <1>1, <1>2, <1>3, <1>4, <1>6

(* get() where nothing can come in between.                                 *)
LEMMA GetFacts ==
  ASSUME NEW size \in Nat, size >= 2, NEW ring \in Rings(size, Bytes),
         NEW n, Linked(ring, size, n), n > 0,
         NEW s, NEW k \in Nat, Queued(ring, size, n, s, k)
  PROVE  /\ Get(ring, size) \in Rings(size, Bytes)
         /\ Linked(Get(ring, size), size, n - 1)
         /\ Queued(Get(ring, size), size, n - 1, s, k + 1)
         /\ GetData(ring, size) = s[k + 1]
<1> DEFINE wrapped == WrapOut(ring, size)
<1>1. /\ wrapped \in Rings(size, Bytes) /\ Linked(wrapped, size, n)
      /\ Queued(wrapped, size, n, s, k) /\ wrapped.out < size
  BY WrapOutFacts
<1> HIDE DEF wrapped
<1>2. /\ StepOut(wrapped) \in Rings(size, Bytes)
      /\ Linked(StepOut(wrapped), size, n - 1)
      /\ Queued(StepOut(wrapped), size, n - 1, s, k + 1)
      /\ wrapped.buf[wrapped.out] = s[k + 1]
  BY <1>1, Dropped
<1> QED BY <1>2 DEF Get, GetData, wrapped

(* Whatever is in it, a queue stays one, and its indices within the buffer  *)
(* where they are used.                                                     *)
LEMMA RingTypes ==
  ASSUME NEW size \in Nat, size >= 2, NEW ring \in Rings(size, Bytes)
  PROVE  /\ WrapIn(ring, size) \in Rings(size, Bytes) /\ WrapIn(ring, size).in < size
         /\ WrapOut(ring, size) \in Rings(size, Bytes) /\ WrapOut(ring, size).out < size
         /\ ring.in < size => StepIn(ring) \in Rings(size, Bytes)
         /\ ring.out < size => /\ StepOut(ring) \in Rings(size, Bytes)
                               /\ ring.buf[ring.out] \in Bytes
         /\ \A at \in 0 .. size - 1, d \in Bytes :
              Store(ring, at, d) \in Rings(size, Bytes) /\ Store(ring, at, d).in = ring.in
         /\ StepOut(ring).in = ring.in /\ WrapOut(ring, size).in = ring.in
<1>1. /\ ring.in \in 0 .. size /\ ring.out \in 0 .. size
      /\ ring.buf \in [0 .. size - 1 -> Bytes]
      /\ ring = [in |-> ring.in, out |-> ring.out, buf |-> ring.buf]
  BY DEF Rings
<1>2. WrapIn(ring, size) \in Rings(size, Bytes) /\ WrapIn(ring, size).in < size
  BY <1>1 DEF Rings, WrapIn
<1>3. WrapOut(ring, size) \in Rings(size, Bytes) /\ WrapOut(ring, size).out < size
  BY <1>1 DEF Rings, WrapOut
<1>4. ring.in < size => StepIn(ring) \in Rings(size, Bytes)
  BY <1>1 DEF Rings, StepIn
<1>5. ring.out < size => /\ StepOut(ring) \in Rings(size, Bytes)
                         /\ ring.buf[ring.out] \in Bytes
  BY <1>1 DEF Rings, StepOut
<1>6. ASSUME NEW at \in 0 .. size - 1, NEW d \in Bytes
      PROVE  Store(ring, at, d) \in Rings(size, Bytes) /\ Store(ring, at, d).in = ring.in
  BY <1>1 DEF Rings, Store
<1>7. StepOut(ring).in = ring.in /\ WrapOut(ring, size).in = ring.in
  BY <1>1 DEF StepOut, WrapOut
<1> QED BY <1>2, <1>3, <1>4, <1>5, <1>6, <1>7

(* The same of put() and get().                                             *)
LEMMA PutGetTypes ==
  ASSUME NEW size \in Nat, size >= 2, NEW ring \in Rings(size, Bytes), NEW d \in Bytes
  PROVE  /\ Put(ring, size, d) \in Rings(size, Bytes)
         /\ Put(ring, size, d).out = ring.out
         /\ Get(ring, size) \in Rings(size, Bytes)
         /\ Get(ring, size).in = ring.in
         /\ GetData(ring, size) \in Bytes
<1> DEFINE front == WrapIn(ring, size)
           back == WrapOut(ring, size)
           stored == Store(front, front.in, d)
<1>1. /\ front \in Rings(size, Bytes) /\ front.in < size /\ front.out = ring.out
      /\ back \in Rings(size, Bytes) /\ back.out < size /\ back.in = ring.in
  <2>1. front.out = ring.out
    BY DEF Rings, WrapIn
  <2> QED BY <2>1, RingTypes
<1> HIDE DEF front, back
<1>2. front.in \in 0 .. size - 1
  BY <1>1 DEF Rings
<1>3. /\ stored \in Rings(size, Bytes) /\ stored.in = front.in /\ stored.out = front.out
  <2>1. stored.out = front.out
    BY <1>1 DEF Store, Rings
  <2> QED BY <2>1, <1>1, <1>2, RingTypes
<1> HIDE DEF stored
<1>4. StepIn(stored) \in Rings(size, Bytes) /\ StepIn(stored).out = stored.out
  <2>1. StepIn(stored).out = stored.out
    BY <1>3 DEF StepIn, Rings
  <2> QED BY <2>1, <1>1, <1>3, RingTypes
<1>5. Put(ring, size, d) = StepIn(stored)
  BY DEF Put, stored, front
<1>6. /\ StepOut(back) \in Rings(size, Bytes) /\ StepOut(back).in = back.in
      /\ back.buf[back.out] \in Bytes
  BY <1>1, RingTypes
<1>7. Get(ring, size) = StepOut(back) /\ GetData(ring, size) = back.buf[back.out]
  BY DEF Get, GetData, back
<1> QED BY <1>1, <1>3, <1>4, <1>5, <1>6, <1>7

-----------------------------------------------------------------------------
(* Types. *)

LEMMA Sizes ==
  /\ TxSize \in Nat /\ TxSize >= 2 /\ RxSize \in Nat /\ RxSize >= 2
  /\ MaxTx \in Nat /\ MaxRx \in Nat
  /\ 0 .. MaxRx \subseteq Bytes /\ 0 .. MaxTx \subseteq Bytes /\ 0 \in Bytes
  BY UartAssumption DEF Bytes

(* The same facts of the two queues.                                        *)
LEMMA TxTypes ==
  ASSUME TypeOK
  PROVE  /\ txBuf \in Rings(TxSize, Bytes) /\ txBuf.in \in 0 .. TxSize
         /\ WrapIn(txBuf, TxSize) \in Rings(TxSize, Bytes)
         /\ WrapIn(txBuf, TxSize).in < TxSize
         /\ txBuf.in < TxSize => StepIn(txBuf) \in Rings(TxSize, Bytes)
         /\ \A at \in 0 .. TxSize - 1, d \in Bytes :
              /\ Store(txBuf, at, d) \in Rings(TxSize, Bytes)
              /\ Store(txBuf, at, d).in = txBuf.in
         /\ Get(txBuf, TxSize) \in Rings(TxSize, Bytes)
         /\ Get(txBuf, TxSize).in = txBuf.in
         /\ GetData(txBuf, TxSize) \in Bytes
<1>1. /\ txBuf \in Rings(TxSize, Bytes) /\ TxSize \in Nat /\ TxSize >= 2
      /\ 0 \in Bytes
  BY Sizes DEF TypeOK
<1>2. txBuf.in \in 0 .. TxSize
  BY <1>1 DEF Rings
<1>3. WrapIn(txBuf, TxSize) \in Rings(TxSize, Bytes) /\ WrapIn(txBuf, TxSize).in < TxSize
  BY <1>1, RingTypes
<1>4. txBuf.in < TxSize => StepIn(txBuf) \in Rings(TxSize, Bytes)
  BY <1>1, RingTypes
<1>5. ASSUME NEW at \in 0 .. TxSize - 1, NEW d \in Bytes
      PROVE  /\ Store(txBuf, at, d) \in Rings(TxSize, Bytes)
             /\ Store(txBuf, at, d).in = txBuf.in
  BY <1>1, RingTypes
<1>6. /\ Get(txBuf, TxSize) \in Rings(TxSize, Bytes)
      /\ Get(txBuf, TxSize).in = txBuf.in
      /\ GetData(txBuf, TxSize) \in Bytes
  BY <1>1, PutGetTypes
<1> QED BY <1>1, <1>2, <1>3, <1>4, <1>5, <1>6

LEMMA RxTypes ==
  ASSUME TypeOK
  PROVE  /\ rxBuf \in Rings(RxSize, Bytes) /\ rxBuf.out \in 0 .. RxSize
         /\ rxBuf.buf \in [0 .. RxSize - 1 -> Bytes]
         /\ WrapOut(rxBuf, RxSize) \in Rings(RxSize, Bytes)
         /\ WrapOut(rxBuf, RxSize).out < RxSize
         /\ rxBuf.out < RxSize => StepOut(rxBuf) \in Rings(RxSize, Bytes)
         /\ \A d \in Bytes : /\ Put(rxBuf, RxSize, d) \in Rings(RxSize, Bytes)
                             /\ Put(rxBuf, RxSize, d).out = rxBuf.out
<1>1. rxBuf \in Rings(RxSize, Bytes) /\ RxSize \in Nat /\ RxSize >= 2
  BY Sizes DEF TypeOK
<1>2. rxBuf.out \in 0 .. RxSize /\ rxBuf.buf \in [0 .. RxSize - 1 -> Bytes]
  BY <1>1 DEF Rings
<1>3. /\ WrapOut(rxBuf, RxSize) \in Rings(RxSize, Bytes)
      /\ WrapOut(rxBuf, RxSize).out < RxSize
      /\ rxBuf.out < RxSize => StepOut(rxBuf) \in Rings(RxSize, Bytes)
  BY <1>1, RingTypes
<1>4. \A b \in Bytes : /\ Put(rxBuf, RxSize, b) \in Rings(RxSize, Bytes)
                        /\ Put(rxBuf, RxSize, b).out = rxBuf.out
  <2>1. TAKE b \in Bytes
  <2>2. Put(rxBuf, RxSize, b) \in Rings(RxSize, Bytes)
    BY <1>1, PutGetTypes
  <2>3. Put(rxBuf, RxSize, b).out = rxBuf.out
    BY <1>1 DEF Put, StepIn, Store, WrapIn, Rings
  <2> QED BY <2>2, <2>3
<1> QED BY <1>1, <1>2, <1>3, <1>4

LEMMA InitType == Init => TypeOK /\ IndexInv
<1> SUFFICES ASSUME Init PROVE TypeOK /\ IndexInv
  OBVIOUS
<1>1. ASSUME NEW size \in Nat PROVE NewRing(size, 0) \in Rings(size, Bytes)
  BY Sizes DEF NewRing, Rings
<1>2. txBuf \in Rings(TxSize, Bytes) /\ rxBuf \in Rings(RxSize, Bytes)
  BY <1>1, Sizes DEF Init
<1>3. <<>> \in Seq(Bytes) /\ <<>> \in Seq(0 .. MaxRx) /\ 0 \in 0 .. TxSize + RxSize
  BY Sizes
<1>4. pc \in MainPc /\ inten \subseteq {"rx", "tx"}
  BY DEF Init, MainPc
<1>5. /\ txReady \in BOOLEAN /\ rxReady \in BOOLEAN /\ crossed \in BOOLEAN
      /\ rxData = 0 /\ slot = 0 /\ data = 0 /\ sent = 0 /\ arrived = 0
      /\ wire = <<>> /\ taken = <<>> /\ got = <<>>
  BY DEF Init
<1>6. TypeOK
  BY <1>2, <1>3, <1>4, <1>5, Sizes DEF TypeOK
<1> QED BY <1>6 DEF Init, IndexInv

(* What arrives is numbered on.                                             *)
LEMMA ArriveType == TypeOK /\ IndexInv /\ Arrive => TypeOK' /\ IndexInv'
<1> SUFFICES ASSUME TypeOK, IndexInv, Arrive PROVE TypeOK' /\ IndexInv'
  OBVIOUS
<1>1. UNCHANGED <<txBuf, rxBuf, inten, txReady, pc, slot, data, sent, wire, got, crossed>>
  BY DEF Arrive
<1>2. arrived' \in 0 .. MaxRx /\ rxReady' \in BOOLEAN
  BY Sizes DEF Arrive, TypeOK
<1>3. rxData' \in 0 .. MaxRx /\ taken' \in Seq(0 .. MaxRx)
  <2>1. arrived + 1 \in 0 .. MaxRx /\ rxData \in 0 .. MaxRx /\ taken \in Seq(0 .. MaxRx)
    BY Sizes DEF Arrive, TypeOK
  <2>2. \/ rxData' = rxData /\ taken' = taken
        \/ rxData' = arrived + 1 /\ taken' = Append(taken, arrived + 1)
    BY DEF Arrive
  <2>3. Append(taken, arrived + 1) \in Seq(0 .. MaxRx)
    BY <2>1, AppendProperties
  <2> QED BY <2>1, <2>2, <2>3
<1> QED BY <1>1, <1>2, <1>3 DEF TypeOK, IndexInv

(* The handler leaves the index alone that the main program is using.       *)
LEMMA IrqType == TypeOK /\ IndexInv /\ Irq => TypeOK' /\ IndexInv'
<1> SUFFICES ASSUME TypeOK, IndexInv, Irq PROVE TypeOK' /\ IndexInv'
  OBVIOUS
<1>1. UNCHANGED <<rxData, pc, slot, data, sent, arrived, taken, got>>
  BY DEF Irq
<1>2. /\ rxBuf' \in Rings(RxSize, Bytes) /\ rxBuf'.out = rxBuf.out
      /\ rxReady' \in BOOLEAN
  <2>1. rxData \in Bytes
    BY Sizes DEF TypeOK
  <2>2. rxBuf' = rxBuf \/ rxBuf' = Put(rxBuf, RxSize, rxData)
    BY DEF Irq, RxHalf
  <2>3. rxReady' \in BOOLEAN
    BY DEF TypeOK, Irq, RxHalf
  <2> QED BY <2>1, <2>2, <2>3, RxTypes
<1>3. /\ txBuf' \in Rings(TxSize, Bytes) /\ txBuf'.in = txBuf.in
      /\ wire' \in Seq(Bytes)
  <2>1. /\ txBuf' = txBuf \/ txBuf' = Get(txBuf, TxSize)
        /\ wire' = wire \/ wire' = Append(wire, GetData(txBuf, TxSize))
    BY DEF Irq, TxHalf
  <2>2. wire \in Seq(Bytes)
    BY DEF TypeOK
  <2> QED BY <2>1, <2>2, TxTypes
<1>4. inten' \subseteq {"rx", "tx"} /\ txReady' \in BOOLEAN /\ crossed' \in BOOLEAN
  BY DEF TypeOK, Irq, TxHalf
<1> QED BY <1>1, <1>2, <1>3, <1>4 DEF TypeOK, IndexInv

(* The steps of uart0SendChar.                                              *)
LEMMA SendType ==
  TypeOK /\ IndexInv /\ (Send \/ SendSteps) => TypeOK' /\ IndexInv'
<1> SUFFICES ASSUME TypeOK, IndexInv, Send \/ SendSteps PROVE TypeOK' /\ IndexInv'
  OBVIOUS
<1>1. /\ UNCHANGED <<rxBuf, data, got, crossed, txReady, rxReady, rxData, wire,
                      arrived, taken>>
      /\ pc' \in {"idle", "wait", "txmask", "txwrap", "put", "putindex", "putdata",
                   "txunmask"}
  BY DEF Send, SendSteps, SendWait, TxMask, PutWrap, PutDataFirst, PutIndexLast,
         PutIndexFirst, PutDataLast, TxUnmask, Goto, line
<1>2. sent' \in 0 .. MaxTx
  BY Sizes DEF TypeOK, Send, SendSteps, SendWait, TxMask, PutWrap, PutDataFirst,
     PutIndexLast, PutIndexFirst, PutDataLast, TxUnmask, Goto
<1>3. inten' \subseteq {"rx", "tx"}
  BY DEF TypeOK, Send, SendSteps, SendWait, TxMask, PutWrap, PutDataFirst,
         PutIndexLast, PutIndexFirst, PutDataLast, TxUnmask
<1>4. /\ txBuf' \in Rings(TxSize, Bytes) /\ slot' \in 0 .. TxSize + RxSize
      /\ pc' \in {"put", "putindex"} => txBuf'.in < TxSize
      /\ pc' = "putdata" => slot' < TxSize
  <2>1. /\ txBuf \in Rings(TxSize, Bytes) /\ txBuf.in \in 0 .. TxSize
        /\ sent \in Bytes /\ slot \in 0 .. TxSize + RxSize
        /\ TxSize \in Nat /\ RxSize \in Nat
    BY Sizes, TxTypes DEF TypeOK
  <2>2. CASE Send \/ SendWait \/ TxMask \/ TxUnmask
    BY <2>1, <2>2 DEF Send, SendWait, TxMask, TxUnmask, Goto
  <2>3. CASE PutWrap
    BY <2>1, <2>3, TxTypes DEF PutWrap, Goto
  <2>4. CASE PutDataFirst
    <3>1. txBuf.in \in 0 .. TxSize - 1
      BY <2>1, <2>4, TxTypes DEF PutDataFirst, Goto, IndexInv
    <3> QED BY <2>1, <2>4, <3>1, TxTypes DEF PutDataFirst, Goto
  <2>5. CASE PutIndexLast
    BY <2>1, <2>5, TxTypes DEF PutIndexLast, Goto, IndexInv
  <2>6. CASE PutIndexFirst
    BY <2>1, <2>6, TxTypes DEF PutIndexFirst, Goto, IndexInv
  <2>7. CASE PutDataLast
    <3>1. slot \in 0 .. TxSize - 1
      BY <2>1, <2>7, Sizes DEF PutDataLast, Goto, IndexInv
    <3> QED BY <2>1, <2>7, <3>1, TxTypes DEF PutDataLast, Goto
  <2> QED BY <2>2, <2>3, <2>4, <2>5, <2>6, <2>7 DEF SendSteps
<1> QED BY <1>1, <1>2, <1>3, <1>4 DEF TypeOK, IndexInv, MainPc

(* The steps of uart0RecvChar.                                              *)
LEMMA RecvType ==
  TypeOK /\ IndexInv /\ (RxMask \/ RecvSteps) => TypeOK' /\ IndexInv'
<1> SUFFICES ASSUME TypeOK, IndexInv, RxMask \/ RecvSteps PROVE TypeOK' /\ IndexInv'
  OBVIOUS
<1>1. /\ UNCHANGED <<txBuf, sent, crossed, txReady, rxReady, rxData, wire, arrived,
                      taken>>
      /\ pc' \in {"idle", "rxwrap", "get", "getindex", "getdata", "rxunmask"}
  BY DEF RxMask, RecvSteps, GetWrap, GetDataFirst, GetIndexLast, GetIndexFirst,
         GetDataLast, RxUnmask, Goto, line
<1>2. inten' \subseteq {"rx", "tx"} /\ got' \in Seq(Bytes)
  <2>1. inten \subseteq {"rx", "tx"} /\ got \in Seq(Bytes) /\ data \in Bytes
    BY DEF TypeOK
  <2>2. Append(got, data) \in Seq(Bytes)
    BY <2>1, AppendProperties
  <2>3. inten' \in {inten, inten \ {"rx"}, inten \union {"rx"}}
    BY DEF RxMask, RecvSteps, GetWrap, GetDataFirst, GetIndexLast, GetIndexFirst,
           GetDataLast, RxUnmask
  <2>4. got' = got \/ got' = Append(got, data)
    BY DEF RxMask, RecvSteps, GetWrap, GetDataFirst, GetIndexLast, GetIndexFirst,
           GetDataLast, RxUnmask
  <2> QED BY <2>1, <2>2, <2>3, <2>4
<1>3. /\ rxBuf' \in Rings(RxSize, Bytes) /\ slot' \in 0 .. TxSize + RxSize
      /\ data' \in Bytes
      /\ pc' \in {"get", "getindex"} => rxBuf'.out < RxSize
      /\ pc' = "getdata" => slot' < RxSize
  <2>1. /\ rxBuf \in Rings(RxSize, Bytes) /\ rxBuf.out \in 0 .. RxSize
        /\ data \in Bytes /\ slot \in 0 .. TxSize + RxSize
        /\ rxBuf.buf \in [0 .. RxSize - 1 -> Bytes]
        /\ TxSize \in Nat /\ RxSize \in Nat
    BY Sizes, RxTypes DEF TypeOK
  <2>2. CASE RxMask \/ RxUnmask
    BY <2>1, <2>2 DEF RxMask, RxUnmask, Goto
  <2>3. CASE GetWrap
    BY <2>1, <2>3, RxTypes DEF GetWrap, Goto
  <2>4. CASE GetDataFirst
    BY <2>1, <2>4, Sizes DEF GetDataFirst, Goto, IndexInv
  <2>5. CASE GetIndexLast
    BY <2>1, <2>5, RxTypes DEF GetIndexLast, Goto, IndexInv
  <2>6. CASE GetIndexFirst
    BY <2>1, <2>6, RxTypes DEF GetIndexFirst, Goto, IndexInv
  <2>7. CASE GetDataLast
    <3>1. slot \in 0 .. RxSize - 1
      BY <2>1, <2>7, Sizes DEF GetDataLast, Goto, IndexInv
    <3> QED BY <2>1, <2>7, <3>1 DEF GetDataLast, Goto
  <2> QED BY <2>2, <2>3, <2>4, <2>5, <2>6, <2>7 DEF RecvSteps
<1> QED BY <1>1, <1>2, <1>3 DEF TypeOK, IndexInv, MainPc

-----------------------------------------------------------------------------
(* Receiving. *)

RxPc == {"rxwrap", "get", "getindex", "getdata", "rxunmask"}

(* What RxInv says of the numbers in it.                                    *)
LEMMA RxNumbers ==
  ASSUME TypeOK, RxInv
  PROVE  /\ Len(got) \in Nat /\ Len(taken) \in Nat /\ Removed \in Nat
         /\ RxCount \in 0 .. RxSize - 1
         /\ Removed + RxCount + (IF rxReady THEN 1 ELSE 0) = Len(taken)
         /\ IsEmpty(rxBuf) <=> RxCount = 0
         /\ IsFull(rxBuf, RxSize) <=> RxCount = RxSize - 1
         /\ Count(rxBuf, RxSize) = RxCount
<1>1. Len(got) \in Nat /\ Len(taken) \in Nat /\ rxBuf \in Rings(RxSize, Bytes)
  BY DEF TypeOK
<1>2. Removed \in Nat
  BY <1>1 DEF Removed
<1>3. RxCount \in 0 .. RxSize - 1
  BY DEF RxInv, Linked
<1>4. Removed + RxCount + (IF rxReady THEN 1 ELSE 0) = Len(taken)
  BY <1>1, <1>2 DEF RxCount
<1>5. Linked(rxBuf, RxSize, RxCount)
  BY DEF RxInv
<1> QED BY <1>1, <1>2, <1>3, <1>4, <1>5, Sizes, LinkedFacts

(* Steps that have nothing to do with receiving.                            *)
LEMMA RxKept ==
  ASSUME RxInv, UNCHANGED <<rxBuf, rxReady, rxData, taken, got>>,
         \/ pc \notin RxPc /\ pc' \notin RxPc
         \/ UNCHANGED <<pc, slot, data>>
  PROVE  RxInv'
<1>1. CASE pc \notin RxPc /\ pc' \notin RxPc
  <2>1. Removed' = Removed /\ RxCount' = RxCount
    BY <1>1 DEF Removed, RxCount, RxPc
  <2> QED BY <1>1, <2>1 DEF RxInv, RxPc
<1>2. CASE UNCHANGED <<pc, slot, data>>
  <2>1. Removed' = Removed /\ RxCount' = RxCount
    BY <1>2 DEF Removed, RxCount
  <2> QED BY <1>2, <2>1 DEF RxInv
<1> QED BY <1>1, <1>2

LEMMA InitRx == Init => RxInv
<1> SUFFICES ASSUME Init PROVE RxInv
  OBVIOUS
<1>1. Removed = 0 /\ RxCount = 0
  <2>1. pc = "idle" /\ ~rxReady /\ Len(got) = 0 /\ Len(taken) = 0
    BY DEF Init
  <2>2. Removed = 0
    BY <2>1 DEF Removed
  <2>3. (IF rxReady THEN 1 ELSE 0) = 0
    BY <2>1
  <2>4. RxCount = 0 - 0 - 0
    BY <2>1, <2>2, <2>3, Zenon DEF RxCount
  <2> QED BY <2>2, <2>4
<1>2. Linked(rxBuf, RxSize, 0)
  BY Sizes DEF Init, Linked, NewRing
<1>3. Queued(rxBuf, RxSize, 0, taken, 0)
  BY DEF Queued
<1> QED BY <1>1, <1>2, <1>3 DEF Init, RxInv

(* A byte is taken if the one before has left RXDATA.                       *)
LEMMA ArriveRx == TypeOK /\ RxInv /\ Arrive => RxInv'
<1> SUFFICES ASSUME TypeOK, RxInv, Arrive PROVE RxInv'
  OBVIOUS
<1>1. UNCHANGED <<rxBuf, pc, slot, data, got>> /\ rxReady' = TRUE
  BY DEF Arrive
<1>2. CASE rxReady
  <2>1. UNCHANGED <<rxBuf, rxReady, rxData, taken, got, pc, slot, data>>
    BY <1>1, <1>2 DEF Arrive, TypeOK
  <2> QED BY <2>1, RxKept
<1>3. CASE ~rxReady
  <2>1. rxData' = arrived + 1 /\ taken' = Append(taken, arrived + 1)
    BY <1>3 DEF Arrive
  <2>2. taken \in Seq(0 .. MaxRx) /\ arrived + 1 \in 0 .. MaxRx
    BY Sizes DEF TypeOK, Arrive
  <2>3. /\ Len(taken') = Len(taken) + 1 /\ taken'[Len(taken) + 1] = arrived + 1
        /\ \A i \in 1 .. Len(taken) : taken'[i] = taken[i]
    BY <2>1, <2>2, AppendProperties
  <2>4. /\ Len(got) \in Nat /\ Len(taken) \in Nat /\ Removed \in Nat
        /\ RxCount \in Nat /\ Removed + RxCount = Len(taken)
    BY <1>3, Sizes, RxNumbers
  <2>5. Removed' = Removed /\ RxCount' = RxCount
    BY <1>1, <1>3, <2>3, <2>4 DEF Removed, RxCount
  <2>6. \A j \in 0 .. RxCount - 1 : Removed + 1 + j \in 1 .. Len(taken)
    BY <2>4
  <2>7. Queued(rxBuf, RxSize, RxCount, taken', Removed)
    BY <2>3, <2>6 DEF RxInv, Queued
  <2>8. \A i \in 1 .. Len(got) : got[i] = taken'[i]
    <3>1. Len(got) <= Len(taken)
      BY <2>4 DEF Removed
    <3> QED BY <2>3, <2>4, <3>1 DEF RxInv
  <2>9. /\ pc = "getindex" => data = taken'[Removed + 1]
        /\ pc = "getdata" => rxBuf.buf[slot] = taken'[Removed]
        /\ pc = "rxunmask" => data = taken'[Removed]
    <3>1. pc = "getindex" => Removed + 1 \in 1 .. Len(taken)
      BY <2>4 DEF RxInv
    <3>2. pc \in {"getdata", "rxunmask"} => Removed \in 1 .. Len(taken)
      BY <2>4 DEF Removed
    <3> QED BY <2>3, <3>1, <3>2 DEF RxInv
  <2>10. Removed <= Len(taken') /\ Len(taken') > 0
    BY <2>3, <2>4
  <2> QED BY <1>1, <2>1, <2>3, <2>5, <2>7, <2>8, <2>9, <2>10 DEF RxInv
<1> QED BY <1>2, <1>3

(* The handler puts RXDATA behind what is in rxBuf, also in the middle of a *)
(* get: the place that this is about to read is not free yet.               *)
LEMMA IrqRx == TypeOK /\ RxInv /\ Irq => RxInv'
<1> SUFFICES ASSUME TypeOK, RxInv, Irq PROVE RxInv'
  OBVIOUS
<1>1. UNCHANGED <<rxData, pc, slot, data, taken, got>>
  BY DEF Irq
<1>2. CASE ~(rxReady /\ ~IsFull(rxBuf, RxSize))
  <2>1. UNCHANGED <<rxBuf, rxReady>>
    BY <1>2 DEF Irq, RxHalf
  <2> QED BY <1>1, <2>1, RxKept
<1>3. CASE rxReady /\ ~IsFull(rxBuf, RxSize)
  <2>1. rxBuf' = Put(rxBuf, RxSize, rxData) /\ rxReady' = FALSE
    BY <1>3 DEF Irq, RxHalf
  <2>2. /\ Removed \in Nat /\ RxCount \in 0 .. RxSize - 1 /\ RxCount # RxSize - 1
        /\ Removed + 1 + RxCount = Len(taken) /\ Len(taken) \in Nat
    BY <1>3, RxNumbers
  <2>3. Removed' = Removed /\ RxCount' = RxCount + 1
    BY <1>1, <1>3, <2>1, <2>2 DEF Removed, RxCount
  <2>4. /\ rxBuf \in Rings(RxSize, Bytes) /\ rxData \in Bytes
        /\ rxData = taken[Removed + 1 + RxCount]
    BY <1>3, <2>2, Sizes DEF TypeOK, RxInv
  <2>5. Linked(rxBuf, RxSize, RxCount) /\ Queued(rxBuf, RxSize, RxCount, taken, Removed)
    BY DEF RxInv
  <2>6. /\ Linked(rxBuf', RxSize, RxCount + 1)
        /\ Queued(rxBuf', RxSize, RxCount + 1, taken, Removed)
        /\ rxBuf'.out = rxBuf.out
        /\ rxBuf.out >= 1 => rxBuf'.buf[rxBuf.out - 1] = rxBuf.buf[rxBuf.out - 1]
    BY <2>1, <2>2, <2>4, <2>5, Sizes, PutFacts
  <2>7. pc = "getdata" => rxBuf'.out = slot + 1 /\ rxBuf'.buf[slot] = taken[Removed]
    <3>1. pc = "getdata" => slot \in Nat /\ rxBuf.out = slot + 1 /\ rxBuf.buf[slot] = taken[Removed]
      BY Sizes DEF RxInv, TypeOK
    <3>2. pc = "getdata" => rxBuf.out >= 1 /\ rxBuf.out - 1 = slot
      BY <3>1
    <3> QED BY <2>6, <3>1, <3>2
  <2>8. RxCount + 1 > 0 /\ Removed <= Len(taken)
    BY <2>2
  <2> QED BY <1>1, <2>1, <2>3, <2>6, <2>7, <2>8 DEF RxInv
<1> QED BY <1>2, <1>3

(* uart0RecvChar, in one order or the other.                                *)
LEMMA RecvRx == TypeOK /\ IndexInv /\ RxInv /\ (RxMask \/ RecvSteps) => RxInv'
<1> SUFFICES ASSUME TypeOK, IndexInv, RxInv, RxMask \/ RecvSteps PROVE RxInv'
  OBVIOUS
<1>1. UNCHANGED <<rxReady, rxData, taken>>
  BY DEF RxMask, RecvSteps, GetWrap, GetDataFirst, GetIndexLast, GetIndexFirst,
         GetDataLast, RxUnmask, line
<1>2. /\ Len(got) \in Nat /\ Len(taken) \in Nat /\ Removed \in Nat
      /\ RxCount \in 0 .. RxSize - 1 /\ RxSize \in Nat /\ RxSize >= 2
      /\ rxBuf \in Rings(RxSize, Bytes)
      /\ Linked(rxBuf, RxSize, RxCount)
      /\ Queued(rxBuf, RxSize, RxCount, taken, Removed)
      /\ IsEmpty(rxBuf) <=> RxCount = 0
  BY Sizes, RxNumbers DEF TypeOK, RxInv
<1>3. CASE RxMask
  <2>1. UNCHANGED <<rxBuf, got>> /\ pc = "idle" /\ pc' = "rxwrap" /\ ~IsEmpty(rxBuf)
    BY <1>3 DEF RxMask, Goto
  <2>2. Removed' = Removed /\ RxCount' = RxCount /\ RxCount > 0
    BY <1>1, <1>2, <2>1 DEF Removed, RxCount
  <2> QED BY <1>1, <2>1, <2>2 DEF RxInv
<1>4. CASE GetWrap
  <2>1. /\ UNCHANGED <<got>> /\ pc = "rxwrap" /\ pc' = "get"
        /\ rxBuf' = WrapOut(rxBuf, RxSize)
    BY <1>4 DEF GetWrap, Goto
  <2>2. Removed' = Removed /\ RxCount' = RxCount /\ RxCount > 0
    BY <1>1, <2>1 DEF Removed, RxCount, RxInv
  <2>3. Linked(rxBuf', RxSize, RxCount) /\ Queued(rxBuf', RxSize, RxCount, taken, Removed)
    BY <1>2, <2>1, <2>2, WrapOutFacts
  <2> QED BY <1>1, <2>1, <2>2, <2>3 DEF RxInv
<1>5. CASE GetDataFirst
  <2>1. /\ UNCHANGED <<rxBuf, got>> /\ pc = "get" /\ pc' = "getindex"
        /\ data' = rxBuf.buf[rxBuf.out]
    BY <1>5 DEF GetDataFirst, Goto
  <2>2. Removed' = Removed /\ RxCount' = RxCount /\ RxCount > 0 /\ rxBuf.out < RxSize
    BY <1>1, <2>1 DEF Removed, RxCount, RxInv, IndexInv
  <2>3. rxBuf.buf[rxBuf.out] = taken[Removed + 1]
    BY <1>2, <2>2, Dropped
  <2> QED BY <1>1, <2>1, <2>2, <2>3 DEF RxInv
<1>6. CASE GetIndexLast
  <2>1. /\ UNCHANGED <<got, data>> /\ pc = "getindex" /\ pc' = "rxunmask"
        /\ rxBuf' = StepOut(rxBuf)
    BY <1>6 DEF GetIndexLast, Goto
  <2>2. /\ RxCount > 0 /\ rxBuf.out < RxSize /\ data = taken[Removed + 1]
        /\ Removed' = Removed + 1
    BY <1>2, <2>1 DEF RxInv, IndexInv, Removed
  <2>3. RxCount' = RxCount - 1 /\ Removed + 1 <= Len(taken)
    BY <1>1, <1>2, <2>2, RxNumbers DEF RxCount
  <2>4. /\ Linked(rxBuf', RxSize, RxCount - 1)
        /\ Queued(rxBuf', RxSize, RxCount - 1, taken, Removed + 1)
    BY <1>2, <2>1, <2>2, Dropped
  <2> QED BY <1>1, <2>1, <2>2, <2>3, <2>4 DEF RxInv
<1>7. CASE GetIndexFirst
  <2>1. /\ UNCHANGED <<got>> /\ pc = "get" /\ pc' = "getdata"
        /\ rxBuf' = StepOut(rxBuf) /\ slot' = rxBuf.out
    BY <1>7 DEF GetIndexFirst, Goto
  <2>2. RxCount > 0 /\ rxBuf.out < RxSize /\ Removed' = Removed + 1
    BY <1>2, <2>1 DEF RxInv, IndexInv, Removed
  <2>3. RxCount' = RxCount - 1 /\ Removed + 1 <= Len(taken)
    BY <1>1, <1>2, <2>2, RxNumbers DEF RxCount
  <2>4. /\ Linked(rxBuf', RxSize, RxCount - 1)
        /\ Queued(rxBuf', RxSize, RxCount - 1, taken, Removed + 1)
        /\ rxBuf' = [in |-> rxBuf.in, out |-> rxBuf.out + 1, buf |-> rxBuf.buf]
        /\ rxBuf.buf[rxBuf.out] = taken[Removed + 1]
    BY <1>2, <2>1, <2>2, Dropped
  <2>5. rxBuf'.out = slot' + 1 /\ rxBuf'.buf[slot'] = taken[Removed + 1]
    BY <2>1, <2>4
  <2> QED BY <1>1, <2>1, <2>2, <2>3, <2>4, <2>5 DEF RxInv
<1>8. CASE GetDataLast
  <2>1. /\ UNCHANGED <<rxBuf, got>> /\ pc = "getdata" /\ pc' = "rxunmask"
        /\ data' = rxBuf.buf[slot]
    BY <1>8 DEF GetDataLast, Goto
  <2>2. Removed' = Removed /\ RxCount' = RxCount /\ rxBuf.buf[slot] = taken[Removed]
    BY <1>1, <2>1 DEF Removed, RxCount, RxInv
  <2> QED BY <1>1, <2>1, <2>2 DEF RxInv
<1>9. CASE RxUnmask
  <2>1. /\ UNCHANGED <<rxBuf>> /\ pc = "rxunmask" /\ pc' = "idle"
        /\ got' = Append(got, data)
    BY <1>9 DEF RxUnmask, Goto
  <2>2. /\ Len(got') = Len(got) + 1 /\ got'[Len(got) + 1] = data
        /\ \A i \in 1 .. Len(got) : got'[i] = got[i]
    BY <2>1, AppendProperties DEF TypeOK
  <2>3. Removed' = Removed /\ Removed = Len(got) + 1
    BY <1>2, <2>1, <2>2 DEF Removed
  <2>4. RxCount' = RxCount
    BY <1>1, <2>3 DEF RxCount
  <2>5. \A i \in 1 .. Len(got') : got'[i] = taken[i]
    <3>1. data = taken[Len(got) + 1]
      BY <2>1, <2>3 DEF RxInv
    <3> QED BY <1>2, <2>2, <3>1 DEF RxInv
  <2> QED BY <1>1, <2>1, <2>3, <2>4, <2>5 DEF RxInv
<1> QED BY <1>3, <1>4, <1>5, <1>6, <1>7, <1>8, <1>9 DEF RecvSteps

-----------------------------------------------------------------------------
(* Sending. *)

(* What TxInv says of the numbers in it.                                    *)
LEMMA TxNumbers ==
  ASSUME TypeOK, TxInv, ~crossed
  PROVE  /\ Len(wire) \in Nat /\ sent \in Nat
         /\ TxCount \in 0 .. TxSize - 1
         /\ Len(wire) + TxCount + (IF pc \in Sending THEN 1 ELSE 0) = sent
         /\ pc \notin {"put", "putindex", "putdata"} =>
              /\ Linked(txBuf, TxSize, TxCount)
              /\ IsEmpty(txBuf) <=> TxCount = 0
              /\ IsFull(txBuf, TxSize) <=> TxCount = TxSize - 1
<1>1. Len(wire) \in Nat /\ sent \in Nat /\ txBuf \in Rings(TxSize, Bytes)
  BY Sizes DEF TypeOK
<1>2. TxCount \in 0 .. TxSize - 1
  BY DEF TxInv
<1>3. Len(wire) + TxCount + (IF pc \in Sending THEN 1 ELSE 0) = sent
  BY <1>1 DEF TxCount
<1>4. pc \notin {"put", "putindex", "putdata"} => Linked(txBuf, TxSize, TxCount)
  BY DEF TxInv
<1> QED BY <1>1, <1>2, <1>3, <1>4, Sizes, LinkedFacts

(* Steps that have nothing to do with sending.                              *)
LEMMA TxKept ==
  ASSUME TxInv, UNCHANGED <<txBuf, sent, wire, crossed>>,
         \/ pc \notin Sending /\ pc' \notin Sending
         \/ UNCHANGED <<pc, slot>>
  PROVE  TxInv'
<1>1. CASE pc \notin Sending /\ pc' \notin Sending
  <2>1. TxCount' = TxCount
    BY <1>1 DEF TxCount
  <2> QED BY <1>1, <2>1 DEF TxInv, Sending
<1>2. CASE UNCHANGED <<pc, slot>>
  <2>1. TxCount' = TxCount
    BY <1>2 DEF TxCount
  <2> QED BY <1>2, <2>1 DEF TxInv
<1> QED BY <1>1, <1>2

LEMMA InitTx == Init => TxInv
<1> SUFFICES ASSUME Init PROVE TxInv
  OBVIOUS
<1>1. pc = "idle" /\ Len(wire) = 0 /\ sent = 0
  BY DEF Init
<1>2. TxCount = 0
  <2>1. (IF pc \in Sending THEN 1 ELSE 0) = 0
    BY <1>1 DEF Sending
  <2>2. TxCount = 0 - 0 - 0
    BY <1>1, <2>1, Zenon DEF TxCount
  <2> QED BY <2>2
<1>3. Linked(txBuf, TxSize, 0)
  BY Sizes DEF Init, Linked, NewRing
<1>4. Queued(txBuf, TxSize, 0, Numbers, 0)
  BY DEF Queued
<1> QED BY <1>1, <1>2, <1>3, <1>4, Sizes DEF TxInv

(* The handler takes the next byte, unless that breaks into a put.          *)
LEMMA IrqTx == TypeOK /\ TxInv /\ Irq => TxInv'
<1> SUFFICES ASSUME TypeOK, TxInv, Irq PROVE TxInv'
  OBVIOUS
<1>1. UNCHANGED <<pc, slot, sent>>
  BY DEF Irq
<1>2. CASE UNCHANGED <<txBuf, wire, crossed>>
  BY <1>1, <1>2, TxKept
<1>3. CASE /\ ~IsEmpty(txBuf) /\ crossed' = (crossed \/ InPut)
           /\ wire' = Append(wire, GetData(txBuf, TxSize))
           /\ txBuf' = Get(txBuf, TxSize)
  <2>1. SUFFICES ASSUME ~crossed, ~InPut PROVE TxInv'
    BY <1>3 DEF TxInv
  <2>2. pc \notin {"txwrap", "put", "putindex", "putdata"}
    BY <2>1 DEF InPut
  <2>3. /\ Len(wire) \in Nat /\ TxCount \in 1 .. TxSize - 1 /\ sent \in Nat
        /\ Linked(txBuf, TxSize, TxCount) /\ txBuf \in Rings(TxSize, Bytes)
        /\ Queued(txBuf, TxSize, TxCount, Numbers, Len(wire))
        /\ TxSize \in Nat /\ TxSize >= 2
    BY <1>3, <2>1, <2>2, Sizes, TxNumbers DEF TypeOK, TxInv
  <2>4. /\ Linked(txBuf', TxSize, TxCount - 1)
        /\ Queued(txBuf', TxSize, TxCount - 1, Numbers, Len(wire) + 1)
        /\ GetData(txBuf, TxSize) = Numbers[Len(wire) + 1]
    BY <1>3, <2>3, GetFacts
  <2>5. GetData(txBuf, TxSize) = Len(wire) + 1
    BY <2>3, <2>4 DEF Numbers
  <2>6. /\ Len(wire') = Len(wire) + 1 /\ wire'[Len(wire) + 1] = Len(wire) + 1
        /\ \A i \in 1 .. Len(wire) : wire'[i] = wire[i]
    BY <1>3, <2>5, AppendProperties, TxTypes DEF TypeOK
  <2>7. TxCount' = TxCount - 1
    BY <1>1, <2>3, <2>6 DEF TxCount
  <2>8. \A i \in 1 .. Len(wire') : wire'[i] = i
    BY <2>1, <2>3, <2>6 DEF TxInv
  <2>9. pc = "txmask" => TxCount - 1 < TxSize - 1
    BY <2>3
  <2>10. TxCount - 1 \in 0 .. TxSize - 1
    BY <2>3
  <2> QED BY <1>1, <2>2, <2>4, <2>6, <2>7, <2>8, <2>9, <2>10 DEF TxInv
<1> QED BY <1>2, <1>3 DEF Irq, TxHalf

(* uart0SendChar, in one order or the other.                                *)
LEMMA SendTx == TypeOK /\ IndexInv /\ TxInv /\ (Send \/ SendSteps) => TxInv'
<1> SUFFICES ASSUME TypeOK, IndexInv, TxInv, Send \/ SendSteps PROVE TxInv'
  OBVIOUS
<1>1. UNCHANGED <<wire, crossed>>
  BY DEF Send, SendSteps, SendWait, TxMask, PutWrap, PutDataFirst, PutIndexLast,
         PutIndexFirst, PutDataLast, TxUnmask, line
<1>2. SUFFICES ASSUME ~crossed PROVE TxInv'
  BY <1>1 DEF TxInv
<1> DEFINE n == TxCount
           k == Len(wire)
           at == Place(txBuf.out, n, TxSize)
<1>3. /\ k \in Nat /\ n \in 0 .. TxSize - 1 /\ sent \in Nat /\ sent \in Bytes
      /\ txBuf \in Rings(TxSize, Bytes) /\ Queued(txBuf, TxSize, n, Numbers, k)
      /\ TxSize \in Nat /\ TxSize >= 2
      /\ \A i \in 1 .. Len(wire) : wire[i] = i
      /\ txBuf.out \in 0 .. TxSize /\ txBuf.in \in 0 .. TxSize
      /\ txBuf = [in |-> txBuf.in, out |-> txBuf.out, buf |-> txBuf.buf]
  BY <1>2, Sizes, TxNumbers DEF TypeOK, TxInv, Rings
<1>4. pc \notin {"put", "putindex", "putdata"} => Linked(txBuf, TxSize, n)
  BY <1>2 DEF TxInv
<1>5. pc \in Sending => sent = k + 1 + n /\ sent = Numbers[k + 1 + n]
  BY <1>2, <1>3, TxNumbers DEF Numbers
<1>6. pc \in {"put", "putindex", "putdata"} => n \in 0 .. TxSize - 2
  BY <1>2, <1>3 DEF TxInv
<1>7. CASE Send
  <2>1. UNCHANGED <<txBuf>> /\ sent' = sent + 1 /\ pc = "idle" /\ pc' = "wait"
    BY <1>7 DEF Send, Goto
  <2>2. TxCount' = n
    BY <1>1, <1>3, <2>1 DEF TxCount, Sending
  <2> HIDE DEF n, k
  <2> QED BY <1>1, <1>3, <1>4, <2>1, <2>2 DEF TxInv, k
<1>8. CASE SendWait
  <2>1. /\ UNCHANGED <<txBuf, sent>> /\ pc = "wait" /\ pc' = "txmask"
        /\ ~IsFull(txBuf, TxSize)
    BY <1>8 DEF SendWait, Goto
  <2>2. TxCount' = n
    BY <1>1, <2>1 DEF TxCount, Sending
  <2>3. n < TxSize - 1
    BY <1>2, <1>3, <2>1, TxNumbers
  <2> HIDE DEF n, k
  <2> QED BY <1>1, <1>3, <1>4, <2>1, <2>2, <2>3 DEF TxInv, k
<1>9. CASE TxMask
  <2>1. UNCHANGED <<txBuf, sent>> /\ pc = "txmask" /\ pc' = "txwrap"
    BY <1>9 DEF TxMask, Goto
  <2>2. TxCount' = n /\ n < TxSize - 1
    BY <1>1, <1>2, <2>1 DEF TxCount, Sending, TxInv
  <2> HIDE DEF n, k
  <2> QED BY <1>1, <1>3, <1>4, <2>1, <2>2 DEF TxInv, k
<1>10. CASE PutWrap
  <2>1. /\ UNCHANGED sent /\ pc = "txwrap" /\ pc' = "put"
        /\ txBuf' = WrapIn(txBuf, TxSize)
    BY <1>10 DEF PutWrap, Goto
  <2>2. TxCount' = n /\ n < TxSize - 1
    BY <1>1, <1>2, <2>1 DEF TxCount, Sending, TxInv
  <2> HIDE DEF n
  <2>3. txBuf'.in = at /\ txBuf'.out = txBuf.out /\ txBuf'.buf = txBuf.buf
    BY <1>3, <1>4, <2>1, WrapInPlace
  <2>4. Queued(txBuf', TxSize, n, Numbers, k)
    BY <1>3, <2>3 DEF Queued
  <2> QED BY <1>1, <1>3, <2>1, <2>2, <2>3, <2>4 DEF TxInv
<1>11. CASE PutDataFirst
  <2>1. /\ UNCHANGED sent /\ pc = "put" /\ pc' = "putindex"
        /\ txBuf' = Store(txBuf, txBuf.in, sent)
    BY <1>11 DEF PutDataFirst, Goto
  <2>2. TxCount' = n /\ n < TxSize - 1 /\ txBuf.in = at
    BY <1>1, <1>2, <2>1 DEF TxCount, Sending, TxInv
  <2>3. sent = Numbers[k + 1 + n] /\ n \in 0 .. TxSize - 2
    BY <1>5, <1>6, <2>1 DEF Sending
  <2> HIDE DEF n
  <2>4. Queued(txBuf', TxSize, n + 1, Numbers, k)
    BY <1>3, <2>1, <2>2, <2>3, StoredFacts
  <2>5. txBuf'.in = txBuf.in /\ txBuf'.out = txBuf.out
    BY <1>3, <2>1 DEF Store
  <2>6. Queued(txBuf', TxSize, n, Numbers, k) /\ txBuf'.buf[at] = sent
    BY <1>3, <2>3, <2>4, <2>5 DEF Queued
  <2> QED BY <1>1, <1>3, <2>1, <2>2, <2>5, <2>6 DEF TxInv
<1>12. CASE PutIndexLast
  <2>1. /\ UNCHANGED sent /\ pc = "putindex" /\ pc' = "txunmask"
        /\ txBuf' = StepIn(txBuf)
    BY <1>12 DEF PutIndexLast, Goto
  <2>2. txBuf.in = at /\ txBuf.buf[at] = sent
    BY <1>2, <2>1 DEF TxInv
  <2>3. sent = Numbers[k + 1 + n] /\ n \in 0 .. TxSize - 2
    BY <1>5, <1>6, <2>1 DEF Sending
  <2>4. TxCount' = n + 1
    BY <1>1, <1>3, <2>1 DEF TxCount, Sending
  <2> HIDE DEF n
  <2>5. /\ txBuf'.in = at + 1 /\ txBuf'.out = txBuf.out /\ txBuf'.buf = txBuf.buf
        /\ txBuf' \in Rings(TxSize, Bytes)
    <3>1. txBuf.in < TxSize
      BY <2>1 DEF IndexInv
    <3> QED BY <1>3, <2>1, <2>2, <3>1, TxTypes DEF StepIn
  <2>6. Linked(txBuf', TxSize, n + 1)
    BY <1>3, <2>3, <2>5, LinkedNext
  <2>7. Queued(txBuf', TxSize, n + 1, Numbers, k)
    <3>1. \A j \in 0 .. (n + 1) - 1 : j \in 0 .. n - 1 \/ j = n
      BY <1>3
    <3> QED BY <1>3, <2>2, <2>3, <2>5, <3>1 DEF Queued
  <2>8. n + 1 \in 0 .. TxSize - 1
    BY <1>3, <2>3
  <2> QED BY <1>1, <1>3, <2>1, <2>4, <2>6, <2>7, <2>8 DEF TxInv
<1>13. CASE PutIndexFirst
  <2>1. /\ UNCHANGED sent /\ pc = "put" /\ pc' = "putdata"
        /\ slot' = txBuf.in /\ txBuf' = StepIn(txBuf)
    BY <1>13 DEF PutIndexFirst, Goto
  <2>2. TxCount' = n /\ n < TxSize - 1 /\ txBuf.in = at
    BY <1>1, <1>2, <2>1 DEF TxCount, Sending, TxInv
  <2> HIDE DEF n
  <2>3. txBuf'.in = at + 1 /\ txBuf'.out = txBuf.out /\ txBuf'.buf = txBuf.buf
    BY <1>3, <2>1, <2>2 DEF StepIn
  <2>4. Queued(txBuf', TxSize, n, Numbers, k)
    BY <1>3, <2>3 DEF Queued
  <2> QED BY <1>1, <1>3, <2>1, <2>2, <2>3, <2>4 DEF TxInv
<1>14. CASE PutDataLast
  <2>1. /\ UNCHANGED sent /\ pc = "putdata" /\ pc' = "txunmask"
        /\ txBuf' = Store(txBuf, slot, sent)
    BY <1>14 DEF PutDataLast, Goto
  <2>2. slot = at /\ txBuf.in = at + 1
    BY <1>2, <2>1 DEF TxInv
  <2>3. sent = Numbers[k + 1 + n] /\ n \in 0 .. TxSize - 2
    BY <1>5, <1>6, <2>1 DEF Sending
  <2>4. TxCount' = n + 1
    BY <1>1, <1>3, <2>1 DEF TxCount, Sending
  <2> HIDE DEF n
  <2>5. Queued(txBuf', TxSize, n + 1, Numbers, k)
    BY <1>3, <2>1, <2>2, <2>3, StoredFacts
  <2>6. txBuf'.in = at + 1 /\ txBuf'.out = txBuf.out /\ txBuf' \in Rings(TxSize, Bytes)
    <3>1. txBuf.out \in 0 .. TxSize
      BY <1>3
    <3>2. slot \in 0 .. TxSize - 1
      BY <3>1, <1>3, <2>2, <2>3, PlaceType
    <3> QED BY <1>3, <2>1, <2>2, <3>2, TxTypes DEF Store
  <2>7. Linked(txBuf', TxSize, n + 1)
    BY <1>3, <2>3, <2>6, LinkedNext
  <2>8. n + 1 \in 0 .. TxSize - 1
    BY <1>3, <2>3
  <2> QED BY <1>1, <1>3, <2>1, <2>4, <2>5, <2>7, <2>8 DEF TxInv
<1>15. CASE TxUnmask
  <2>1. UNCHANGED <<txBuf, sent>> /\ pc \notin Sending /\ pc' \notin Sending
    BY <1>15 DEF TxUnmask, Goto, Sending
  <2> QED BY <1>1, <2>1, TxKept
<1> QED BY <1>7, <1>8, <1>9, <1>10, <1>11, <1>12, <1>13, <1>14, <1>15 DEF SendSteps

-----------------------------------------------------------------------------
(* The invariant, and what follows from it. *)

LEMMA InitIInv == Init => IInv
BY InitType, InitRx, InitTx DEF IInv

(* Every step of the line, of the handler and of the main program.          *)
LEMMA NextIInv == IInv /\ [Next]_vars => IInv'
<1> SUFFICES ASSUME TypeOK, IndexInv, TxInv, RxInv, [Next]_vars
             PROVE  TypeOK' /\ IndexInv' /\ TxInv' /\ RxInv'
  BY DEF IInv
<1>1. CASE Arrive
  <2>1. UNCHANGED <<txBuf, sent, wire, crossed, pc, slot>>
    BY <1>1 DEF Arrive
  <2> QED BY <1>1, <2>1, ArriveType, ArriveRx, TxKept
<1>2. CASE TxDone
  <2>1. /\ txReady' = TRUE
        /\ UNCHANGED <<txBuf, rxBuf, inten, rxReady, rxData, pc, slot, data, sent,
                       wire, arrived, taken, got, crossed>>
    BY <1>2 DEF TxDone
  <2>2. TypeOK'
    BY <2>1 DEF TypeOK
  <2>3. IndexInv'
    BY <2>1 DEF IndexInv
  <2> QED BY <2>1, <2>2, <2>3, TxKept, RxKept
<1>3. CASE Irq
  BY <1>3, IrqType, IrqRx, IrqTx
<1>4. CASE Send \/ SendSteps
  <2>1. /\ UNCHANGED <<rxBuf, rxReady, rxData, taken, got>>
        /\ pc \notin RxPc /\ pc' \notin RxPc
    BY <1>4 DEF Send, SendSteps, SendWait, TxMask, PutWrap, PutDataFirst, PutIndexLast,
                PutIndexFirst, PutDataLast, TxUnmask, Goto, line, RxPc
  <2> QED BY <1>4, <2>1, SendType, SendTx, RxKept
<1>5. CASE RxMask \/ RecvSteps
  <2>1. /\ UNCHANGED <<txBuf, sent, wire, crossed>>
        /\ pc \notin Sending /\ pc' \notin Sending
    BY <1>5 DEF RxMask, RecvSteps, GetWrap, GetDataFirst, GetIndexLast, GetIndexFirst,
                GetDataLast, RxUnmask, Goto, line, Sending
  <2> QED BY <1>5, <2>1, RecvType, RecvRx, TxKept
<1>6. CASE UNCHANGED vars
  <2>1. UNCHANGED <<txBuf, rxBuf, inten, txReady, rxReady, rxData, pc, slot, data, sent,
                    wire, arrived, taken, got, crossed>>
    BY <1>6 DEF vars
  <2>2. TypeOK'
    BY <2>1 DEF TypeOK
  <2>3. IndexInv'
    BY <2>1 DEF IndexInv
  <2> QED BY <2>1, <2>2, <2>3, TxKept, RxKept
<1> QED BY <1>1, <1>2, <1>3, <1>4, <1>5, <1>6 DEF Next, Main

(* The inductive invariant holds in every state main program and handler    *)
(* can reach.                                                               *)
THEOREM Invariance == Spec => []IInv
BY InitIInv, NextIInv, PTL DEF Spec

(* The indices of both queues stay within their buffers, wherever the       *)
(* handler breaks into put and get.                                         *)
THEOREM TypeCorrect == Spec => []TypeOK
BY Invariance, PTL DEF IInv

(* uart0RecvChar returns what came in, in that order, and what was taken    *)
(* from the line but not returned is in rxBuf or in RXDATA.                 *)
THEOREM RxAlwaysExact == Spec => []RxExact
<1>1. IInv => RxExact
  <2> SUFFICES ASSUME TypeOK, RxInv PROVE RxExact
    BY DEF IInv
  <2>1. /\ Len(got) \in Nat /\ Len(taken) \in Nat /\ Removed \in Nat
        /\ Removed + RxCount + (IF rxReady THEN 1 ELSE 0) = Len(taken)
        /\ Count(rxBuf, RxSize) = RxCount /\ RxCount \in Nat
    BY RxNumbers, Sizes
  <2>2. Len(got) <= Removed /\ Removed <= Len(taken)
    BY <2>1 DEF Removed, RxInv
  <2>3. IsPrefixOf(got, taken)
    BY <2>1, <2>2 DEF IsPrefixOf, RxInv
  <2>4. ASSUME pc = "idle"
        PROVE  Len(taken) = Len(got) + Count(rxBuf, RxSize) + IF rxReady THEN 1 ELSE 0
    <3>1. Removed = Len(got)
      BY <2>1, <2>4 DEF Removed
    <3> QED BY <2>1, <3>1
  <2> QED BY <2>3, <2>4 DEF RxExact
<1> QED BY <1>1, Invariance, PTL

(* Unless a receive interrupt broke into a put, what goes out on the line   *)
(* is what was sent, in that order, nothing lost or doubled.                *)
THEOREM TxAlwaysInOrder == Spec => []TxInOrder
<1>1. IInv => TxInOrder
  <2> SUFFICES ASSUME TypeOK, TxInv, ~crossed
               PROVE  IsPrefixOf(wire, [i \in 1 .. sent |-> i])
    BY DEF IInv, TxInOrder
  <2>1. /\ Len(wire) \in Nat /\ sent \in Nat /\ TxCount \in Nat
        /\ Len(wire) + TxCount + (IF pc \in Sending THEN 1 ELSE 0) = sent
    BY TxNumbers, Sizes
  <2>2. Len(wire) <= sent
    BY <2>1
  <2>3. Len([i \in 1 .. sent |-> i]) = sent
    BY <2>1
  <2>4. \A i \in 1 .. Len(wire) : wire[i] = [j \in 1 .. sent |-> j][i]
    BY <2>1, <2>2 DEF TxInv
  <2> QED BY <2>2, <2>3, <2>4 DEF IsPrefixOf
<1> QED BY <1>1, Invariance, PTL
=============================================================================
