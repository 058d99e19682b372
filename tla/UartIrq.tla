-------------------------------- MODULE UartIrq --------------------------------
(***************************************************************************)
(* The interrupt-driven serial port lib/arch-lpc8xx/uart_irq.h: the main   *)
(* program puts into txBuf and gets from rxBuf, the interrupt handler does *)
(* the opposite.  The main program masks only the cause that concerns the  *)
(* queue it is working on, while the handler looks at the status bits and  *)
(* serves both causes whichever of them called it.                         *)
(*                                                                         *)
(* The handler runs to its end, and the main program does not get a single *)
(* step in while an unmasked cause is pending.  The bytes sent, and the    *)
(* bytes received, are numbered from 1.                                    *)
(***************************************************************************)
EXTENDS RingBuf

CONSTANTS
  TxSize, RxSize,  \* the sizes of txBuf and rxBuf (16 and 64)
  MaxTx,           \* bound: bytes the main program sends
  MaxRx,           \* bound: bytes that arrive on the line
  MaxWire          \* bound: bytes that go out on the line

ASSUME UartAssumption ==
  /\ TxSize \in Nat /\ TxSize >= 2
  /\ RxSize \in Nat /\ RxSize >= 2
  /\ MaxTx \in Nat /\ MaxRx \in Nat
  /\ MaxWire \in Nat /\ MaxWire >= MaxTx

VARIABLES
  txBuf, rxBuf,
  inten,            \* INTENSET: the unmasked causes
  txReady,          \* STAT TXRDY
  rxReady, rxData,  \* STAT RXRDY, RXDATA
  pc,               \* where the main program is
  slot,             \* where it writes or reads in the queue
  data,             \* what it read from rxBuf
  sent,             \* bytes given to uart0SendChar so far
  wire,             \* bytes written to TXDATA
  arrived,          \* bytes that came in on the line
  taken,            \* those which made it to RXDATA
  got,              \* bytes returned by uart0RecvChar
  crossed           \* the handler took a byte from txBuf in the middle of a put

vars == <<txBuf, rxBuf, inten, txReady, rxReady, rxData, pc, slot, data, sent,
          wire, arrived, taken, got, crossed>>

line   == <<txReady, rxReady, rxData, wire, arrived, taken>>
MainPc == {"idle", "wait", "txmask", "txwrap", "put", "putindex", "putdata",
           "txunmask", "rxwrap", "get", "getindex", "getdata", "rxunmask"}

Bytes == 0 .. MaxTx + MaxRx

(* After uart0Init.                                                         *)
Init ==
  /\ txBuf = NewRing(TxSize, 0)
  /\ rxBuf = NewRing(RxSize, 0)
  /\ inten = {"rx"}
  /\ txReady = TRUE
  /\ rxReady = FALSE /\ rxData = 0
  /\ pc = "idle" /\ slot = 0 /\ data = 0
  /\ sent = 0 /\ wire = <<>>
  /\ arrived = 0 /\ taken = <<>> /\ got = <<>>
  /\ crossed = FALSE

-----------------------------------------------------------------------------
(* The line *)

(* A byte arrives; it is lost if RXDATA was not read yet.                   *)
Arrive ==
  /\ arrived < MaxRx
  /\ arrived' = arrived + 1
  /\ IF rxReady THEN UNCHANGED <<rxData, taken>>
     ELSE rxData' = arrived + 1 /\ taken' = Append(taken, arrived + 1)
  /\ rxReady' = TRUE
  /\ UNCHANGED <<txBuf, rxBuf, inten, txReady, pc, slot, data, sent, wire, got,
                 crossed>>

(* The byte in TXDATA has gone to the shift register.                       *)
TxDone ==
  /\ ~txReady
  /\ Len(wire) <= MaxWire
  /\ txReady' = TRUE
  /\ UNCHANGED <<txBuf, rxBuf, inten, rxReady, rxData, pc, slot, data, sent,
                 wire, arrived, taken, got, crossed>>

-----------------------------------------------------------------------------
(* UART0_IRQHandler *)

Pending == ("rx" \in inten /\ rxReady) \/ ("tx" \in inten /\ txReady)

InPut == pc \in {"txwrap", "put", "putindex", "putdata"}

(* Mistake: a full rxBuf is not respected.                                  *)
RxHalfUnchecked ==
  IF rxReady
  THEN rxBuf' = Put(rxBuf, RxSize, rxData) /\ rxReady' = FALSE
  ELSE UNCHANGED <<rxBuf, rxReady>>

RxHalf ==
  IF rxReady /\ ~IsFull(rxBuf, RxSize)
  THEN rxBuf' = Put(rxBuf, RxSize, rxData) /\ rxReady' = FALSE
  ELSE UNCHANGED <<rxBuf, rxReady>>

(* Mistake: the transmit interrupt stays on when there is nothing to send.  *)
TxHalfUnmasked ==
  IF ~txReady \/ IsEmpty(txBuf)
  THEN UNCHANGED <<txBuf, inten, wire, txReady, crossed>>
  ELSE /\ wire' = Append(wire, GetData(txBuf, TxSize))
       /\ txBuf' = Get(txBuf, TxSize)
       /\ txReady' = FALSE
       /\ crossed' = (crossed \/ InPut)
       /\ inten' = inten

TxHalf ==
  IF ~txReady THEN UNCHANGED <<txBuf, inten, wire, txReady, crossed>>
  ELSE IF IsEmpty(txBuf)
  THEN inten' = inten \ {"tx"} /\ UNCHANGED <<txBuf, wire, txReady, crossed>>
  ELSE /\ wire' = Append(wire, GetData(txBuf, TxSize))
       /\ txBuf' = Get(txBuf, TxSize)
       /\ txReady' = FALSE
       /\ crossed' = (crossed \/ InPut)
       /\ inten' = inten

Irq ==
  /\ Pending
  /\ RxHalf
  /\ TxHalf
  /\ UNCHANGED <<rxData, pc, slot, data, sent, arrived, taken, got>>

-----------------------------------------------------------------------------
(* The main program.  Every step is one access to something the handler     *)
(* uses too, and needs the processor.                                       *)

Goto(from, to) == ~Pending /\ pc = from /\ pc' = to

(* uart0SendChar: the next byte ...                                         *)
Send ==
  /\ sent < MaxTx
  /\ Goto("idle", "wait")
  /\ sent' = sent + 1
  /\ UNCHANGED <<txBuf, rxBuf, inten, slot, data, got, crossed, line>>

(* Mistake: nobody waits for room.                                          *)
SendWaitNot ==
  /\ Goto("wait", "txmask")
  /\ UNCHANGED <<txBuf, rxBuf, inten, slot, data, sent, got, crossed, line>>

(* ... waits for room ...                                                   *)
SendWait ==
  /\ ~IsFull(txBuf, TxSize)
  /\ Goto("wait", "txmask")
  /\ UNCHANGED <<txBuf, rxBuf, inten, slot, data, sent, got, crossed, line>>

TxMask ==
  /\ Goto("txmask", "txwrap")
  /\ inten' = inten \ {"tx"}
  /\ UNCHANGED <<txBuf, rxBuf, slot, data, sent, got, crossed, line>>

(* ... and is put into txBuf, in one order or the other.                    *)
PutWrap ==
  /\ Goto("txwrap", "put")
  /\ txBuf' = WrapIn(txBuf, TxSize)
  /\ UNCHANGED <<rxBuf, inten, slot, data, sent, got, crossed, line>>

PutDataFirst ==
  /\ Goto("put", "putindex")
  /\ txBuf' = Store(txBuf, txBuf.in, sent)
  /\ UNCHANGED <<rxBuf, inten, slot, data, sent, got, crossed, line>>

PutIndexLast ==
  /\ Goto("putindex", "txunmask")
  /\ txBuf' = StepIn(txBuf)
  /\ UNCHANGED <<rxBuf, inten, slot, data, sent, got, crossed, line>>

PutIndexFirst ==
  /\ Goto("put", "putdata")
  /\ slot' = txBuf.in
  /\ txBuf' = StepIn(txBuf)
  /\ UNCHANGED <<rxBuf, inten, data, sent, got, crossed, line>>

PutDataLast ==
  /\ Goto("putdata", "txunmask")
  /\ txBuf' = Store(txBuf, slot, sent)
  /\ UNCHANGED <<rxBuf, inten, slot, data, sent, got, crossed, line>>

(* Mistake: the interrupt is not turned on again.                           *)
TxUnmaskNot ==
  /\ Goto("txunmask", "idle")
  /\ UNCHANGED <<txBuf, rxBuf, inten, slot, data, sent, got, crossed, line>>

TxUnmask ==
  /\ Goto("txunmask", "idle")
  /\ inten' = inten \union {"tx"}
  /\ UNCHANGED <<txBuf, rxBuf, slot, data, sent, got, crossed, line>>

(* uart0RecvChar, when there is something to return.                        *)
RxMask ==
  /\ ~IsEmpty(rxBuf)
  /\ Goto("idle", "rxwrap")
  /\ inten' = inten \ {"rx"}
  /\ UNCHANGED <<txBuf, rxBuf, slot, data, sent, got, crossed, line>>

GetWrap ==
  /\ Goto("rxwrap", "get")
  /\ rxBuf' = WrapOut(rxBuf, RxSize)
  /\ UNCHANGED <<txBuf, inten, slot, data, sent, got, crossed, line>>

GetDataFirst ==
  /\ Goto("get", "getindex")
  /\ data' = rxBuf.buf[rxBuf.out]
  /\ UNCHANGED <<txBuf, rxBuf, inten, slot, sent, got, crossed, line>>

GetIndexLast ==
  /\ Goto("getindex", "rxunmask")
  /\ rxBuf' = StepOut(rxBuf)
  /\ UNCHANGED <<txBuf, inten, slot, data, sent, got, crossed, line>>

GetIndexFirst ==
  /\ Goto("get", "getdata")
  /\ slot' = rxBuf.out
  /\ rxBuf' = StepOut(rxBuf)
  /\ UNCHANGED <<txBuf, inten, data, sent, got, crossed, line>>

GetDataLast ==
  /\ Goto("getdata", "rxunmask")
  /\ data' = rxBuf.buf[slot]
  /\ UNCHANGED <<txBuf, rxBuf, inten, slot, sent, got, crossed, line>>

RxUnmask ==
  /\ Goto("rxunmask", "idle")
  /\ inten' = inten \union {"rx"}
  /\ got' = Append(got, data)
  /\ UNCHANGED <<txBuf, rxBuf, slot, data, sent, crossed, line>>

SendSteps ==
  \/ SendWait \/ TxMask \/ PutWrap \/ PutDataFirst \/ PutIndexLast
  \/ PutIndexFirst \/ PutDataLast \/ TxUnmask

RecvSteps ==
  \/ GetWrap \/ GetDataFirst \/ GetIndexLast \/ GetIndexFirst \/ GetDataLast
  \/ RxUnmask

Main == Send \/ SendSteps \/ RxMask \/ RecvSteps

Next == Arrive \/ TxDone \/ Irq \/ Main

Spec == Init /\ [][Next]_vars

(* The hardware shifts out what it has, a pending interrupt is taken, and   *)
(* the main program finishes the calls it began and goes on sending; it     *)
(* need not ever receive.                                                   *)
Fairness == WF_vars(TxDone) /\ WF_vars(Irq) /\ WF_vars(Send \/ SendSteps \/ RecvSteps)

FairSpec == Spec /\ Fairness

-----------------------------------------------------------------------------
(* Properties *)

(* Type invariant: no index of a queue is ever used beyond its buffer.      *)
TypeOK ==
  /\ txBuf \in Rings(TxSize, Bytes)
  /\ rxBuf \in Rings(RxSize, Bytes)
  /\ inten \subseteq {"rx", "tx"}
  /\ txReady \in BOOLEAN /\ rxReady \in BOOLEAN
  /\ rxData \in 0 .. MaxRx
  /\ pc \in MainPc
  /\ slot \in 0 .. TxSize + RxSize
  /\ data \in Bytes
  /\ sent \in 0 .. MaxTx
  /\ wire \in Seq(Bytes)
  /\ arrived \in 0 .. MaxRx
  /\ taken \in Seq(0 .. MaxRx)
  /\ got \in Seq(Bytes)
  /\ crossed \in BOOLEAN

IsPrefixOf(s, t) == Len(s) <= Len(t) /\ \A i \in 1 .. Len(s) : s[i] = t[i]

(* What goes out on the line is what was sent, in that order, nothing lost  *)
(* or doubled, as long as no receive interrupt hits the middle of a put.    *)
TxInOrder ==
  ~crossed => IsPrefixOf(wire, [i \in 1 .. sent |-> i])

(* Main and handler work on rxBuf at the same time (transmit interrupts     *)
(* stay on), and yet uart0RecvChar returns what came in, in that order.     *)
(* Bytes are only ever lost in RXDATA, while the handler is held off or     *)
(* rxBuf is full; what was taken is either returned, in rxBuf, in the hands *)
(* of uart0RecvChar or still in RXDATA.                                     *)
RxExact ==
  /\ IsPrefixOf(got, taken)
  /\ pc = "idle" =>
       Len(taken) = Len(got) + Count(rxBuf, RxSize) + IF rxReady THEN 1 ELSE 0

(* The handler cannot get rid of its interrupt in one case only: rxBuf is   *)
(* full and RXDATA holds one more byte.                                     *)
Stuck == Pending /\ ~ENABLED <<Irq>>_vars
StuckOnlyWhenFull ==
  Stuck => rxReady /\ Count(rxBuf, RxSize) = RxSize - 1

(* Everything that is sent goes out in the end, unless a receive interrupt  *)
(* hit the middle of a put, or rxBuf is full and the handler takes all the  *)
(* time there is.                                                           *)
TxDrains ==
  \/ <>[](pc = "idle" /\ sent = MaxTx /\ Len(wire) = MaxTx)
  \/ <>crossed
  \/ <>[](rxReady /\ IsFull(rxBuf, RxSize))
=============================================================================
