-------------------------------- MODULE SerPlus --------------------------------
(***************************************************************************)
(* The USB to serial bridge explore/1649-f103/serplus/serplus.c.  The main *)
(* loop polls USB and moves bytes between packets and two rings; usart1_isr*)
(* moves them between the rings and the serial port, and decodes and adds  *)
(* telnet escapes on the way.  Nothing is ever masked.                     *)
(*                                                                         *)
(* usart1_isr runs to its end, and runs before the main loop gets another  *)
(* step in.  The main loop accesses a ring in steps, in the order of the   *)
(* compiled serplus.bin: "data[end++] = ch" steps the index first, and an  *)
(* index may equal the size of the ring for a moment.                      *)
(***************************************************************************)
EXTENDS Telnet

CONSTANTS
  Size,        \* BUFFER_SIZE, of both rings (256)
  Packet,      \* size of a USB packet, and of the buffers in main (64)
  Scripts,     \* what the host wants done: sequences of items
  LineBytes,   \* bytes that arrive on the serial line
  MaxBurst,    \* bytes that can arrive in a round of the main loop (23)
  MaxArrive,   \* bound: bytes that arrive
  Start        \* bytes that went through each ring before, modulo its size

Byte == 0 .. 255

(* What a host can ask for.                                                 *)
Items ==
  [kind : {"data"}, bytes : Seq(Byte)] \union [kind : {"signal"}, signal : Signals]

(* 23 bytes arrive in 2 ms at 115200 baud, and each may be doubled.         *)
ASSUME SerPlusAssumption ==
  /\ Packet \in Nat \ {0} /\ MaxBurst \in Nat /\ MaxArrive \in Nat
  /\ Size \in Nat /\ Size > Packet + 1
  /\ 2 * MaxBurst < Packet
  /\ Start \in 0 .. Size - 1
  /\ Scripts \subseteq Seq(Items) /\ LineBytes \subseteq Byte

VARIABLES
  script,     \* the script the host plays
  todo,       \* bytes the host has not given to USB yet
  endpoint,   \* the packet in the OUT endpoint, if any
  out, inp,   \* output_ring and input_ring
  pc,         \* where the main loop is
  buf,        \* its packet buffer
  slot,       \* the place it reads or writes
  txeie, txe, \* transmit interrupt enable; TDR can take a byte
  state,      \* decoder state of usart1_isr
  line,       \* what was done at the serial port
  arrived,    \* bytes that came in on the serial line
  burst,      \* how many of them since input_ring was last read
  moved,      \* bytes main took from input_ring and gave to USB
  host,       \* the host's decoder, and the bytes it got
  overtaken   \* usart1_isr read what main had not written yet

outVars == <<script, todo, endpoint, out, txeie, txe, state, line, overtaken>>
inVars  == <<inp, arrived, burst, moved, host>>
main    == <<pc, buf, slot>>
vars    == <<outVars, inVars, main>>

-----------------------------------------------------------------------------
IdleRing ==
  [begin |-> Start, end |-> Start, data |-> [i \in 0 .. Size - 1 |-> 0]]

Empty(ring) == ring.begin = ring.end
Full(ring)  == (ring.end + 1) % Size = ring.begin

(* ring_write_ch where nothing can come in between.                         *)
Write(ring, b) ==
  IF Full(ring) THEN ring
  ELSE [ring EXCEPT !.data[ring.end] = b, !.end = (@ + 1) % Size]

(* The bytes in a ring, oldest first.                                       *)
Contents(ring) ==
  [i \in 1 .. (ring.end - ring.begin) % Size |->
     ring.data[(ring.begin + i - 1) % Size]]

Init ==
  /\ script \in Scripts
  /\ todo = Wire(script)
  /\ endpoint = <<>>
  /\ out = IdleRing /\ inp = IdleRing
  /\ pc = "poll" /\ buf = <<>> /\ slot = 0
  /\ txeie = FALSE /\ txe = TRUE /\ state = 0 /\ line = <<>>
  /\ arrived = <<>> /\ burst = 0 /\ moved = <<>>
  /\ host = [state |-> 0, got |-> <<>>]
  /\ overtaken = FALSE

-----------------------------------------------------------------------------
(* The host fills the OUT endpoint when that is free.                       *)
HostSends ==
  /\ endpoint = <<>>
  /\ \E n \in 1 .. Packet :
       /\ n <= Len(todo)
       /\ endpoint' = SubSeq(todo, 1, n)
       /\ todo' = SubSeq(todo, n + 1, Len(todo))
  /\ UNCHANGED <<script, out, txeie, txe, state, line, overtaken, inVars, main>>

(* TDR goes to the shift register.                                          *)
TxDone ==
  /\ ~txe /\ txe' = TRUE
  /\ UNCHANGED <<script, todo, endpoint, out, txeie, state, line, overtaken,
                 inVars, main>>

-----------------------------------------------------------------------------
(* usart1_isr                                                               *)

(* RXNE: the byte goes into input_ring, IAC twice.                          *)
RxIrq(b) ==
  /\ Len(arrived) < MaxArrive /\ burst < MaxBurst
  /\ arrived' = Append(arrived, b)
  /\ burst' = burst + 1
  /\ inp' = IF b = IAC THEN Write(Write(inp, b), b) ELSE Write(inp, b)
  /\ UNCHANGED <<outVars, main, moved, host>>

TxPending == txeie /\ txe

(* The place to be read has not been written: main has stepped the index    *)
(* of that very place only, or not wrapped it yet.                          *)
Overtaking ==
  \/ pc = "store" /\ out.begin = slot
  \/ out.end = Size /\ out.begin = 0

(* TXE: the next byte from output_ring goes through the decoder; without    *)
(* one the interrupt is disabled.                                           *)
TxIrq ==
  /\ TxPending
  /\ IF Empty(out)
     THEN txeie' = FALSE /\ UNCHANGED <<out, state, line, txe, overtaken>>
     ELSE LET b == out.data[out.begin]
          IN  /\ out' = [out EXCEPT !.begin = (@ + 1) % Size]
              /\ state' = DecodeNext(state, b)
              /\ line' = line \o DecodeDo(state, b)
              /\ txe' = \A i \in DOMAIN DecodeDo(state, b) :
                           DecodeDo(state, b)[i].do # "send"
              /\ overtaken' = (overtaken \/ Overtaking)
              /\ txeie' = txeie
  /\ UNCHANGED <<script, todo, endpoint, inVars, main>>

-----------------------------------------------------------------------------
(* The main loop, which runs while no interrupt is pending.                 *)
Goto(here, there) == ~TxPending /\ pc = here /\ pc' = there

(* Mistake: room for a byte, instead of for a packet.                       *)
RoomForOne == (out.begin - (out.end + 1)) % Size > 0

(* Back pressure of cdcacm_data_rx_cb.                                      *)
Room == (out.begin - (out.end + 1)) % Size > Packet

(* cdcacm_data_rx_cb: usbd_poll calls it as long as the packet is there.    *)
ReadPacket ==
  /\ endpoint # <<>> /\ Room
  /\ Goto("poll", "put")
  /\ buf' = endpoint
  /\ endpoint' = <<>>
  /\ UNCHANGED <<script, todo, out, txeie, txe, state, line, overtaken, inVars,
                 slot>>

(* ring_write, byte by byte, until all are written or the ring is full.     *)
PutIndex ==
  /\ buf # <<>> /\ ~Full(out)
  /\ Goto("put", "store")
  /\ slot' = out.end
  /\ out' = [out EXCEPT !.end = @ + 1]
  /\ UNCHANGED <<script, todo, endpoint, txeie, txe, state, line, overtaken,
                 inVars, buf>>

PutData ==
  /\ Goto("store", "wrap")
  /\ out' = [out EXCEPT !.data[slot] = Head(buf)]
  /\ buf' = Tail(buf)
  /\ UNCHANGED <<script, todo, endpoint, txeie, txe, state, line, overtaken,
                 inVars, slot>>

PutWrap ==
  /\ Goto("wrap", "put")
  /\ out' = [out EXCEPT !.end = @ % Size]
  /\ UNCHANGED <<script, todo, endpoint, txeie, txe, state, line, overtaken,
                 inVars, buf, slot>>

(* Mistake: the interrupt is not enabled.                                   *)
EnableNot ==
  /\ buf = <<>> \/ Full(out)
  /\ Goto("put", "poll")
  /\ buf' = <<>>
  /\ UNCHANGED <<outVars, inVars, slot>>

Enable ==
  /\ buf = <<>> \/ Full(out)
  /\ Goto("put", "poll")
  /\ buf' = <<>>
  /\ txeie' = TRUE
  /\ UNCHANGED <<script, todo, endpoint, out, txe, state, line, overtaken,
                 inVars, slot>>

(* The 2 ms are over: ring_read, up to a packet; an empty ring changes      *)
(* nothing.                                                                 *)
ReadInput ==
  /\ ~Empty(inp)
  /\ Goto("poll", "get")
  /\ UNCHANGED <<outVars, inVars, buf, slot>>

GetIndex ==
  /\ ~Empty(inp) /\ Len(buf) < Packet
  /\ Goto("get", "load")
  /\ slot' = inp.begin
  /\ inp' = [inp EXCEPT !.begin = @ + 1]
  /\ UNCHANGED <<outVars, arrived, burst, moved, host, buf>>

GetData ==
  /\ Goto("load", "unwrap")
  /\ buf' = Append(buf, inp.data[slot])
  /\ UNCHANGED <<outVars, inVars, slot>>

GetWrap ==
  /\ Goto("unwrap", "get")
  /\ inp' = [inp EXCEPT !.begin = @ % Size]
  /\ UNCHANGED <<outVars, arrived, burst, moved, host, buf, slot>>

(* Mistake: a buffer with room for one more byte counts as full.            *)
CountGreedy(bytes) == IF Len(bytes) >= Packet - 1 THEN -Len(bytes) ELSE Len(bytes)

(* What ring_read returns: a full buffer counts negative.                   *)
Count(bytes) == IF Len(bytes) = Packet THEN -Len(bytes) ELSE Len(bytes)

(* The bytes read go to the IN endpoint, if main thinks there are any, and  *)
(* if the host has taken the former packet.                                 *)
WritePacket ==
  /\ Empty(inp) \/ Len(buf) = Packet
  /\ Goto("get", "poll")
  /\ buf' = <<>>
  /\ burst' = 0
  /\ IF Count(buf) > 0
     THEN /\ moved' = moved \o buf
          /\ host' \in {host, Unwrapped(host, buf)}
     ELSE UNCHANGED <<moved, host>>
  /\ UNCHANGED <<outVars, inp, arrived, slot>>

-----------------------------------------------------------------------------
Output == ReadPacket \/ PutIndex \/ PutData \/ PutWrap \/ Enable
Input  == ReadInput \/ GetIndex \/ GetData \/ GetWrap \/ WritePacket

(* After an overtaking the ring may hold anything, and nothing is claimed   *)
(* of what follows.                                                         *)
Next ==
  /\ ~overtaken
  /\ \/ HostSends \/ TxDone \/ TxIrq
     \/ \E b \in LineBytes : RxIrq(b)
     \/ Output \/ Input

Spec == Init /\ [][Next]_vars

(* The host goes on writing, the port shifts out, interrupts are taken and  *)
(* the main loop never stops.  Nothing need arrive.                         *)
Fairness ==
  WF_vars(HostSends) /\ WF_vars(TxDone) /\ WF_vars(TxIrq)
    /\ WF_vars(Output) /\ WF_vars(Input)

FairSpec == Spec /\ Fairness

-----------------------------------------------------------------------------
(* Properties *)

(* Type invariant: indices only ever exceed a ring by one.                  *)
TypeOK ==
  /\ todo \in Seq(Byte) /\ endpoint \in Seq(Byte)
  /\ \A ring \in {out, inp} :
       ring \in [begin : 0 .. Size, end : 0 .. Size,
                 data : [0 .. Size - 1 -> Byte]]
  /\ pc \in {"poll", "put", "store", "wrap", "get", "load", "unwrap"}
  /\ buf \in Seq(Byte) /\ Len(buf) <= Packet
  /\ slot \in 0 .. Size - 1
  /\ state \in 0 .. 8
  /\ burst \in 0 .. MaxBurst

(* "back pressure: don't read the packet if there's not enough room in      *)
(* ring": ring_write, whose result nobody looks at, never has to give up,   *)
(* unless usart1_isr read a place that main had not filled.                 *)
PacketFits == pc = "put" /\ buf # <<>> => overtaken \/ ~Full(out)

(* What happens at the serial port is what the host asked for, its data and *)
(* its signals in their order, through escapes, packets and the ring.       *)
LineFollowsHost == IsPrefix(line, Meaning(script))

(* The same, unless usart1_isr read a place that main had not filled.       *)
LineFollowsUnlessOvertaken == overtaken \/ LineFollowsHost

(* Nothing that arrives is lost or swapped on its way to USB, and the host  *)
(* gets it in its order: when it misses a packet, it loses what was in it,  *)
(* but not track of the escapes.                                            *)
InputExact ==
  /\ pc = "poll" => moved \o Contents(inp) = Wrapped(arrived)
  /\ host.state = 0
  /\ \E at \in [DOMAIN host.got -> DOMAIN arrived] :
       \A i \in DOMAIN host.got :
         /\ host.got[i] = arrived[at[i]]
         /\ i > 1 => at[i] > at[i - 1]

(* Everything the host asks for gets done, unless overtaken.                *)
AllDone == <>(line = Meaning(script)) \/ <>overtaken
=============================================================================
