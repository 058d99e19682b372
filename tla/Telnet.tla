--------------------------------- MODULE Telnet ---------------------------------
(***************************************************************************)
(* The telnet escapes between a host and a SerPlus bridge, which carry the *)
(* modem lines and the parity inside the data.  Four pieces of code have   *)
(* to agree on them: telnetWrapper of tools/uploader/serflash writes and   *)
(* reads them, usart1_isr of explore/1649-f103/serplus decodes and doubles.*)
(***************************************************************************)
EXTENDS Integers, Sequences, SequencesExt

IAC    == 255
WILL   == 251
SB     == 250
SE     == 240
CPO    == 44
SETPAR == 3
SETCTL == 5

Parities == {1, 2, 3}       \* PAR_NONE, PAR_ODD, PAR_EVEN
Signals  == {8, 9, 11, 12}  \* DTR_ON, DTR_OFF, RTS_ON, RTS_OFF

-----------------------------------------------------------------------------
(* The host writes.  An item is some data or the setting of a modem line.   *)
Hello == <<IAC, WILL, CPO>>

Doubled(b) == IF b = IAC THEN <<IAC, IAC>> ELSE <<b>>
Wrapped(bytes) == FlattenSeq([i \in DOMAIN bytes |-> Doubled(bytes[i])])
SendEscape(signal) == <<IAC, SB, CPO, SETCTL, signal, IAC, SE>>

WireOf(item) ==
  IF item.kind = "data" THEN Wrapped(item.bytes) ELSE SendEscape(item.signal)
Wire(items) == Hello \o FlattenSeq([i \in DOMAIN items |-> WireOf(items[i])])

(* What this is to have done at the serial port.                            *)
SendByte(b)   == [do |-> "send", what |-> b]
SetSignal(s)  == [do |-> "signal", what |-> s]
SetParity(p)  == [do |-> "parity", what |-> p]

Meaning(items) ==
  FlattenSeq([i \in DOMAIN items |->
    IF items[i].kind = "data"
    THEN [j \in DOMAIN items[i].bytes |-> SendByte(items[i].bytes[j])]
    ELSE <<SetSignal(items[i].signal)>>])

-----------------------------------------------------------------------------
(* The bridge decodes: the state machine of usart1_isr, byte by byte.       *)
DecodeNext(state, b) ==
  CASE state = 0 -> IF b = IAC THEN 1 ELSE 0
    [] state = 1 -> IF b = IAC THEN 0 ELSE IF b = SB THEN 3
                    ELSE IF b >= WILL THEN 2 ELSE 0
    [] state = 2 -> 0
    [] state = 3 -> IF b = CPO THEN 4 ELSE 5
    [] state = 4 -> IF b = SETPAR THEN 7 ELSE IF b = SETCTL THEN 8 ELSE 5
    [] state = 5 -> IF b = IAC THEN 6 ELSE 5
    [] state = 6 -> IF b = IAC THEN 6 ELSE IF b = SE THEN 0
                    ELSE IF b = SB THEN 3 ELSE 5
    [] state \in {7, 8} -> 5

(* Mistake: a doubled IAC is dropped.                                       *)
DecodeDoDropsIac(state, b) ==
  CASE state = 0 /\ b # IAC           -> <<SendByte(b)>>
    [] state = 7 /\ b \in Parities    -> <<SetParity(b)>>
    [] state = 8 /\ b \in Signals     -> <<SetSignal(b)>>
    [] OTHER                          -> <<>>

DecodeDo(state, b) ==
  CASE state = 0 /\ b # IAC           -> <<SendByte(b)>>
    [] state = 1 /\ b = IAC           -> <<SendByte(b)>>
    [] state = 7 /\ b \in Parities    -> <<SetParity(b)>>
    [] state = 8 /\ b \in Signals     -> <<SetSignal(b)>>
    [] OTHER                          -> <<>>

-----------------------------------------------------------------------------
(* The host reads: telnetWrapper.Read, byte by byte.                        *)
UnwrapNext(state, b) ==
  CASE state = 0 -> IF b = IAC THEN 1 ELSE 0
    [] state = 1 -> IF b = SB THEN 2 ELSE 0
    [] state = 2 -> IF b = IAC THEN 3 ELSE 2
    [] state = 3 -> IF b = SE THEN 0 ELSE 2

UnwrapKeeps(state, b) == (state = 0 /\ b # IAC) \/ (state = 1 /\ b # SB)

(* Read of a whole buffer, from [state, got] to [state, got].               *)
Unwrapped(from, bytes) ==
  LET read[n \in 0 .. Len(bytes)] ==
        IF n = 0 THEN from
        ELSE LET b == bytes[n] IN
             [state |-> UnwrapNext(read[n - 1].state, b),
              got   |-> IF UnwrapKeeps(read[n - 1].state, b)
                        THEN Append(read[n - 1].got, b) ELSE read[n - 1].got]
  IN  read[Len(bytes)]
=============================================================================
