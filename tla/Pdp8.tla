-------------------------------- MODULE Pdp8 --------------------------------
(***************************************************************************)
(* The PDP-8 emulators: p8.c, which runs on a host and reads a terminal,   *)
(* and run.c with main.c, which runs on an STM32F103, where an interrupt   *)
(* puts what is typed into rxData.  Both load a program from paper tape    *)
(* and execute it with the same instructions.  What matters of a round of  *)
(* the loop to others happens in two steps, up to the fetch and after it;  *)
(* reading and sending a character take one more.  Octal numbers are those *)
(* of the code.  What the emulators print about themselves is left out.    *)
(***************************************************************************)
EXTENDS Integers, Sequences, TLC, Bitwise

CONSTANTS
    Hosts,          \* which of "p8" and "arm8"
    Tape,           \* the bytes on the tape
    Typed,          \* the bytes that the user types
    Period          \* instructions from one interrupt to the next: 65536 and 1024

VARIABLES
    host,           \* the emulator that runs
    at,             \* "loading", "poll", "execute", "take", "send" or "stopped"
    pos, addr,      \* the loader's place on the tape and in memory
    pc, ir, mem, ac, mq, iena, counter,     \* ac includes the link, as bit 010000
    ch,             \* a byte between the lines that read it
    keys,           \* not typed yet
    rxData,         \* arm8: the last byte received, or -1
    tty, stdio,     \* p8: bytes in the terminal and in the buffer of getchar
    txReady,        \* arm8: the transmitter is free
    printed,        \* history: what was sent to the terminal
    taken,          \* history: what the program has read
    overtaken       \* history: a byte arrived while another one was being read

loaderVars == <<pos, addr>>
cpuVars == <<pc, ir, mem, ac, mq, iena, counter>>
keyVars == <<ch, keys, rxData, tty, stdio, taken, overtaken>>
printVars == <<txReady, printed>>
vars == <<host, at, loaderVars, cpuVars, keyVars, printVars>>

ASSUME Pdp8Assumption ==
    /\ Hosts \subseteq {"p8", "arm8"} /\ Period \in Nat /\ Period > 1
    /\ Tape \in Seq(0 .. 255) /\ Typed \in Seq(0 .. 255)

mask(w) == w % \o10000
lmask(w) == w % \o20000
Bit(w, b) == (w \div b) % 2 = 1
Link(w) == w - mask(w)

\* Memory is 0 where nothing was stored.
Cell(m, a) == IF a \in DOMAIN m THEN m[a] ELSE 0
Store(m, a, w) == (a :> w) @@ m

Init ==
    /\ host \in Hosts /\ at = "loading" /\ pos = 1 /\ addr = 0
    /\ pc = \o200 /\ ir = 0 /\ mem = <<>> /\ ac = 0 /\ mq = 0 /\ iena = "off" /\ counter = 0
    /\ ch = 0 /\ keys = Typed /\ rxData = -1 /\ tty = <<>> /\ stdio = <<>>
    /\ txReady = TRUE /\ printed = <<>> /\ taken = <<>> /\ overtaken = FALSE

-----------------------------------------------------------------------------
(* The tape. *)

\* What the assembler punches: words in two halves, origins with a mark, and run-in,
\* checksum and run-out around them.
Halves(w) == <<(w \div \o100) % \o100, w % \o100>>
putorg(a) == <<Halves(a)[1] + \o100, Halves(a)[2]>>
Leader == <<\o200, \o200>>

LoadRunIn ==
    /\ at = "loading" /\ Bit(Tape[pos], \o200)
    /\ pos' = pos + 1
    /\ UNCHANGED <<host, at, addr, cpuVars, keyVars, printVars>>

\* The word before the run-out is the checksum; a tape without words is refused.
LoadWord ==
    /\ at = "loading" /\ ~Bit(Tape[pos], \o200)
    /\ LET b == Tape[pos] * \o100 + Tape[pos + 1]
       IN  \/ /\ Bit(Tape[pos + 2], \o200)
              /\ at' = IF addr = 0 THEN "stopped" ELSE "poll"
              /\ UNCHANGED <<pos, addr, mem>>
           \/ /\ ~Bit(Tape[pos + 2], \o200)
              /\ IF Bit(b, \o10000) THEN addr' = mask(b) /\ UNCHANGED mem
                 ELSE mem' = Store(mem, addr, b) /\ addr' = addr + 1
              /\ pos' = pos + 2
              /\ UNCHANGED at
    /\ UNCHANGED <<host, pc, ir, ac, mq, iena, counter, keyVars, printVars>>

-----------------------------------------------------------------------------
(* The loop. *)

\* the state of interrupts in the handler
OffStays == "on"    \* mutant: they stay on
Off == "off"

\* iena >>= 1, every so many instructions an interrupt, and the fetch.
Poll ==
    /\ at = "poll" /\ at' = "execute"
    /\ LET on == iena # "off"
           fires == on /\ (counter + 1) % Period = 0
       IN  /\ counter' = IF on THEN (counter + 1) % Period ELSE counter
           /\ iena' = IF fires THEN Off ELSE IF on THEN "on" ELSE "off"
           /\ mem' = IF fires THEN Store(mem, 0, pc) ELSE mem
           /\ LET a == IF fires THEN 1 ELSE pc
              IN  ir' = Cell(mem', a) /\ pc' = mask(a + 1)
    /\ UNCHANGED <<host, loaderVars, ac, mq, keyVars, printVars>>

Executes(opcode) == at = "execute" /\ ir \div \o1000 = opcode
Skip(s) == pc' = IF s THEN mask(pc + 1) ELSE pc
Done == at' = "poll" /\ UNCHANGED <<host, loaderVars, ir, counter, keyVars, printVars>>

\* opAddr: the current page or page 0, and indirection, which steps a pointer in
\* 010 .. 017 first.
Page(a) == (a \div \o200) * \o200
Pointer == (ir % \o200) + IF Bit(ir, \o200) THEN Page(mask(pc - 1)) ELSE 0
Stepped ==
    IF Bit(ir, \o400) /\ Pointer \in \o10 .. \o17
    THEN Store(mem, Pointer, mask(Cell(mem, Pointer) + 1)) ELSE mem
opAddr == IF Bit(ir, \o400) THEN Cell(Stepped, Pointer) ELSE Pointer
Operand == Cell(Stepped, opAddr)

AndWord ==
    /\ Executes(0)
    /\ ac' = Link(ac) + (mask(ac) & Operand) /\ mem' = Stepped
    /\ Done /\ UNCHANGED <<pc, mq, iena>>
Tad ==
    /\ Executes(1)
    /\ ac' = lmask(ac + Operand) /\ mem' = Stepped
    /\ Done /\ UNCHANGED <<pc, mq, iena>>
Isz ==
    /\ Executes(2)
    /\ mem' = Store(Stepped, opAddr, mask(Operand + 1))
    /\ Skip(mask(Operand + 1) = 0)
    /\ Done /\ UNCHANGED <<ac, mq, iena>>
DcaClears ==    \* mutant: AC is cleared with the link
    /\ Executes(3)
    /\ mem' = Store(Stepped, opAddr, mask(ac)) /\ ac' = 0
    /\ Done /\ UNCHANGED <<pc, mq, iena>>
Dca ==
    /\ Executes(3)
    /\ mem' = Store(Stepped, opAddr, mask(ac)) /\ ac' = Link(ac)
    /\ Done /\ UNCHANGED <<pc, mq, iena>>
Jms ==
    /\ Executes(4)
    /\ mem' = Store(Stepped, opAddr, pc) /\ pc' = mask(opAddr + 1)
    /\ Done /\ UNCHANGED <<ac, mq, iena>>
Jmp ==
    /\ Executes(5)
    /\ pc' = opAddr /\ mem' = Stepped
    /\ Done /\ UNCHANGED <<ac, mq, iena>>

-----------------------------------------------------------------------------
(* Input and output. *)

Device(d) == Executes(6) /\ (ir \div \o10) % \o100 = d

\* ION (06001) and IOF (06002); other devices do nothing.
Interrupts ==
    /\ Executes(6) /\ (ir \div \o10) % \o100 \notin {\o3, \o4}
    /\ iena' = CASE ir = \o6001 -> "soon" [] ir = \o6002 -> "off" [] OTHER -> iena
    /\ Done /\ UNCHANGED <<pc, mem, ac, mq>>

Ready == IF host = "p8" THEN tty # <<>> ELSE rxData >= 0
Keyboard ==
    /\ Device(\o3)
    /\ Skip(Bit(ir, 1) /\ Ready)
    /\ at' = IF Bit(ir, 4) THEN "take" ELSE "poll"
    /\ ch' = rxData % 256
    /\ UNCHANGED <<host, loaderVars, ir, mem, ac, mq, iena, counter, keys, rxData, tty, stdio,
                   taken, overtaken, printVars>>

\* p8: getchar waits for a byte and takes all there are into its buffer; ctrl-\ quits.
GetChar ==
    /\ at = "take" /\ host = "p8"
    /\ \E line \in {IF stdio = <<>> THEN tty ELSE stdio} :
        /\ line # <<>>
        /\ stdio' = Tail(line)
        /\ tty' = IF stdio = <<>> THEN <<>> ELSE tty
        /\ taken' = Append(taken, Head(line))
        /\ IF Head(line) = 28 THEN at' = "stopped" /\ UNCHANGED ac
           ELSE at' = "poll" /\ ac' = Link(ac) + Head(line)
    /\ UNCHANGED <<host, loaderVars, pc, ir, mem, mq, iena, counter, ch, keys, rxData, overtaken,
                   printVars>>

\* arm8: rxData was read and is reset; the interrupt may have been there in between.
TakeKeeps ==    \* mutant: rxData is not reset
    /\ at = "take" /\ host = "arm8"
    /\ at' = "poll" /\ ac' = Link(ac) + ch /\ taken' = Append(taken, ch)
    /\ UNCHANGED <<host, loaderVars, pc, ir, mem, mq, iena, counter, ch, rxData, keys, tty, stdio,
                   overtaken, printVars>>
Take ==
    /\ at = "take" /\ host = "arm8"
    /\ rxData' = -1
    /\ at' = "poll" /\ ac' = Link(ac) + ch /\ taken' = Append(taken, ch)
    /\ UNCHANGED <<host, loaderVars, pc, ir, mem, mq, iena, counter, ch, keys, tty, stdio,
                   overtaken, printVars>>

\* usart1_isr, or the terminal.
Key ==
    /\ keys # <<>> /\ at \notin {"loading", "stopped"}
    /\ keys' = Tail(keys)
    /\ IF host = "p8" THEN tty' = Append(tty, Head(keys)) /\ UNCHANGED <<rxData, overtaken>>
       ELSE /\ rxData' = Head(keys) /\ UNCHANGED tty
            /\ overtaken' = (overtaken \/ at = "take")
    /\ UNCHANGED <<host, at, loaderVars, cpuVars, ch, stdio, taken, printVars>>

Teleprinter ==
    /\ Device(\o4)
    /\ Skip(Bit(ir, 1) /\ (host = "p8" \/ txReady))
    /\ at' = IF Bit(ir, 4) THEN "send" ELSE "poll"
    /\ ac' = IF Bit(ir, 2) /\ ~Bit(ir, 4) THEN Link(ac) ELSE ac
    /\ UNCHANGED <<host, loaderVars, ir, mem, mq, iena, counter, keyVars, printVars>>
\* txSend waits for the transmitter; putchar does not.
TxSend ==
    /\ at = "send" /\ at' = "poll"
    /\ host = "arm8" => txReady
    /\ txReady' = (host = "p8")
    /\ printed' = Append(printed, ac % \o200)
    /\ ac' = IF Bit(ir, 2) THEN Link(ac) ELSE ac
    /\ UNCHANGED <<host, loaderVars, pc, ir, mem, mq, iena, counter, keyVars>>
TxDone ==
    /\ ~txReady /\ txReady' = TRUE
    /\ UNCHANGED <<host, at, loaderVars, cpuVars, keyVars, printed>>

-----------------------------------------------------------------------------
(* OPR. *)

When(b, changed, w) == IF Bit(ir, b) THEN changed ELSE w
Cla(w) == When(\o200, Link(w), w)
RAR(w) == w \div 2 + (w % 2) * \o10000
RAL(w) == lmask(w * 2) + w \div \o10000
BSW(w) == Link(w) + (mask(w) \div \o100) + (w % \o100) * \o100

\* CLA, CLL, CMA, CML and IAC in this order, and one way to turn the bits.
Rotated(w) ==
    CASE (ir \div 2) % 8 = 5 -> RAR(RAR(w)) [] (ir \div 2) % 8 = 4 -> RAR(w)
      [] (ir \div 2) % 8 = 3 -> RAL(RAL(w)) [] (ir \div 2) % 8 = 2 -> RAL(w)
      [] (ir \div 2) % 8 = 1 -> BSW(w) [] OTHER -> w
Group1 ==
    /\ Executes(7) /\ ~Bit(ir, \o400)
    /\ LET cla == Cla(ac)
           cll == When(\o100, mask(cla), cla)
           cma == When(\o40, Link(cll) + \o7777 - mask(cll), cll)
           cml == When(\o20, lmask(cma + \o10000), cma)
       IN  ac' = Rotated(When(1, lmask(cml + 1), cml))
    /\ Done /\ UNCHANGED <<pc, mem, mq, iena>>

\* SMA, SZA or SNL, and the reverse of all; CLA, OSR with sr = 0, and HLT.
Group2 ==
    /\ Executes(7) /\ Bit(ir, \o400) /\ ~Bit(ir, 1)
    /\ LET some == \/ Bit(ir, \o100) /\ Bit(ac, \o4000)
                   \/ Bit(ir, \o40) /\ mask(ac) = 0
                   \/ Bit(ir, \o20) /\ Link(ac) # 0
       IN  Skip(some # Bit(ir, \o10))
    /\ ac' = Cla(ac)
    /\ at' = IF Bit(ir, 2) THEN "stopped" ELSE "poll"
    /\ UNCHANGED <<host, loaderVars, ir, mem, mq, iena, counter, keyVars, printVars>>

\* CLA, MQL, MQA.
Group3 ==
    /\ Executes(7) /\ Bit(ir, \o400) /\ Bit(ir, 1)
    /\ mq' = When(\o20, mask(Cla(ac)), mq)
    /\ LET w == When(\o20, Link(ac), Cla(ac)) IN ac' = When(\o100, w | mq, w)
    /\ Done /\ UNCHANGED <<pc, mem, iena>>

Loader == LoadRunIn \/ LoadWord
Memory == AndWord \/ Tad \/ Isz \/ Dca \/ Jms \/ Jmp
Iot == Interrupts \/ Keyboard \/ GetChar \/ Take \/ Teleprinter \/ TxSend
Emulator == Loader \/ Poll \/ Memory \/ Iot \/ Group1 \/ Group2 \/ Group3
Next == Emulator \/ Key \/ TxDone
Spec == Init /\ [][Next]_vars /\ WF_vars(Emulator) /\ WF_vars(Key) /\ WF_vars(TxDone)
-----------------------------------------------------------------------------
(* Properties. *)

\* What the user types is read in its order and never twice.  p8 loses nothing; of
\* what arm8 has got, the last byte is only lost when it comes while usart1_isr
\* interrupts the two lines that read and reset rxData.
Arrived == SubSeq(Typed, 1, Len(Typed) - Len(keys))
KeysExact ==
    /\ host = "p8" => taken \o stdio \o tty = Arrived
    /\ \E place \in [DOMAIN taken -> DOMAIN Arrived] :
        \A i \in DOMAIN taken :
            taken[i] = Arrived[place[i]] /\ (i > 1 => place[i] > place[i - 1])
    /\ host = "arm8" /\ Arrived # <<>> =>
        LET last == Arrived[Len(Arrived)]
        IN  overtaken \/ rxData = last \/ (taken # <<>> /\ taken[Len(taken)] = last)

\* A program that waits for its last key comes to its end, though interrupts take
\* it to the handler everywhere, also right after an ION: unless that key was lost
\* (as above), or p8 waits for a byte that getchar has already taken from the
\* terminal.
Stalled == stdio # <<>> /\ tty = <<>>
Halts == <>(at = "stopped") \/ <>overtaken \/ <>[]Stalled
=============================================================================
