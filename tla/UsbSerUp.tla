------------------------------ MODULE UsbSerUp ------------------------------
(***************************************************************************)
(* The boot loader that takes uploads over USB: upload.h, the protocol of  *)
(* ST's serial boot ROM, and the flash part of usbserup.c.  A step of the  *)
(* loader runs from one getByte to the next.  A getByte that finds nothing *)
(* for 500000 polls answers 0xFF, so the loader goes on by itself whenever *)
(* the host is late.  Erasing a page and programming a word are steps, but *)
(* that a reset may come between the two halves of a word.                 *)
(***************************************************************************)
EXTENDS Integers, Sequences

CONSTANTS
    PageSize,       \* bytes in a page of flash memory
    UserPages,      \* pages below the loader
    BootPages,      \* pages that hold the loader
    Old,            \* what every user word holds at first
    LoaderVec,      \* the reset vector of the loader, at userLimit + 4: an address
    MaxBlock,       \* bound: a greater count, up to 256 in the code, stands for this one
    MaxBack         \* bound: the loader stays silent once so many replies wait

VARIABLES
    wire,           \* bytes sent by the host and not taken by getByte
    back,           \* bytes flushed by the loader and not read by the host
    at,             \* the handler that waits for a byte, or what goes on instead
    args,           \* the bytes that this handler has taken
    prog,           \* words of the block that writeFlash has programmed
    flash           \* the words in flash memory

devVars == <<wire, back, at, args, prog, flash>>

Blank == <<255, 255, 255, 255>>

ASSUME UsbSerUpAssumption ==
    /\ PageSize \in Nat /\ PageSize > 4 /\ PageSize % 4 = 0
    /\ UserPages \in Nat \ {0} /\ BootPages \in Nat \ {0}
    /\ MaxBlock \in 8 .. 256 /\ MaxBack \in Nat \ {0}

Byte == 0 .. 255

\* The vector is an odd address above 0x08000000: neither half of it is erased or zero.
ASSUME WordAssumption ==
    /\ {Old, LoaderVec} \subseteq Byte \X Byte \X Byte \X Byte /\ Old # LoaderVec
    /\ \A h \in {1, 3} : \E k \in {h, h + 1} : LoaderVec[k] # 255
    /\ \A h \in {1, 3} : \E k \in {h, h + 1} : LoaderVec[k] # 0

ACK == 121
NAK == 31
GET == 0
GETVER == 1
GETID == 2
READ == 17
GO == 33
WRITE == 49
ERASE == 67
userLimit == UserPages * PageSize
Words == 0 .. (userLimit + BootPages * PageSize) \div 4 - 1
LoaderWords == {w \in Words : w * 4 >= userLimit}

\* The loader is in place and, as after an earlier upload, owns the reset vector.
InitDevice ==
    /\ wire = <<>> /\ back = <<>> /\ args = <<>> /\ prog = 0
    /\ at = "sync"
    /\ flash = [w \in Words |-> IF w = 1 \/ w * 4 >= userLimit THEN LoaderVec ELSE Old]

\* getByte: what the host sent, or 0xFF when it sends nothing for too long.
Arrived(b) == wire # <<>> /\ b = Head(wire) /\ wire' = Tail(wire)
GaveUp(b) == wire = <<>> /\ Len(back) < MaxBack /\ b = 255 /\ UNCHANGED wire
getByteForever(b) == Arrived(b)   \* mutant: waits for ever
getByte(b) == Arrived(b) \/ GaveUp(b)

Goto(handler) == at' = handler /\ args' = <<>>
Collect(b) == args' = Append(args, b) /\ UNCHANGED at
Put(reply) == back' = back \o reply

\* Ten bytes without a 0x7F start the user's code; the NAK of that case is put
\* in the buffer and never flushed.
initialSync(b) ==
    /\ at = "sync"
    /\ \/ b = 127 /\ Goto("cmd") /\ Put(<<ACK>>)
       \/ b # 127 /\ Len(args) < 9 /\ Collect(b) /\ UNCHANGED back
       \/ b # 127 /\ Len(args) = 9 /\ Goto("user") /\ UNCHANGED back
    /\ UNCHANGED <<prog, flash>>

AnswersShort ==   \* mutant: a version without its second option byte
    [c \in {GET, GETVER, GETID} |->
        CASE c = GET -> <<ACK, 7, 34, GET, GETVER, GETID, READ, GO, WRITE, ERASE, ACK>>
          [] c = GETVER -> <<ACK, 34, 0, ACK>>
          [] c = GETID -> <<ACK, 1, 4, 16, ACK>>]
Answers ==
    [c \in {GET, GETVER, GETID} |->
        CASE c = GET -> <<ACK, 7, 34, GET, GETVER, GETID, READ, GO, WRITE, ERASE, ACK>>
          [] c = GETVER -> <<ACK, 34, 0, 0, ACK>>
          [] c = GETID -> <<ACK, 1, 4, 16, ACK>>]
Handlers ==
    [c \in {ERASE, WRITE, READ, GO} |->
        CASE c = ERASE -> "erase" [] c = WRITE -> "write" [] c = READ -> "read" [] c = GO -> "go"]

\* A command is followed by its complement.
uploadHandler(b) ==
    /\ at = "cmd"
    /\ \/ args = <<>> /\ Collect(b) /\ UNCHANGED back
       \/ /\ args # <<>>
          /\ LET cmd == args[1]
                 known == b = 255 - cmd /\ cmd \in DOMAIN Answers \cup DOMAIN Handlers
             IN  \/ ~known /\ Goto("cmd") /\ Put(<<NAK>>)
                 \/ known /\ cmd \in DOMAIN Answers /\ Goto("cmd") /\ Put(Answers[cmd])
                 \/ known /\ cmd \in DOMAIN Handlers /\ Goto(Handlers[cmd]) /\ Put(<<ACK>>)
    /\ UNCHANGED <<prog, flash>>

\* A count less one is sent.
Counted(n) == IF n < MaxBlock THEN n + 1 ELSE MaxBlock

\* Everything (0xFF) or a list of pages, and a checksum: eraseFlash does nothing.
erase(b) ==
    /\ at = "erase"
    /\ IF args # <<>> /\ Len(args) = (IF args[1] = 255 THEN 1 ELSE 1 + Counted(args[1]))
       THEN Goto("cmd") /\ Put(<<ACK>>)
       ELSE Collect(b) /\ UNCHANGED back
    /\ UNCHANGED <<prog, flash>>

\* An address as an offset in flash memory; those elsewhere are at its end.
Offset(a) == IF a[1] = 8 /\ a[2] = 0 THEN a[3] * 256 + a[4] ELSE 65536
VTOR == <<224, 0, 237, 12>>
Address == SubSeq(args, 1, 4)
Count == Counted(args[6])

\* Four bytes of address and a checksum, which is not looked at.
getAddrCheck(b) ==
    /\ at \in {"write", "read", "go"} /\ Len(args) < 5
    /\ IF Len(args) < 4 THEN Collect(b) /\ UNCHANGED back
       ELSE /\ Put(<<ACK>>)
            /\ IF at = "go" THEN Goto("user") ELSE Collect(b)
    /\ UNCHANGED <<prog, flash>>

\* A count less one, the data and a checksum, which is not looked at either.
\* A write outside the user's pages does nothing; one to VTOR ends the loader.
writeData(b) ==
    /\ at = "write" /\ Len(args) >= 5
    /\ IF Len(args) = 5 \/ Len(args) < 6 + Count
       THEN Collect(b) /\ UNCHANGED <<back, prog>>
       ELSE IF Offset(Address) < userLimit
            THEN at' = "flashing" /\ prog' = 0 /\ UNCHANGED <<args, back>>
            ELSE /\ Put(<<ACK>>) /\ UNCHANGED prog
                 /\ Goto(IF Address = VTOR THEN "user" ELSE "cmd")
    /\ UNCHANGED flash

\* The bytes asked for; 0 stands for what is read outside flash memory.
readData(b) ==
    /\ at = "read" /\ Len(args) >= 5
    /\ IF Len(args) = 5 THEN Collect(b) /\ UNCHANGED back
       ELSE LET o == Offset(Address)
                Stored(i) == IF (o + i) \div 4 \in Words
                             THEN flash[(o + i) \div 4][((o + i) % 4) + 1] ELSE 0
            IN  Put(<<ACK>> \o [i \in 1 .. Count |-> Stored(i - 1)]) /\ Goto("cmd")
    /\ UNCHANGED <<prog, flash>>

TakeByte(b) ==
    /\ getByte(b)
    /\ \/ initialSync(b) \/ uploadHandler(b) \/ erase(b)
       \/ getAddrCheck(b) \/ writeData(b) \/ readData(b)

-----------------------------------------------------------------------------
(* writeFlash. *)

BlockWords == (Count + 3) \div 4

\* Word i of the data, after which junk is read from the stack.
Given(i, junk) ==
    [k \in 1 .. 4 |-> IF 4 * i + k <= Count THEN args[6 + 4 * i + k] ELSE junk]

\* mutants: the jump to the loader, or the start of the user's code, is not kept
PatchedStart(i, junk) == IF Offset(Address) = 0 /\ i = 0 THEN Given(1, junk) ELSE Given(i, junk)
PatchedJump(i, junk) ==
    IF Offset(Address) = 0 /\ i = 1 THEN flash[userLimit \div 4 + 1] ELSE Given(i, junk)

\* The first two words of flash memory keep the start of the user's code and the
\* jump to the loader.
Patched(i, junk) ==
    CASE Offset(Address) = 0 /\ i = 0 -> Given(1, junk)
      [] Offset(Address) = 0 /\ i = 1 -> flash[userLimit \div 4 + 1]
      [] OTHER -> Given(i, junk)

\* mutant: a mass erase
EraseEverything ==
    /\ at = "flashing"
    /\ at' = "programming"
    /\ flash' = IF Offset(Address) = 0 THEN [w \in Words |-> Blank] ELSE flash
    /\ UNCHANGED <<wire, back, args, prog>>

\* A page is erased when its first word is about to be written.
ErasePage ==
    /\ at = "flashing"
    /\ at' = "programming"
    /\ flash' = IF Offset(Address) % PageSize = 0
                THEN [w \in Words |-> IF w \div (PageSize \div 4) = Offset(Address) \div PageSize
                                      THEN Blank ELSE flash[w]]
                ELSE flash
    /\ UNCHANGED <<wire, back, args, prog>>

\* The hardware programs a word by halves: one that is erased, or that is to become
\* zero; any other half it leaves as it was.
Takes(old, new, h) == (old[h] = 255 /\ old[h + 1] = 255) \/ (new[h] = 0 /\ new[h + 1] = 0)
Programmed(old, new) ==
    LET low == IF Takes(old, new, 1) THEN new ELSE old
        high == IF Takes(old, new, 3) THEN new ELSE old
    IN  <<low[1], low[2], high[3], high[4]>>

\* A word at an even offset that is no multiple of four is in two words of memory.
Share(w, o, new) ==
    CASE o = 4 * w -> new
      [] o = 4 * w + 2 -> <<255, 255, new[1], new[2]>>
      [] o = 4 * w - 2 -> <<new[3], new[4], 255, 255>>
ProgramAt(o, new) ==
    [w \in Words |-> IF w \in {o \div 4, (o + 3) \div 4} THEN Programmed(flash[w], Share(w, o, new))
                     ELSE flash[w]]
Target == Offset(Address) + 4 * prog

ProgramWord ==
    /\ at = "programming" /\ prog < BlockWords /\ Offset(Address) % 2 = 0
    /\ \E junk \in {0, 255} : flash' = ProgramAt(Target, Patched(prog, junk))
    /\ prog' = prog + 1
    /\ UNCHANGED <<wire, back, at, args>>

\* An odd address: a fault, or nothing is programmed.
ProgramOdd ==
    /\ at = "programming" /\ Offset(Address) % 2 # 0
    /\ \/ Goto("fault") /\ UNCHANGED back
       \/ Goto("cmd") /\ Put(<<ACK>>)
    /\ UNCHANGED <<wire, prog, flash>>

WriteDone ==
    /\ at = "programming" /\ prog = BlockWords /\ Offset(Address) % 2 = 0
    /\ Goto("cmd") /\ Put(<<ACK>>)
    /\ UNCHANGED <<wire, prog, flash>>

WriteFlash == ErasePage \/ ProgramWord \/ ProgramOdd \/ WriteDone

\* Half a word may be programmed when a reset comes.
Torn ==
    /\ at = "programming" /\ prog < BlockWords /\ Offset(Address) % 2 = 0
    /\ \E junk \in {0, 255} :
         flash' = ProgramAt(Target, [Patched(prog, junk) EXCEPT ![3] = 255, ![4] = 255])

\* The processor starts at the reset vector, which is the loader's or not.
Reset ==
    /\ UNCHANGED flash \/ Torn
    /\ Goto(IF flash'[1] = LoaderVec THEN "sync" ELSE "lost")
    /\ wire' = <<>> /\ back' = <<>>
    /\ UNCHANGED prog
=============================================================================
