------------------------------- MODULE Upload -------------------------------
(***************************************************************************)
(* A host that uploads an image (folie's stm32.go) and the USB boot loader *)
(* (UsbSerUp).  A tool is the list of what it sends and which reply it     *)
(* waits for; every byte sent and every byte of a reply is a step.  "folie"*)
(* is the repository's own tool.  The tools the README of usbserup names   *)
(* are external and stand here with the framing of stm32.go: "flash"       *)
(* writes, reads back and starts the image, and "wipe" erases two pages    *)
(* and then everything.  Resets may come at any time, and the host may be  *)
(* late until the loader waits for a command again.                        *)
(***************************************************************************)
EXTENDS UsbSerUp, SequencesExt

CONSTANTS
    Image,          \* the bytes to upload
    BlockLen,       \* bytes in a block, 256 in the code
    Tools,          \* the tools that may be started
    MaxRuns,        \* bound: how often a tool is started
    MaxGreetings,   \* bound: how often a tool tries to connect
    MaxGap,         \* bound: a longer delay lasts until the loader waits for a command
    MaxFaults       \* bound: how often the host is held up or the board reset

VARIABLES
    tool, step,     \* the tool and the entry of its script
    tosend,         \* bytes of this entry still to be sent
    left,           \* bytes of a reply still to be read
    held,           \* the host is held up
    gaps,           \* how often getByte gave up since the host's last step
    pending,        \* the rest of the chunk that getReply took from serIn
    runs, faults,   \* counters for the bounds
    stale,          \* history: a greeting was sent with a reply still unread
    astray,         \* history: the loader gave up in the middle of a command, was
                    \* greeted in one, or took a byte of one for a greeting
    midway,         \* history: the tool was started when the loader was in a command
    cut             \* history: a reset in the middle of writeFlash

hostVars == <<tool, step, tosend, left, held, gaps, pending, runs>>
vars == <<devVars, hostVars, faults, stale, astray, midway, cut>>

ASSUME UploadAssumption ==
    /\ Image \in Seq(Byte) /\ BlockLen \in 5 .. 256 /\ BlockLen % 4 = 0
    /\ Tools \subseteq {"folie", "flash", "wipe"}
    /\ {MaxGreetings, MaxGap, MaxRuns, MaxFaults} \subseteq Nat

-----------------------------------------------------------------------------
(* Scripts. *)

RDUNP == 146
Bit(x, i) == (x \div 2 ^ i) % 2
Xor(x, y) == MapThenSumSet(LAMBDA i : 2 ^ i * ((Bit(x, i) + Bit(y, i)) % 2), 0 .. 7)
Checked(bytes) == Append(bytes, FoldLeft(Xor, 0, bytes))

Entry(bytes, wants, n) == [bytes |-> bytes, wants |-> wants, n |-> n]
Cmd(c) == Entry(<<c, 255 - c>>, "ack", 0)
Connect == Entry(<<127>>, "any", MaxGreetings)
Take(n) == Entry(<<>>, "bytes", n)
WantAck == Entry(<<>>, "ack", 0)

getBootVersion == <<Cmd(GET), Entry(<<>>, "count", 0), Take(0), WantAck>>
getChipType == <<Cmd(GETID), Take(3), WantAck>>
Unprotect == <<Cmd(RDUNP), WantAck, Connect>>
massErase == <<Cmd(ERASE), Entry(<<255, 255>>, "slow", 0)>>
Blocks == Len(Image) \div BlockLen
send4bytes(o) == <<8, 0, o \div 256, o % 256>>
WriteBlock(k) ==
    <<Cmd(WRITE), Entry(Checked(send4bytes(k * BlockLen)), "ack", 0),
      Entry(Checked(<<BlockLen - 1>> \o SubSeq(Image, k * BlockLen + 1, (k + 1) * BlockLen)),
            "ack", 0)>>
writeFlash == FlattenSeq([k \in 1 .. Blocks |-> WriteBlock(k - 1)])
ErasePages == <<Cmd(GETVER), Take(3), WantAck, Cmd(ERASE), Entry(Checked(<<1, 0, 1>>), "ack", 0)>>
ReadFirst == <<Cmd(READ), Entry(Checked(send4bytes(0)), "ack", 0), Entry(<<3, 252>>, "ack", 0), Take(4)>>
sendGoCmd == <<Cmd(GO), Entry(Checked(send4bytes(0)), "ack", 0)>>

uploadSTM32 == <<Connect>> \o getBootVersion \o getChipType \o Unprotect \o massErase \o writeFlash
Scripts ==
    [t \in {"folie", "flash", "wipe"} |->
        CASE t = "folie" -> uploadSTM32
          [] t = "flash" -> <<Connect>> \o writeFlash \o ReadFirst \o sendGoCmd
          [] t = "wipe" -> <<Connect>> \o ErasePages \o massErase]
Script == Scripts[tool]

\* step: 0 is not running, then the entries; the last means done, -k that the tool
\* gave up in entry k.
Done == Len(Script) + 1
Running == step \in 1 .. Len(Script)
Wants == Script[step].wants

Init ==
    /\ InitDevice
    /\ tool \in Tools /\ step = 0
    /\ tosend = <<>> /\ left = 0 /\ held = FALSE /\ gaps = 0 /\ pending = <<>>
    /\ runs = 0 /\ faults = 0 /\ stale = FALSE /\ astray = FALSE
    /\ midway = FALSE /\ cut = FALSE

-----------------------------------------------------------------------------
(* The host. *)

\* An entry starts: sendCmd forgets what is pending, not what is still to come.
Enter(k) ==
    LET entry == IF k \in 1 .. Len(Script) THEN Script[k] ELSE WantAck
    IN  step' = k /\ tosend' = entry.bytes /\ left' = entry.n
Forgets(k) == k \in 1 .. Len(Script) /\ Len(Script[k].bytes) = 2 /\ Script[k].wants = "ack"
Proceed(rest) ==
    /\ Enter(step + 1)
    /\ pending' = IF Forgets(step + 1) THEN <<>> ELSE rest
Exit(rest) == Enter(-step) /\ pending' = rest

Gone == at \in {"user", "fault", "lost"}
Awake ==
    \/ gaps <= MaxGap \/ back # <<>>
    \/ at = "cmd" /\ args = <<>>
    \/ at = "sync" \/ Gone

\* A tool is started, perhaps with replies to the one before still on their way.
Start ==
    /\ ~Running /\ runs < MaxRuns /\ Awake /\ (wire = <<>> \/ Gone)
    /\ runs' = runs + 1
    /\ tool' \in Tools
    /\ step' = 1 /\ tosend' = Connect.bytes /\ left' = Connect.n /\ pending' = <<>>
    /\ back' \in {back, <<>>}
    /\ stale' = FALSE /\ astray' = FALSE /\ midway' = (at \notin {"sync", "cmd"} /\ ~Gone)
    /\ held' = FALSE /\ gaps' = 0
    /\ UNCHANGED <<wire, at, args, prog, flash, faults, cut>>

\* The bytes of an entry follow each other at once, unless the host is held up
\* after k of them.
Send ==
    /\ Running /\ tosend # <<>> /\ Awake
    /\ \/ wire' = wire \o tosend /\ tosend' = <<>> /\ held' = FALSE /\ UNCHANGED faults
       \/ \E k \in 0 .. Len(tosend) - 1 :
            /\ ~held /\ faults < MaxFaults
            /\ held' = TRUE /\ faults' = faults + 1
            /\ wire' = wire \o SubSeq(tosend, 1, k)
            /\ tosend' = SubSeq(tosend, k + 1, Len(tosend))
    /\ gaps' = 0
    /\ stale' = (stale \/ (Wants = "any" /\ back # <<>>))
    /\ astray' = (astray \/ (Wants = "any" /\ at \notin {"sync", "cmd"} /\ ~Gone))
    /\ UNCHANGED <<back, at, args, prog, flash, tool, step, left, pending, runs, midway, cut>>

\* The host is held up before it reads a reply.
Hold ==
    /\ Running /\ tosend = <<>> /\ ~held /\ faults < MaxFaults
    /\ held' = TRUE /\ faults' = faults + 1
    /\ UNCHANGED <<devVars, tool, step, tosend, left, gaps, pending, runs, stale, astray, midway, cut>>

\* The loader waits for the host, or is no more: nothing comes for 500 ms.
Silent == Gone \/ (wire = <<>> /\ at \notin {"flashing", "programming"})

\* getReply: the next byte of the chunk, the first of another chunk, which is one
\* byte or all there is, or 0 in silence.  rest is what stays pending.
Replies ==
    IF pending # <<>> THEN {[r |-> Head(pending), rest |-> Tail(pending), back |-> back]}
    ELSE IF back # <<>>
         THEN {[r |-> Head(back), rest |-> SubSeq(back, 2, k),
                back |-> SubSeq(back, k + 1, Len(back))] : k \in {1, Len(back)}}
         ELSE {[r |-> 0, rest |-> <<>>, back |-> <<>>] : x \in {y \in {0} : Silent}}

\* connectToTarget: ACK and NAK are both an answer; anything else means again.
connectToTarget(r, rest) ==
    /\ Wants = "any"
    /\ \/ r \in {ACK, NAK} /\ Proceed(rest)
       \/ r \notin {ACK, NAK} /\ left = 1 /\ Exit(rest)
       \/ /\ r \notin {ACK, NAK} /\ left > 1
          /\ left' = left - 1 /\ tosend' = <<127>> /\ pending' = rest
          /\ UNCHANGED step

wantAck(r, rest) ==
    /\ Wants = "ack"
    /\ IF r = ACK THEN Proceed(rest) ELSE Exit(rest)

\* wantSlowAck: no answer yet is no error, nor is an answer that is 0.
wantSlowAck(r, rest) ==
    /\ Wants = "slow"
    /\ \/ r = ACK /\ Proceed(rest)
       \/ r \notin {0, ACK} /\ Exit(rest)
       \/ r = 0 /\ pending' = rest /\ UNCHANGED <<step, tosend, left>>

\* The replies that a tool does not look at, r + 1 of them after a count.
TakeReply(r, rest) ==
    /\ Wants \in {"count", "bytes"}
    /\ \/ /\ Wants = "count"
          /\ step' = step + 1 /\ left' = r + 1
          /\ pending' = rest /\ UNCHANGED tosend
       \/ /\ Wants = "bytes" /\ left > 1
          /\ left' = left - 1
          /\ pending' = rest /\ UNCHANGED <<step, tosend>>
       \/ Wants = "bytes" /\ left <= 1 /\ Proceed(rest)

Receive ==
    /\ Running /\ tosend = <<>> /\ Awake
    /\ \E reply \in Replies :
         /\ back' = reply.back
         /\ \/ connectToTarget(reply.r, reply.rest) \/ wantAck(reply.r, reply.rest)
            \/ wantSlowAck(reply.r, reply.rest) \/ TakeReply(reply.r, reply.rest)
    /\ held' = FALSE /\ gaps' = 0
    /\ UNCHANGED <<wire, at, args, prog, flash, tool, runs, faults, stale, astray, midway, cut>>

-----------------------------------------------------------------------------
(* The loader, and its resets. *)

\* A host that is not held up goes on before getByte gives up, unless it waits for
\* an answer itself, or sleeps for a second before another greeting.
Prompt ==
    /\ Running /\ ~held
    /\ IF tosend # <<>> THEN Wants # "any" \/ left = MaxGreetings ELSE pending # <<>> \/ back # <<>>

Loader ==
    /\ wire = <<>> => ~Prompt
    /\ \E b \in Byte : TakeByte(b)
    /\ astray' = (astray \/ (wire = <<>> /\ at \notin {"sync", "cmd"})
                         \/ (at = "sync" /\ at' = "cmd" /\ Running /\ Wants # "any"))
    /\ gaps' = IF wire = <<>> /\ gaps <= MaxGap THEN gaps + 1 ELSE gaps
    /\ UNCHANGED <<tool, step, tosend, left, held, pending, runs, faults, stale, midway, cut>>

Flashing == WriteFlash /\ UNCHANGED <<hostVars, faults, stale, astray, midway, cut>>

PowerCut ==
    /\ faults < MaxFaults
    /\ faults' = faults + 1
    /\ Reset
    /\ cut' = (cut \/ at = "programming")
    /\ UNCHANGED <<hostVars, stale, astray, midway>>

Next == Start \/ Send \/ Hold \/ Receive \/ Loader \/ Flashing \/ PowerCut

Spec ==
    /\ Init /\ [][Next]_vars
    /\ WF_vars(Send) /\ WF_vars(Receive) /\ WF_vars(Loader) /\ WF_vars(Flashing)
-----------------------------------------------------------------------------
(* Properties. *)

\* Types, and how far the counters get.
TypeOK ==
    /\ {wire, back, args, pending, tosend} \subseteq Seq(Byte)
    /\ prog \in 0 .. MaxBlock /\ held \in BOOLEAN /\ gaps \in 0 .. MaxGap + 1
    /\ at \in {"sync", "cmd", "erase", "write", "read", "go", "flashing", "programming",
               "user", "fault", "lost"}
    /\ flash \in [Words -> Byte \X Byte \X Byte \X Byte]
    /\ step \in -Len(Script) .. Len(Script) + 1 /\ left \in 0 .. 256

\* What host and loader take for granted: blocks fill a page, the image is padded to
\* whole blocks and ends below the loader, and a block is no longer than the buffer
\* of the loader.
Fits ==
    /\ PageSize % BlockLen = 0 /\ Len(Image) % BlockLen = 0
    /\ BlockLen <= MaxBlock /\ Len(Image) <= userLimit

\* A tool that saw an ACK for everything has left the image in flash memory, with
\* the two patched words, also after another upload was cut short, a tool gave up
\* or the board was reset: unless getByte filled in for bytes of a command that
\* came too late, the tool connected on a NAK that the idle loader had sent before
\* its greeting or in the middle of a command, the board was reset and a byte
\* 0x7F of the image got an ACK as a greeting, or an earlier block went over the
\* loader's own vector.  (The checksums are not looked at.)
ImageWord(w) == [k \in 1 .. 4 |-> Image[4 * w + k]]
LoaderStarts == flash[userLimit \div 4 + 1] = LoaderVec
UploadExact ==
    step = Done /\ tool # "wipe" /\ ~astray /\ ~stale /\ LoaderStarts =>
        \A w \in 0 .. Len(Image) \div 4 - 1 :
            flash[w] = CASE w = 0 -> ImageWord(1) [] w = 1 -> LoaderVec [] OTHER -> ImageWord(w)

\* "the boot vector jump at 0x08000004 must point to the usbserup boot loader" at
\* all times: but for the time between the erasure of the first page and the
\* second word of it, and for good after a reset in that time.
VectorKept == flash[1] = LoaderVec \/ cut \/ at = "programming"

\* "don't overwrite the boot loader": whatever arrives, no word of the loader changes.
\* It does not hold: the limit is checked for the start of a block only.
LoaderIntact == \A w \in LoaderWords : flash[w] = LoaderVec

\* What does hold: the loader is never erased, and a word of it changes only by a block
\* that starts below the loader and runs on into it, and then only to zero.
RunsOver == Offset(Address) < userLimit /\ Offset(Address) + 4 * BlockWords > userLimit
LoaderKept ==
    [][\A w \in LoaderWords : flash'[w] # flash[w] =>
           /\ at = "programming" /\ RunsOver
           /\ \A k \in 1 .. 4 : flash'[w][k] \in {flash[w][k], 0}]_vars

\* Once connected, a tool whose commands the loader knows fails only because it
\* was held up, the board was reset, it had greeted the loader with a reply
\* still unread, or it was started when the loader was in the middle of a command.
\* With a reply unread loader and tool are a byte out of step, and the tool fails
\* on the next NAK; it may then leave a command half done to the tool after it.
\* In particular the NAKs of a loader that gives up every now and then do no harm
\* by themselves.
FailsForAReason == step < -1 /\ tool # "folie" => faults > 0 \/ stale \/ midway

\* A tool comes to an end, unless the loader is no longer there to answer: out of
\* any state of the loader the greetings, the fake bytes of getByte and the NAKs
\* lead back to an answer.
Ends == Running ~> (~Running \/ Gone)
=============================================================================
