# A verification project for embello

embello is JeeLabs' collection of embedded software: C++ for LPC8xx and STM32
boards, the tools around them, and Forth libraries. This directory holds TLA+
models of the parts that keep state across interrupts, packets, power failures
and restarts, the TLC configurations that check them, and proofs that TLAPS
checks. `PROJECT.json` says for every definition which lines of the source it
models.

To check a configuration: `tlc -config jb_lossy.cfg MCJeeBoot`; the table of
runs below names the module of each. To check the proofs:
`tlapm JeeBootProofs.tla`, and the same for the other modules whose names end in
`Proofs`.

## Inventory

Paths are relative to `src/`. Tree sizes are misleading: most of the 1389 files
are vendor headers, board layouts, compiled images and separate copies of the
same start-up code.

| Component | State it keeps | Operations | Works with | What is hard | What makes it correct |
|---|---|---|---|---|---|
| **Boot server core**, `tools/jeeboot/include/bootserver.h`, `packets.h` | none: each reply is computed from the request and the files | `hello`, `fetch`, dispatch on the request's length | file access; a server program carries its replies | the files change between two requests of one download | a reply is the announced file's size and CRC, or the very chunk asked for |
| **Index and file access**, `tools/jeeboot/include/fileaccess.h` | `map[10]` and `fill`, which grow with every reading of `index.txt` | `selectCode`, `parse`, `loadFile` | boot server | entries of former readings stay; table limit | a node gets what the index says now |
| **Boot loader**, `tools/jeeboot/include/bootlogic.h`, `tools/jeeboot/loader69/main.cpp` | retry counter, reply buffer, `pos`, `pageFill`, `pageBuf`, the flash | `request`, `identify`, `fetchOne`, `fetchAll`, `RfDispatch`, compare CRCs, jump | radio, flash | lost, late and overheard replies; chunk ends and page ends; power failure at any flash operation | only a whole, announced application is started as verified; the loader always gets control back |
| **Server programs**, `projects/rpr/rf69boot`, `rf69bridge`, `tools/jeeboot/jbserver` | the packet in their hands | receive, answer, forward | boot server, radio, MQTT | one request at a time | every request held is answered |
| **Variables in flash**, `lib/driver/romvars.h` | two flash pages, a copy of one in RAM, `map`, `fill` | `init`, assignment, `reusePage`, `combineChanges`, `flipAndSave` | flash driver | programming clears bits only; power failure between two flash operations; the log fills up | variables are "saved across power cycles" |
| **Serial port**, `lib/arch-lpc8xx/uart_irq.h`, `lib/driver/ringbuf.h` | two queues, interrupt masks | `uart0SendChar`, `uart0RecvChar`, interrupt handler | USART | handler and main program on the same queues, masked for one cause each | order kept, losses accounted for, no byte stuck |
| **SerPlus bridge**, `explore/1649-f103/serplus/serplus.c` | two rings, telnet decoder state, modem lines | USB poll, USART interrupt, decode | `serflash`, host | full rings, negative counts, escapes cut in two | bytes pass unchanged in both directions |
| **usbserup**, `tools/usbserup` | command under way, bytes taken ahead, the flash and its reset vector | `initialSync`, `uploadHandler`, `writeFlash`, `getByte` with its time-out | uploaders over USB; the user's program, which it starts | bytes that come too late are made up; resets while flash is written | the loader and its reset vector stay; what was acknowledged is stored |
| **folie**, `tools/folie`; **serflash**, `tools/uploader/serflash` | progress of a boot ROM dialogue; goroutines and their channels; nesting of include files | connect, erase, write, start; terminal, include, reconnect | a target's boot ROM or Forth interpreter | silence, late replies, chunks cut anywhere, goroutines that wait for each other | an upload ends with the image written, or an error; lines are executed once and in order, nothing said gets lost |
| **Forth multitasker**, `explore/1608-forth/flib/mecrisp/multi.fs`, `multi-irq.fs` | circular list of tasks, state of each | `(pause)`, `stop`, `wake`, `idle`, `insert`, `remove`, `activate`, `background` | interrupts that wake tasks; low-power sleep | wake before stop, removing the current task | the list stays one circle; a woken task runs |
| **Forth timers**, `explore/1608-forth/flib/any/timed.fs` | slots with callback, interval, last run | `call-after`, `call-every`, `call-never`, `timed-run`, `sleep-if-alone` | multitasker, `millis` | a callback that arms its own slot; sleep with work to do | a call that was registered is executed |
| **Forth packets and radio**, `any/varint.fs`, `any/datagram.fs`, `spi/rf69.fs` | packet buffer | encode, send, receive | radio | widths, packet limit | decode after encode gives the numbers back |
| **Forth rings**, `any/ring.fs`, `stm32f1/uart2-irq.fs` | ring buffer | put, get in interrupt and main | USART | as serial port | as serial port |
| **RFM69 driver**, `lib/driver/rf69.h`; other drivers | mode, receive buffer | init, send, receive | SPI | chip registers | JeeBoot uses `send` and `receive` |
| **RF to I2C**, `explore/1501-rf69/rf2i2c`, `i2listen` | packet buffer | radio loop puts, I2C interrupt takes | radio, I2C master | interrupt in the middle of a put | packets are whole |
| **PDP-8 emulators**, `explore/1638-pdp8`, `1639-arm8` | registers, memory | one instruction | console | 12-bit arithmetic | the instruction set |
| **cmder**, `projects/jnp/cmder` | value stack, parser | parse, execute | serial port | stack limits | - |
| **PID**, `flib/any/pid.fs` | integral, last value | one step | a plant elsewhere | - | - |

The core logic of the repository is in the rows that keep state across
interrupts, packets, resets or goroutines. These are modelled. The rest has
status `not_modelled` in `PROJECT.json`, with the reason, and is listed
below.

## How the parts interact

A node's boot loader (`loader69/main.cpp`) broadcasts a hello with its hardware
id and then fetch requests with growing chunk numbers. A server program takes
one packet at a time from its radio, hands it to `BootServer::request` and
broadcasts the reply. `BootServer` asks `FileAccess` which software a hardware
id gets and for the bytes. The loader feeds the chunks to `RfDispatch`, which
collects pages in RAM and writes them into flash through `Flash64`. `RomVars`
uses the same `Flash64` in an application. `uart_irq.h` is the console of such
applications, with `RingBuf` for both directions.

`serflash` on a host talks to a target's serial port through SerPlus. It doubles
each 255 it sends and puts the settings of DTR and RTS between the data as telnet
escapes. These go through USB packets and `output_ring` to `usart1_isr`, which
decodes them; what the target sends comes back through `input_ring`, with each
255 doubled by `usart1_isr` and undone by `serflash`.

`folie` on a host is the terminal of a target with Mecrisp Forth, and uploads
images in the protocol of ST's boot ROM, which `usbserup` speaks too: a USB boot
loader that lives in the flash memory it writes. A Forth application is a set
of tasks on `multi.fs`; `timed.fs` is one of them and executes callbacks, and
`lowpower&` another one, which sleeps when it is alone.

## Modules

| Module | Models | Kind |
|---|---|---|
| `BootServer` | `bootserver.h`, `packets.h`: requests, replies, what each reply looks like when it is read as the other kind | operators |
| `JeeBoot` | loaders, server loop and radio together; extends `BootServer` | specification |
| `FirmwareUpdate` | what updating promises to a node | abstract specification, implemented by `JeeBoot` |
| `MCJeeBoot` | files, nodes and versions for TLC | instance |
| `JeeBootProofs` | theorems about it, among them that it implements `FirmwareUpdate` | proofs |
| `RomVars` | `romvars.h` with `flash.h` | specification |
| `VarStore` | an array of variables that survives power cycles, and what one `set()` may do to it | abstract specification, implemented by `RomVars` |
| `MCRomVars` | three-bit words, with their AND | instance |
| `RomVarsProofs` | theorems, among them that it implements `VarStore` | proofs |
| `RingBuf` | `ringbuf.h`, each access an operator | operators |
| `UartIrq` | `uart_irq.h`: main program, handler, line | specification |
| `MCUartIrq` | queue sizes | instance |
| `UartIrqProofs` | order and losses, for all sizes of the queues | proofs |
| `FileAccess` | `selectCode`, `parse` and the edits of the index file | specification |
| `MCFileAccess` | two nodes, two files | instance |
| `FileAccessProofs` | the type invariant, and that listed nodes follow the index | proofs |
| `Telnet` | the escapes, as `serflash` writes and reads them and as `usart1_isr` decodes and writes them | operators |
| `SerPlus` | `serplus.c` between a host and a serial line; extends `Telnet` | specification |
| `MCSerPlus` | a script of the host, bytes on the line | instance |
| `SerPlusProofs` | both directions, for all scripts, bytes and sizes | proofs |
| `UsbSerUp` | `upload.h` and the flash part of `usbserup.c`, from one `getByte` to the next | specification of the loader |
| `Upload` | tools that upload one after another, among them `folie/stm32.go`; extends `UsbSerUp` | specification, host and loader together |
| `MCUpload` | an image of one page | instance |
| `UploadProofs` | what the loader keeps of itself, for all hosts; what an acknowledged upload leaves in flash memory; why uploads fail | proofs |
| `Console` | `folie/main.go`: main goroutine, `serialExchange`, a target | specification |
| `MCConsole` | nested include files | instance |
| `ConsoleProofs` | types, what is hidden and whose prompts are, for all lines, files and faults | proofs |
| `Multi` | `multi.fs`: what any task and any interrupt may do with the task list | specification |
| `Timed` | `timed.fs`, `lowpower&`, a worker as in `multi-irq.fs`, the user; extends `Multi` | specification |
| `MCTimed` | one slot | instance |
| `TimedProofs` | theorems about both | proofs |
| `Pdp8` | `p8.c`; `run.c` with `main.c`; the tape format of `pal.c` | specification |
| `MCPdp8` | a program on tape, what is typed | instance |

### JeeBoot and the code

A loader's `pc` is its place in the code: `send` and `listen` are the two halves
of `RfDriver::requestOnce`, `replied` is the return of `RfDriver::request` to
`identify` or `fetchOne`, `copy` is the loop of `RfDispatch`, `save` the point
between `Flash64::erase` and `Flash64::save`, `jump` the started application,
and `isp` a node whose boot ROM found no valid vector table. The variables
`try`, `reply`, `swid`, `pos`, `pageFill`, `pageBuf` have the names of the code;
`todo` is the rest of the argument of `RfDispatch`, `pageNum` the page it is
writing, `flush` tells the call without data.

| Action | Code |
|---|---|
| `Send`, `Timeout` | `requestOnce` sends and polls; `request` tries `MaxTries` times and returns -1 |
| `Serve` | the server's loop: one reply, broadcast to whoever listens |
| `Identified`, `IdentifyFailed` | `identify` by reply length; `main` copies page 0 without its patch to `pageBuf` and compares CRCs |
| `Fetched`, `FetchEnd` | `fetchOne` with data, or without; the last call computes the padding |
| `Copy`, `Save` | one round of `RfDispatch`, cut at the page end, patch of page 0, erase, then save |
| `Dispatched` | next chunk, or identify again |
| `Reset` | power failure or reset in any state; RAM is lost, flash is not |
| `Publish` | someone replaces a file in the server's directory |

Data is abstracted where nothing depends on it. A CRC is the content it is
computed from, so that different contents always differ: the 16-bit CRC's
collisions are out of the picture. One unit stands for a word of flash; a page
has four, of which 1, 2 and 3 play the parts of vector table entries 1, 6 and
7. `BootReply` is a union and the loader distinguishes replies by length alone:
`HelloView` and `FetchView` give what it reads from a reply of the other kind,
and the lengths are chosen in `MCJeeBoot` so that a fetch reply with two units
passes for a hello reply. `swIdXor` is left out because no loader looks at it.
Files meet what the code assumes of them: entries 6 and 7 are free.

### RomVars and the code

`set()` is cut at each flash operation: `Set` (with the first erase of both
pages), then `StoreInPlace` or `AppendTuple`, or `Combine` - `MarkPage` -
`EraseOld`, the three flash operations of a full log. `PowerDown` may come
between any two. `Programmed` is what `Chip_IAP_CopyRamToFlash` does to a
page that was not erased: it clears bits. `init` does not erase the page that it
does not take over, so a failure in `flipAndSave` leaves old contents in one
of the pages. They do no harm until a later flip programs that page: `spoilt`
records this, and the promise of `VarStore` ends there, not at the failure.

`VarStore` has the call as well as the variables: `request` is the variable and the word
that `set()` was called with (`busy`, from its first step to its last). Only that
variable may change, only to that word, only while the call lasts and the power is on;
the call returns with the word stored, and a power failure drops what is not done.
In `RomVars` the step that does it (`Commit`) is the save of `StoreInPlace` or `AppendTuple`, and for a full log one of
the three flash operations of the flip: which one depends on where the two pages are and on what a
power failure left of them.
Words are numbers up to `Empty`, 0xFFFF in the code, and `And` is the AND of two of
them: a constant, of which the module assumes that the AND of words is a word,
`Empty` is neutral, and a word goes with itself. `MCRomVars` gives it the bitwise one.

### UartIrq and the code

Every access of the main program to something the handler also touches is a
step: mask, wrap of an index, the two halves of `buf[in++] = data` in both
orders (the language does not fix it), unmask. `Irq` is a whole run of the
handler, and a main step is only enabled while no unmasked cause is pending.
`crossed` records that the handler took a byte from `txBuf` in the middle of a
put, which is possible because a receive interrupt is not masked there and the
handler serves both causes.

### FileAccess and the code

`SelectCode` is one hello request: `parse` appends all entries of the index
file to the table, and the last match counts. The index file is edited between
requests. When the table has no room for the entries the code writes past its
end; the model stops there, as nothing is known of what follows.

### SerPlus and the code

| Action | Code |
|---|---|
| `HostSends` | the host puts some of what it wants to send into the OUT endpoint, cut anywhere |
| `ReadPacket` | `cdcacm_data_rx_cb`, called by `usbd_poll`, with its back pressure |
| `PutIndex`, `PutData`, `PutWrap` | `ring_write`, byte by byte |
| `Enable` | the end of `cdcacm_data_rx_cb`, which enables the transmit interrupt |
| `ReadInput`, `GetIndex`, `GetData`, `GetWrap` | `ring_read` of the main loop, byte by byte |
| `WritePacket` | what the main loop does with the result of `ring_read`; the endpoint may be busy, and then the packet is lost |
| `RxIrq`, `TxIrq` | the two halves of `usart1_isr` |
| `TxDone` | the shift register takes the byte from TDR |

`data[end++] = ch` has two stores, and the interrupt uses what they write. The
language leaves their order open; the model takes the order of the image in the
repository, `serplus.bin`, where the index is stored first, the byte next, and
the wrapped index last. So `usart1_isr` can find an index that is one too high,
for a place that is not filled yet. `overtaken` records that it read such a place;
it does happen (`LineFollowsHost` does not hold), and the properties of `serplus`
about the output say what holds as long as it does not.

An assumption bounds what arrives between two readings of `input_ring`: 23 bytes
in the 2 ms of the main loop at the 115200 baud that `usart_setup` sets, each
of which may be doubled, and 46 is less than a packet. Without it, `ring_read` fills
its buffer, returns a negative count, and the main loop drops what was read.
`Start` is where the indices begin, as if that many bytes had gone through.

### UsbSerUp, Upload and the code

`TakeByte` runs the loader from one `getByte` to the next: `at` names the
place that waits, `args` what a command has got so far, `back` the buffered
replies. `getByte` either finds a byte or gives up after its 500000 polls and
returns 0xFF, and then the loader goes on with that. `ErasePage` and
`ProgramWord` are steps of their own, with the words 0 and 1 of the first page
exchanged as `writeFlash` does it; `Reset` goes through `main` from any
state, and starts the loader, the user's code or nothing, as the reset vector
says.

`flash_program_word` writes two half-words, and the STM32F1 looks at each by itself: it is
programmed if it was erased, or if zero is to be written; otherwise it
stays as it was (`Takes`, `Programmed`). Only the first address of a block is compared with
`userLimit`, so a block may run on into the loader, and `ProgramAt` lets it. An address with
remainder 2 is programmed too, across two words (`Share`); an odd one faults or programs nothing. A reset may
come between the two halves (`Torn`).

A tool is a list of entries: the bytes it sends and the reply it wants.
`folie` is `uploadSTM32` of `stm32.go`; with its first commands the loader
answers NAK and the tool gives up there. The README of usbserup names other
tools for it; `flash` and `wipe` stand for those, framed as in `stm32.go`. `Hold` lets
the host be late between any two bytes; otherwise the host is prompt: it sends
its next byte before `getByte` gives up, and 500 ms of silence mean that no reply
is under way. `WantAck`, `wantSlowAck` and `Take` are the three ways in which
`stm32.go` reads a reply.

### Console and the code

`main` is the goroutine that reads lines and walks include files (`Walk`,
`TakeProgress`), `xpc` that of `serialExchange` (`select`, `expectEcho` for the
echo, then for the prompt). They meet on `outBound` (`TakeLine`, a rendezvous),
`incLevel` (`TakeLevel`) and `progress` (one place). `Chunk` is a read of the
serial port: any prefix of what the target has sent, so that a chunk ends
anywhere. `TimeOut` is the 500 ms without input; it may come while the target is
still busy, at most `MaxFaults` times together with losses of the connection.
An echo is two tokens, since a chunk may end within it. `TypedLines` is what the typed lines and
files amount to without `incLevel` and `progress`: all lines in order, those of
included files in their places; `Walk` gets there one file at a time, as `doInclude` does.
`collected` is what `expectEcho` holds back. The target is external: it
executes one line at a time, and what arrives meanwhile may be lost.

### Multi, Timed and the code

`nxt` and `active` are the fields of a task, `up` the current one. `Multi`
allows a task whatever the words of `multi.fs` do in any order, and an
interrupt `wake` and `idle` at any moment, `Hop` by `Hop` through `(pause)`.
`Timed` puts the tasks of an application there with the operators of `Multi`: each step of a task runs to
the next point where an interrupt makes a difference. The worker's four words, `need-some-state?`,
`will-stop`, the set-up of the interrupt and `pause`, are four steps, and the interrupt may come between any
two once it is set up. `multi-irq.fs` says to prepare for stopping "*before* checking the condition", but its example
asks first; that makes a difference when the worker is started again while its interrupt is still set up (`revived`).
`timed&` always goes on to `sleep-if-alone`, as the `not` in it inverts all bits of a number that is not -1. And `PauseTo` is the only
way to another task. The difference of two readings of `millis` is `age`, the
time since a slot last ran. `task-in-list?` and `up-alone?` go round until they
meet the current task; after a task has removed itself they never do, and the guard
`Listed` leaves that out.

### Pdp8 and the code

A round of the emulator's loop is two steps: `Poll` (interrupt and fetch), and
one action per opcode. `Keyboard` and `Take` are apart because `usart1_isr` may
come between the read and the reset of `rxData`; `GetChar` and `Teleprinter`
with `TxSend` wait. `Hosts` chooses between `p8.c`, with a terminal and the buffer
of `getchar`, and `run.c`. `MCPdp8` assembles a program with subroutine calls, an
auto-index, a multiplication by shifts, and an interrupt handler, and
`putorg`, `Halves` and `Leader` punch it as `pal.c` does.

## Runs

| Run | Module | Properties | Shows |
|---|---|---|---|
| `jb_lossy` | `MCJeeBoot` | `TypeOK`, `BufferInStep`, `BootVectorKept`, `LoaderIntact`, `ImplementsFirmwareUpdate` | one node, one loss, one power failure anywhere, one file replaced at any moment, prompt server: the node only starts whole applications meant for it |
| `jb_completes` | `MCJeeBoot` | `StreamExact`, `UpdateCompletes` | three losses against four tries: no chunk is skipped or doubled, the whole file is fetched, and the node ends up in the server's version |
| `jb_late` | `MCJeeBoot` | `VerifiedJump`, `AlwaysRuns` | replies late for a try, a request or a restart, requests that fail altogether: a CRC that agrees still means a whole file, and no node fetches for ever |
| `romvars` | `MCRomVars` | `SavedAcrossPowerCycles`, `NothingLeftOver`, `ImplementsVarStore` | any sequence of assignments, power cycles between them and two power failures within: the variable that `set()` is called for is the old or the new one and no other changes, up to a flip onto old contents |
| `uart` | `MCUartIrq` | `TxInOrder`, `RxExact`, `StuckOnlyWhenFull`, `TxDrains` | an interrupt at every point of both directions, through several turns of the queues |
| `fa_select` | `MCFileAccess` | `ListedNodesFollowIndex` | requests between edits of the index |
| `serplus` | `MCSerPlus` | `PacketFits`, `LineFollowsUnlessOvertaken`, `InputExact`, `AllDone` | both directions with an interrupt between any two accesses of a ring: back pressure suffices, the port does what the host asked for, all input gets to USB, and lost packets do not confuse the host |
| `upload` | `MCUpload` | `UploadExact`, `VectorKept`, `FailsForAReason`, `LoaderKept`, `Ends` | two uploads by any of three tools, held up or reset once, anywhere: acknowledged means stored, the loader is never erased and changes only by a block that runs over its start, each tool comes to an end |
| `console` | `MCConsole` | `ExecutedInOrder`, `NothingHidden`, `InputShown`, `OwnPrompt`, `Handled` | typed lines and nested include files, chunks cut anywhere, silences and losses of the connection |
| `forth` | `MCTimed` | `RingExact`, `NoWakeLost`, `SleepsAlone`, `ActiveRuns`, `CallsRun` | four tasks, a timer slot and interrupts at every point: no wake-up is lost but that of a worker restarted while armed, sleep only when alone, tasks and calls get their turn |
| `pdp8` | `MCPdp8` | `KeysExact`, `ResultsRight`, `Halts` | both emulators load the program from tape and run it with an interrupt every seven instructions: keys are read once and in order, results are right, the program ends |

One run ends in a violation, where the code does not do what a comment in it says:

| Run | Property | What happens |
|---|---|---|
| `upload_over` | `LoaderIntact` | "don't overwrite the boot loader" (`usbserup.c:146`): the test above it looks at the first address of a block only. After a reset in the middle of an upload, what follows of the image is taken for a greeting and a `WRITE` to the last word below the loader. The block runs on into the loader, and zeros in it are programmed over the vector that is there. |

Each module states its type invariant `TypeOK`. That of `JeeBoot` is checked in
`jb_lossy` and proved, that of `FileAccess` proved; the other runs leave theirs
out and check the properties above instead.

### What does not hold

Four definitions state what one might expect, and do not hold in the models:

- `LoaderRegainsControl` (`JeeBoot`): the power fails between erase and save of
  page 0, which has the only vector table (`loader69/main.cpp:104`).
- `UnlistedNodesGetType` (`FileAccess`): an entry removed from `index.txt` is
  still found among those of earlier readings (`fileaccess.h:40`).
- `LineFollowsHost` (`SerPlus`): the transmit interrupt comes between the two
  stores of `ring_write_ch`, an old byte goes out and the new one is skipped.
- `LoaderIntact` (`Upload`): the run above. `LoaderKept` says that it is the only way.

The exceptions that properties make are of the same kind; each names the only
way in which the stronger statement fails:

- `SavedAcrossPowerCycles`: a flip onto a page that an interrupted flip left
  un-erased gives the AND of old and new values (`romvars.h:95`).
- `LoaderIntact` of `JeeBoot` holds where files leave room below the loader for chunks that
  come late or are overheard: each moves `pos` on, and `RfDispatch` erases and saves
  whatever page that leads to.
- `UploadExact`: 0xFF stands for bytes that came too late (`usbserup.c:110`), a
  NAK that the idle loader sent by itself is taken for the answer to a greeting, or a tool
  greets while the loader is in the middle of a command, or after a reset in the middle of
  an upload, a byte 0x7F of the image is taken for a greeting: its ACK is the answer the
  host waits for, and the block is missing. And a block that ran over the loader's own vector
  has spoilt what later uploads patch into theirs (`LoaderStarts`).
- `FailsForAReason`: a tool that has greeted over an unread reply is a byte out of step, fails, and may
  leave the loader in the middle of a command; the tool after it then fails through no fault
  of its own (`midway`). It takes three tools in a row to see this, one more than `upload` has.
- `VectorKept`: a reset between erase and second word of the first page. The tools of the run
  write whole blocks from the start of flash on; a host that starts one at address 2, 4 or 6, one of a
  single word at 0, or one that runs over the loader, loses the vector without a reset (`SafeBlocks`).
- `NoWakeLost`: the worker is started again while its interrupt is still set up, and that
  comes between `need-some-state?` and `will-stop` (`multi-irq.fs:18, 19`): the worker goes to
  sleep with its state there, until it is woken by something else.
- `VerifiedJump` is about one node in its run and about nodes of the same software in its theorem: a
  hello reply does not name the hardware it is for (`packets.h`), and `requestOnce` takes any packet of the
  server, so that among nodes of different software a loader can take the reply to another node for its own.
- `ExecutedInOrder`: a typed line does not wait for its prompt, and a target
  that is silent for more than 500 ms while it works breaks the throttling of
  include files (`folie/main.go:197, 232`).
- `OwnPrompt`: the echo of a line that was sent before may be that of the earlier
  one, which a slow target, or one that was gone for a while, still has to give. Lines in between do not
  help: their echoes are given up after 500 ms each. The proof found this; with two faults a run shows only
  lines that follow each other directly.
- `CallsRun`: a slot that is armed again in its own callback is cleared after
  it (`timed.fs:45`).
- `KeysExact`, `Halts`: a byte that arrives between read and reset of `rxData`
  is lost (`run.c:133`), and bytes that `getchar` has taken ahead are not seen
  by `FIONREAD` (`p8.c:170`).

Further observations, outside the properties: in `folie`, `connectToTarget`'s
read with time-out leaves a goroutine behind that takes the next chunk;
`conn` is written and read by two goroutines without a lock. With `timed&` and
`lowpower&` both started, neither finds itself alone, and the processor never
sleeps. The comparison of times in `timed.fs` is signed, so that 2^31 ms count as
never. The emulators shift `iena` once at the start of the next round, so ION has
no delay; TLS clears AC there, which the original machine's does not.

### Bounds and why they are enough

- **Files**: five units (a full chunk and one of two; the second page is padded)
  and eight (chunks of three, three and two; exactly two pages). Chunks of three
  in pages of four end before, on and after a page end. The unit `"ff"` in
  FileB is also what padding looks like.
- **Tries and losses**: `jb_lossy` has fewer losses than tries, the condition
  under which no request fails; `jb_late` has as many losses as tries, so that
  both kinds of requests fail.
- **`MaxLate`, `MaxResets`, `MaxPublish`** are one or two each:
  enough for a late hello reply in a fetch, a late fetch reply in a hello, a
  reply late for a restart, and a mixture of two versions of a file. The runs have one node and
  `MaxOverheard` of 0; replies that other nodes overhear are in the theorems, for any number of nodes.
- **`jb_late`** has more flash pages than the files need, because late
  chunks make a download longer.
- **`RomVars`**: four values and two tuples; the log fills up with the third
  change. Three-bit words with the values 1 and 7: 7 programmed over 1 is read
  as 1, so that a missing erase shows, and 7 is `Empty` itself. `MaxFailures` of
  two lets a power failure hit the recovery from the first one. There is
  no other bound: variables can be set for ever.
- **`UartIrq`**: queues of size three (two bytes) and five bytes in each
  direction wrap each index and let both queues be full and empty in any
  combination. `MaxWire` only bounds what a queue that went wrong can emit.
- **`FileAccess`**: a table of five with up to two index lines runs full after
  three requests; the second edit can undo the first.
- **`SerPlus`**: rings of six bytes and packets of up to five. Thirteen bytes go
  out, with an escaped 255 and a signal, so that both indices wrap and back
  pressure holds packets up; three arrive, each of which can take two places.
  The start at place four makes the first packet wrap already.

- **`Upload`**: an image of a page in two blocks, 16 pages of user's code and one
  page of the loader; `MaxRuns` of two uploads makes the second start in every
  state that the first one can leave, `MaxFaults` is one hold-up or reset at any
  point, `MaxGap` how often `getByte` gives up in a row there, `MaxGreetings` how often the tool
  greets before it gives up, `MaxBlock` and `MaxBack` what a confused loader
  may collect and send back. The end of the first block, read as commands, starts the user's code; the
  second block has a greeting and the start of a `WRITE` at the last word below the loader in it, which a reset
  before it brings to effect, so that blocks that run over do occur. The greetings of the code have no limit: what `Ends`
  checks beyond `MaxGreetings` is that the entries of a script end, the wait for a slow ACK above all.
- **`Console`**: two lines typed, three files with an include in another, a
  blank line, an error and a missing file; `MaxFaults` of two silences or losses.
- **`Timed`**: four tasks, one slot, `MaxCalls` of two: a call, and another one or
  a cancellation at any moment of it. `Intervals` is 0: a call is due at once,
  so that a run is never too early for anything, and what counts is order.
- **`Pdp8`**: `Period` is 7, coprime with the lengths of the loops of the program, so
  that an interrupt comes at each of their instructions; the code's periods are
  1024 and 65536. Three keys are typed, at any time: one with its parity bit,
  a small one, and ctrl-\ as the end. The handler takes eight instructions, one
  more than `Period`, so it would never end if interrupts stayed on in it.

### Fairness

`jb_completes` and `jb_late` use `FairSpec` of `JeeBoot`: the server's loop and
the loader's steps have weak fairness each, because both are loops without any
other exit, and a loader that listens counts its polls. No fairness is assumed
of losses, power failures or publishing, whose number is bounded instead.
`uart` uses weak fairness of the transmitter, the handler (a pending interrupt
is taken) and the main program's calls; nothing makes the main program receive.
A full `rxBuf` with one more byte in `RXDATA` keeps the interrupt pending and
starves the main program: `TxDrains` names this case, and
`StuckOnlyWhenFull` says that it is the only one.
`serplus` uses weak fairness of the host's writing, the transmitter, the transmit
interrupt, and the output and the input side of the main loop: `main` goes
through both for ever. Nothing need arrive.
`upload` uses weak fairness of the tool's sending and receiving, of the loader's
loop and of the flash controller; being late, resets and the start of a tool
are never forced. `console` uses weak fairness of the two goroutines, their reads with time-out included, of
the target, and of `serialInput`'s attempts to connect again, none of typing. `forth` uses weak fairness
of the processor and of `millis`; no device need interrupt, and nobody must register a call. `pdp8` uses weak fairness
of the emulator's loop, the transmitter and the user's typing.

`CHECK_DEADLOCK FALSE` in all configurations: the bounds end every behaviour,
and a node in its application has nothing more to do.

## Proofs

`JeeBootProofs` proves, for all files, page and chunk sizes, numbers of nodes,
tries, losses, late and overheard replies, from `ServerAssumption` and
`LoaderAssumption`:

| Theorem | Says |
|---|---|
| `TypeCorrect` | `TypeOK`: the page buffer never gets more than a page, no request more than `MaxTries` tries |
| `BufferAlwaysInStep` | `BufferInStep`: `pageFill` of `RfDispatch` and `pos` of `fetchAll` agree, whatever the radio does |
| `BootVectorAlwaysKept` | `BootVectorKept`: page 0 starts the loader, except between its own erase and save |
| `VerifiedJumpIsWhole` | `VerifiedJump`: if all nodes in reach get the same software, a CRC that agrees means a whole published file |
| `Refinement` | `ImplementsFirmwareUpdate`, if `Prompt` and `Reliable`: a node runs nothing but a whole file meant for it |
| `LoaderAlwaysIntact` | `LoaderIntact`, if `Fitting`: no page of the loader is erased or saved, however late replies are and whoever hears them |
| `StreamAlwaysExact` | `StreamExact`, if `Steady`: flash and page buffer hold the file unit by unit, none skipped or doubled |

None of them is inductive. `IInv` adds what the first three rest on, and all others build on:

- `TriesLeft`: a loader that sends or listens has a try left, so counting up
  stays in range.
- `Dispatching`: only a fetch leads into `RfDispatch`, so that `hello` finds an
  empty page buffer.
- `Flushing`: the call without data has exactly what completes the page, which
  is why the buffer is empty when `fetchAll` returns, and `main` may use it for
  page 0.
- `PatchPending`: a page 0 between erase and save is patched already.

`Invariance` states `Spec => []IInv`. The step from a state to the next has one
lemma per action (`...Type` for the types, `...Inv` for the rest), and the lemmas on
`CopyCount`, `Filled`, `Padding`, `Patch` and `Answer` say what these
operators return. `PageOfPos` is the arithmetic behind `pos \div PageSize`.

`VerifiedJumpIsWhole` has the condition `SameSoftware`, since a hello reply does not say
for which hardware it is. Its invariant `VInv` follows the files: only versions of the software are
ever published (`FilesPublished`), and every hello reply that a loader holds
announces one of them for that node (`HelloTrue`). A fetch reply that is read as a hello has a CRC of a single unit,
which cannot be the CRC of what `main` sums up, since that is at least a page.
`AgreementTrue` turns both into the step that starts an application; for all
other steps `JumpKept` needs only that they leave a node alone that has started one.

`Refinement` maps a node to what it runs and to the file that lies in its flash. Its
conditions are what the abstract specification takes for granted of the radio.
`Prompt` says that no reply comes late or to a loader that did not ask. `Reliable`
says that one node is in reach and that losses are fewer than tries, so that no
request fails: a failed hello has a loader run what it finds in flash, and
a failed fetch has it compare CRCs early. Then (`PInv`) whatever a loader
holds is the server's `Answer` to the request it just made, from files published at
that time: each try that came to nothing has cost a loss (`TriesCounted`), and a
request in the server's hands is one that its sender still waits for
(`AskerWaits`). The run `jb_lossy` meets both conditions.

`LoaderAlwaysIntact` needs neither of them. `pos` starts at 0 with each
identify and grows by the data of each reply; the request for the next chunk goes by `swIndex`, not by
`pos`. A reply to another request can therefore move `pos` on by one
chunk too many, and only that: `Strays` counts these replies, and `Fits` says how far the
strays of the past can have moved a position. `Fitting` asks that every file
leaves that much room below the loader: in `jb_lossy` none, as there are no strays, and
two chunks in `jb_late`.

`StreamAlwaysExact` has the conditions `Steady`: both of `Refinement`, no file replaced
(a download in progress would mix two versions), `Fitting`, and `Vectors`, that
each file has entries 6 and 7 of its vector table at 0. Un-patching page 0 sets
these to 0 whatever the file held (`loader69/main.cpp`), so without it the page would not be what was
fetched. `SInv` says for each place of the loader how much of the file is in flash,
how much in `pageBuf` and how much in the chunk that `RfDispatch` holds.
`jb_completes` checks it under the same conditions, for two files.

`TimedProofs` proves `RingAlwaysExact`, `MultiSpec => []RingExact`, for any set of
tasks. "The tasks met from the current one" is defined without recursion: `Met` is
the intersection of all sets that contain the current task and are closed under
`nxt`. The invariant says that the list visits exactly `ring`, each task has
one predecessor in it, and no part of it is closed in itself; `insert` and
`remove` keep this, one lemma each.

It proves three things of the application, for any number of slots, intervals and
callbacks: `TimedRingExact`, `WakeNeverLost` and `AlwaysSleepsAlone`. Their common invariant, `TInv`, adds
when interrupts are masked, who is left on the list when a task has found itself alone, and `WorkOK`:
word by word of the worker, what is known of the interrupt and of `ready`. Unless it was
restarted, nothing is set up while it is between the question and the set-up, so that nothing can come there; restarting
it while armed is what `revived` records, and it ends when the worker has seen what came.

`FileAccessProofs` proves `TypeCorrect` and `ListedAlwaysFollow` for any table
size and index files of any length, from `FileAccessAssumption`. The table may hold
anything: `LookupInTail` says that an entry behind it hides all it holds for
the same node, since `Lookup` takes the last, and `LastHitExists` that there
is a last one. Types are all the invariant that this needs.

`UartIrqProofs` proves `TypeCorrect`, `RxAlwaysExact` and `TxAlwaysInOrder` for all
sizes of the queues and any number of bytes. The invariant counts: what is in a queue is
what went in less what came out, with a correction for the byte that a put or a
get has in its hands at that place in the code, and place by place the queue holds
these bytes in order. For `txBuf` it ends with `crossed`. `IndexInv` has the
masks: the handler finds the cause unmasked only where the main program does
not use that queue.

`UploadProofs` proves `LoaderOnlyOverrun` (`LoaderKept`) for any image, tools, block length and
layout of flash, and for a host that sends anything at any time, as the proof makes no use of
what it sends. It rests on `WriteInv`: `writeFlash` is reached with at least six bytes of arguments and
an offset below `userLimit`. So the page it erases is one of the user's (`EraseStep`), and a word of the
loader is programmed only if the block runs over (`LoaderShare`). `LoaderWorn` adds that each half of a word of the
loader is as it was or zero: no half of it was ever erased, so zero is all that can be programmed there, and what is gone does not
come back (`NoReturn`). Of the loader's words it is assumed that no half is erased or zero, as is true of
an address (`WordAssumption`).
`VectorAlwaysKept` has the condition `[]SafeBlocks`: no block starts in the middle of the first two words, none that starts
with the first ends with it, and none runs over the loader. `writeFlash` writes the vector of the
loader with word 1 of a block at 0. Of a block of one word it would erase the page and not
write it back, and at other addresses a zero would be programmed over it; the blocks of all tools are aligned and longer, but the loader does not check.

`ImageExact` in it states `UploadExact` for every image, block length and layout of flash, any
number of tools in any order, delays and resets, under `Fits`: the image comes in whole
blocks, which divide a page and are no longer than the loader's buffer, and it ends below the loader.
The vector that it patches in must still be there (`LoaderStarts`), which by `NoReturn` was then so all along.
The invariant has host and loader in step byte by byte (`InStep`). `Greeting` says what may be under
way until a greeting is answered. From then on `FlashLock` and `FolieLock` say for each
entry of the script how far the loader is with the bytes of that very entry: a command, address or block
is split between `args`, `wire` and `tosend` (`Stream`), nothing is on its way back unless it is the answer to the whole of
it, and `flash` holds the blocks before, with the rest of the page blank (`Stored`, `Storing`). `Locked`
allows for the two ways to fall out of step that a tool notices: the
loader is gone or waits to be greeted, so that no answer will come (`Off`), or the next
reply is a NAK (`Refused`). That no third one exists without `astray` or `stale` is what the proof shows,
action by action. It takes the arithmetic of pages, blocks and words (`BlockWord`, `HoldsFacts`)
and the layout of the scripts (`FlashEntries`, `FolieEntries`).

`FailsNotOfItself` states `FailsForAReason` just as generally, and under `Fits` too. `ReasonInv` is narrower than
`InStep`: of a tool that nothing disturbed (`Undisturbed`: no fault, no greeting over an unread reply,
not started in the middle of a command) it says that all that is on its way back is what this entry waits for. `Greets` is
the greeting, and `TalksFlash` and `TalksWipe` are the entries after it. Each of these is in one of three
shapes: bytes of it are still to come (`Waits`), there is a reply to read (`Told`), or `writeFlash` runs
(`Busy`). In the first the loader does not give up, as the host goes on before that (`LoaderWaits`);
in the second it does nothing; in the third nothing is read. So `NAK` and silence
never come where an answer is looked for. `TalkInv` has it for all undisturbed states, and `FaultsInv` is needed to know
that a host without faults is not held up. `folie` is left out as its `Unprotect` is a command
the loader does not know.

`RomVarsProofs` proves `Invariance`, `TypeCorrect`, `AlwaysSaved`, `AlwaysClean` and
`Refinement` for any number of variables, any width and any `And` as assumed.
`SoundInv` says, for each point between two flash operations, what RAM, the page in use, the
other page and the log hold, up to `spoilt`; `CleanInv`, which page is erased when
no power failure has hit a `set`. `StoredCurrent` connects both ways of reading the
log: the `map` in RAM, and the last tuple of a variable on the page. The refinement maps the variables
to what `init` would read back at that moment, so that a power failure is a stutter or
the step that has the assignment done (`Commit`), at whichever flash operation it is; all other steps leave
what `init` would read as it is, and when `set()` returns that is its word.

`SerPlusProofs` proves `PacketAlwaysFits`, `LineAlwaysFollows`, `InputAlwaysExact` and
`TypeCorrect` for all scripts, all bytes that arrive, all sizes of rings and packets and each `Start`.
`OutCount` and `InCount` are what the rings hold when the main loop is between two
stores. `OutInv` says that with every byte of the packet in the buffer
they still fit, so that `ring_write` never gives up. `StreamInv` ties the places together: what
`usart1_isr` has decoded, `output_ring`, the rest of the packet, the endpoint and what the
host has left to send are one stream, `Wire(script)`; and the state of the decoder is
what decoding the first `Decoded` bytes of it gives. Both end with `overtaken`. `DecodesItems` and
`UnwrapsWrapped` say for every script and every sequence of bytes that the telnet
escapes are undone. They are inductions over a sequence: instead of the
library's theorem, which is out of reach of the provers installed, the set of the numbers for which
the statement holds is shown to contain all numbers.

`ConsoleProofs` proves `TypeCorrect`, `NothingEverHidden` and `PromptsAreOwn` for all files, lines
and outputs and any number of faults. `TypeInv` has what the goroutines know of each
other: `progress` is empty while a line is exchanged. For `NothingHidden` the
invariant `HiddenInv` keeps a sequence `read` of what has been taken from the wire: what was shown and is
`collected` has the same outputs of the target as `read`. Each step of `expectEcho` keeps or shows all that it reads but
for an echo, a space or a prompt, of which none is output (`Silent`). `OwnInv` is
about two phases of a line that was not sent before. Until its echo is
recognised, the end of that echo is the last thing in `tin` and on the wire (`LastEnd`), and once it is on the wire
the target has nothing else to do; so when `expectEcho` has read it, target and wire are empty.
After the return a prompt can only be the last but one of all that is still to come (`Late`), behind it only its
new line. The lemmas on sequences are those of `SerPlusProofs` again: each module of
proofs has all it needs.

`ExecutesInOrder` states `ExecutedInOrder` for all files that do not include
themselves (`Expandable`: what a file amounts to is what its lines amount to; the assumption
`MCExpands` has TLC evaluate it for the files of the run). Its invariant `OrderInv` has three parts. `NestInv`:
with the levels that are still to be taken from `todo`, `depth` is never below 0, and at
least 1 at each line of a file: a line is `immediate` only if nothing is left to do after it.
`Calm`: as long as nothing was typed ahead and no silence was too long, the target,
the wire and `collected` hold nothing but what the present phase of the exchange calls for:
before a line is taken nothing at all, then parts of its echo (`EchoCalm`), then
its answer (`PromptPhase`), whose prompt comes last. A prompt is therefore
never seen early, and each return reaches an idle target.
`Ordered`: `TypedLines` is what was executed, the line in hand (`Now`), and what the main
goroutine has left to do (`Left`). `Walk` keeps `Left` by `AheadJoin`: what two parts of the work amount to is what they
amount to one after the other. These are inductions over sequences, done as in `SerPlusProofs`.

`ShowsInput` states `InputShown` under the same condition, and `Understood`: the
target knows the lines, since to others it answers with an error that names no line, and says
nothing of an empty line, which is not shown (`MCUnderstood`). `ShownInv` adds to `OrderInv` whose
words may still come: while `expectEcho` runs none, so that the line is shown with its echo or not at all;
then only those of the line in hand (`Voices`), and this line was shown before or is still `xline`; between
two lines only those of a line under which nothing else was shown (`Under`).

All leaves are found by SMT, Zenon or LS4. What the constants are assumed to
satisfy is in the `ASSUME` of each module, which TLC evaluates in the runs.

What stays with TLC:

- the liveness properties `UpdateCompletes`, `AlwaysRuns`, `TxDrains`, `AllDone`, `Ends`,
  `Handled`, `ActiveRuns`, `CallsRun` and `Halts`, and `StuckOnlyWhenFull`, which
  contains `ENABLED`: both are out of the prover's reach;
- `Pdp8`. Its modules use `Bitwise`, whose recursive operators the provers cannot reason about, so
  `KeysExact` is only checked; `ResultsRight` is about one program, which has to be run.

## Not modelled, and why

- Times: back-off between tries, baud rates, the number of polls. A try simply
  gives up at some point.
- Registers of the radio chips, `rf69.h`, `rf73.h`, `spi/rf69.fs`. The radio is a broadcast that loses packets.
- CRC collisions, the text of `index.txt`, and files whose size does not fit the
  16 bits of `fileaccess.h:108`.
- Images against the loader's assumptions (no free vector entries, longer than
  the flash): `identify` and `fetchAll` alternate for ever on such an image.
- Of `folie`: erasure page by page (`EXTERA`), `hexToBin`, `expandFile`, the
  capture file. Of `serflash`: the dialogue with the boot ROM, which is that of `Upload` in
  another tool.
- Of `multi.fs`: `singletask`, `tasks`, `catch` and `throw`.
- `rf2i2c` and `i2listen`: the first never gets to its buffer (its first loop has no
  exit). `PacketBuffer` in it would look empty when the last free place is used up with
  `rpos` at 0, as `wpos` then wraps to 0 too. `datagram.fs`, `varint.fs`, `ring.fs`, `uart2-irq.fs`: small, and the
  last two repeat what `UartIrq` shows. `cmder` and `pid.fs`: nothing in them runs concurrently or survives a restart.
- MQTT bridges and `jbserver`: forwarding without state of its own.
- Third-party code, which is most of the repository's lines: BASIC, the 8080 and 6502 emulators and their
  ROMs, the PDP-8 assembler but for the tape it punches, vendor headers, board
  files, compiled images.

The map therefore covers most lines of the components above, and a small share
of all lines of the tree.

## Plan

Done, in the order of what matters most: JeeBoot (loaders, server, radio, flash)
with its abstract specification; the flash variables, the serial port, the index
file, SerPlus with the telnet escapes; the uploads to `usbserup` and the terminal of `folie`;
the Forth multitasker with its timers and low-power task; the PDP-8 emulators.

Proved: all safety properties of `JeeBoot`, `RomVars`, `SerPlus`, `FileAccess` and
`Timed`, those of `UartIrq` but the one with `ENABLED`, what `UsbSerUp` keeps of itself and
what an upload that was acknowledged leaves there, and why one fails,
what the terminal of `folie` sends, shows and takes for prompts,
and the refinements of `FirmwareUpdate` and `VarStore`.

Left, in this order: a `Pdp8` without `Bitwise`, to prove `KeysExact` about; then
a model of `PacketBuffer` of `rf2i2c`.
