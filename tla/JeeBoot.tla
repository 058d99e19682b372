-------------------------------- MODULE JeeBoot --------------------------------
(***************************************************************************)
(* Over-the-air firmware update: boot loaders (tools/jeeboot/loader69 with *)
(* bootlogic.h), one boot server (bootserver.h behind the rf69boot and     *)
(* rf69bridge programs) and the radio between them.                        *)
(*                                                                         *)
(* Every packet is a broadcast.  The server's radio holds one request, and *)
(* what arrives until that is answered is lost; the reply reaches the      *)
(* loaders which are listening at that moment, whoever asked.  Flash is    *)
(* modelled page by page, RfDispatch with every page-buffer step, and the  *)
(* power may fail between any two steps.                                   *)
(***************************************************************************)
EXTENDS BootServer

CONSTANTS
  PageSize,    \* PAGE_SIZE of the flash, in units
  FlashPages,  \* number of flash pages, the loader's included
  LoadPage,    \* LOAD_ADDR / PAGE_SIZE, the first page of the loader
  ResetSlot,   \* pageBuf[1], the reset vector
  SpareSlot,   \* pageBuf[6], where the application's reset vector goes
  SumSlot,     \* pageBuf[7], the vector table checksum
  LoaderVec,   \* reset vector of the loader
  Checksum,    \* a checksum that the boot ROM accepts
  Zero,        \* a unit 0
  Blank,       \* an erased unit
  LoaderUnit,  \* the content of the loader's own pages
  Versions,    \* [SwIds -> set of files that may be published]
  MaxTries,    \* tries of RfDriver::request (10)
  MaxLoss,     \* bound: transmissions that get lost
  MaxOverheard,\* bound: replies that a loader hears which did not ask
  MaxLate,     \* bound: tries given up while the server is still at it
  MaxResets,   \* bound: power cycles
  MaxPublish   \* bound: files replaced on the server

Slots == 0 .. PageSize - 1
Pages == 0 .. FlashPages - 1

ASSUME LoaderAssumption ==
  /\ PageSize \in Nat \ {0}
  /\ FlashPages \in Nat \ {0}
  /\ LoadPage \in 1 .. FlashPages
  /\ {ResetSlot, SpareSlot, SumSlot} \subseteq Slots
  /\ ResetSlot # SpareSlot /\ ResetSlot # SumSlot /\ SpareSlot # SumSlot
  /\ {LoaderVec, Checksum, Zero, Blank, LoaderUnit} \subseteq Unit
  /\ Checksum # Blank
  /\ Versions \in [SwIds -> SUBSET Seq(Unit)]
  /\ \A s \in SwIds : Versions[s] # {}
  /\ MaxTries \in Nat \ {0}
  /\ {MaxLoss, MaxOverheard, MaxLate, MaxResets, MaxPublish} \subseteq Nat

VARIABLES
  files,      \* the files in the server's directory
  serving,    \* the request in the server's hands, or Idle
  pc,         \* where each loader is
  req,        \* the request a loader is busy with
  try,        \* retry counter of RfDriver::request
  reply,      \* bootLogic.reply
  swid,       \* main's swid, the argument of fetchAll
  pos,        \* fetchAll's pos
  pageFill, pageBuf,
  todo,       \* RfDispatch: what is left of its buf argument
  flush,      \* RfDispatch: buf is 0, this is the final call
  pageNum,    \* RfDispatch: the page being written
  flash,      \* flash memory
  verified,   \* whether main's loop was left because the CRCs agreed
  losses, overheard, lates, resets, publishes   \* use of the bounds

loaderVars == <<pc, req, try, reply, swid, pos, pageFill, pageBuf, todo, flush,
                pageNum, flash, verified>>
budgetVars == <<losses, overheard, lates, resets, publishes>>
vars == <<files, serving, loaderVars, budgetVars>>

-----------------------------------------------------------------------------
(* Flash contents *)

LocState == {"send", "listen", "replied", "copy", "save", "jump", "isp"}

Page  == [Slots -> Unit]
Flash == [Pages -> Page]

ErasedPage == [i \in Slots |-> Blank]

(* RfDispatch lets the boot loader take over at the next reset ...          *)
Patch(page) ==
  [page EXCEPT ![SpareSlot] = page[ResetSlot], ![ResetSlot] = LoaderVec,
               ![SumSlot] = Checksum]

(* Mistake: the checksum stays in.                                          *)
UnpatchKeepsSum(page) ==
  [page EXCEPT ![ResetSlot] = page[SpareSlot], ![SpareSlot] = Zero]

(* ... and main undoes this before it computes the CRC.                     *)
Unpatch(page) ==
  [page EXCEPT ![ResetSlot] = page[SpareSlot], ![SpareSlot] = Zero,
               ![SumSlot] = Zero]

(* The boot ROM starts the loader from page 0 only if its checksum is right.*)
Bootable(fl) == fl[0][SumSlot] = Checksum /\ fl[0][ResetSlot] = LoaderVec

(* The content main computes myCrc from, for an image of size units: all of *)
(* page 0, and the flash from there up to size.                             *)
MyCrc(fl, size) ==
  [i \in 1 .. IF size < PageSize THEN PageSize ELSE size |->
     IF i <= PageSize THEN Unpatch(fl[0])[i - 1]
     ELSE IF i <= PageSize * FlashPages
          THEN fl[(i - 1) \div PageSize][(i - 1) % PageSize]
          ELSE Blank]

(* What a correct download of a file leaves in the flash.                   *)
Installed(file) ==
  LET padded == [p \in Pages |-> [i \in Slots |->
                   IF p >= LoadPage THEN LoaderUnit
                   ELSE IF p * PageSize + i < Len(file)
                        THEN file[p * PageSize + i + 1] ELSE Blank]]
  IN  [padded EXCEPT ![0] = Patch(@)]

(* A node on which nothing but the loader was installed.                    *)
Factory == Installed(<<>>)

(* The file that was installed, if it is one that the server ever had.      *)
Runs(fl, file) == MyCrc(fl, Len(file)) = file

-----------------------------------------------------------------------------
Idle == [idle |-> TRUE]

HelloOf(n) == [kind |-> "hello", hwId |-> n]

InitLoader ==
  /\ pc = [n \in HwIds |-> "send"]
  /\ req = [n \in HwIds |-> HelloOf(n)]
  /\ try = [n \in HwIds |-> 0]
  /\ reply = [n \in HwIds |-> NoReply]
  /\ swid = [n \in HwIds |-> NoSwId]
  /\ pos = [n \in HwIds |-> 0]
  /\ pageFill = [n \in HwIds |-> 0]
  /\ pageBuf = [n \in HwIds |-> [i \in Slots |-> Zero]]
  /\ todo = [n \in HwIds |-> <<>>]
  /\ flush = [n \in HwIds |-> FALSE]
  /\ pageNum = [n \in HwIds |-> 0]
  /\ verified = [n \in HwIds |-> FALSE]

(* A node starts from the factory or with some version already installed.   *)
Init ==
  /\ files \in {f \in [SwIds -> UNION {Versions[s] : s \in SwIds}] :
                  \A s \in SwIds : f[s] \in Versions[s]}
  /\ serving = Idle
  /\ InitLoader
  /\ flash \in [HwIds -> {Factory} \union
                         {Installed(v) : v \in UNION {Versions[s] : s \in SwIds}}]
  /\ losses = 0 /\ overheard = 0 /\ lates = 0 /\ resets = 0 /\ publishes = 0

-----------------------------------------------------------------------------
(* The radio and the server *)

(* requestOnce: rf.send.  The packet is lost on the air, or because the     *)
(* server has a request to answer: rf.send on its side empties the FIFO.    *)
Send(n) ==
  /\ pc[n] = "send"
  /\ \/ serving = Idle /\ serving' = [from |-> n, what |-> req[n]]
        /\ losses' = losses
     \/ serving = Idle /\ losses < MaxLoss /\ losses' = losses + 1
        /\ serving' = serving
     \/ serving # Idle /\ UNCHANGED <<serving, losses>>
  /\ pc' = [pc EXCEPT ![n] = "listen"]
  /\ UNCHANGED <<files, req, try, reply, swid, pos, pageFill, pageBuf, todo,
                 flush, pageNum, flash, verified, overheard, lates, resets, publishes>>

(* The server broadcasts its reply to the request it holds.  The loader     *)
(* that asked hears it or not, and so does every other one that listens;    *)
(* the first packet a loader hears ends its polling loop.  All server       *)
(* packets have flags 3, a non-zero origin and destination 0, so            *)
(* requestOnce accepts any of them.                                         *)
Serve ==
  /\ serving # Idle
  /\ LET answer    == Answer(files, serving.what)
         listening == {n \in HwIds : pc[n] = "listen"}
     IN  \E heard \in SUBSET listening :
           /\ IF serving.from \in listening \ heard
              THEN losses < MaxLoss /\ losses' = losses + 1
              ELSE losses' = losses
           /\ IF heard \subseteq {serving.from} THEN overheard' = overheard
              ELSE overheard < MaxOverheard /\ overheard' = overheard + 1
           /\ reply' = [n \in HwIds |-> IF n \in heard THEN answer ELSE reply[n]]
           /\ pc' = [n \in HwIds |-> IF n \in heard THEN "replied" ELSE pc[n]]
  /\ serving' = Idle
  /\ UNCHANGED <<files, req, try, swid, pos, pageFill, pageBuf, todo, flush,
                 pageNum, flash, verified, lates, resets, publishes>>

(* request() has tries left.                                               *)
TryAgain(n) == try[n] + 1 < MaxTries

(* requestOnce gives up.  This is early when the server has yet to answer.  *)
(* request() tries again, or fails after MaxTries tries.                    *)
Timeout(n) ==
  /\ pc[n] = "listen"
  /\ IF serving = Idle THEN lates' = lates
     ELSE lates < MaxLate /\ lates' = lates + 1
  /\ try' = [try EXCEPT ![n] = @ + 1]
  /\ IF TryAgain(n)
     THEN pc' = [pc EXCEPT ![n] = "send"] /\ reply' = reply
     ELSE pc' = [pc EXCEPT ![n] = "replied"]
          /\ reply' = [reply EXCEPT ![n] = NoReply]
  /\ UNCHANGED <<files, serving, req, swid, pos, pageFill, pageBuf, todo, flush,
                 pageNum, flash, verified, losses, overheard, resets, publishes>>

(* The files on the server can be replaced at any time.                     *)
Publish(s, file) ==
  /\ publishes < MaxPublish
  /\ file # files[s]
  /\ files' = [files EXCEPT ![s] = file]
  /\ publishes' = publishes + 1
  /\ UNCHANGED <<serving, loaderVars, losses, overheard, lates, resets>>

-----------------------------------------------------------------------------
(* The loader: main, BootLogic and RfDispatch *)

(* Start request(): the first try of a new request.                         *)
Ask(n, request) ==
  /\ req' = [req EXCEPT ![n] = request]
  /\ try' = [try EXCEPT ![n] = 0]
  /\ pc' = [pc EXCEPT ![n] = "send"]

(* Every other reply length makes identify() fail, and main jumps to the    *)
(* application as it is.                                                    *)
IdentifyFailed(n) ==
  /\ pc[n] = "replied"
  /\ req[n].kind = "hello"
  /\ ReplyLen(reply[n]) # HelloLen
  /\ pc' = [pc EXCEPT ![n] = "jump"]
  /\ verified' = [verified EXCEPT ![n] = FALSE]
  /\ UNCHANGED <<files, serving, req, try, reply, swid, pos, pageFill, pageBuf,
                 todo, flush, pageNum, flash, budgetVars>>

(* Mistake: the CRC of the first page only.                                 *)
CrcAgreesPage0(n, crc) ==
  /\ Len(crc) >= PageSize
  /\ MyCrc(flash[n], PageSize) = SubSeq(crc, 1, PageSize)

(* The CRC of the flash agrees with the announced one.                      *)
CrcAgrees(n, crc) == MyCrc(flash[n], Len(crc)) = crc

(* identify() succeeded: main compares the CRCs, with page 0 un-patched in  *)
(* pageBuf, and jumps or fetches everything.                                *)
Identified(n) ==
  LET hello == HelloView(reply[n])
  IN  /\ pc[n] = "replied"
      /\ req[n].kind = "hello"
      /\ ReplyLen(reply[n]) = HelloLen
      /\ pageBuf' = [pageBuf EXCEPT ![n] = Unpatch(flash[n][0])]
      /\ swid' = [swid EXCEPT ![n] = hello.swId]
      /\ \/ /\ CrcAgrees(n, hello.crc)
            /\ pc' = [pc EXCEPT ![n] = "jump"]
            /\ verified' = [verified EXCEPT ![n] = TRUE]
            /\ UNCHANGED <<req, try, pos>>
         \/ /\ ~CrcAgrees(n, hello.crc)
            /\ Ask(n, [kind |-> "fetch", swId |-> hello.swId, swIndex |-> 0])
            /\ pos' = [pos EXCEPT ![n] = 0]
            /\ verified' = verified
      /\ UNCHANGED <<files, serving, reply, pageFill, todo, flush, pageNum,
                     flash, budgetVars>>

(* fetchOne() returned data: DISPATCH(pos, reply.f.data, len).  The reply   *)
(* is not checked against swIdXor.                                          *)
Fetched(n) ==
  /\ pc[n] = "replied"
  /\ req[n].kind = "fetch"
  /\ ReplyLen(reply[n]) - HdrLen > 0
  /\ todo' = [todo EXCEPT ![n] = FetchView(reply[n])]
  /\ flush' = [flush EXCEPT ![n] = FALSE]
  /\ pc' = [pc EXCEPT ![n] = "copy"]
  /\ UNCHANGED <<files, serving, req, try, reply, swid, pos, pageFill, pageBuf,
                 pageNum, flash, verified, budgetVars>>

(* Mistakes: no padding, or a page of padding after a full page.            *)
PaddingNever(n) == <<>>
PaddingAlways(n) == [i \in 1 .. PageSize - pageFill[n] |-> Blank]

(* The 0xFF units that complete a started page.                             *)
Padding(n) ==
  IF pageFill[n] > 0 THEN [i \in 1 .. PageSize - pageFill[n] |-> Blank] ELSE <<>>

(* fetchOne() returned nothing, at the end of the file or for lack of an    *)
(* answer: DISPATCH(pos, 0, 0) fills the rest of a started page with 0xFF.  *)
FetchEnd(n) ==
  /\ pc[n] = "replied"
  /\ req[n].kind = "fetch"
  /\ ReplyLen(reply[n]) - HdrLen <= 0
  /\ todo' = [todo EXCEPT ![n] = Padding(n)]
  /\ flush' = [flush EXCEPT ![n] = TRUE]
  /\ pc' = [pc EXCEPT ![n] = "copy"]
  /\ UNCHANGED <<files, serving, req, try, reply, swid, pos, pageFill, pageBuf,
                 pageNum, flash, verified, budgetVars>>

(* Mistake: the data is not split at the page end.                          *)
CopyCountWhole(n) == Len(todo[n])

(* Units of the data that still fit in the page buffer.                     *)
CopyCount(n) ==
  IF pageFill[n] + Len(todo[n]) > PageSize THEN PageSize - pageFill[n]
                                           ELSE Len(todo[n])

(* Mistake: always at the start of the page.                                *)
FilledFromStart(n) ==
  [i \in Slots |-> IF i < CopyCount(n) THEN todo[n][i + 1] ELSE pageBuf[n][i]]

(* The page buffer after the next units went in.                            *)
Filled(n) ==
  [i \in Slots |-> IF i >= pageFill[n] /\ i < pageFill[n] + CopyCount(n)
                   THEN todo[n][i - pageFill[n] + 1] ELSE pageBuf[n][i]]

(* Mistake: page 0 is saved as it came.                                     *)
FinishedUnpatched(n, page) == Filled(n)

(* What is saved of it.                                                     *)
Finished(n, page) == IF page = 0 THEN Patch(Filled(n)) ELSE Filled(n)

(* Erasing a page past the end of the flash does nothing.                   *)
Program(n, page, content) ==
  flash' = IF page \in Pages THEN [flash EXCEPT ![n][page] = content] ELSE flash

(* One round of RfDispatch's loop.  A full page 0 is patched; then the page *)
(* is erased, to be saved in the next step.  The code counts pos up after   *)
(* the save; nothing looks at it in between.                                *)
Copy(n) ==
  /\ pc[n] = "copy"
  /\ todo[n] # <<>>
  /\ pageFill' = [pageFill EXCEPT ![n] = @ + CopyCount(n)]
  /\ pos' = [pos EXCEPT ![n] = @ + CopyCount(n)]
  /\ todo' = [todo EXCEPT ![n] = SubSeq(@, CopyCount(n) + 1, Len(@))]
  /\ \/ /\ pageFill[n] + CopyCount(n) < PageSize
        /\ pageBuf' = [pageBuf EXCEPT ![n] = Filled(n)]
        /\ UNCHANGED <<pc, pageNum, flash>>
     \/ /\ pageFill[n] + CopyCount(n) >= PageSize
        /\ pageNum' = [pageNum EXCEPT ![n] = pos[n] \div PageSize]
        /\ pageBuf' = [pageBuf EXCEPT ![n] = Finished(n, pos[n] \div PageSize)]
        /\ Program(n, pos[n] \div PageSize, ErasedPage)
        /\ pc' = [pc EXCEPT ![n] = "save"]
  /\ UNCHANGED <<files, serving, req, try, reply, swid, flush, verified,
                 budgetVars>>

(* Flash64::save, between the erase and the rest of the loop.               *)
Save(n) ==
  /\ pc[n] = "save"
  /\ Program(n, pageNum[n], pageBuf[n])
  /\ pageFill' = [pageFill EXCEPT ![n] = 0]
  /\ pc' = [pc EXCEPT ![n] = "copy"]
  /\ UNCHANGED <<files, serving, req, try, reply, swid, pos, pageBuf, todo,
                 flush, pageNum, verified, budgetVars>>

(* ++index                                                                  *)
NextIndex(n) == req[n].swIndex + 1

(* RfDispatch returned: fetch the next chunk, or identify again.            *)
Dispatched(n) ==
  /\ pc[n] = "copy"
  /\ todo[n] = <<>>
  /\ IF flush[n] THEN Ask(n, HelloOf(n))
     ELSE Ask(n, [kind |-> "fetch", swId |-> swid[n], swIndex |-> NextIndex(n)])
  /\ UNCHANGED <<files, serving, reply, swid, pos, pageFill, pageBuf, todo,
                 flush, pageNum, flash, verified, budgetVars>>

(* The power fails, or the node is reset, in the loader or the application; *)
(* when the server still has to answer, its answer is late for the restart. *)
(* RAM is lost.  The boot ROM enters the loader through page 0, or stays in *)
(* ISP mode when page 0 has no valid vector table.                          *)
Reset(n) ==
  /\ resets < MaxResets
  /\ resets' = resets + 1
  /\ IF serving = Idle THEN lates' = lates
     ELSE lates < MaxLate /\ lates' = lates + 1
  /\ pc' = [pc EXCEPT ![n] = IF Bootable(flash[n]) THEN "send" ELSE "isp"]
  /\ req' = [req EXCEPT ![n] = HelloOf(n)]
  /\ try' = [try EXCEPT ![n] = 0]
  /\ reply' = [reply EXCEPT ![n] = NoReply]
  /\ swid' = [swid EXCEPT ![n] = NoSwId]
  /\ pos' = [pos EXCEPT ![n] = 0]
  /\ pageFill' = [pageFill EXCEPT ![n] = 0]
  /\ pageBuf' = [pageBuf EXCEPT ![n] = [i \in Slots |-> Zero]]
  /\ todo' = [todo EXCEPT ![n] = <<>>]
  /\ flush' = [flush EXCEPT ![n] = FALSE]
  /\ pageNum' = [pageNum EXCEPT ![n] = 0]
  /\ verified' = [verified EXCEPT ![n] = FALSE]
  /\ UNCHANGED <<files, serving, flash, losses, overheard, publishes>>

-----------------------------------------------------------------------------
Loader(n) ==
  \/ IdentifyFailed(n) \/ Identified(n) \/ Fetched(n) \/ FetchEnd(n)
  \/ Copy(n) \/ Save(n) \/ Dispatched(n)

Next ==
  \/ Serve
  \/ \E n \in HwIds : Send(n) \/ Timeout(n) \/ Loader(n) \/ Reset(n)
  \/ \E s \in SwIds : \E file \in Versions[s] : Publish(s, file)

Spec == Init /\ [][Next]_vars

(* Loader and server are loops that never stop, and a listening loader      *)
(* counts its polls: each goes on when it can.  Power failures, publishing  *)
(* and losses need not happen.                                              *)
Fairness ==
  /\ WF_vars(Serve)
  /\ \A n \in HwIds : WF_vars(Send(n)) /\ WF_vars(Timeout(n)) /\ WF_vars(Loader(n))

FairSpec == Spec /\ Fairness

-----------------------------------------------------------------------------
(* Properties *)

(* Type invariant: RfDispatch's page buffer never holds more than a page,   *)
(* and a request has at most MaxTries tries.                                *)
TypeOK ==
  /\ files \in [SwIds -> Seq(Unit)]
  /\ serving \in [from : HwIds, what : Request] \union {Idle}
  /\ pc \in [HwIds -> LocState]
  /\ req \in [HwIds -> Request]
  /\ try \in [HwIds -> 0 .. MaxTries]
  /\ reply \in [HwIds -> BootReply]
  /\ swid \in [HwIds -> AnySwId]
  /\ pos \in [HwIds -> Nat]
  /\ pageFill \in [HwIds -> 0 .. PageSize]
  /\ pageBuf \in [HwIds -> Page]
  /\ todo \in [HwIds -> Seq(Unit)]
  /\ flush \in [HwIds -> BOOLEAN]
  /\ pageNum \in [HwIds -> Nat]
  /\ flash \in [HwIds -> Flash]
  /\ verified \in [HwIds -> BOOLEAN]
  /\ losses \in 0 .. MaxLoss
  /\ lates \in 0 .. MaxLate
  /\ resets \in 0 .. MaxResets
  /\ overheard \in 0 .. MaxOverheard
  /\ publishes \in 0 .. MaxPublish

(* RfDispatch keeps pageFill from call to call while BootLogic keeps pos:   *)
(* the two stay in step through every chunk, page end, padding, failed      *)
(* fetch and restart, so that each page gets the bytes that belong in it,   *)
(* and a new fetchAll always starts with an empty page buffer.              *)
BufferInStep ==
  \A n \in HwIds :
    /\ req[n].kind = "hello" => pageFill[n] = 0
    /\ req[n].kind = "fetch" /\ pc[n] # "save" =>
         \E pages \in 0 .. pos[n] : pos[n] = pages * PageSize + pageFill[n]
    /\ pc[n] # "save" => pageFill[n] < PageSize
    /\ pc[n] = "save" => /\ pageFill[n] = PageSize
                         /\ pos[n] = (pageNum[n] + 1) * PageSize

(* "swap reset vector so boot loader gets control back": whatever has been  *)
(* flashed so far, page 0 starts the loader at the next reset.  Only while  *)
(* page 0 itself is between its erase and its save does it not.             *)
BootVectorKept ==
  \A n \in HwIds :
    \/ Bootable(flash[n])
    \/ pc[n] = "save" /\ pageNum[n] = 0
    \/ pc[n] = "isp"

(* A loader never writes into the pages that hold the loader.               *)
LoaderIntact ==
  \A n \in HwIds : \A p \in LoadPage .. FlashPages - 1 :
    \A i \in Slots : flash[n][p][i] = LoaderUnit

(* When a loader starts the application because the CRCs agree, the flash   *)
(* holds, in full, a file published for the software of this very node:     *)
(* whatever was lost, late, mistaken for something else or replaced on the  *)
(* server while it was being fetched.                                       *)
VerifiedJump ==
  \A n \in HwIds :
    pc[n] = "jump" /\ verified[n] =>
      \E file \in Versions[Assign[n]] : Runs(flash[n], file)

(* While a file is fetched, every unit so far is in its place: in a flash   *)
(* page once that is complete, in the page buffer until then.  When         *)
(* fetchAll gets its empty reply, this is the file, no more and no less     *)
(* (tests/bootserverTest.cpp, BootEndToEnd FetchAll).                       *)
StreamExact ==
  \A n \in HwIds :
    LET file  == LoadFile(files, swid[n])
        saved == pos[n] - (pos[n] % PageSize)
        Received(i) == IF i >= saved THEN pageBuf[n][i - saved]
                       ELSE IF i < PageSize THEN Unpatch(flash[n][0])[i]
                       ELSE flash[n][i \div PageSize][i % PageSize]
    IN  /\ req[n].kind = "fetch" /\ pc[n] # "save" =>
             \A i \in 0 .. pos[n] - 1 :
               Received(i) = IF i < Len(file) THEN file[i + 1] ELSE Blank
        /\ pc[n] = "replied" /\ req[n].kind = "fetch"
             /\ reply[n].kind = "fetch" /\ reply[n].data = <<>>
           => pos[n] = Len(file)

(* "swap reset vector so boot loader gets control back": after any power    *)
(* failure, the node is back in its loader.                                 *)
LoaderRegainsControl == \A n \in HwIds : pc[n] # "isp"

(* A node ends up in its application, and that is the one the server has    *)
(* for it, if no file is replaced meanwhile.                                *)
UpdateCompletes ==
  \A n \in HwIds :
    <>[](pc[n] = "jump" /\ Runs(flash[n], files[Assign[n]]))

(* However late the replies are, and whatever is lost, no loader asks or    *)
(* fetches for ever: each node gets to running an application, or the power *)
(* failed while its page 0 was erased.                                      *)
AlwaysRuns == \A n \in HwIds : <>[](pc[n] \in {"jump", "isp"})

(* The published file that a node's flash holds in full, if it does.        *)
InstalledFile(n) ==
  IF \E file \in Versions[Assign[n]] : Runs(flash[n], file)
  THEN CHOOSE file \in Versions[Assign[n]] : Runs(flash[n], file)
  ELSE <<Junk>>

Updating == INSTANCE FirmwareUpdate WITH
  Nodes    <- HwIds,
  Approved <- [n \in HwIds |-> Versions[Assign[n]]],
  Partial  <- <<Junk>>,
  image    <- [n \in HwIds |-> InstalledFile(n)],
  running  <- [n \in HwIds |-> pc[n] = "jump"]

(* With fewer losses than tries and a prompt server, nodes behave as        *)
(* FirmwareUpdate promises, power failures included.                        *)
ImplementsFirmwareUpdate == Updating!Spec
=============================================================================
