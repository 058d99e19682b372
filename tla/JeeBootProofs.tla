----------------------------- MODULE JeeBootProofs -----------------------------
(***************************************************************************)
(* Proofs about JeeBoot, for all files, page and chunk sizes, numbers of   *)
(* nodes, tries, losses and late replies.                                  *)
(***************************************************************************)
EXTENDS JeeBoot, SequenceTheorems, TLAPS

(* Arithmetic of pages: dividing a position by the page size.               *)
LEMMA DivNat ==
  ASSUME NEW a \in Nat, NEW b \in Nat \ {0}
  PROVE  a \div b \in Nat
  OBVIOUS

(* The page of a position is the number of whole pages before it.           *)
LEMMA PageOfPos ==
  ASSUME NEW k \in Nat, NEW b \in Nat \ {0}, NEW f \in 0 .. b - 1
  PROVE  (k * b + f) \div b = k
<1> DEFINE a == k * b + f
           q == a \div b
<1>1. a \in Nat /\ q \in Nat
  OBVIOUS
<1>2. q * b <= a /\ a < (q + 1) * b
  BY <1>1
<1>3. ~(q < k)
  <2>1. SUFFICES ASSUME q + 1 <= k PROVE FALSE
    BY <1>1
  <2>2. (q + 1) * b <= k * b
    BY <2>1, <1>1
  <2> QED BY <2>2, <1>2, <1>1
<1>4. ~(k < q)
  <2>1. SUFFICES ASSUME k + 1 <= q PROVE FALSE
    BY <1>1
  <2>2. (k + 1) * b <= q * b
    BY <2>1, <1>1
  <2>3. (k + 1) * b = k * b + b
    OBVIOUS
  <2> QED BY <2>2, <2>3, <1>2, <1>1
<1> QED BY <1>1, <1>3, <1>4

-----------------------------------------------------------------------------
(* What the operators of the model return. *)

(* Every request of a loader gets a reply of the right form.                *)
LEMMA AnswerType ==
  ASSUME NEW fs \in [SwIds -> Seq(Unit)], NEW r \in Request
  PROVE  Answer(fs, r) \in BootReply
<1>1. \A s \in AnySwId : LoadFile(fs, s) \in Seq(Unit)
  BY DEF LoadFile, AnySwId
<1>2. CASE r \in HelloRequest
  <2>1. r.kind = "hello" /\ r.hwId \in HwIds
    BY <1>2 DEF HelloRequest
  <2>2. Assign[r.hwId] \in AnySwId
    BY <2>1, ServerAssumption DEF AnySwId
  <2> QED BY <2>1, <2>2, <1>1 DEF Answer, Hello, BootReply
<1>3. CASE r \in FetchRequest
  <2>1. r.kind = "fetch" /\ r.swId \in AnySwId /\ r.swIndex \in Nat
    BY <1>3 DEF FetchRequest
  <2> DEFINE file == LoadFile(fs, r.swId)
             p    == r.swIndex * DataMax
             left == Len(file) - p
             len  == IF left < 0 THEN 0 ELSE IF left > DataMax THEN DataMax ELSE left
  <2>2. file \in Seq(Unit) /\ p \in Nat /\ len \in Nat
    BY <2>1, <1>1, ServerAssumption
  <2>3. \A i \in p + 1 .. p + len : i \in 1 .. Len(file)
    BY <2>2, ServerAssumption
  <2>4. \A i \in p + 1 .. p + len : file[i] \in Unit
    BY <2>3, <2>2
  <2>5. SubSeq(file, p + 1, p + len) \in Seq(Unit)
    <3> HIDE DEF file, p, len
    <3> QED BY <2>4, <2>2, SubSeqProperties
  <2>6. Answer(fs, r) = [kind |-> "fetch", swId |-> NoSwId, crc |-> <<>>,
                         data |-> SubSeq(file, p + 1, p + len)]
    BY <2>1 DEF Answer, Fetch
  <2> HIDE DEF file, p, len
  <2> QED BY <2>5, <2>6 DEF BootReply, AnySwId
<1> QED BY <1>2, <1>3 DEF Request

(* A reply of either kind can be read as either kind.                       *)
LEMMA ViewType ==
  ASSUME NEW r \in BootReply
  PROVE  /\ HelloView(r).swId \in AnySwId
         /\ HelloView(r).crc \in Seq(Unit)
         /\ FetchView(r) \in Seq(Unit)
<1>1. r.swId \in AnySwId /\ r.crc \in Seq(Unit) /\ r.data \in Seq(Unit)
  BY DEF BootReply
<1>2. Junk \in Unit /\ HelloLen - HdrLen \in Nat
  BY ServerAssumption
<1>3. [i \in 1 .. HelloLen - HdrLen |-> Junk] \in Seq(Unit)
  BY <1>2
<1>4. <<Junk>> \in Seq(Unit)
  BY <1>2
<1> QED BY <1>1, <1>3, <1>4 DEF HelloView, FetchView, AnySwId

(* The failure of all tries has the form of a reply, too.                   *)
LEMMA NoReplyType == NoReply \in BootReply
  BY DEF NoReply, BootReply, AnySwId

(* The vector slots of a page, and Patch.                                   *)
LEMMA SlotFacts ==
  /\ PageSize \in Nat \ {0}
  /\ PageSize >= 3
  /\ Slots = 0 .. PageSize - 1
  /\ {ResetSlot, SpareSlot, SumSlot} \subseteq Slots
  /\ 0 \in Pages
  BY LoaderAssumption DEF Slots, Pages

(* Patch keeps a page a page, and makes it one the boot ROM starts.         *)
LEMMA PatchType ==
  ASSUME NEW page \in Page
  PROVE  /\ Patch(page) \in Page
         /\ Patch(page)[SumSlot] = Checksum
         /\ Patch(page)[ResetSlot] = LoaderVec
  BY SlotFacts, LoaderAssumption DEF Patch, Page

(* main's copy of page 0 without the patch is a page.                       *)
LEMMA UnpatchType ==
  ASSUME NEW page \in Page
  PROVE  Unpatch(page) \in Page
  BY SlotFacts, LoaderAssumption DEF Unpatch, Page

-----------------------------------------------------------------------------
(* The inductive invariant. *)

(* A request in progress has a try left.                                    *)
TriesLeft ==
  \A n \in HwIds : pc[n] \in {"send", "listen"} => try[n] < MaxTries

(* The page buffer and the flash are only written in a fetchAll.            *)
Dispatching ==
  \A n \in HwIds : pc[n] \in {"copy", "save"} => req[n].kind = "fetch"

(* The final dispatch has exactly what completes the page.                  *)
Flushing ==
  \A n \in HwIds : flush[n] =>
    /\ pc[n] = "copy" => \/ pageFill[n] = 0 /\ todo[n] = <<>>
                         \/ pageFill[n] + Len(todo[n]) = PageSize
    /\ pc[n] = "save" => todo[n] = <<>>

(* A page 0 that waits to be saved is patched.                              *)
PatchPending ==
  \A n \in HwIds : pc[n] = "save" /\ pageNum[n] = 0 =>
    pageBuf[n][SumSlot] = Checksum /\ pageBuf[n][ResetSlot] = LoaderVec

(* TypeOK, BufferInStep and BootVectorKept are inductive together with      *)
(* these: a request fails before its counter passes MaxTries, a fetchAll    *)
(* ends with an empty page buffer, page 0 is only replaced by a patched one.*)
IInv ==
  /\ TypeOK
  /\ TriesLeft
  /\ Dispatching
  /\ Flushing
  /\ PatchPending
  /\ BufferInStep
  /\ BootVectorKept

(* Send, heard by the server or lost, keeps the types.                      *)
LEMMA SendType ==
  ASSUME TypeOK, NEW n \in HwIds, Send(n)
  PROVE  TypeOK'
<1>1. UNCHANGED <<files, req, try, reply, swid, pos, pageFill, pageBuf, todo,
                  flush, pageNum, flash, verified, overheard, lates, resets,
                  publishes>>
  BY DEF Send
<1>2. serving' \in [from : HwIds, what : Request] \union {Idle}
  <2>1. req[n] \in Request /\ serving \in [from : HwIds, what : Request] \union {Idle}
    BY DEF TypeOK
  <2>2. serving' = [from |-> n, what |-> req[n]] \/ serving' = serving
    BY DEF Send
  <2> QED BY <2>1, <2>2
<1>3. losses' \in 0 .. MaxLoss
  <2>1. losses \in 0 .. MaxLoss /\ MaxLoss \in Nat
    BY LoaderAssumption DEF TypeOK
  <2>2. losses' = losses \/ (losses < MaxLoss /\ losses' = losses + 1)
    BY DEF Send
  <2> QED BY <2>1, <2>2
<1>4. pc' \in [HwIds -> LocState]
  BY DEF TypeOK, Send, LocState
<1> QED BY <1>1, <1>2, <1>3, <1>4 DEF TypeOK

(* A try that is given up keeps the counter within MaxTries.                *)
LEMMA TimeoutType ==
  ASSUME TypeOK, TriesLeft, NEW n \in HwIds, Timeout(n)
  PROVE  TypeOK'
<1>1. UNCHANGED <<files, serving, req, swid, pos, pageFill, pageBuf, todo, flush,
                  pageNum, flash, verified, losses, overheard, resets, publishes>>
  BY DEF Timeout
<1>2. try' \in [HwIds -> 0 .. MaxTries]
  <2>1. try[n] \in 0 .. MaxTries /\ try[n] < MaxTries /\ MaxTries \in Nat
    BY LoaderAssumption DEF TypeOK, TriesLeft, Timeout
  <2>2. try[n] + 1 \in 0 .. MaxTries
    BY <2>1
  <2> QED BY <2>2 DEF TypeOK, Timeout
<1>3. lates' \in 0 .. MaxLate
  <2>1. lates \in 0 .. MaxLate /\ MaxLate \in Nat
    BY LoaderAssumption DEF TypeOK
  <2>2. lates' = lates \/ (lates < MaxLate /\ lates' = lates + 1)
    BY DEF Timeout
  <2> QED BY <2>1, <2>2
<1>4. pc' \in [HwIds -> LocState]
  <2>1. pc' = [pc EXCEPT ![n] = "send"] \/ pc' = [pc EXCEPT ![n] = "replied"]
    BY DEF Timeout
  <2> QED BY <2>1 DEF TypeOK, LocState
<1>5. reply' \in [HwIds -> BootReply]
  <2>1. reply' = reply \/ reply' = [reply EXCEPT ![n] = NoReply]
    BY DEF Timeout
  <2> QED BY <2>1, NoReplyType DEF TypeOK
<1> QED BY <1>1, <1>2, <1>3, <1>4, <1>5 DEF TypeOK

(* What the server broadcasts has the type of a reply.                      *)
LEMMA ServeType ==
  ASSUME TypeOK, Serve
  PROVE  TypeOK'
<1> DEFINE answer == Answer(files, serving.what)
<1>1. serving \in [from : HwIds, what : Request]
  BY DEF TypeOK, Serve
<1>2. answer \in BootReply
  BY <1>1, AnswerType DEF TypeOK
<1>3. PICK heard \in SUBSET HwIds :
        /\ losses' = losses \/ (losses < MaxLoss /\ losses' = losses + 1)
        /\ \/ overheard' = overheard
           \/ overheard < MaxOverheard /\ overheard' = overheard + 1
        /\ reply' = [n \in HwIds |-> IF n \in heard THEN answer ELSE reply[n]]
        /\ pc' = [n \in HwIds |-> IF n \in heard THEN "replied" ELSE pc[n]]
  BY DEF Serve
<1>4. reply' \in [HwIds -> BootReply]
  BY <1>2, <1>3 DEF TypeOK
<1>5. pc' \in [HwIds -> LocState]
  BY <1>3 DEF TypeOK, LocState
<1>6. losses' \in 0 .. MaxLoss /\ overheard' \in 0 .. MaxOverheard
  BY <1>3, LoaderAssumption DEF TypeOK
<1>7. serving' = Idle
  BY DEF Serve
<1> QED BY <1>4, <1>5, <1>6, <1>7 DEF TypeOK, Serve

(* A file replaced on the server is one of its versions.                    *)
LEMMA PublishType ==
  ASSUME TypeOK, NEW s \in SwIds, NEW file \in Versions[s], Publish(s, file)
  PROVE  TypeOK'
<1>1. file \in Seq(Unit)
  BY LoaderAssumption
<1>2. files' \in [SwIds -> Seq(Unit)] /\ publishes' \in 0 .. MaxPublish
  BY <1>1, LoaderAssumption DEF TypeOK, Publish
<1>3. UNCHANGED <<serving, pc, req, try, reply, swid, pos, pageFill, pageBuf, todo,
                  flush, pageNum, flash, verified, losses, overheard, lates, resets>>
  BY DEF Publish, loaderVars
<1> QED BY <1>2, <1>3 DEF TypeOK

(* What a round of RfDispatch copies fits in the page and in what is left.  *)
LEMMA CopyCountFacts ==
  ASSUME TypeOK, NEW n \in HwIds
  PROVE  /\ CopyCount(n) \in Nat
         /\ CopyCount(n) <= Len(todo[n])
         /\ pageFill[n] + CopyCount(n) <= PageSize
         /\ pageFill[n] + Len(todo[n]) <= PageSize => CopyCount(n) = Len(todo[n])
<1>1. pageFill[n] \in 0 .. PageSize /\ Len(todo[n]) \in Nat /\ PageSize \in Nat
  BY SlotFacts DEF TypeOK
<1> QED BY <1>1 DEF CopyCount

(* The page buffer with the next units in it is a page.                     *)
LEMMA FilledType ==
  ASSUME TypeOK, NEW n \in HwIds
  PROVE  Filled(n) \in Page
<1>1. /\ pageFill[n] \in 0 .. PageSize /\ todo[n] \in Seq(Unit)
      /\ pageBuf[n] \in [Slots -> Unit] /\ PageSize \in Nat
      /\ Slots = 0 .. PageSize - 1
  BY SlotFacts DEF TypeOK, Page
<1>2. CopyCount(n) \in Nat /\ CopyCount(n) <= Len(todo[n])
  BY CopyCountFacts
<1>3. ASSUME NEW i \in Slots, i >= pageFill[n], i < pageFill[n] + CopyCount(n)
      PROVE  todo[n][i - pageFill[n] + 1] \in Unit
  <2>1. i - pageFill[n] + 1 \in 1 .. Len(todo[n])
    BY <1>1, <1>2, <1>3
  <2> QED BY <2>1, <1>1
<1> QED BY <1>1, <1>3 DEF Filled, Page

(* What RfDispatch saves is a page, and a bootable one for page 0.          *)
LEMMA FinishedType ==
  ASSUME TypeOK, NEW n \in HwIds, NEW page
  PROVE  /\ Finished(n, page) \in Page
         /\ page = 0 => /\ Finished(n, page)[SumSlot] = Checksum
                        /\ Finished(n, page)[ResetSlot] = LoaderVec
  BY FilledType, PatchType DEF Finished

(* The padding completes a started page and is empty without one.           *)
LEMMA PaddingType ==
  ASSUME TypeOK, NEW n \in HwIds
  PROVE  /\ Padding(n) \in Seq(Unit)
         /\ pageFill[n] = 0 => Padding(n) = <<>>
         /\ pageFill[n] > 0 => pageFill[n] + Len(Padding(n)) = PageSize
<1>1. pageFill[n] \in 0 .. PageSize /\ PageSize \in Nat /\ Blank \in Unit
  BY SlotFacts, LoaderAssumption DEF TypeOK
<1>2. PageSize - pageFill[n] \in Nat
  BY <1>1
<1>3. [i \in 1 .. PageSize - pageFill[n] |-> Blank] \in Seq(Unit)
  BY <1>1, <1>2
<1>4. Len([i \in 1 .. PageSize - pageFill[n] |-> Blank]) = PageSize - pageFill[n]
  BY <1>1, <1>2
<1> QED BY <1>1, <1>3, <1>4 DEF Padding

(* An erased page is a page.                                                *)
LEMMA ErasedType == ErasedPage \in Page
  BY LoaderAssumption DEF ErasedPage, Page

(* Erase and save keep the flash a flash.                                   *)
LEMMA ProgramType ==
  ASSUME TypeOK, NEW n \in HwIds, NEW page, NEW content \in Page,
         Program(n, page, content)
  PROVE  flash' \in [HwIds -> Flash]
<1>1. CASE page \in Pages
  <2>1. flash' = [flash EXCEPT ![n][page] = content]
    BY <1>1 DEF Program
  <2> QED BY <2>1, <1>1 DEF TypeOK, Flash
<1>2. CASE page \notin Pages
  BY <1>2 DEF Program, TypeOK
<1> QED BY <1>1, <1>2

(* RfDispatch programs its own node and one page of it.                     *)
LEMMA ProgramEffect ==
  ASSUME TypeOK, NEW n \in HwIds, NEW page, NEW content,
         Program(n, page, content)
  PROVE  /\ \A m \in HwIds \ {n} : flash'[m] = flash[m]
         /\ page # 0 => flash'[n][0] = flash[n][0]
         /\ page = 0 => flash'[n][0] = content
<1>1. CASE page \in Pages
  <2>1. flash' = [flash EXCEPT ![n][page] = content]
    BY <1>1 DEF Program
  <2> QED BY <2>1, <1>1, SlotFacts DEF TypeOK, Flash
<1>2. CASE page \notin Pages
  BY <1>2, SlotFacts DEF Program
<1> QED BY <1>1, <1>2

(* The jump after a failed identify keeps the types.                        *)
LEMMA IdentifyFailedType ==
  ASSUME TypeOK, NEW n \in HwIds, IdentifyFailed(n)
  PROVE  TypeOK'
<1>1. pc' \in [HwIds -> LocState] /\ verified' \in [HwIds -> BOOLEAN]
  BY DEF TypeOK, IdentifyFailed, LocState
<1>2. UNCHANGED <<files, serving, req, try, reply, swid, pos, pageFill, pageBuf,
                  todo, flush, pageNum, flash, losses, overheard, lates, resets,
                  publishes>>
  BY DEF IdentifyFailed, budgetVars
<1> QED BY <1>1, <1>2 DEF TypeOK

(* The start of a new request has the types of a request.                   *)
LEMMA AskType ==
  ASSUME TypeOK, NEW n \in HwIds, NEW request \in Request, Ask(n, request)
  PROVE  /\ req' \in [HwIds -> Request]
         /\ try' \in [HwIds -> 0 .. MaxTries]
         /\ pc' \in [HwIds -> LocState]
<1>1. req' \in [HwIds -> Request]
  BY DEF TypeOK, Ask
<1>2. 0 \in 0 .. MaxTries
  BY LoaderAssumption
<1>3. try' \in [HwIds -> 0 .. MaxTries]
  BY <1>2 DEF TypeOK, Ask
<1>4. pc' \in [HwIds -> LocState]
  BY DEF TypeOK, Ask, LocState
<1> QED BY <1>1, <1>3, <1>4

(* identify and the comparison of CRCs keep the types.                      *)
LEMMA IdentifiedType ==
  ASSUME TypeOK, NEW n \in HwIds, Identified(n)
  PROVE  TypeOK'
<1> DEFINE hello == HelloView(reply[n])
<1>1. hello.swId \in AnySwId
  BY ViewType DEF TypeOK
<1>2. swid' \in [HwIds -> AnySwId]
  BY <1>1 DEF TypeOK, Identified
<1>3. pageBuf' \in [HwIds -> Page]
  <2>1. flash[n][0] \in Page
    BY SlotFacts DEF TypeOK, Flash
  <2>2. Unpatch(flash[n][0]) \in Page
    BY <2>1, UnpatchType
  <2>3. pageBuf' = [pageBuf EXCEPT ![n] = Unpatch(flash[n][0])]
    BY DEF Identified
  <2> QED BY <2>2, <2>3 DEF TypeOK
<1>4. UNCHANGED <<files, serving, reply, pageFill, todo, flush, pageNum, flash,
                  losses, overheard, lates, resets, publishes>>
  BY DEF Identified, budgetVars
<1>5. CASE CrcAgrees(n, hello.crc)
  <2>1. pc' = [pc EXCEPT ![n] = "jump"] /\ verified' = [verified EXCEPT ![n] = TRUE]
    BY <1>5 DEF Identified
  <2>2. UNCHANGED <<req, try, pos>>
    BY <1>5 DEF Identified
  <2>3. pc' \in [HwIds -> LocState] /\ verified' \in [HwIds -> BOOLEAN]
    BY <2>1 DEF TypeOK, LocState
  <2> QED BY <1>2, <1>3, <1>4, <2>2, <2>3 DEF TypeOK
<1>6. CASE ~CrcAgrees(n, hello.crc)
  <2> DEFINE request == [kind |-> "fetch", swId |-> hello.swId, swIndex |-> 0]
  <2>1. Ask(n, request) /\ pos' = [pos EXCEPT ![n] = 0] /\ verified' = verified
    BY <1>6 DEF Identified
  <2>2. request \in Request
    BY <1>1 DEF Request, FetchRequest
  <2>3. /\ req' \in [HwIds -> Request]
        /\ try' \in [HwIds -> 0 .. MaxTries]
        /\ pc' \in [HwIds -> LocState]
    <3> HIDE DEF request
    <3> QED BY <2>1, <2>2, AskType
  <2>4. pos' \in [HwIds -> Nat]
    BY <2>1 DEF TypeOK
  <2> QED BY <1>2, <1>3, <1>4, <2>1, <2>3, <2>4 DEF TypeOK
<1> QED BY <1>5, <1>6

(* A chunk of data handed to RfDispatch keeps the types.                    *)
LEMMA FetchedType ==
  ASSUME TypeOK, NEW n \in HwIds, Fetched(n)
  PROVE  TypeOK'
<1>1. FetchView(reply[n]) \in Seq(Unit)
  BY ViewType DEF TypeOK
<1>2. /\ todo' \in [HwIds -> Seq(Unit)]
      /\ flush' \in [HwIds -> BOOLEAN]
      /\ pc' \in [HwIds -> LocState]
  BY <1>1 DEF TypeOK, Fetched, LocState
<1>3. UNCHANGED <<files, serving, req, try, reply, swid, pos, pageFill, pageBuf,
                  pageNum, flash, verified, losses, overheard, lates, resets,
                  publishes>>
  BY DEF Fetched, budgetVars
<1> QED BY <1>2, <1>3 DEF TypeOK

(* The final call of RfDispatch keeps the types.                            *)
LEMMA FetchEndType ==
  ASSUME TypeOK, NEW n \in HwIds, FetchEnd(n)
  PROVE  TypeOK'
<1>1. Padding(n) \in Seq(Unit)
  BY PaddingType
<1>2. /\ todo' \in [HwIds -> Seq(Unit)]
      /\ flush' \in [HwIds -> BOOLEAN]
      /\ pc' \in [HwIds -> LocState]
  BY <1>1 DEF TypeOK, FetchEnd, LocState
<1>3. UNCHANGED <<files, serving, req, try, reply, swid, pos, pageFill, pageBuf,
                  pageNum, flash, verified, losses, overheard, lates, resets,
                  publishes>>
  BY DEF FetchEnd, budgetVars
<1> QED BY <1>2, <1>3 DEF TypeOK

(* A round of RfDispatch never overfills the page buffer.                   *)
LEMMA CopyType ==
  ASSUME TypeOK, NEW n \in HwIds, Copy(n)
  PROVE  TypeOK'
<1>1. /\ CopyCount(n) \in Nat
      /\ CopyCount(n) <= Len(todo[n])
      /\ pageFill[n] + CopyCount(n) <= PageSize
  BY CopyCountFacts
<1>2. UNCHANGED <<files, serving, req, try, reply, swid, flush, verified, losses,
                  overheard, lates, resets, publishes>>
  BY DEF Copy, budgetVars
<1>3. pageFill' \in [HwIds -> 0 .. PageSize]
  <2>1. pageFill[n] + CopyCount(n) \in 0 .. PageSize
    BY <1>1, SlotFacts DEF TypeOK
  <2> QED BY <2>1 DEF TypeOK, Copy
<1>4. pos' \in [HwIds -> Nat]
  <2>1. pos[n] + CopyCount(n) \in Nat
    BY <1>1 DEF TypeOK
  <2> QED BY <2>1 DEF TypeOK, Copy
<1>5. todo' \in [HwIds -> Seq(Unit)]
  <2>1. todo[n] \in Seq(Unit) /\ Len(todo[n]) \in Nat
    BY DEF TypeOK
  <2>2. \A i \in CopyCount(n) + 1 .. Len(todo[n]) : todo[n][i] \in Unit
    BY <2>1, <1>1
  <2>3. SubSeq(todo[n], CopyCount(n) + 1, Len(todo[n])) \in Seq(Unit)
    BY <2>1, <2>2, <1>1, SubSeqProperties
  <2> QED BY <2>3 DEF TypeOK, Copy
<1>6. CASE pageFill[n] + CopyCount(n) < PageSize
  <2>0. pageFill[n] \in Nat /\ PageSize \in Nat
    BY SlotFacts DEF TypeOK
  <2>1. pageBuf' = [pageBuf EXCEPT ![n] = Filled(n)] /\ UNCHANGED <<pc, pageNum, flash>>
    <3>1. ~(pageFill[n] + CopyCount(n) >= PageSize)
      BY <1>6, <1>1, <2>0
    <3> QED BY <3>1 DEF Copy
  <2>2. pageBuf' \in [HwIds -> Page]
    BY <2>1, FilledType DEF TypeOK
  <2> QED BY <1>2, <1>3, <1>4, <1>5, <2>1, <2>2 DEF TypeOK
<1>7. CASE ~(pageFill[n] + CopyCount(n) < PageSize)
  <2> DEFINE page == pos[n] \div PageSize
  <2>1. /\ pageNum' = [pageNum EXCEPT ![n] = page]
        /\ pageBuf' = [pageBuf EXCEPT ![n] = Finished(n, page)]
        /\ Program(n, page, ErasedPage)
        /\ pc' = [pc EXCEPT ![n] = "save"]
    BY <1>7 DEF Copy
  <2>2. page \in Nat
    BY SlotFacts, DivNat DEF TypeOK
  <2> HIDE DEF page
  <2>3. pageNum' \in [HwIds -> Nat] /\ pc' \in [HwIds -> LocState]
    BY <2>1, <2>2 DEF TypeOK, LocState
  <2>4. pageBuf' \in [HwIds -> Page]
    BY <2>1, FinishedType DEF TypeOK
  <2>5. flash' \in [HwIds -> Flash]
    BY <2>1, ErasedType, ProgramType
  <2> QED BY <1>2, <1>3, <1>4, <1>5, <2>3, <2>4, <2>5 DEF TypeOK
<1> QED BY <1>6, <1>7

(* Saving the page buffer keeps the types.                                  *)
LEMMA SaveType ==
  ASSUME TypeOK, NEW n \in HwIds, Save(n)
  PROVE  TypeOK'
<1>1. flash' \in [HwIds -> Flash]
  <2>1. pageBuf[n] \in Page /\ Program(n, pageNum[n], pageBuf[n])
    BY DEF TypeOK, Save
  <2> QED BY <2>1, ProgramType
<1>2. pageFill' \in [HwIds -> 0 .. PageSize] /\ pc' \in [HwIds -> LocState]
  BY SlotFacts DEF TypeOK, Save, LocState
<1>3. UNCHANGED <<files, serving, req, try, reply, swid, pos, pageBuf, todo,
                  flush, pageNum, verified, losses, overheard, lates, resets,
                  publishes>>
  BY DEF Save, budgetVars
<1> QED BY <1>1, <1>2, <1>3 DEF TypeOK

(* Going on to the next chunk keeps the types.                              *)
LEMMA DispatchedType ==
  ASSUME TypeOK, Dispatching, NEW n \in HwIds, Dispatched(n)
  PROVE  TypeOK'
<1>1. PICK request \in Request : Ask(n, request)
  <2>1. CASE flush[n]
    <3>1. HelloOf(n) \in Request
      BY DEF HelloOf, Request, HelloRequest
    <3> QED BY <2>1, <3>1 DEF Dispatched
  <2>2. CASE ~flush[n]
    <3>1. req[n] \in FetchRequest
      BY DEF TypeOK, Dispatching, Dispatched, Request, HelloRequest
    <3>2. NextIndex(n) \in Nat
      BY <3>1 DEF NextIndex, FetchRequest
    <3>3. [kind |-> "fetch", swId |-> swid[n], swIndex |-> NextIndex(n)] \in Request
      BY <3>2 DEF TypeOK, Request, FetchRequest
    <3> QED BY <2>2, <3>3 DEF Dispatched
  <2> QED BY <2>1, <2>2
<1>2. /\ req' \in [HwIds -> Request]
      /\ try' \in [HwIds -> 0 .. MaxTries]
      /\ pc' \in [HwIds -> LocState]
  BY <1>1, AskType
<1>3. UNCHANGED <<files, serving, reply, swid, pos, pageFill, pageBuf, todo,
                  flush, pageNum, flash, verified, losses, overheard, lates,
                  resets, publishes>>
  BY DEF Dispatched, budgetVars
<1> QED BY <1>2, <1>3 DEF TypeOK

(* A power failure in any state keeps the types.                            *)
LEMMA ResetType ==
  ASSUME TypeOK, NEW n \in HwIds, Reset(n)
  PROVE  TypeOK'
<1>1. HelloOf(n) \in Request /\ NoReply \in BootReply /\ NoSwId \in AnySwId
  BY NoReplyType DEF HelloOf, Request, HelloRequest, AnySwId
<1>2. [i \in Slots |-> Zero] \in Page /\ 0 \in 0 .. MaxTries /\ 0 \in 0 .. PageSize
  BY LoaderAssumption, SlotFacts DEF Page
<1>3. pc' \in [HwIds -> LocState]
  BY DEF TypeOK, Reset, LocState
<1>4. /\ req' \in [HwIds -> Request]
      /\ try' \in [HwIds -> 0 .. MaxTries]
      /\ reply' \in [HwIds -> BootReply]
      /\ swid' \in [HwIds -> AnySwId]
  BY <1>1, <1>2 DEF TypeOK, Reset
<1>5. /\ pos' \in [HwIds -> Nat]
      /\ pageFill' \in [HwIds -> 0 .. PageSize]
      /\ pageNum' \in [HwIds -> Nat]
      /\ pageBuf' \in [HwIds -> Page]
  BY <1>2 DEF TypeOK, Reset
<1>6. /\ todo' \in [HwIds -> Seq(Unit)]
      /\ flush' \in [HwIds -> BOOLEAN]
      /\ verified' \in [HwIds -> BOOLEAN]
  BY DEF TypeOK, Reset
<1>7. lates' \in 0 .. MaxLate /\ resets' \in 0 .. MaxResets
  <2>1. /\ lates \in 0 .. MaxLate /\ MaxLate \in Nat
        /\ resets \in 0 .. MaxResets /\ MaxResets \in Nat
    BY LoaderAssumption DEF TypeOK
  <2>2. /\ lates' = lates \/ (lates < MaxLate /\ lates' = lates + 1)
        /\ resets < MaxResets /\ resets' = resets + 1
    BY DEF Reset
  <2> QED BY <2>1, <2>2
<1>8. UNCHANGED <<files, serving, flash, losses, overheard, publishes>>
  BY DEF Reset
<1> QED BY <1>3, <1>4, <1>5, <1>6, <1>7, <1>8 DEF TypeOK

-----------------------------------------------------------------------------
(* Initial states. *)

(* A node with a correct download has a bootable flash.                     *)
LEMMA InstalledType ==
  ASSUME NEW file \in Seq(Unit)
  PROVE  Installed(file) \in Flash /\ Bootable(Installed(file))
<1> DEFINE padded == [p \in Pages |-> [i \in Slots |->
                        IF p >= LoadPage THEN LoaderUnit
                        ELSE IF p * PageSize + i < Len(file)
                             THEN file[p * PageSize + i + 1] ELSE Blank]]
<1>1. padded \in Flash
  <2>1. SUFFICES ASSUME NEW p \in Pages, NEW i \in Slots,
                        p * PageSize + i < Len(file)
                 PROVE  file[p * PageSize + i + 1] \in Unit
    BY LoaderAssumption DEF Flash, Page
  <2>2. p \in Nat /\ i \in Nat /\ PageSize \in Nat
    BY SlotFacts, LoaderAssumption DEF Pages, Slots
  <2>3. p * PageSize \in Nat
    BY <2>2
  <2>4. p * PageSize + i + 1 \in 1 .. Len(file)
    BY <2>1, <2>2, <2>3
  <2> QED BY <2>4
<1>2. Installed(file) = [padded EXCEPT ![0] = Patch(padded[0])]
  BY DEF Installed
<1> HIDE DEF padded
<1>3. padded[0] \in Page
  BY <1>1, SlotFacts DEF Flash
<1>4. /\ Patch(padded[0]) \in Page
      /\ Patch(padded[0])[SumSlot] = Checksum
      /\ Patch(padded[0])[ResetSlot] = LoaderVec
  BY <1>3, PatchType
<1> QED BY <1>1, <1>2, <1>4, SlotFacts DEF Flash, Bootable

(* The invariant holds of the factory state and of updated nodes.           *)
LEMMA InitInv == Init => IInv
<1> SUFFICES ASSUME Init PROVE IInv
  OBVIOUS
<1>1. files \in [SwIds -> Seq(Unit)]
  <2>1. files \in [SwIds -> UNION {Versions[s] : s \in SwIds}]
    BY DEF Init
  <2>2. UNION {Versions[s] : s \in SwIds} \subseteq Seq(Unit)
    BY LoaderAssumption
  <2> QED BY <2>1, <2>2
<1>2. flash \in [HwIds -> Flash] /\ \A n \in HwIds : Bootable(flash[n])
  <2>1. <<>> \in Seq(Unit)
    OBVIOUS
  <2>2. \A v \in UNION {Versions[s] : s \in SwIds} : v \in Seq(Unit)
    BY LoaderAssumption
  <2>3. \A f \in {Factory} \union
                  {Installed(v) : v \in UNION {Versions[s] : s \in SwIds}} :
          f \in Flash /\ Bootable(f)
    BY <2>1, <2>2, InstalledType DEF Factory
  <2> QED BY <2>3 DEF Init
<1>3. \A n \in HwIds : HelloOf(n) \in Request /\ HelloOf(n).kind = "hello"
  BY DEF HelloOf, Request, HelloRequest
<1>4. TypeOK
  <2>1. [i \in Slots |-> Zero] \in Page /\ 0 \in 0 .. MaxTries /\ 0 \in 0 .. PageSize
    BY LoaderAssumption, SlotFacts DEF Page
  <2>2. /\ pc \in [HwIds -> LocState]
        /\ req \in [HwIds -> Request]
        /\ try \in [HwIds -> 0 .. MaxTries]
        /\ reply \in [HwIds -> BootReply]
        /\ swid \in [HwIds -> AnySwId]
    BY <1>3, <2>1, NoReplyType DEF Init, InitLoader, LocState, AnySwId
  <2>3. /\ pos \in [HwIds -> Nat]
        /\ pageFill \in [HwIds -> 0 .. PageSize]
        /\ pageBuf \in [HwIds -> Page]
        /\ todo \in [HwIds -> Seq(Unit)]
        /\ flush \in [HwIds -> BOOLEAN]
        /\ pageNum \in [HwIds -> Nat]
        /\ verified \in [HwIds -> BOOLEAN]
    BY <2>1 DEF Init, InitLoader
  <2>4. /\ losses \in 0 .. MaxLoss /\ lates \in 0 .. MaxLate
        /\ resets \in 0 .. MaxResets /\ overheard \in 0 .. MaxOverheard
        /\ publishes \in 0 .. MaxPublish
    BY LoaderAssumption DEF Init
  <2>5. serving = Idle
    BY DEF Init
  <2> QED BY <1>1, <1>2, <2>2, <2>3, <2>4, <2>5 DEF TypeOK
<1>5. TriesLeft /\ Dispatching /\ Flushing /\ PatchPending
  BY LoaderAssumption DEF Init, InitLoader, TriesLeft, Dispatching, Flushing,
     PatchPending
<1>6. BufferInStep
  BY <1>3, SlotFacts DEF Init, InitLoader, BufferInStep
<1>7. BootVectorKept
  BY <1>2 DEF BootVectorKept
<1> QED BY <1>4, <1>5, <1>6, <1>7 DEF IInv

-----------------------------------------------------------------------------
(* Every step keeps the invariant. *)

(* Sending a request keeps the invariant.                                   *)
LEMMA SendInv ==
  ASSUME IInv, NEW n \in HwIds, Send(n)
  PROVE  IInv'
<1> USE DEF IInv
<1>1. TypeOK'
  BY SendType
<1>2. /\ pc[n] = "send" /\ pc' = [pc EXCEPT ![n] = "listen"]
      /\ UNCHANGED <<req, try, pos, pageFill, pageBuf, todo, flush, pageNum, flash>>
      /\ pc \in [HwIds -> LocState]
  BY DEF Send, TypeOK
<1>3. (TriesLeft /\ Dispatching /\ Flushing /\ PatchPending)'
  BY <1>2 DEF TriesLeft, Dispatching, Flushing, PatchPending
<1>4. BufferInStep'
  BY <1>2 DEF BufferInStep
<1>5. BootVectorKept'
  BY <1>2 DEF BootVectorKept
<1> QED BY <1>1, <1>3, <1>4, <1>5

(* A try that is given up keeps the invariant.                              *)
LEMMA TimeoutInv ==
  ASSUME IInv, NEW n \in HwIds, Timeout(n)
  PROVE  IInv'
<1> USE DEF IInv
<1>1. TypeOK'
  BY TimeoutType
<1>2. /\ pc[n] = "listen"
      /\ try' = [try EXCEPT ![n] = @ + 1]
      /\ UNCHANGED <<req, pos, pageFill, pageBuf, todo, flush, pageNum, flash>>
      /\ pc \in [HwIds -> LocState] /\ try \in [HwIds -> 0 .. MaxTries]
      /\ \/ TryAgain(n) /\ pc' = [pc EXCEPT ![n] = "send"]
         \/ ~TryAgain(n) /\ pc' = [pc EXCEPT ![n] = "replied"]
  BY DEF Timeout, TypeOK
<1>3. TriesLeft'
  BY <1>2 DEF TriesLeft, TryAgain
<1>4. (Dispatching /\ Flushing /\ PatchPending)'
  BY <1>2 DEF Dispatching, Flushing, PatchPending
<1>5. BufferInStep'
  BY <1>2 DEF BufferInStep
<1>6. BootVectorKept'
  BY <1>2 DEF BootVectorKept
<1> QED BY <1>1, <1>3, <1>4, <1>5, <1>6

(* A broadcast reply keeps the invariant, whoever hears it.                 *)
LEMMA ServeInv ==
  ASSUME IInv, Serve
  PROVE  IInv'
<1> USE DEF IInv
<1>1. TypeOK'
  BY ServeType
<1>2. PICK heard \in SUBSET {n \in HwIds : pc[n] = "listen"} :
        pc' = [n \in HwIds |-> IF n \in heard THEN "replied" ELSE pc[n]]
  BY DEF Serve
<1>3. UNCHANGED <<req, try, pos, pageFill, pageBuf, todo, flush, pageNum, flash>>
  BY DEF Serve
<1>4. \A n \in HwIds : pc'[n] = pc[n] \/ (pc[n] = "listen" /\ pc'[n] = "replied")
  BY <1>2
<1>5. (TriesLeft /\ Dispatching /\ Flushing /\ PatchPending)'
  BY <1>3, <1>4 DEF TriesLeft, Dispatching, Flushing, PatchPending
<1>6. BufferInStep'
  BY <1>3, <1>4 DEF BufferInStep
<1>7. BootVectorKept'
  BY <1>3, <1>4 DEF BootVectorKept
<1> QED BY <1>1, <1>5, <1>6, <1>7

(* Replacing a file at any time keeps the invariant.                        *)
LEMMA PublishInv ==
  ASSUME IInv, NEW s \in SwIds, NEW file \in Versions[s], Publish(s, file)
  PROVE  IInv'
<1> USE DEF IInv
<1>1. TypeOK'
  BY PublishType
<1>2. UNCHANGED <<pc, req, try, pos, pageFill, pageBuf, todo, flush, pageNum, flash>>
  BY DEF Publish, loaderVars
<1>3. (TriesLeft /\ Dispatching /\ Flushing /\ PatchPending)'
  BY <1>2 DEF TriesLeft, Dispatching, Flushing, PatchPending
<1>4. (BufferInStep /\ BootVectorKept)'
  BY <1>2 DEF BufferInStep, BootVectorKept
<1> QED BY <1>1, <1>3, <1>4

(* The jump after a failed identify keeps the invariant.                    *)
LEMMA IdentifyFailedInv ==
  ASSUME IInv, NEW n \in HwIds, IdentifyFailed(n)
  PROVE  IInv'
<1> USE DEF IInv
<1>1. TypeOK'
  BY IdentifyFailedType
<1>2. /\ pc[n] = "replied" /\ pc' = [pc EXCEPT ![n] = "jump"]
      /\ UNCHANGED <<req, try, pos, pageFill, pageBuf, todo, flush, pageNum, flash>>
      /\ pc \in [HwIds -> LocState]
  BY DEF IdentifyFailed, TypeOK
<1>3. (TriesLeft /\ Dispatching /\ Flushing /\ PatchPending)'
  BY <1>2 DEF TriesLeft, Dispatching, Flushing, PatchPending
<1>4. BufferInStep'
  BY <1>2 DEF BufferInStep
<1>5. BootVectorKept'
  BY <1>2 DEF BootVectorKept
<1> QED BY <1>1, <1>3, <1>4, <1>5

(* fetchAll starts with an empty page buffer, pos is 0.                     *)
LEMMA IdentifiedInv ==
  ASSUME IInv, NEW n \in HwIds, Identified(n)
  PROVE  IInv'
<1> USE DEF IInv
<1>1. TypeOK'
  BY IdentifiedType
<1>2. /\ pc[n] = "replied" /\ req[n].kind = "hello"
      /\ pageBuf' = [pageBuf EXCEPT ![n] = Unpatch(flash[n][0])]
      /\ UNCHANGED <<pageFill, todo, flush, pageNum, flash>>
  BY DEF Identified
<1>3. /\ pc \in [HwIds -> LocState] /\ try \in [HwIds -> 0 .. MaxTries]
      /\ req \in [HwIds -> Request] /\ pos \in [HwIds -> Nat]
      /\ pageBuf \in [HwIds -> Page]
  BY DEF TypeOK
<1>4. PICK target \in {"jump", "send"}, kind \in {"hello", "fetch"} :
        /\ pc' = [pc EXCEPT ![n] = target]
        /\ target = "send" => try' = [try EXCEPT ![n] = 0]
        /\ target = "jump" => try' = try
        /\ kind = "fetch" => pos' = [pos EXCEPT ![n] = 0]
        /\ kind = "hello" => pos' = pos
        /\ req'[n].kind = kind
        /\ \A m \in HwIds \ {n} : req'[m] = req[m]
  <2>1. CASE CrcAgrees(n, HelloView(reply[n]).crc)
    BY <2>1, <1>2, <1>3 DEF Identified
  <2>2. CASE ~CrcAgrees(n, HelloView(reply[n]).crc)
    BY <2>2, <1>3 DEF Identified, Ask
  <2> QED BY <2>1, <2>2
<1>5. TriesLeft'
  <2>1. 0 < MaxTries
    BY LoaderAssumption
  <2> QED BY <2>1, <1>3, <1>4 DEF TriesLeft
<1>6. (Dispatching /\ Flushing /\ PatchPending)'
  BY <1>2, <1>3, <1>4 DEF Dispatching, Flushing, PatchPending
<1>7. BufferInStep'
  <2>1. SUFFICES ASSUME NEW m \in HwIds
        PROVE  /\ req'[m].kind = "hello" => pageFill'[m] = 0
               /\ req'[m].kind = "fetch" /\ pc'[m] # "save" =>
                    \E pages \in 0 .. pos'[m] : pos'[m] = pages * PageSize + pageFill'[m]
               /\ pc'[m] # "save" => pageFill'[m] < PageSize
               /\ pc'[m] = "save" => /\ pageFill'[m] = PageSize
                                     /\ pos'[m] = (pageNum'[m] + 1) * PageSize
    BY DEF BufferInStep
  <2>2. CASE m # n
    BY <2>2, <1>2, <1>3, <1>4 DEF BufferInStep
  <2>3. CASE m = n
    <3>1. pageFill[n] = 0 /\ PageSize \in Nat /\ PageSize > 0
      BY <1>2, SlotFacts DEF BufferInStep
    <3>2. pc'[n] # "save" /\ pageFill'[n] = 0
      BY <1>2, <1>3, <1>4, <3>1
    <3>3. req'[n].kind = "fetch" => 
            \E pages \in 0 .. pos'[n] : pos'[n] = pages * PageSize + pageFill'[n]
      <4>1. SUFFICES ASSUME req'[n].kind = "fetch"
                     PROVE  pos'[n] = 0
        BY <3>1, <3>2
      <4> QED BY <4>1, <1>3, <1>4
    <3> QED BY <2>3, <3>1, <3>2, <3>3
  <2> QED BY <2>2, <2>3
<1>8. BootVectorKept'
  BY <1>2, <1>3, <1>4 DEF BootVectorKept
<1> QED BY <1>1, <1>5, <1>6, <1>7, <1>8

(* A chunk of any length keeps buffer and position in step.                 *)
LEMMA FetchedInv ==
  ASSUME IInv, NEW n \in HwIds, Fetched(n)
  PROVE  IInv'
<1> USE DEF IInv
<1>1. TypeOK'
  BY FetchedType
<1>2. /\ pc[n] = "replied" /\ req[n].kind = "fetch"
      /\ pc' = [pc EXCEPT ![n] = "copy"] /\ flush' = [flush EXCEPT ![n] = FALSE]
      /\ \A m \in HwIds \ {n} : todo'[m] = todo[m]
      /\ UNCHANGED <<req, try, pos, pageFill, pageBuf, pageNum, flash>>
      /\ pc \in [HwIds -> LocState] /\ flush \in [HwIds -> BOOLEAN]
  BY DEF Fetched, TypeOK
<1>3. (TriesLeft /\ Dispatching /\ PatchPending)'
  BY <1>2 DEF TriesLeft, Dispatching, PatchPending
<1>4. Flushing'
  BY <1>2 DEF Flushing
<1>5. BufferInStep'
  BY <1>2 DEF BufferInStep
<1>6. BootVectorKept'
  BY <1>2 DEF BootVectorKept
<1> QED BY <1>1, <1>3, <1>4, <1>5, <1>6

(* The final call has to add just what completes the page.                  *)
LEMMA FetchEndInv ==
  ASSUME IInv, NEW n \in HwIds, FetchEnd(n)
  PROVE  IInv'
<1> USE DEF IInv
<1>1. TypeOK'
  BY FetchEndType
<1>2. /\ pc[n] = "replied" /\ req[n].kind = "fetch"
      /\ pc' = [pc EXCEPT ![n] = "copy"] /\ flush' = [flush EXCEPT ![n] = TRUE]
      /\ todo' = [todo EXCEPT ![n] = Padding(n)]
      /\ UNCHANGED <<req, try, pos, pageFill, pageBuf, pageNum, flash>>
      /\ pc \in [HwIds -> LocState] /\ flush \in [HwIds -> BOOLEAN]
      /\ todo \in [HwIds -> Seq(Unit)] /\ pageFill[n] \in Nat
  BY SlotFacts DEF FetchEnd, TypeOK
<1>3. (TriesLeft /\ Dispatching /\ PatchPending)'
  BY <1>2 DEF TriesLeft, Dispatching, PatchPending
<1>4. Flushing'
  <2>1. \/ pageFill[n] = 0 /\ Padding(n) = <<>>
        \/ pageFill[n] + Len(Padding(n)) = PageSize
    BY <1>2, PaddingType
  <2> QED BY <1>2, <2>1 DEF Flushing
<1>5. BufferInStep'
  BY <1>2 DEF BufferInStep
<1>6. BootVectorKept'
  BY <1>2 DEF BootVectorKept
<1> QED BY <1>1, <1>3, <1>4, <1>5, <1>6

(* Copying moves buffer and position on by the same count.                  *)
LEMMA CopyInv ==
  ASSUME IInv, NEW n \in HwIds, Copy(n)
  PROVE  IInv'
<1> USE DEF IInv
<1> DEFINE count == CopyCount(n)
           page  == pos[n] \div PageSize
<1>1. TypeOK'
  BY CopyType
<1>2. /\ pc[n] = "copy" /\ todo[n] # <<>>
      /\ pageFill' = [pageFill EXCEPT ![n] = @ + count]
      /\ pos' = [pos EXCEPT ![n] = @ + count]
      /\ todo' = [todo EXCEPT ![n] = SubSeq(@, count + 1, Len(@))]
      /\ UNCHANGED <<req, try, flush>>
  BY DEF Copy
<1>3. /\ count \in Nat /\ count <= Len(todo[n])
      /\ pageFill[n] + count <= PageSize
      /\ pageFill[n] + Len(todo[n]) <= PageSize => count = Len(todo[n])
  BY CopyCountFacts
<1>4. /\ pc \in [HwIds -> LocState] /\ todo \in [HwIds -> Seq(Unit)]
      /\ pageFill \in [HwIds -> 0 .. PageSize] /\ pos \in [HwIds -> Nat]
      /\ pageBuf \in [HwIds -> Page] /\ pageNum \in [HwIds -> Nat]
  BY DEF TypeOK
<1>5. /\ req[n].kind = "fetch"
      /\ pageFill[n] \in 0 .. PageSize - 1
      /\ PageSize \in Nat \ {0}
  <2>1. req[n].kind = "fetch"
    BY <1>2 DEF Dispatching
  <2>2. pageFill[n] < PageSize
    BY <1>2 DEF BufferInStep
  <2>3. PageSize \in Nat \ {0}
    BY SlotFacts
  <2>4. pageFill[n] \in 0 .. PageSize
    BY <1>4
  <2> QED BY <2>1, <2>2, <2>3, <2>4
<1>6. PICK k \in 0 .. pos[n] : pos[n] = k * PageSize + pageFill[n]
  BY <1>2, <1>5 DEF BufferInStep
<1>7. page = k
  <2>1. k \in Nat
    BY <1>4, <1>6
  <2> QED BY <2>1, <1>5, <1>6, PageOfPos
<1> HIDE DEF count, page
<1>8. CASE pageFill[n] + count < PageSize
  <2>1. UNCHANGED <<pc, pageNum, flash>> /\ pageBuf' = [pageBuf EXCEPT ![n] = Filled(n)]
    <3>1. ~(pageFill[n] + count >= PageSize)
      BY <1>8, <1>3, <1>5
    <3> QED BY <3>1 DEF Copy, count
  <2>2. (TriesLeft /\ Dispatching /\ PatchPending)'
    BY <2>1, <1>2, <1>4 DEF TriesLeft, Dispatching, PatchPending
  <2>3. Flushing'
    <3>1. ~flush[n]
      <4>1. SUFFICES ASSUME flush[n] PROVE FALSE
        OBVIOUS
      <4>2. pageFill[n] + Len(todo[n]) = PageSize
        BY <4>1, <1>2 DEF Flushing
      <4>3. count = Len(todo[n])
        BY <4>2, <1>3, <1>5
      <4> QED BY <4>2, <4>3, <1>8, <1>5
    <3> QED BY <3>1, <2>1, <1>2, <1>4 DEF Flushing
  <2>4. BufferInStep'
    <3>1. pos'[n] = k * PageSize + pageFill'[n] /\ k \in 0 .. pos'[n]
      <4>1. k \in Nat /\ k * PageSize \in Nat /\ pos[n] \in Nat
        BY <1>4, <1>5, <1>6
      <4>2. pos'[n] = pos[n] + count /\ pageFill'[n] = pageFill[n] + count
        BY <1>2, <1>4
      <4>3. PICK base \in Nat : base = k * PageSize
        BY <4>1
      <4>4. pos[n] = base + pageFill[n]
        BY <4>3, <1>6
      <4>5. pos'[n] = base + pageFill'[n]
        BY <4>2, <4>4, <1>3, <1>5
      <4>6. k <= pos'[n]
        BY <4>1, <4>2, <1>3, <1>6
      <4> QED BY <4>1, <4>2, <4>3, <4>5, <4>6, <1>3
    <3>2. pageFill'[n] < PageSize
      BY <1>2, <1>4, <1>8
    <3> QED BY <3>1, <3>2, <2>1, <1>2, <1>4, <1>5 DEF BufferInStep
  <2>5. BootVectorKept'
    BY <2>1, <1>2 DEF BootVectorKept
  <2> QED BY <1>1, <2>2, <2>3, <2>4, <2>5
<1>9. CASE ~(pageFill[n] + count < PageSize)
  <2>1. /\ pageNum' = [pageNum EXCEPT ![n] = page]
        /\ pageBuf' = [pageBuf EXCEPT ![n] = Finished(n, page)]
        /\ Program(n, page, ErasedPage)
        /\ pc' = [pc EXCEPT ![n] = "save"]
    BY <1>9 DEF Copy, count, page
  <2>2. pageFill[n] + count = PageSize
    BY <1>9, <1>3, <1>5
  <2>3. (TriesLeft /\ Dispatching)'
    BY <2>1, <1>2, <1>4, <1>5 DEF TriesLeft, Dispatching
  <2>4. PatchPending'
    <3>1. page = 0 => /\ Finished(n, page)[SumSlot] = Checksum
                      /\ Finished(n, page)[ResetSlot] = LoaderVec
      BY FinishedType
    <3> QED BY <3>1, <2>1, <1>4 DEF PatchPending
  <2>5. Flushing'
    <3>1. flush[n] => todo'[n] = <<>>
      <4>1. SUFFICES ASSUME flush[n] PROVE todo'[n] = <<>>
        OBVIOUS
      <4>2. pageFill[n] + Len(todo[n]) = PageSize
        BY <4>1, <1>2 DEF Flushing
      <4>3. count = Len(todo[n]) /\ Len(todo[n]) \in Nat
        BY <4>2, <1>3, <1>4, <1>5
      <4>4. SubSeq(todo[n], count + 1, Len(todo[n])) = <<>>
        BY <4>3, SubSeqEmpty
      <4> QED BY <4>4, <1>2, <1>4
    <3> QED BY <3>1, <2>1, <1>2, <1>4 DEF Flushing
  <2>6. BufferInStep'
    <3>1. pageFill'[n] = PageSize
      BY <2>2, <1>2, <1>4
    <3>2. pos'[n] = (page + 1) * PageSize
      <4>1. k \in Nat /\ pos[n] \in Nat /\ k * PageSize \in Nat
        BY <1>4, <1>5, <1>6
      <4>2. (k + 1) * PageSize = k * PageSize + PageSize
        BY <4>1, <1>5
      <4>3. pos'[n] = k * PageSize + PageSize
        <5>1. pos'[n] = pos[n] + count
          BY <1>2, <1>4
        <5>2. pos[n] + count = k * PageSize + PageSize
          <6>1. PICK base \in Nat : base = k * PageSize
            BY <4>1
          <6>2. pos[n] = base + pageFill[n]
            BY <6>1, <1>6
          <6>3. pos[n] + count = base + PageSize
            BY <6>2, <1>3, <1>5, <2>2
          <6> QED BY <6>1, <6>3
        <5> QED BY <5>1, <5>2
      <4> QED BY <4>2, <4>3, <1>7
    <3>3. pc'[n] = "save" /\ pageNum'[n] = page /\ req'[n].kind = "fetch"
      BY <2>1, <1>2, <1>4, <1>5
    <3>4. \A m \in HwIds \ {n} :
            /\ pc'[m] = pc[m] /\ pos'[m] = pos[m] /\ req'[m] = req[m]
            /\ pageFill'[m] = pageFill[m] /\ pageNum'[m] = pageNum[m]
      BY <2>1, <1>2, <1>4
    <3> QED BY <3>1, <3>2, <3>3, <3>4 DEF BufferInStep
  <2>7. BootVectorKept'
    <3>1. /\ \A m \in HwIds \ {n} : flash'[m] = flash[m]
          /\ page # 0 => flash'[n][0] = flash[n][0]
      BY <2>1, ProgramEffect
    <3>2. pc'[n] = "save" /\ pageNum'[n] = page
      BY <2>1, <1>4
    <3>3. \A m \in HwIds \ {n} : pc'[m] = pc[m] /\ pageNum'[m] = pageNum[m]
      BY <2>1, <1>4
    <3> QED BY <3>1, <3>2, <3>3, <1>2 DEF BootVectorKept, Bootable
  <2> QED BY <1>1, <2>3, <2>4, <2>5, <2>6, <2>7
<1> QED BY <1>8, <1>9

(* After a save the buffer is empty and pos starts a page.                  *)
LEMMA SaveInv ==
  ASSUME IInv, NEW n \in HwIds, Save(n)
  PROVE  IInv'
<1> USE DEF IInv
<1>1. TypeOK'
  BY SaveType
<1>2. /\ pc[n] = "save"
      /\ Program(n, pageNum[n], pageBuf[n])
      /\ pageFill' = [pageFill EXCEPT ![n] = 0]
      /\ pc' = [pc EXCEPT ![n] = "copy"]
      /\ UNCHANGED <<req, try, pos, pageBuf, todo, flush, pageNum>>
  BY DEF Save
<1>3. /\ pc \in [HwIds -> LocState] /\ pageFill \in [HwIds -> 0 .. PageSize]
      /\ pos \in [HwIds -> Nat] /\ pageNum \in [HwIds -> Nat]
      /\ todo \in [HwIds -> Seq(Unit)] /\ pageBuf \in [HwIds -> Page]
  BY DEF TypeOK
<1>4. (TriesLeft /\ Dispatching /\ PatchPending)'
  BY <1>2, <1>3 DEF TriesLeft, Dispatching, PatchPending
<1>5. Flushing'
  BY <1>2, <1>3 DEF Flushing
<1>6. BufferInStep'
  <2>1. pageFill[n] = PageSize /\ pos[n] = (pageNum[n] + 1) * PageSize
    BY <1>2 DEF BufferInStep
  <2>2. PageSize \in Nat /\ PageSize > 0 /\ pageNum[n] \in Nat /\ pos[n] \in Nat
    BY <1>3, SlotFacts
  <2>3. pageNum[n] + 1 \in 0 .. pos[n]
    <3>1. \A x \in Nat, y \in Nat \ {0} : x <= x * y
      OBVIOUS
    <3> QED BY <3>1, <2>1, <2>2
  <2>4. pos[n] = (pageNum[n] + 1) * PageSize + 0
    BY <2>1, <2>2
  <2>5. pageFill'[n] = 0 /\ pc'[n] = "copy" /\ pos'[n] = pos[n] /\ req'[n] = req[n]
    BY <1>2, <1>3
  <2>6. req[n].kind = "fetch"
    BY <1>2 DEF Dispatching
  <2>7. \A m \in HwIds \ {n} :
          /\ pc'[m] = pc[m] /\ pos'[m] = pos[m] /\ req'[m] = req[m]
          /\ pageFill'[m] = pageFill[m] /\ pageNum'[m] = pageNum[m]
    BY <1>2, <1>3
  <2> QED BY <2>2, <2>3, <2>4, <2>5, <2>6, <2>7 DEF BufferInStep
<1>7. BootVectorKept'
  <2>1. /\ \A m \in HwIds \ {n} : flash'[m] = flash[m]
        /\ pageNum[n] # 0 => flash'[n][0] = flash[n][0]
        /\ pageNum[n] = 0 => flash'[n][0] = pageBuf[n]
    BY <1>2, ProgramEffect
  <2>2. \A m \in HwIds \ {n} : pc'[m] = pc[m] /\ pageNum'[m] = pageNum[m]
    BY <1>2, <1>3
  <2>3. Bootable(flash'[n])
    <3>1. CASE pageNum[n] = 0
      BY <3>1, <2>1, <1>2 DEF PatchPending, Bootable
    <3>2. CASE pageNum[n] # 0
      <4>1. Bootable(flash[n])
        BY <3>2, <1>2 DEF BootVectorKept
      <4> QED BY <4>1, <3>2, <2>1 DEF Bootable
    <3> QED BY <3>1, <3>2
  <2> QED BY <2>1, <2>2, <2>3 DEF BootVectorKept
<1> QED BY <1>1, <1>4, <1>5, <1>6, <1>7

(* RfDispatch returns with an empty buffer at the end.                      *)
LEMMA DispatchedInv ==
  ASSUME IInv, NEW n \in HwIds, Dispatched(n)
  PROVE  IInv'
<1> USE DEF IInv
<1>1. TypeOK'
  BY DispatchedType
<1>2. /\ pc[n] = "copy" /\ todo[n] = <<>>
      /\ UNCHANGED <<pos, pageFill, pageBuf, todo, flush, pageNum, flash>>
  BY DEF Dispatched
<1>3. PICK request :
        /\ Ask(n, request)
        /\ flush[n] => request.kind = "hello"
        /\ ~flush[n] => request.kind = "fetch"
  BY DEF Dispatched, HelloOf
<1>4. /\ pc \in [HwIds -> LocState] /\ req \in [HwIds -> Request]
      /\ try \in [HwIds -> 0 .. MaxTries] /\ flush \in [HwIds -> BOOLEAN]
      /\ pageFill \in [HwIds -> 0 .. PageSize]
  BY DEF TypeOK
<1>5. /\ pc' = [pc EXCEPT ![n] = "send"] /\ try' = [try EXCEPT ![n] = 0]
      /\ req' = [req EXCEPT ![n] = request]
  BY <1>3 DEF Ask
<1>6. TriesLeft'
  <2>1. 0 < MaxTries
    BY LoaderAssumption
  <2> QED BY <2>1, <1>4, <1>5 DEF TriesLeft
<1>7. (Dispatching /\ Flushing /\ PatchPending)'
  BY <1>2, <1>4, <1>5 DEF Dispatching, Flushing, PatchPending
<1>8. BufferInStep'
  <2>1. /\ req[n].kind = "fetch" /\ pageFill[n] < PageSize
        /\ \E pages \in 0 .. pos[n] : pos[n] = pages * PageSize + pageFill[n]
    BY <1>2 DEF BufferInStep, Dispatching
  <2>2. flush[n] => pageFill[n] = 0
    <3>1. SUFFICES ASSUME flush[n], pageFill[n] + Len(todo[n]) = PageSize
                   PROVE  FALSE
      BY <1>2 DEF Flushing
    <3>2. Len(todo[n]) = 0 /\ pageFill[n] \in Nat
      BY <1>2, <1>4
    <3> QED BY <3>1, <3>2, <2>1
  <2>3. /\ req'[n].kind = "hello" => pageFill'[n] = 0
        /\ pc'[n] = "send"
    BY <2>2, <1>2, <1>3, <1>4, <1>5
  <2>4. \A m \in HwIds \ {n} : pc'[m] = pc[m] /\ req'[m] = req[m]
    BY <1>4, <1>5
  <2> QED BY <2>1, <2>3, <2>4, <1>2 DEF BufferInStep
<1>9. BootVectorKept'
  BY <1>2, <1>4, <1>5 DEF BootVectorKept
<1> QED BY <1>1, <1>6, <1>7, <1>8, <1>9

(* A power failure in any state keeps the invariant.                        *)
LEMMA ResetInv ==
  ASSUME IInv, NEW n \in HwIds, Reset(n)
  PROVE  IInv'
<1> USE DEF IInv
<1>1. TypeOK'
  BY ResetType
<1>2. /\ pc' = [pc EXCEPT ![n] = IF Bootable(flash[n]) THEN "send" ELSE "isp"]
      /\ req' = [req EXCEPT ![n] = HelloOf(n)]
      /\ try' = [try EXCEPT ![n] = 0]
      /\ pos' = [pos EXCEPT ![n] = 0]
      /\ pageFill' = [pageFill EXCEPT ![n] = 0]
      /\ flush' = [flush EXCEPT ![n] = FALSE]
      /\ flash' = flash
  BY DEF Reset
<1>3. \A m \in HwIds \ {n} : pageBuf'[m] = pageBuf[m] /\ todo'[m] = todo[m]
                             /\ pageNum'[m] = pageNum[m]
  BY DEF Reset
<1>4. /\ pc \in [HwIds -> LocState] /\ req \in [HwIds -> Request]
      /\ try \in [HwIds -> 0 .. MaxTries] /\ pos \in [HwIds -> Nat]
      /\ flush \in [HwIds -> BOOLEAN] /\ pageFill \in [HwIds -> 0 .. PageSize]
  BY DEF TypeOK
<1>5. TriesLeft'
  <2>1. 0 < MaxTries
    BY LoaderAssumption
  <2> QED BY <2>1, <1>2, <1>4 DEF TriesLeft
<1>6. (Dispatching /\ Flushing /\ PatchPending)'
  BY <1>2, <1>3, <1>4 DEF Dispatching, Flushing, PatchPending
<1>7. BufferInStep'
  <2>1. /\ pc'[n] # "save" /\ req'[n].kind = "hello" /\ pageFill'[n] = 0
        /\ 0 < PageSize
    BY <1>2, <1>4, SlotFacts DEF HelloOf
  <2>2. \A m \in HwIds \ {n} :
          /\ pc'[m] = pc[m] /\ pos'[m] = pos[m] /\ req'[m] = req[m]
          /\ pageFill'[m] = pageFill[m] /\ pageNum'[m] = pageNum[m]
    BY <1>2, <1>3, <1>4
  <2> QED BY <2>1, <2>2 DEF BufferInStep
<1>8. BootVectorKept'
  BY <1>2, <1>3, <1>4 DEF BootVectorKept
<1> QED BY <1>1, <1>5, <1>6, <1>7, <1>8

(* A step that changes nothing keeps the invariant.                         *)
LEMMA StutterInv ==
  ASSUME IInv, UNCHANGED vars
  PROVE  IInv'
<1>1. UNCHANGED <<files, serving, pc, req, try, reply, swid, pos, pageFill, pageBuf,
                  todo, flush, pageNum, flash, verified, losses, overheard, lates,
                  resets, publishes>>
  BY DEF vars, loaderVars, budgetVars
<1>2. TypeOK'
  BY <1>1 DEF IInv, TypeOK
<1>3. (TriesLeft /\ Dispatching /\ Flushing /\ PatchPending)'
  BY <1>1 DEF IInv, TriesLeft, Dispatching, Flushing, PatchPending
<1>4. (BufferInStep /\ BootVectorKept)'
  BY <1>1 DEF IInv, BufferInStep, BootVectorKept
<1> QED BY <1>2, <1>3, <1>4 DEF IInv

(* Every step keeps the invariant.                                          *)
LEMMA NextInv == IInv /\ [Next]_vars => IInv'
<1> SUFFICES ASSUME IInv, [Next]_vars PROVE IInv'
  OBVIOUS
<1>1. CASE Serve
  BY <1>1, ServeInv
<1>2. ASSUME NEW n \in HwIds, Send(n) PROVE IInv'
  BY <1>2, SendInv
<1>3. ASSUME NEW n \in HwIds, Timeout(n) PROVE IInv'
  BY <1>3, TimeoutInv
<1>4. ASSUME NEW n \in HwIds, Loader(n) PROVE IInv'
  BY <1>4, IdentifyFailedInv, IdentifiedInv, FetchedInv, FetchEndInv, CopyInv,
     SaveInv, DispatchedInv DEF Loader
<1>5. ASSUME NEW n \in HwIds, Reset(n) PROVE IInv'
  BY <1>5, ResetInv
<1>6. ASSUME NEW s \in SwIds, NEW file \in Versions[s], Publish(s, file) PROVE IInv'
  BY <1>6, PublishInv
<1>7. CASE UNCHANGED vars
  BY <1>7, StutterInv
<1> QED BY <1>1, <1>2, <1>3, <1>4, <1>5, <1>6, <1>7 DEF Next

(* The invariant holds for all constants.                                   *)
THEOREM Invariance == Spec => []IInv
  BY InitInv, NextInv, PTL DEF Spec

(* TypeOK: RfDispatch never lets more than a page into its buffer, and no   *)
(* request gets more than MaxTries tries.                                   *)
THEOREM TypeCorrect == Spec => []TypeOK
<1>1. IInv => TypeOK
  BY DEF IInv
<1> QED BY <1>1, Invariance, PTL

(* BufferInStep: pageFill of RfDispatch and pos of fetchAll stay in step,   *)
(* however chunks and pages divide, and whatever is lost, late, overheard,  *)
(* replaced or powered off.                                                 *)
THEOREM BufferAlwaysInStep == Spec => []BufferInStep
<1>1. IInv => BufferInStep
  BY DEF IInv
<1> QED BY <1>1, Invariance, PTL

(* BootVectorKept: page 0 starts the loader, except between its own erase   *)
(* and save: the power failure there is the only one that the loader does   *)
(* not come back from.                                                      *)
THEOREM BootVectorAlwaysKept == Spec => []BootVectorKept
<1>1. IInv => BootVectorKept
  BY DEF IInv
<1> QED BY <1>1, Invariance, PTL
-----------------------------------------------------------------------------
(* Nodes with the same software cannot mislead each other. *)

(* All nodes in reach of each other get the same software.                  *)
SameSoftware == \A a, b \in HwIds : Assign[a] = Assign[b]

(* The server only has published files.                                     *)
FilesPublished == \A s \in SwIds : files[s] \in Versions[s]

(* What a hello reply announces was published for the node that heard it.   *)
HelloTrue ==
  \A n \in HwIds :
    reply[n].kind = "hello" => reply[n].crc \in Versions[Assign[n]]

(* VerifiedJump is inductive together with these and the types.             *)
VInv == FilesPublished /\ HelloTrue /\ VerifiedJump

(* A node that starts a verified application has a published one, and so    *)
(* has one that was started before and whose flash was not touched.         *)
LEMMA JumpKept ==
  ASSUME VerifiedJump,
         \A m \in HwIds : pc'[m] = "jump" /\ verified'[m] =>
           \/ pc[m] = "jump" /\ verified[m] /\ flash'[m] = flash[m]
           \/ \E file \in Versions[Assign[m]] : Runs(flash'[m], file)
  PROVE  VerifiedJump'
<1>1. SUFFICES ASSUME NEW m \in HwIds, pc'[m] = "jump", verified'[m]
               PROVE  \E file \in Versions[Assign[m]] : Runs(flash'[m], file)
  BY DEF VerifiedJump, Runs, MyCrc
<1>2. CASE pc[m] = "jump" /\ verified[m] /\ flash'[m] = flash[m]
  BY <1>2 DEF VerifiedJump
<1> QED BY <1>1, <1>2

(* What a fetch reply looks like as a hello reply never agrees with a CRC:  *)
(* main computes its own over a page at least.                              *)
LEMMA AgreementTrue ==
  ASSUME TypeOK, HelloTrue, NEW n \in HwIds,
         CrcAgrees(n, HelloView(reply[n]).crc)
  PROVE  \E file \in Versions[Assign[n]] : Runs(flash[n], file)
<1> DEFINE crc == HelloView(reply[n]).crc
<1>1. CASE reply[n].kind = "hello"
  <2>1. crc = reply[n].crc
    BY <1>1 DEF HelloView
  <2>2. crc \in Versions[Assign[n]]
    BY <1>1, <2>1 DEF HelloTrue
  <2> QED BY <2>2 DEF CrcAgrees, Runs
<1>2. CASE reply[n].kind # "hello"
  <2>1. crc = <<Junk>>
    BY <1>2 DEF HelloView
  <2>2. MyCrc(flash[n], 1) = <<Junk>>
    BY <2>1 DEF CrcAgrees
  <2>3. DOMAIN MyCrc(flash[n], 1) = 1 .. (IF 1 < PageSize THEN PageSize ELSE 1)
    BY DEF MyCrc
  <2>4. 2 \in DOMAIN MyCrc(flash[n], 1)
    BY <2>3, SlotFacts
  <2>5. 2 \notin DOMAIN <<Junk>>
    OBVIOUS
  <2> QED BY <2>2, <2>4, <2>5
<1> QED BY <1>1, <1>2

(* Initially no node runs, and the files are published ones.                *)
LEMMA InitVerified == Init => VInv
<1> SUFFICES ASSUME Init PROVE VInv
  OBVIOUS
<1>1. FilesPublished
  BY DEF Init, FilesPublished
<1>2. HelloTrue
  BY DEF Init, InitLoader, HelloTrue, NoReply
<1>3. VerifiedJump
  BY DEF Init, InitLoader, VerifiedJump
<1> QED BY <1>1, <1>2, <1>3 DEF VInv

(* A reply to one node is right for every node.                             *)
LEMMA ServeVerified ==
  ASSUME SameSoftware, TypeOK, VInv, Serve
  PROVE  VInv'
<1> DEFINE answer == Answer(files, serving.what)
<1>1. UNCHANGED <<files, flash, verified>>
  BY DEF Serve
<1>2. PICK heard \in SUBSET HwIds :
        /\ reply' = [n \in HwIds |-> IF n \in heard THEN answer ELSE reply[n]]
        /\ pc' = [n \in HwIds |-> IF n \in heard THEN "replied" ELSE pc[n]]
  BY DEF Serve
<1>3. ASSUME answer.kind = "hello", NEW n \in HwIds
      PROVE  answer.crc \in Versions[Assign[n]]
  <2>1. serving.what \in Request
    BY DEF TypeOK, Serve
  <2>2. serving.what.kind = "hello"
    BY <1>3 DEF Answer, Fetch
  <2>3. serving.what.hwId \in HwIds
    BY <2>1, <2>2 DEF Request, HelloRequest, FetchRequest
  <2>4. Assign[serving.what.hwId] \in SwIds
    BY <2>3, ServerAssumption
  <2>5. answer.crc = files[Assign[serving.what.hwId]]
    BY <2>2, <2>4 DEF Answer, Hello, LoadFile
  <2>6. Assign[serving.what.hwId] = Assign[n]
    BY <2>3 DEF SameSoftware
  <2> QED BY <2>4, <2>5, <2>6 DEF VInv, FilesPublished
<1>4. FilesPublished'
  BY <1>1 DEF VInv, FilesPublished
<1>5. HelloTrue'
  <2> HIDE DEF answer
  <2> QED BY <1>2, <1>3 DEF VInv, HelloTrue
<1>6. VerifiedJump'
  <2>1. \A m \in HwIds : pc'[m] = "jump" => pc[m] = "jump"
    BY <1>2
  <2> QED BY <1>1, <2>1, JumpKept DEF VInv
<1> QED BY <1>4, <1>5, <1>6 DEF VInv

(* identify() replaces no reply, and main starts what agrees.               *)
LEMMA IdentifiedVerified ==
  ASSUME TypeOK, VInv, NEW n \in HwIds, Identified(n)
  PROVE  VInv'
<1>1. UNCHANGED <<files, reply, flash>>
  BY DEF Identified
<1>2. FilesPublished' /\ HelloTrue'
  BY <1>1 DEF VInv, FilesPublished, HelloTrue
<1>3. CASE CrcAgrees(n, HelloView(reply[n]).crc)
  <2>1. pc' = [pc EXCEPT ![n] = "jump"] /\ verified' = [verified EXCEPT ![n] = TRUE]
    BY <1>3 DEF Identified
  <2>2. \E file \in Versions[Assign[n]] : Runs(flash[n], file)
    BY <1>3, AgreementTrue DEF VInv
  <2>3. \A m \in HwIds \ {n} : pc'[m] = pc[m] /\ verified'[m] = verified[m]
    BY <2>1 DEF TypeOK
  <2> QED BY <1>1, <1>2, <2>2, <2>3, JumpKept DEF VInv
<1>4. CASE ~CrcAgrees(n, HelloView(reply[n]).crc)
  <2>1. pc' = [pc EXCEPT ![n] = "send"] /\ verified' = verified
    BY <1>4 DEF Identified, Ask
  <2>2. \A m \in HwIds : pc'[m] = "jump" => pc[m] = "jump"
    BY <2>1 DEF TypeOK
  <2> QED BY <1>1, <1>2, <2>1, <2>2, JumpKept DEF VInv
<1> QED BY <1>3, <1>4

(* A node that runs does not write its flash, and the others write theirs.  *)
LEMMA CopyVerified ==
  ASSUME TypeOK, VInv, NEW n \in HwIds, Copy(n)
  PROVE  VInv'
<1>1. UNCHANGED <<files, reply, verified>>
  BY DEF Copy
<1>2. FilesPublished' /\ HelloTrue'
  BY <1>1 DEF VInv, FilesPublished, HelloTrue
<1>3. pc[n] = "copy"
  BY DEF Copy
<1>4. CASE pc' = pc /\ flash' = flash
  BY <1>1, <1>2, <1>4, JumpKept DEF VInv
<1>5. CASE /\ pc' = [pc EXCEPT ![n] = "save"]
           /\ Program(n, pos[n] \div PageSize, ErasedPage)
  <2>1. \A m \in HwIds \ {n} : flash'[m] = flash[m]
    BY <1>5, ProgramEffect
  <2>2. \A m \in HwIds : pc'[m] = "jump" => pc[m] = "jump" /\ m # n
    BY <1>5 DEF TypeOK
  <2> QED BY <1>1, <1>2, <2>1, <2>2, JumpKept DEF VInv
<1>6. \/ pc' = pc /\ flash' = flash
      \/ /\ pc' = [pc EXCEPT ![n] = "save"]
         /\ Program(n, pos[n] \div PageSize, ErasedPage)
  BY DEF Copy
<1> QED BY <1>4, <1>5, <1>6

(* The same of save.                                                        *)
LEMMA SaveVerified ==
  ASSUME TypeOK, VInv, NEW n \in HwIds, Save(n)
  PROVE  VInv'
<1>1. UNCHANGED <<files, reply, verified>>
  BY DEF Save
<1>2. FilesPublished' /\ HelloTrue'
  BY <1>1 DEF VInv, FilesPublished, HelloTrue
<1>3. pc' = [pc EXCEPT ![n] = "copy"] /\ Program(n, pageNum[n], pageBuf[n])
  BY DEF Save
<1>4. \A m \in HwIds \ {n} : flash'[m] = flash[m]
  BY <1>3, ProgramEffect
<1>5. \A m \in HwIds : pc'[m] = "jump" => pc[m] = "jump" /\ m # n
  BY <1>3 DEF TypeOK
<1> QED BY <1>1, <1>2, <1>4, <1>5, JumpKept DEF VInv

(* All other steps leave files, flash and hello replies as they are.        *)
LEMMA OtherVerified ==
  ASSUME TypeOK, VInv, NEW n \in HwIds,
         \/ Send(n) \/ Timeout(n) \/ IdentifyFailed(n) \/ Fetched(n)
         \/ FetchEnd(n) \/ Dispatched(n) \/ Reset(n)
  PROVE  VInv'
<1>1. UNCHANGED <<files, flash>>
  BY DEF Send, Timeout, IdentifyFailed, Fetched, FetchEnd, Dispatched, Reset
<1>2. reply' = reply \/ reply' = [reply EXCEPT ![n] = NoReply]
  BY DEF Send, Timeout, IdentifyFailed, Fetched, FetchEnd, Dispatched, Reset
<1>3. \/ /\ \E here \in LocState \ {"jump"} : pc' = [pc EXCEPT ![n] = here]
         /\ verified' = verified \/ verified' = [verified EXCEPT ![n] = FALSE]
      \/ /\ pc' = [pc EXCEPT ![n] = "jump"]
         /\ verified' = [verified EXCEPT ![n] = FALSE]
  BY DEF Send, Timeout, IdentifyFailed, Fetched, FetchEnd, Dispatched, Ask,
         Reset, LocState
<1>4. \A m \in HwIds : pc'[m] = "jump" /\ verified'[m] =>
         pc[m] = "jump" /\ verified[m]
  BY <1>3 DEF TypeOK
<1>5. FilesPublished'
  BY <1>1 DEF VInv, FilesPublished
<1>6. HelloTrue'
  <2>1. NoReply.kind # "hello"
    BY DEF NoReply
  <2>2. \A m \in HwIds : reply'[m] = reply[m] \/ reply'[m] = NoReply
    BY <1>2 DEF TypeOK
  <2> QED BY <2>1, <2>2 DEF VInv, HelloTrue
<1>7. VerifiedJump'
  BY <1>1, <1>4, JumpKept DEF VInv
<1> QED BY <1>5, <1>6, <1>7 DEF VInv

(* A file that replaces another one is published, too.                      *)
LEMMA PublishVerified ==
  ASSUME TypeOK, VInv, NEW s \in SwIds, NEW file \in Versions[s],
         Publish(s, file)
  PROVE  VInv'
<1>1. UNCHANGED <<pc, reply, flash, verified>>
  BY DEF Publish, loaderVars
<1>2. FilesPublished'
  BY DEF VInv, FilesPublished, TypeOK, Publish
<1>3. HelloTrue'
  BY <1>1 DEF VInv, HelloTrue
<1>4. VerifiedJump'
  BY <1>1, JumpKept DEF VInv
<1> QED BY <1>2, <1>3, <1>4 DEF VInv

(* Every step keeps VInv.                                                   *)
LEMMA NextVerified ==
  ASSUME SameSoftware, TypeOK, VInv, [Next]_vars
  PROVE  VInv'
<1>1. CASE Serve
  BY <1>1, ServeVerified
<1>2. CASE \E n \in HwIds : Send(n) \/ Timeout(n) \/ Loader(n) \/ Reset(n)
  <2>1. PICK n \in HwIds : Send(n) \/ Timeout(n) \/ Loader(n) \/ Reset(n)
    BY <1>2
  <2>2. CASE \/ Send(n) \/ Timeout(n) \/ IdentifyFailed(n) \/ Fetched(n)
             \/ FetchEnd(n) \/ Dispatched(n) \/ Reset(n)
    BY <2>2, OtherVerified
  <2>3. CASE Identified(n)
    BY <2>3, IdentifiedVerified
  <2>4. CASE Copy(n)
    BY <2>4, CopyVerified
  <2>5. CASE Save(n)
    BY <2>5, SaveVerified
  <2> QED BY <2>1, <2>2, <2>3, <2>4, <2>5 DEF Loader
<1>3. CASE \E s \in SwIds : \E file \in Versions[s] : Publish(s, file)
  BY <1>3, PublishVerified
<1>4. CASE UNCHANGED vars
  <2>1. UNCHANGED <<files, reply, pc, flash, verified>>
    BY <1>4 DEF vars, loaderVars
  <2>2. FilesPublished' /\ HelloTrue'
    BY <2>1 DEF VInv, FilesPublished, HelloTrue
  <2> QED BY <2>1, <2>2, JumpKept DEF VInv
<1> QED BY <1>1, <1>2, <1>3, <1>4 DEF Next

(* VerifiedJump, for any number of nodes that get the same software: no     *)
(* loss, late or overheard reply, power failure or replaced file makes main *)
(* start, for an agreeing CRC, anything but a whole published file.         *)
THEOREM VerifiedJumpIsWhole == SameSoftware => (Spec => []VerifiedJump)
<1> SUFFICES ASSUME SameSoftware PROVE Spec => []VerifiedJump
  OBVIOUS
<1>1. TypeOK /\ VInv /\ [Next]_vars => VInv'
  BY NextVerified
<1>2. VInv => VerifiedJump
  BY DEF VInv
<1> QED BY <1>1, <1>2, InitVerified, TypeCorrect, PTL DEF Spec

-----------------------------------------------------------------------------
(* A prompt server: what a loader hears answers the request that it sent.   *)

(* No reply comes late, and none is heard by a loader that did not ask.     *)
Prompt == MaxLate = 0 /\ MaxOverheard = 0

(* One node in reach, and fewer losses than tries: no request fails.        *)
Alone    == \A a, b \in HwIds : a = b
Reliable == Alone /\ MaxLoss < MaxTries

Published == {fs \in [SwIds -> Seq(Unit)] : \A s \in SwIds : fs[s] \in Versions[s]}

(* The loader whose request the server has is still polling for the answer. *)
AskerWaits ==
  serving # Idle => pc[serving.from] = "listen" /\ serving.what = req[serving.from]

(* Each try that came to nothing has cost a loss.                           *)
TriesCounted ==
  Alone => \A n \in HwIds :
    /\ pc[n] = "send" => losses >= try[n]
    /\ pc[n] = "listen" => losses >= try[n] + (IF serving = Idle THEN 1 ELSE 0)

(* What a request returned is the answer to it, from files published then.  *)
Answers(what, request, now) ==
  \/ what = NoReply /\ ~Reliable
  \/ \E fs \in Published : (MaxPublish = 0 => fs = now) /\ what = Answer(fs, request)
AnswerHeld == \A n \in HwIds : pc[n] = "replied" => Answers(reply[n], req[n], files)

PInv == FilesPublished /\ AskerWaits /\ TriesCounted /\ AnswerHeld

(* A request in the server's hands came from a loader.                      *)
LEMMA ServingType ==
  ASSUME TypeOK, serving # Idle
  PROVE  serving.from \in HwIds /\ serving.what \in Request
  BY DEF TypeOK

(* The bounds are numbers.                                                  *)
LEMMA BoundTypes ==
  /\ MaxTries \in Nat \ {0} /\ MaxLoss \in Nat /\ MaxOverheard \in Nat
  /\ MaxLate \in Nat /\ MaxPublish \in Nat
  BY LoaderAssumption

(* What is published now was published at some time.                        *)
LEMMA FilesAre ==
  ASSUME TypeOK, FilesPublished
  PROVE  files \in Published
  BY DEF TypeOK, FilesPublished, Published

(* A request reaches the server or costs a loss.                            *)
LEMMA SendPrompt ==
  ASSUME Prompt, TypeOK, PInv, NEW n \in HwIds, Send(n)
  PROVE  PInv'
<1>1. /\ pc[n] = "send" /\ pc' = [pc EXCEPT ![n] = "listen"]
      /\ UNCHANGED <<files, req, try, reply>>
  BY DEF Send
<1>2. \/ serving = Idle /\ serving' = [from |-> n, what |-> req[n]] /\ losses' = losses
      \/ serving = Idle /\ losses' = losses + 1 /\ serving' = serving
      \/ serving # Idle /\ serving' = serving /\ losses' = losses
  BY DEF Send
<1>3. pc \in [HwIds -> LocState] /\ try \in [HwIds -> 0 .. MaxTries] /\ losses \in Nat
  BY BoundTypes DEF TypeOK
<1>4. FilesPublished'
  BY <1>1 DEF PInv, FilesPublished
<1>5. AskerWaits'
  <2>1. CASE serving' # Idle /\ serving = Idle
    <3>1. serving' = [from |-> n, what |-> req[n]]
      BY <2>1, <1>2
    <3>2. serving'.from = n /\ serving'.what = req[n]
      BY <3>1
    <3> QED BY <3>2, <1>1, <1>3 DEF AskerWaits
  <2>2. CASE serving # Idle
    <3>1. serving' = serving /\ serving.from # n
      BY <2>2, <1>1, <1>2 DEF PInv, AskerWaits
    <3> QED BY <3>1, <2>2, <1>1, <1>3, ServingType DEF PInv, AskerWaits
  <2>3. CASE serving' = Idle
    BY <2>3 DEF AskerWaits
  <2> QED BY <2>1, <2>2, <2>3
<1>6. TriesCounted'
  <2> SUFFICES ASSUME Alone, NEW m \in HwIds, pc'[m] \in {"send", "listen"}
               PROVE  /\ pc'[m] = "listen"
                      /\ losses' >= try'[m] + (IF serving' = Idle THEN 1 ELSE 0)
    BY DEF TriesCounted, Alone
  <2>1. m = n /\ pc'[m] = "listen"
    BY <1>1, <1>3 DEF Alone
  <2>2. losses >= try[n] /\ try[n] \in Nat
    BY <1>1, <1>3, BoundTypes DEF PInv, TriesCounted
  <2>3. serving = Idle
    BY <1>1, <2>1, ServingType DEF PInv, AskerWaits, Alone
  <2>4. CASE serving' = [from |-> n, what |-> req[n]] /\ losses' = losses
    <3>1. serving' # Idle
      BY <2>4, <1>2, <2>3 DEF Idle
    <3> QED BY <3>1, <2>1, <2>2, <2>4, <1>1, <1>3
  <2>5. CASE losses' = losses + 1
    BY <2>5, <2>1, <2>2, <1>1, <1>3
  <2> QED BY <2>3, <2>4, <2>5, <1>2
<1>7. AnswerHeld'
  BY <1>1, <1>3 DEF PInv, AnswerHeld
<1> QED BY <1>4, <1>5, <1>6, <1>7 DEF PInv

(* Only the loader that asked hears the answer.                             *)
LEMMA ServePrompt ==
  ASSUME Prompt, TypeOK, PInv, Serve
  PROVE  PInv'
<1>1. PICK n, answer : n = serving.from /\ answer = Answer(files, serving.what)
  OBVIOUS
<1>2. /\ serving # Idle /\ serving' = Idle
      /\ UNCHANGED <<files, req, try>>
  BY DEF Serve
<1>3. n \in HwIds /\ pc[n] = "listen" /\ serving.what = req[n]
  BY <1>1, <1>2, ServingType DEF PInv, AskerWaits
<1>4. PICK heard \in SUBSET {m \in HwIds : pc[m] = "listen"} :
        /\ IF n \in {m \in HwIds : pc[m] = "listen"} \ heard
           THEN losses' = losses + 1 ELSE losses' = losses
        /\ IF heard \subseteq {n} THEN TRUE ELSE overheard < MaxOverheard
        /\ reply' = [m \in HwIds |-> IF m \in heard THEN answer ELSE reply[m]]
        /\ pc' = [m \in HwIds |-> IF m \in heard THEN "replied" ELSE pc[m]]
  BY <1>1 DEF Serve
<1>5. heard \subseteq {n}
  <2>1. overheard \in 0 .. 0
    BY DEF TypeOK, Prompt
  <2> QED BY <2>1, <1>4 DEF Prompt
<1>6. /\ n \in heard => losses' = losses
      /\ n \notin heard => losses' = losses + 1
  BY <1>3, <1>4
<1>7. FilesPublished' /\ AskerWaits'
  BY <1>2 DEF PInv, FilesPublished, AskerWaits
<1>8. TriesCounted'
  <2> SUFFICES ASSUME Alone, NEW m \in HwIds, pc'[m] \in {"send", "listen"}
               PROVE  /\ pc'[m] = "listen"
                      /\ losses' >= try'[m] + (IF serving' = Idle THEN 1 ELSE 0)
    BY DEF TriesCounted, Alone
  <2>1. m = n /\ pc'[m] = "listen" /\ n \notin heard
    BY <1>3, <1>4 DEF Alone
  <2>2. losses >= try[n] + 0 /\ try[n] \in Nat /\ losses \in Nat
    BY <1>2, <1>3, BoundTypes DEF PInv, TriesCounted, TypeOK
  <2> QED BY <2>1, <2>2, <1>2, <1>6
<1>9. AnswerHeld'
  <2> SUFFICES ASSUME NEW m \in HwIds, pc'[m] = "replied"
               PROVE  Answers(reply'[m], req'[m], files')
    BY DEF AnswerHeld, Answers
  <2>1. CASE m \in heard
    <3>1. m = n /\ reply'[m] = answer
      BY <2>1, <1>4, <1>5
    <3>2. answer = Answer(files, req[m])
      BY <3>1, <1>1, <1>3
    <3> QED BY <3>1, <3>2, <1>2, FilesAre DEF Answers, PInv
  <2>2. CASE m \notin heard
    <3>1. reply'[m] = reply[m] /\ pc[m] = "replied"
      BY <2>2, <1>4
    <3> QED BY <3>1, <1>2 DEF PInv, AnswerHeld
  <2> QED BY <2>1, <2>2
<1> QED BY <1>7, <1>8, <1>9 DEF PInv

(* A try is given up only when it has cost a loss.                          *)
LEMMA TimeoutPrompt ==
  ASSUME Prompt, TypeOK, PInv, NEW n \in HwIds, Timeout(n)
  PROVE  PInv'
<1>1. /\ pc[n] = "listen" /\ serving = Idle
      /\ try' = [try EXCEPT ![n] = @ + 1]
      /\ UNCHANGED <<files, serving, req, losses>>
      /\ IF TryAgain(n)
         THEN pc' = [pc EXCEPT ![n] = "send"] /\ reply' = reply
         ELSE pc' = [pc EXCEPT ![n] = "replied"]
              /\ reply' = [reply EXCEPT ![n] = NoReply]
  <2>1. ~(lates < MaxLate)
    BY DEF Prompt, TypeOK
  <2> QED BY <2>1 DEF Timeout
<1>2. /\ pc \in [HwIds -> LocState] /\ reply \in [HwIds -> BootReply]
      /\ try \in [HwIds -> 0 .. MaxTries] /\ losses \in 0 .. MaxLoss
  BY DEF TypeOK
<1>3. FilesPublished' /\ AskerWaits'
  BY <1>1 DEF PInv, FilesPublished, AskerWaits
<1>4. Alone => losses >= try[n] + 1 /\ try[n] \in Nat
  BY <1>1, <1>2, BoundTypes DEF PInv, TriesCounted
<1>5. Reliable => TryAgain(n)
  BY <1>2, <1>4, BoundTypes DEF Reliable, TryAgain
<1>6. TriesCounted'
  <2> SUFFICES ASSUME Alone, NEW m \in HwIds, pc'[m] \in {"send", "listen"}
               PROVE  pc'[m] = "send" /\ losses' >= try'[m]
    BY DEF TriesCounted, Alone
  <2>1. m = n /\ pc'[n] = "send"
    BY <1>1, <1>2 DEF Alone
  <2>2. try'[n] = try[n] + 1
    BY <1>1, <1>2
  <2> QED BY <2>1, <2>2, <1>1, <1>4
<1>7. AnswerHeld'
  <2> SUFFICES ASSUME NEW m \in HwIds, pc'[m] = "replied"
               PROVE  Answers(reply'[m], req'[m], files')
    BY DEF AnswerHeld, Answers
  <2>1. CASE m = n
    <3>1. ~TryAgain(n) /\ reply'[n] = NoReply
      BY <2>1, <1>1, <1>2
    <3> QED BY <3>1, <2>1, <1>5 DEF Answers
  <2>2. CASE m # n
    <3>1. reply'[m] = reply[m] /\ pc[m] = "replied"
      BY <2>2, <1>1, <1>2
    <3> QED BY <3>1, <1>1 DEF PInv, AnswerHeld
  <2> QED BY <2>1, <2>2
<1> QED BY <1>3, <1>6, <1>7 DEF PInv

(* A file is replaced while a reply is on its way.                          *)
LEMMA PublishPrompt ==
  ASSUME Prompt, TypeOK, PInv, NEW s \in SwIds, NEW file \in Versions[s],
         Publish(s, file)
  PROVE  PInv'
<1>1. UNCHANGED <<serving, pc, req, try, reply, losses>>
  BY DEF Publish, loaderVars
<1>2. MaxPublish # 0
  BY DEF Publish, TypeOK
<1>3. FilesPublished'
  BY DEF PInv, FilesPublished, TypeOK, Publish
<1>4. AskerWaits' /\ TriesCounted'
  BY <1>1 DEF PInv, AskerWaits, TriesCounted
<1>5. AnswerHeld'
  BY <1>1, <1>2 DEF PInv, AnswerHeld, Answers
<1> QED BY <1>3, <1>4, <1>5 DEF PInv

(* A power failure never leaves a request with the server.                  *)
LEMMA ResetPrompt ==
  ASSUME Prompt, TypeOK, PInv, NEW n \in HwIds, Reset(n)
  PROVE  PInv'
<1>1. /\ serving = Idle
      /\ try' = [try EXCEPT ![n] = 0]
      /\ UNCHANGED <<files, serving, losses>>
      /\ pc' = [pc EXCEPT ![n] = IF Bootable(flash[n]) THEN "send" ELSE "isp"]
      /\ req' = [req EXCEPT ![n] = HelloOf(n)]
      /\ reply' = [reply EXCEPT ![n] = NoReply]
  <2>1. ~(lates < MaxLate)
    BY DEF Prompt, TypeOK
  <2> QED BY <2>1 DEF Reset
<1>2. /\ pc \in [HwIds -> LocState] /\ reply \in [HwIds -> BootReply]
      /\ req \in [HwIds -> Request] /\ try \in [HwIds -> 0 .. MaxTries] /\ losses \in Nat
  BY BoundTypes DEF TypeOK
<1>3. FilesPublished' /\ AskerWaits'
  BY <1>1 DEF PInv, FilesPublished, AskerWaits
<1>4. TriesCounted'
  BY <1>1, <1>2 DEF TriesCounted, Alone
<1>5. AnswerHeld'
  BY <1>1, <1>2 DEF PInv, AnswerHeld
<1> QED BY <1>3, <1>4, <1>5 DEF PInv

(* A loader asks anew when its last request is done with.                   *)
LEMMA LoaderPrompt ==
  ASSUME Prompt, TypeOK, PInv, NEW n \in HwIds, Loader(n)
  PROVE  PInv'
<1>1. /\ pc[n] \in {"replied", "copy", "save"}
      /\ UNCHANGED <<files, serving, losses, reply>>
  BY DEF Loader, IdentifyFailed, Identified, Fetched, FetchEnd, Copy, Save,
         Dispatched, budgetVars
<1>2. /\ pc \in [HwIds -> LocState] /\ req \in [HwIds -> Request]
      /\ try \in [HwIds -> 0 .. MaxTries] /\ losses \in Nat
  BY BoundTypes DEF TypeOK
<1>3. /\ \A m \in HwIds \ {n} : pc'[m] = pc[m] /\ req'[m] = req[m] /\ try'[m] = try[m]
      /\ pc'[n] \in {"jump", "copy", "save", "send"}
      /\ pc'[n] = "send" => try'[n] = 0
  <2>1. CASE IdentifyFailed(n) \/ Fetched(n) \/ FetchEnd(n) \/ Copy(n) \/ Save(n)
    BY <2>1, <1>2 DEF IdentifyFailed, Fetched, FetchEnd, Copy, Save
  <2>2. CASE Identified(n)
    BY <2>2, <1>2 DEF Identified, Ask
  <2>3. CASE Dispatched(n)
    BY <2>3, <1>2 DEF Dispatched, Ask
  <2> QED BY <2>1, <2>2, <2>3 DEF Loader
<1>4. FilesPublished'
  BY <1>1 DEF PInv, FilesPublished
<1>5. AskerWaits'
  <2>1. CASE serving = Idle
    BY <2>1, <1>1 DEF AskerWaits
  <2>2. CASE serving # Idle
    <3>1. serving.from \in HwIds \ {n}
      BY <2>2, <1>1, ServingType DEF PInv, AskerWaits
    <3> QED BY <3>1, <2>2, <1>1, <1>3 DEF PInv, AskerWaits
  <2> QED BY <2>1, <2>2
<1>6. TriesCounted'
  <2> SUFFICES ASSUME Alone, NEW m \in HwIds, pc'[m] \in {"send", "listen"}
               PROVE  pc'[m] = "send" /\ losses' >= try'[m]
    BY DEF TriesCounted, Alone
  <2>1. m = n
    BY DEF Alone
  <2> QED BY <2>1, <1>1, <1>2, <1>3
<1>7. AnswerHeld'
  BY <1>1, <1>3 DEF PInv, AnswerHeld
<1> QED BY <1>4, <1>5, <1>6, <1>7 DEF PInv

(* At first no request is on its way.                                       *)
LEMMA InitPrompt == Init => PInv
<1> SUFFICES ASSUME Init PROVE PInv
  OBVIOUS
<1>1. FilesPublished /\ AskerWaits
  BY DEF Init, FilesPublished, AskerWaits
<1>2. TriesCounted /\ AnswerHeld
  BY DEF Init, InitLoader, TriesCounted, AnswerHeld
<1> QED BY <1>1, <1>2 DEF PInv

(* Every step keeps PInv.                                                   *)
LEMMA NextPrompt ==
  ASSUME Prompt, TypeOK, PInv, [Next]_vars
  PROVE  PInv'
<1>1. CASE Serve
  BY <1>1, ServePrompt
<1>2. CASE \E n \in HwIds : Send(n) \/ Timeout(n) \/ Loader(n) \/ Reset(n)
  BY <1>2, SendPrompt, TimeoutPrompt, LoaderPrompt, ResetPrompt
<1>3. CASE \E s \in SwIds : \E file \in Versions[s] : Publish(s, file)
  BY <1>3, PublishPrompt
<1>4. CASE UNCHANGED vars
  BY <1>4 DEF vars, loaderVars, budgetVars, PInv, FilesPublished, AskerWaits,
              TriesCounted, AnswerHeld
<1> QED BY <1>1, <1>2, <1>3, <1>4 DEF Next

-----------------------------------------------------------------------------
(* With a prompt server and fewer losses than tries, updating keeps what    *)
(* FirmwareUpdate promises.                                                 *)

Image   == [n \in HwIds |-> InstalledFile(n)]
Running == [n \in HwIds |-> pc[n] = "jump"]

(* What InstalledFile finds, when there is something to find.               *)
LEMMA InstalledIs ==
  ASSUME NEW n \in HwIds
  PROVE  /\ InstalledFile(n) \in {<<Junk>>} \union Versions[Assign[n]]
         /\ (\E file \in Versions[Assign[n]] : Runs(flash[n], file))
              => InstalledFile(n) \in Versions[Assign[n]]
  BY DEF InstalledFile

(* The installed file depends on the flash of the node alone.               *)
LEMMA InstalledStays ==
  ASSUME NEW n \in HwIds, flash'[n] = flash[n]
  PROVE  InstalledFile(n)' = InstalledFile(n)
  BY DEF InstalledFile, Runs, MyCrc

(* The same for all nodes.                                                  *)
LEMMA ImageStays ==
  ASSUME flash' = flash
  PROVE  Image' = Image
  BY InstalledStays DEF Image

(* identify() fails only for want of a reply.                               *)
LEMMA IdentifyReplied ==
  ASSUME Reliable, TypeOK, PInv, NEW n \in HwIds
  PROVE  ~IdentifyFailed(n)
<1>1. SUFFICES ASSUME IdentifyFailed(n) PROVE FALSE
  OBVIOUS
<1>2. pc[n] = "replied" /\ req[n].kind = "hello" /\ ReplyLen(reply[n]) # HelloLen
  BY <1>1 DEF IdentifyFailed
<1>3. PICK fs : reply[n] = Answer(fs, req[n])
  BY <1>2 DEF PInv, AnswerHeld, Answers
<1>4. reply[n].kind = "hello"
  BY <1>2, <1>3 DEF Answer, Hello
<1> QED BY <1>2, <1>4 DEF ReplyLen

(* RfDispatch works on one node, whose application does not run.            *)
LEMMA RewriteOne ==
  ASSUME TypeOK, NEW n \in HwIds, pc[n] # "jump", Running' = Running,
         \A m \in HwIds \ {n} : flash'[m] = flash[m]
  PROVE  Updating!Rewrite(n)
<1>1. PICK content : content = InstalledFile(n)'
  OBVIOUS
<1>2. content \in {<<Junk>>} \union Versions[Assign[n]]
  <2>1. InstalledFile(n)' \in {<<Junk>>} \union Versions[Assign[n]]
    BY DEF InstalledFile
  <2> QED BY <1>1, <2>1
<1>3. Image' = [Image EXCEPT ![n] = content]
  <2>1. \A m \in HwIds \ {n} : InstalledFile(m)' = InstalledFile(m)
    BY InstalledStays
  <2>2. Image' = [m \in HwIds |-> InstalledFile(m)']
    BY DEF Image
  <2>3. \A m \in HwIds : InstalledFile(m)' = IF m = n THEN content ELSE InstalledFile(m)
    BY <1>1, <2>1
  <2>4. [Image EXCEPT ![n] = content]
          = [m \in HwIds |-> IF m = n THEN content ELSE InstalledFile(m)]
    BY DEF Image
  <2> QED BY <2>2, <2>3, <2>4
<1>4. ~Running[n]
  BY DEF Running
<1>5. [m \in HwIds |-> Versions[Assign[m]]][n] = Versions[Assign[n]]
  OBVIOUS
<1> QED BY <1>2, <1>3, <1>4, <1>5 DEF Updating!Rewrite, Image, Running

(* Every step is one of FirmwareUpdate, or a stutter.                       *)
LEMMA StepUpdates ==
  ASSUME Prompt, Reliable, TypeOK, VInv, PInv, [Next]_vars
  PROVE  [Updating!Next]_<<Image, Running>>
<1>1. pc \in [HwIds -> LocState] /\ flash \in [HwIds -> Flash]
  BY DEF TypeOK
<1>2. ASSUME flash' = flash, \A m \in HwIds : pc'[m] = "jump" <=> pc[m] = "jump"
      PROVE  UNCHANGED <<Image, Running>>
  <2>1. Running' = Running
    BY <1>2 DEF Running
  <2> QED BY <2>1, <1>2, ImageStays
<1>3. CASE Serve
  BY <1>2, <1>3 DEF Serve
<1>4. CASE \E s \in SwIds : \E file \in Versions[s] : Publish(s, file)
  BY <1>2, <1>4 DEF Publish, loaderVars
<1>5. CASE UNCHANGED vars
  BY <1>2, <1>5 DEF vars, loaderVars
<1>6. ASSUME NEW n \in HwIds, Send(n) \/ Timeout(n) \/ Loader(n) \/ Reset(n)
      PROVE  [Updating!Next]_<<Image, Running>>
  <2>1. CASE \/ Send(n) \/ Timeout(n) \/ Fetched(n) \/ FetchEnd(n) \/ Dispatched(n)
    <3>1. flash' = flash /\ pc[n] # "jump"
          /\ \E here \in LocState \ {"jump"} : pc' = [pc EXCEPT ![n] = here]
      BY <2>1 DEF Send, Timeout, Fetched, FetchEnd, Dispatched, Ask, LocState
    <3>2. \A m \in HwIds : pc'[m] = "jump" <=> pc[m] = "jump"
      BY <3>1, <1>1
    <3> QED BY <3>1, <3>2, <1>2
  <2>2. ~IdentifyFailed(n)
    BY IdentifyReplied
  <2>3. CASE Identified(n)
    <3>1. flash' = flash /\ pc[n] = "replied"
      BY <2>3 DEF Identified
    <3>2. CASE ~CrcAgrees(n, HelloView(reply[n]).crc)
      <4>1. pc' = [pc EXCEPT ![n] = "send"]
        BY <2>3, <3>2 DEF Identified, Ask
      <4>2. \A m \in HwIds : pc'[m] = "jump" <=> pc[m] = "jump"
        BY <4>1, <3>1, <1>1
      <4> QED BY <4>2, <3>1, <1>2
    <3>3. CASE CrcAgrees(n, HelloView(reply[n]).crc)
      <4>1. pc' = [pc EXCEPT ![n] = "jump"]
        BY <2>3, <3>3 DEF Identified
      <4>2. InstalledFile(n) \in Versions[Assign[n]]
        BY <3>3, AgreementTrue, InstalledIs DEF VInv
      <4>3. Running' = [Running EXCEPT ![n] = TRUE]
        BY <4>1, <1>1, Zenon DEF Running
      <4>4. Image' = Image
        BY <3>1, ImageStays
      <4>5. ~Running[n] /\ Image[n] = InstalledFile(n)
        BY <3>1 DEF Running, Image
      <4>6. Image[n] \in [m \in HwIds |-> Versions[Assign[m]]][n]
        BY <4>2, <4>5
      <4>7. Updating!Launch(n)
        BY <4>3, <4>4, <4>5, <4>6, Zenon DEF Updating!Launch, Image, Running
      <4> QED BY <4>7, Zenon DEF Updating!Next
    <3> QED BY <3>2, <3>3
  <2>4. CASE Copy(n) \/ Save(n)
    <3>1. pc[n] \in {"copy", "save"}
          /\ \E here \in {"copy", "save"} : pc' = [pc EXCEPT ![n] = here]
      <4>1. CASE Copy(n)
        BY <4>1, <1>1 DEF Copy
      <4>2. CASE Save(n)
        BY <4>2 DEF Save
      <4> QED BY <2>4, <4>1, <4>2
    <3>2. \A m \in HwIds \ {n} : flash'[m] = flash[m]
      <4>1. CASE flash' = flash
        BY <4>1
      <4>2. CASE \E page, content : Program(n, page, content)
        BY <4>2, ProgramEffect
      <4>3. flash' = flash \/ \E page, content : Program(n, page, content)
        BY <2>4 DEF Copy, Save
      <4> QED BY <4>1, <4>2, <4>3
    <3>3. Running' = Running
      BY <3>1, <1>1 DEF Running
    <3>4. Updating!Rewrite(n)
      BY <3>1, <3>2, <3>3, RewriteOne
    <3> QED BY <3>4, Zenon DEF Updating!Next
  <2>5. CASE Reset(n)
    <3>1. flash' = flash /\ \E here \in {"send", "isp"} : pc' = [pc EXCEPT ![n] = here]
      BY <2>5 DEF Reset
    <3>2. Running' = [Running EXCEPT ![n] = FALSE]
      BY <3>1, <1>1 DEF Running
    <3>3. Updating!PowerCycle(n)
      BY <3>1, <3>2, ImageStays, Zenon DEF Updating!PowerCycle, Image, Running
    <3> QED BY <3>3, Zenon DEF Updating!Next
  <2> QED BY <1>6, <2>1, <2>2, <2>3, <2>4, <2>5 DEF Loader
<1> QED BY <1>3, <1>4, <1>5, <1>6 DEF Next

(* The refinement: when the server is prompt, one node is in reach and      *)
(* fewer packets get lost than a request has tries, every behaviour of      *)
(* loader, server and radio, with power failures and files replaced at any  *)
(* moment, is one of FirmwareUpdate: what runs is a whole published file.   *)
THEOREM Refinement == Prompt /\ Reliable => (Spec => ImplementsFirmwareUpdate)
<1> SUFFICES ASSUME Prompt, Reliable PROVE Spec => ImplementsFirmwareUpdate
  OBVIOUS
<1>1. Init => Updating!Init
  <2> SUFFICES ASSUME Init PROVE Updating!Init
    OBVIOUS
  <2>1. Image \in [HwIds -> {<<Junk>>} \union
                            UNION {[k \in HwIds |-> Versions[Assign[k]]][m] : m \in HwIds}]
    <3>1. ASSUME NEW n \in HwIds
          PROVE  InstalledFile(n) \in {<<Junk>>} \union
                   UNION {[k \in HwIds |-> Versions[Assign[k]]][m] : m \in HwIds}
      <4>1. Versions[Assign[n]] \subseteq
              UNION {[k \in HwIds |-> Versions[Assign[k]]][m] : m \in HwIds}
        OBVIOUS
      <4> QED BY <4>1, InstalledIs
    <3> QED BY <3>1 DEF Image
  <2>2. Running = [n \in HwIds |-> FALSE]
    BY DEF Init, InitLoader, Running
  <2> QED BY <2>1, <2>2, Zenon DEF Updating!Init, Image, Running
<1>2. SameSoftware
  BY DEF Reliable, Alone, SameSoftware
<1>3. TypeOK /\ VInv /\ [Next]_vars => VInv'
  BY <1>2, NextVerified
<1>4. TypeOK /\ PInv /\ [Next]_vars => PInv'
  BY NextPrompt
<1>5. TypeOK /\ VInv /\ PInv /\ [Next]_vars => [Updating!Next]_<<Image, Running>>
  BY StepUpdates
<1>6. <<Image, Running>> = <<[n \in HwIds |-> InstalledFile(n)], [n \in HwIds |-> pc[n] = "jump"]>>
  BY DEF Image, Running
<1> QED BY <1>1, <1>3, <1>4, <1>5, TypeCorrect, InitVerified, InitPrompt, PTL
        DEF Spec, ImplementsFirmwareUpdate, Updating!Spec, Image, Running

-----------------------------------------------------------------------------
(* Wrong replies are bounded: the loader never writes over itself.          *)

Larger(a, b) == IF a > b THEN a ELSE b
Lesser(a, b) == IF a < b THEN a ELSE b

(* The most data that one reply can pass for, wrong ones included.          *)
Chunk == Larger(DataMax, HelloLen - HdrLen)
Limit == LoadPage * PageSize

(* Every file fits below the loader, with room for the data of the replies  *)
(* that come late or are overheard.                                         *)
Fitting ==
  \A s \in SwIds : \A v \in Versions[s] :
    Len(v) + Chunk * (MaxLate + MaxOverheard) <= Limit

(* The server is about to answer a request that its sender has given up.    *)
Forsaken ==
  serving # Idle /\ ~(pc[serving.from] = "listen" /\ serving.what = req[serving.from])

(* The replies so far that answered something else than was asked: each     *)
(* was overheard, or is the answer to a request that was given up.          *)
Strays == lates + overheard - (IF Forsaken THEN 1 ELSE 0)
Slack  == Chunk * (MaxLate + MaxOverheard)

(* A position that no more than the strays have moved out of place, with    *)
(* data of the given length still to go in; index counts the chunks.        *)
Within(at, len, index, strays) ==
  /\ at + len <= index * DataMax + Chunk * strays
  /\ at + len + Slack <= Limit + Chunk * strays

(* How far the position of a loader can be in each state of a fetchAll.     *)
Fits(n) ==
  req[n].kind = "fetch" =>
    /\ pc[n] \in {"send", "listen"} => Within(pos[n], 0, req[n].swIndex, Strays)
    /\ pc[n] = "replied" =>
         Within(pos[n], Len(FetchView(reply[n])), req[n].swIndex + 1, Strays)
    /\ pc[n] \in {"copy", "save"} /\ ~flush[n] =>
         Within(pos[n], Len(todo[n]), req[n].swIndex + 1, Strays)
    /\ pc[n] \in {"copy", "save"} /\ flush[n] => pos[n] + Len(todo[n]) <= Limit

FInv == FilesPublished /\ Strays \in Nat /\ \A n \in HwIds : Fits(n)

(* The constants of these bounds are numbers.                               *)
LEMMA FitConstants ==
  /\ Chunk \in Nat /\ Limit \in Nat /\ Slack \in Nat /\ DataMax \in Nat
  /\ DataMax <= Chunk /\ HelloLen - HdrLen <= Chunk /\ HelloLen - HdrLen \in Nat
  /\ MaxLate \in Nat /\ MaxOverheard \in Nat
<1>1. /\ DataMax \in Nat /\ HelloLen - HdrLen \in Nat /\ LoadPage \in Nat /\ PageSize \in Nat
      /\ MaxLate \in Nat /\ MaxOverheard \in Nat
  BY ServerAssumption, LoaderAssumption
<1>2. Chunk \in Nat /\ DataMax <= Chunk /\ HelloLen - HdrLen <= Chunk
  BY <1>1 DEF Chunk, Larger
<1>3. \A a, b \in Nat : a * b \in Nat
  OBVIOUS
<1>4. MaxLate + MaxOverheard \in Nat
  BY <1>1
<1>5. Limit \in Nat /\ Slack \in Nat
  BY <1>1, <1>2, <1>3, <1>4 DEF Limit, Slack
<1> QED BY <1>1, <1>2, <1>5

(* Products with one factor larger.                                         *)
LEMMA Products ==
  ASSUME NEW c \in Nat, NEW a \in Int, NEW b \in Int
  PROVE  /\ c * a \in Int
         /\ a >= 0 => c * a >= 0
         /\ b >= a => c * b >= c * a
         /\ b >= a + 1 => c * b >= c * a + c
<1>1. PICK d : d = b - a
  OBVIOUS
<1>2. d \in Int /\ b = a + d
  BY <1>1
<1>3. c * b = c * a + c * d /\ c * d \in Int /\ c * a \in Int
  BY <1>2
<1>4. d >= 0 => c * d >= 0
  BY <1>2
<1>5. d >= 1 => c * d >= c
  <2>1. SUFFICES ASSUME d >= 1 PROVE c * d >= c
    OBVIOUS
  <2>2. PICK e : e = d - 1
    OBVIOUS
  <2>3. e \in Nat /\ d = e + 1
    BY <1>2, <2>1, <2>2
  <2>4. c * d = c * e + c /\ c * e \in Nat
    BY <2>3
  <2> QED BY <2>4
<1> QED BY <1>2, <1>3, <1>4, <1>5

(* The data of strays.                                                      *)
LEMMA StrayData ==
  ASSUME NEW s \in Nat, NEW t \in Nat, t >= s
  PROVE  /\ Chunk * s \in Nat /\ Chunk * t \in Nat /\ Chunk * t >= Chunk * s
         /\ t >= s + 1 => Chunk * t >= Chunk * s + Chunk
<1>1. Chunk \in Nat
  BY FitConstants
<1>2. /\ Chunk * s \in Int /\ Chunk * s >= 0 /\ Chunk * t \in Int /\ Chunk * t >= 0
      /\ Chunk * t >= Chunk * s
      /\ t >= s + 1 => Chunk * t >= Chunk * s + Chunk
  BY <1>1, Products
<1> QED BY <1>2

(* No more strays than the bounds allow.                                    *)
LEMMA StrayBound ==
  ASSUME TypeOK, Strays \in Nat
  PROVE  Chunk * Strays \in Nat /\ Chunk * Strays <= Slack
<1>1. lates \in 0 .. MaxLate /\ overheard \in 0 .. MaxOverheard
  BY DEF TypeOK
<1>2. Strays <= MaxLate + MaxOverheard
  BY <1>1, FitConstants DEF Strays
<1>3. PICK s, t : s = Strays /\ t = MaxLate + MaxOverheard
  OBVIOUS
<1>4. s \in Nat /\ t \in Nat /\ t >= s
  BY <1>2, <1>3, FitConstants
<1>5. Chunk * s \in Nat /\ Chunk * t >= Chunk * s
  BY <1>4, StrayData
<1> QED BY <1>3, <1>5 DEF Slack

(* What fits stays fitting when the strays get more ...                     *)
LEMMA WithinKept ==
  ASSUME NEW at \in Nat, NEW len \in Nat, NEW index \in Nat, NEW s \in Nat, NEW t \in Nat,
         t >= s, Within(at, len, index, s)
  PROVE  Within(at, len, index, t)
<1>1. PICK p : p = index * DataMax
  OBVIOUS
<1>2. p \in Nat
  BY <1>1, FitConstants
<1>3. PICK x, y : x = Chunk * s /\ y = Chunk * t
  OBVIOUS
<1>4. x \in Nat /\ y \in Nat /\ y >= x
  BY <1>3, StrayData
<1>5. at + len <= p + x /\ at + len + Slack <= Limit + x
  BY <1>1, <1>3 DEF Within
<1>6. at + len <= p + y /\ at + len + Slack <= Limit + y
  BY <1>2, <1>4, <1>5, FitConstants
<1> QED BY <1>1, <1>3, <1>6 DEF Within

(* ... and when it is one chunk more, for a stray more ...                  *)
LEMMA WithinStray ==
  ASSUME NEW at \in Nat, NEW len \in Nat, NEW index \in Nat, NEW s \in Nat, NEW t \in Nat,
         t >= s + 1, len <= Chunk, Within(at, 0, index, s)
  PROVE  Within(at, len, index + 1, t)
<1>1. PICK p, q : p = index * DataMax /\ q = (index + 1) * DataMax
  OBVIOUS
<1>2. p \in Nat /\ q = p + DataMax
  BY <1>1, FitConstants
<1>3. PICK x, y : x = Chunk * s /\ y = Chunk * t
  OBVIOUS
<1>4. x \in Nat /\ y \in Nat /\ y >= x + Chunk
  BY <1>3, StrayData
<1>5. at + 0 <= p + x /\ at + 0 + Slack <= Limit + x
  BY <1>1, <1>3 DEF Within
<1>6. at + len <= q + y /\ at + len + Slack <= Limit + y
  BY <1>2, <1>4, <1>5, FitConstants
<1> QED BY <1>1, <1>3, <1>6 DEF Within

(* ... and with the data that was asked for, for none more.                 *)
LEMMA WithinFile ==
  ASSUME NEW at \in Nat, NEW len \in Nat, NEW index \in Nat, NEW s \in Nat, NEW t \in Nat,
         t >= s, Within(at, 0, index, s), NEW size \in Nat, size + Slack <= Limit,
         len <= DataMax, len = 0 \/ index * DataMax + len <= size
  PROVE  Within(at, len, index + 1, t)
<1>1. PICK p, q : p = index * DataMax /\ q = (index + 1) * DataMax
  OBVIOUS
<1>2. p \in Nat /\ q = p + DataMax
  BY <1>1, FitConstants
<1>3. PICK x, y : x = Chunk * s /\ y = Chunk * t
  OBVIOUS
<1>4. x \in Nat /\ y \in Nat /\ y >= x
  BY <1>3, StrayData
<1>5. at + 0 <= p + x /\ at + 0 + Slack <= Limit + x
  BY <1>1, <1>3 DEF Within
<1>6. len = 0 \/ p + len <= size
  BY <1>1
<1>7. at + len <= q + y /\ at + len + Slack <= Limit + y
  BY <1>2, <1>4, <1>5, <1>6, FitConstants
<1> QED BY <1>1, <1>3, <1>7 DEF Within

(* ... or when nothing comes at all.                                        *)
LEMMA WithinNext ==
  ASSUME NEW at \in Nat, NEW index \in Nat, NEW s \in Nat, NEW t \in Nat,
         t >= s, Within(at, 0, index, s)
  PROVE  Within(at, 0, index + 1, t)
<1>1. PICK p, q : p = index * DataMax /\ q = (index + 1) * DataMax
  OBVIOUS
<1>2. p \in Nat /\ q = p + DataMax
  BY <1>1, FitConstants
<1>3. PICK x, y : x = Chunk * s /\ y = Chunk * t
  OBVIOUS
<1>4. x \in Nat /\ y \in Nat /\ y >= x
  BY <1>3, StrayData
<1>5. at + 0 <= p + x /\ at + 0 + Slack <= Limit + x
  BY <1>1, <1>3 DEF Within
<1>6. at + 0 <= q + y /\ at + 0 + Slack <= Limit + y
  BY <1>2, <1>4, <1>5, FitConstants
<1> QED BY <1>1, <1>3, <1>6 DEF Within

(* There is a file, and room for it.                                        *)
LEMMA FileFits ==
  ASSUME Fitting, FilesPublished, NEW s, NEW file, file = LoadFile(files, s),
         NEW n \in HwIds
  PROVE  Len(file) + Slack <= Limit /\ Slack <= Limit
<1>1. ASSUME NEW v \in SwIds PROVE Len(files[v]) \in Nat /\ Len(files[v]) + Slack <= Limit
  <2>1. files[v] \in Versions[v] /\ Versions[v] \in SUBSET Seq(Unit)
    BY LoaderAssumption DEF FilesPublished
  <2>2. files[v] \in Seq(Unit)
    BY <2>1
  <2> QED BY <2>1, <2>2 DEF Fitting, Slack
<1>2. Assign[n] \in SwIds
  BY ServerAssumption
<1>3. Slack <= Limit
  <2>1. PICK size \in Nat : size = Len(files[Assign[n]])
    BY <1>1, <1>2
  <2>2. size + Slack <= Limit
    BY <1>1, <1>2, <2>1
  <2> QED BY <2>1, <2>2, FitConstants
<1>4. CASE s \in SwIds
  BY <1>1, <1>3, <1>4 DEF LoadFile
<1>5. CASE s \notin SwIds
  <2>1. Len(file) = 0
    BY <1>5 DEF LoadFile
  <2> QED BY <2>1, <1>3, FitConstants
<1> QED BY <1>4, <1>5

(* A chunk of a file, as fetch() cuts it.                                   *)
ChunkLen(size, p) ==
  IF size - p < 0 THEN 0 ELSE IF size - p > DataMax THEN DataMax ELSE size - p

(* The part of a file from p on, no longer than a chunk.                    *)
IsPiece(data, file, p) ==
  /\ data \in Seq(Unit)
  /\ Len(file) <= p => data = <<>>
  /\ Len(file) > p => Len(data) = Lesser(DataMax, Len(file) - p)
  /\ Len(data) <= DataMax
  /\ \A i \in 1 .. Len(data) : p + i \in 1 .. Len(file) /\ data[i] = file[p + i]

(* A fetch reply carries that part of the file.                             *)
LEMMA Piece ==
  ASSUME NEW file \in Seq(Unit), NEW p \in Nat,
         NEW len, len = ChunkLen(Len(file), p)
  PROVE  IsPiece(SubSeq(file, p + 1, p + len), file, p)
<1>1. file \in Seq(Unit) /\ p \in Nat /\ DataMax \in Nat
  BY ServerAssumption
<1>2. PICK size \in Nat : size = Len(file)
  BY <1>1
<1>3. /\ len \in Nat /\ len <= DataMax
      /\ size <= p => len = 0
      /\ size > p => len = Lesser(DataMax, size - p) /\ p + len <= size
  BY <1>1, <1>2 DEF Lesser, ChunkLen
<1>4. \A i \in p + 1 .. p + len : i \in 1 .. Len(file)
  BY <1>1, <1>2, <1>3
<1>5. \A i \in p + 1 .. p + len : file[i] \in Unit
  BY <1>1, <1>4
<1> DEFINE data == SubSeq(file, p + 1, p + len)
<1>6. PICK a, b : a = p + 1 /\ b = p + len
  OBVIOUS
<1>7. a \in Int /\ b \in Int /\ b - a + 1 = len /\ \A i \in a .. b : file[i] \in Unit
  BY <1>1, <1>3, <1>5, <1>6
<1>8. /\ SubSeq(file, a, b) \in Seq(Unit)
       /\ Len(SubSeq(file, a, b)) = len
       /\ \A i \in 1 .. len : SubSeq(file, a, b)[i] = file[a + i - 1]
  <2>1. /\ SubSeq(file, a, b) \in Seq(Unit)
        /\ Len(SubSeq(file, a, b)) = (IF a <= b THEN b - a + 1 ELSE 0)
        /\ \A i \in 1 .. b - a + 1 : SubSeq(file, a, b)[i] = file[a + i - 1]
    BY <1>7, SubSeqProperties
  <2>2. (IF a <= b THEN b - a + 1 ELSE 0) = len
    BY <1>3, <1>7
  <2> QED BY <2>1, <2>2, <1>7
<1>9. \A i \in 1 .. len : p + i \in 1 .. Len(file) /\ a + i - 1 = p + i
  <2>1. ASSUME NEW i \in 1 .. len PROVE p + i \in 1 .. size /\ a + i - 1 = p + i
    BY <2>1, <1>1, <1>2, <1>3, <1>6
  <2> QED BY <2>1, <1>2
<1>10. data \in Seq(Unit) /\ Len(data) = len /\ \A i \in 1 .. len : data[i] = file[p + i]
  BY <1>6, <1>8, <1>9
<1>11. len = 0 => data = <<>>
  BY <1>10, EmptySeq
<1>12. /\ Len(file) <= p => data = <<>>
       /\ Len(file) > p => Len(data) = Lesser(DataMax, Len(file) - p)
       /\ Len(data) <= DataMax
  BY <1>2, <1>3, <1>10, <1>11
<1> HIDE DEF data
<1> QED BY <1>9, <1>10, <1>12 DEF data, IsPiece

(* The data of a right reply to a fetch request is a piece of its file.     *)
LEMMA FetchData ==
  ASSUME NEW fs \in [SwIds -> Seq(Unit)], NEW r \in FetchRequest,
         NEW file, file = LoadFile(fs, r.swId), NEW p, p = r.swIndex * DataMax
  PROVE  /\ Answer(fs, r).kind = "fetch"
         /\ file \in Seq(Unit) /\ p \in Nat
         /\ IsPiece(Answer(fs, r).data, file, p)
<1>1. r.kind = "fetch" /\ r.swId \in AnySwId /\ r.swIndex \in Nat
  BY DEF FetchRequest
<1>2. file \in Seq(Unit) /\ p \in Nat
  BY <1>1, ServerAssumption DEF LoadFile, AnySwId
<1>3. PICK len : len = ChunkLen(Len(file), p)
  OBVIOUS
<1>4. Answer(fs, r).kind = "fetch" /\ Answer(fs, r).data = SubSeq(file, p + 1, p + len)
  BY <1>1, <1>3 DEF Answer, Fetch, ChunkLen
<1>5. IsPiece(SubSeq(file, p + 1, p + len), file, p)
  BY <1>2, <1>3, Piece
<1> QED BY <1>2, <1>4, <1>5

(* The numbers that Fits is about.                                          *)
LEMMA FitTypes ==
  ASSUME TypeOK, NEW n \in HwIds
  PROVE  /\ pos[n] \in Nat /\ Len(todo[n]) \in Nat /\ Len(FetchView(reply[n])) \in Nat
         /\ req[n].kind = "fetch" => req[n] \in FetchRequest /\ req[n].swIndex \in Nat
<1>1. pos[n] \in Nat /\ todo[n] \in Seq(Unit) /\ reply[n] \in BootReply /\ req[n] \in Request
  BY DEF TypeOK
<1>2. FetchView(reply[n]) \in Seq(Unit)
  BY <1>1, ViewType
<1>3. req[n].kind = "fetch" => req[n] \in FetchRequest
  BY <1>1 DEF Request, HelloRequest
<1> QED BY <1>1, <1>2, <1>3 DEF FetchRequest

(* No reply passes for more than a chunk of data.                           *)
LEMMA ViewShort ==
  ASSUME NEW fs \in [SwIds -> Seq(Unit)], NEW r \in Request
  PROVE  Len(FetchView(Answer(fs, r))) \in Nat /\ Len(FetchView(Answer(fs, r))) <= Chunk
<1>1. CASE r \in HelloRequest
  <2>1. Answer(fs, r).kind = "hello"
    BY <1>1 DEF HelloRequest, Answer, Hello
  <2>2. FetchView(Answer(fs, r)) = [i \in 1 .. HelloLen - HdrLen |-> Junk]
    BY <2>1 DEF FetchView
  <2>3. HelloLen - HdrLen \in Nat /\ HelloLen - HdrLen <= Chunk
    BY FitConstants
  <2>4. Len([i \in 1 .. HelloLen - HdrLen |-> Junk]) = HelloLen - HdrLen
    BY <2>3
  <2> QED BY <2>2, <2>3, <2>4
<1>2. CASE r \in FetchRequest
  <2>1. /\ Answer(fs, r).kind = "fetch" /\ Answer(fs, r).data \in Seq(Unit)
        /\ Len(Answer(fs, r).data) <= DataMax
    BY <1>2, FetchData DEF IsPiece
  <2>2. FetchView(Answer(fs, r)) = Answer(fs, r).data
    BY <2>1 DEF FetchView
  <2>3. Len(Answer(fs, r).data) \in Nat
    BY <2>1
  <2> QED BY <2>1, <2>2, <2>3, FitConstants
<1> QED BY <1>1, <1>2 DEF Request

(* A loader that does nothing, or waits on, still fits.                     *)
LEMMA FitsKept ==
  ASSUME TypeOK, NEW n \in HwIds, Fits(n), Strays \in Nat, Strays' \in Nat,
         Strays' >= Strays,
         UNCHANGED <<req[n], pos[n], todo[n], flush[n]>>,
         \/ pc'[n] = pc[n] /\ reply'[n] = reply[n]
         \/ pc[n] \in {"send", "listen"} /\ pc'[n] \in {"send", "listen"}
  PROVE  Fits(n)'
<1> SUFFICES ASSUME req[n].kind = "fetch" PROVE Fits(n)'
  BY DEF Fits
<1>1. PICK s, t : s = Strays /\ t = Strays'
  OBVIOUS
<1>2. s \in Nat /\ t \in Nat /\ t >= s
  BY <1>1
<1>3. /\ pos[n] \in Nat /\ Len(todo[n]) \in Nat /\ Len(FetchView(reply[n])) \in Nat
      /\ req[n].swIndex \in Nat /\ req[n].swIndex + 1 \in Nat
  BY FitTypes
<1>4. pc[n] \in {"send", "listen"} => Within(pos[n], 0, req[n].swIndex, t)
  BY <1>1, <1>2, <1>3, WithinKept DEF Fits
<1>5. pc[n] = "replied" => Within(pos[n], Len(FetchView(reply[n])), req[n].swIndex + 1, t)
  BY <1>1, <1>2, <1>3, WithinKept DEF Fits
<1>6. pc[n] \in {"copy", "save"} /\ ~flush[n] =>
        Within(pos[n], Len(todo[n]), req[n].swIndex + 1, t)
  BY <1>1, <1>2, <1>3, WithinKept DEF Fits
<1>7. req'[n] = req[n] /\ pos'[n] = pos[n] /\ todo'[n] = todo[n] /\ flush'[n] = flush[n]
  OBVIOUS
<1>8. CASE pc'[n] = pc[n] /\ reply'[n] = reply[n]
  BY <1>1, <1>4, <1>5, <1>6, <1>7, <1>8 DEF Fits
<1>9. CASE pc[n] \in {"send", "listen"} /\ pc'[n] \in {"send", "listen"}
  BY <1>1, <1>4, <1>7, <1>9 DEF Fits
<1> QED BY <1>8, <1>9

(* Late and overheard replies counted before (x, y) and after (u, v) a step *)
(* with a and b of them still in the server's hands.                        *)
Counts(x, y, a, u, v, b) ==
  (u = x /\ v >= y /\ b <= a) \/ (u = x + 1 /\ v = y)
Flag == {0, 1}
NotFewer(x, y, a, u, v, b) == u + v - b \in Nat /\ u + v - b >= x + y - a

(* None is counted before it is a stray.                                    *)
LEMMA CountKept ==
  ASSUME NEW x \in Nat, NEW y \in Nat, NEW u \in Nat, NEW v \in Nat,
         NEW a \in Flag, NEW b \in Flag, x + y - a \in Nat, Counts(x, y, a, u, v, b)
  PROVE  NotFewer(x, y, a, u, v, b)
  BY DEF Counts, NotFewer, Flag

(* The strays do not get fewer when none is counted that was not.           *)
LEMMA StraysKept ==
  ASSUME TypeOK, Strays \in Nat, lates' \in Nat, overheard' \in Nat,
         \/ lates' = lates /\ overheard' >= overheard /\ (Forsaken' => Forsaken)
         \/ lates' = lates + 1 /\ overheard' = overheard
  PROVE  Strays' \in Nat /\ Strays' >= Strays
<1>1. lates \in Nat /\ overheard \in Nat
  BY FitConstants DEF TypeOK
<1>2. PICK a \in Flag : a = IF Forsaken THEN 1 ELSE 0
  BY Zenon DEF Flag
<1>3. PICK b \in Flag : b = IF Forsaken' THEN 1 ELSE 0
  BY Zenon DEF Flag
<1>4. (Forsaken' => Forsaken) => b <= a
  <2>1. SUFFICES ASSUME Forsaken' => Forsaken PROVE b <= a
    OBVIOUS
  <2>2. CASE Forsaken
    BY <1>2, <1>3, <2>2 DEF Flag
  <2>3. CASE ~Forsaken
    BY <1>2, <1>3, <2>1, <2>3 DEF Flag
  <2> QED BY <2>2, <2>3
<1>5. Strays = lates + overheard - a
  BY <1>2, Zenon DEF Strays
<1>6. Strays' = lates' + overheard' - b
  BY <1>3, Zenon DEF Strays
<1>7. Counts(lates, overheard, a, lates', overheard', b)
  BY <1>4, Zenon DEF Counts
<1>8. lates + overheard - a \in Nat
  BY <1>5, Zenon
<1>9. NotFewer(lates, overheard, a, lates', overheard', b)
  BY <1>1, <1>7, <1>8, CountKept, Zenon
<1> QED BY <1>5, <1>6, <1>9, Zenon DEF NotFewer

(* A request sent.                                                          *)
LEMMA SendFits ==
  ASSUME TypeOK, FInv, NEW n \in HwIds, Send(n)
  PROVE  FInv'
<1>1. /\ pc[n] = "send" /\ pc' = [pc EXCEPT ![n] = "listen"]
      /\ UNCHANGED <<files, req, reply, pos, todo, flush, lates, overheard>>
      /\ pc \in [HwIds -> LocState]
  BY DEF Send, TypeOK
<1>2. \/ serving = Idle /\ serving' = [from |-> n, what |-> req[n]]
      \/ serving' = serving
  BY DEF Send
<1>3. Forsaken' => Forsaken
  <2>1. CASE serving' = [from |-> n, what |-> req[n]]
    <3>1. serving'.from = n /\ serving'.what = req[n]
      BY <2>1
    <3> QED BY <3>1, <1>1 DEF Forsaken
  <2>2. CASE serving' = serving /\ serving # Idle
    <3>1. serving.from \in HwIds
      BY <2>2, ServingType
    <3>2. CASE serving.from = n
      BY <3>2, <2>2, <1>1 DEF Forsaken
    <3>3. CASE serving.from # n
      BY <3>1, <3>3, <2>2, <1>1 DEF Forsaken
    <3> QED BY <3>2, <3>3
  <2>3. CASE serving' = Idle
    BY <2>3 DEF Forsaken
  <2> QED BY <2>1, <2>2, <2>3, <1>2
<1>4. Strays' \in Nat /\ Strays' >= Strays
  <2>0. lates \in Nat /\ overheard \in Nat
    BY FitConstants DEF TypeOK
  <2>1. lates' \in Nat /\ overheard' \in Nat /\ overheard' >= overheard
    BY <1>1, <2>0
  <2> QED BY <2>1, <1>1, <1>3, StraysKept DEF FInv
<1>5. FilesPublished'
  BY <1>1 DEF FInv, FilesPublished
<1>6. ASSUME NEW m \in HwIds PROVE Fits(m)'
  <2>1. \/ pc'[m] = pc[m] /\ reply'[m] = reply[m]
        \/ pc[m] \in {"send", "listen"} /\ pc'[m] \in {"send", "listen"}
    BY <1>1
  <2> QED BY <2>1, <1>1, <1>4, FitsKept DEF FInv
<1> QED BY <1>4, <1>5, <1>6 DEF FInv

(* A try given up: the answer in the server's hands becomes a stray.        *)
LEMMA TimeoutFits ==
  ASSUME TypeOK, FInv, NEW n \in HwIds, Timeout(n)
  PROVE  FInv'
<1>1. /\ pc[n] = "listen"
      /\ UNCHANGED <<files, serving, req, pos, todo, flush, overheard>>
      /\ IF serving = Idle THEN lates' = lates ELSE lates' = lates + 1
      /\ \/ pc' = [pc EXCEPT ![n] = "send"] /\ reply' = reply
         \/ pc' = [pc EXCEPT ![n] = "replied"] /\ reply' = [reply EXCEPT ![n] = NoReply]
      /\ pc \in [HwIds -> LocState] /\ reply \in [HwIds -> BootReply]
  BY DEF Timeout, TypeOK
<1>2. Strays' \in Nat /\ Strays' >= Strays
  <2>0. lates \in Nat /\ overheard \in Nat
    BY FitConstants DEF TypeOK
  <2>1. lates' \in Nat /\ overheard' \in Nat /\ overheard' >= overheard
    BY <1>1, <2>0
  <2>2. serving = Idle => ~Forsaken'
    BY <1>1 DEF Forsaken
  <2> QED BY <2>1, <2>2, <1>1, StraysKept DEF FInv
<1>3. FilesPublished'
  BY <1>1 DEF FInv, FilesPublished
<1>4. ASSUME NEW m \in HwIds PROVE Fits(m)'
  <2>1. CASE \/ pc'[m] = pc[m] /\ reply'[m] = reply[m]
             \/ pc[m] \in {"send", "listen"} /\ pc'[m] \in {"send", "listen"}
    BY <2>1, <1>1, <1>2, FitsKept DEF FInv
  <2>2. CASE m = n /\ pc'[m] = "replied" /\ reply'[m] = NoReply
    <3> SUFFICES ASSUME req[m].kind = "fetch" PROVE Fits(m)'
      BY <1>1 DEF Fits
    <3>1. Len(FetchView(reply'[m])) = 0
      BY <2>2 DEF FetchView, NoReply
    <3>2. Within(pos[m], 0, req[m].swIndex, Strays)
      BY <2>2, <1>1 DEF FInv, Fits
    <3>3. PICK s, t : s = Strays /\ t = Strays'
      OBVIOUS
    <3>4. Within(pos[m], 0, req[m].swIndex + 1, t)
      <4>1. /\ s \in Nat /\ t \in Nat /\ t >= s
            /\ pos[m] \in Nat /\ req[m].swIndex \in Nat /\ 0 \in Nat
        BY <1>2, <3>3, FitTypes DEF FInv
      <4>2. Within(pos[m], 0, req[m].swIndex, s)
        BY <3>2, <3>3
      <4> QED BY <4>1, <4>2, WithinNext
    <3> QED BY <2>2, <3>1, <3>3, <3>4, <1>1 DEF Fits
  <2>3. \/ m # n /\ pc'[m] = pc[m] /\ reply'[m] = reply[m]
        \/ pc[m] \in {"send", "listen"} /\ pc'[m] \in {"send", "listen"}
        \/ m = n /\ pc'[m] = "replied" /\ reply'[m] = NoReply
    BY <1>1
  <2> QED BY <2>1, <2>2, <2>3
<1> QED BY <1>2, <1>3, <1>4 DEF FInv

(* A reply, heard by the loader that asked or by others.                    *)
LEMMA ServeFits ==
  ASSUME Fitting, TypeOK, FInv, Serve
  PROVE  FInv'
<1>1. PICK from, answer : from = serving.from /\ answer = Answer(files, serving.what)
  OBVIOUS
<1>2. /\ serving # Idle /\ serving' = Idle
      /\ UNCHANGED <<files, req, pos, todo, flush, lates>>
      /\ from \in HwIds /\ serving.what \in Request
  BY <1>1, ServingType DEF Serve
<1>3. PICK heard \in SUBSET {m \in HwIds : pc[m] = "listen"} :
        /\ IF heard \subseteq {from} THEN overheard' = overheard
           ELSE overheard' = overheard + 1
        /\ reply' = [m \in HwIds |-> IF m \in heard THEN answer ELSE reply[m]]
        /\ pc' = [m \in HwIds |-> IF m \in heard THEN "replied" ELSE pc[m]]
  BY <1>1 DEF Serve
<1>4. ~Forsaken'
  BY <1>2 DEF Forsaken
<1>5. lates \in Nat /\ overheard \in Nat /\ lates' = lates
      /\ (overheard' = overheard \/ overheard' = overheard + 1)
  BY <1>2, <1>3, FitConstants DEF TypeOK
<1>6. Strays' \in Nat /\ Strays' >= Strays
  <2>1. lates' \in Nat /\ overheard' \in Nat /\ overheard' >= overheard
    BY <1>5
  <2> QED BY <2>1, <1>4, <1>5, StraysKept DEF FInv
<1>7. FilesPublished'
  BY <1>2 DEF FInv, FilesPublished
<1>8. ASSUME NEW m \in heard, m # from \/ Forsaken PROVE Strays' >= Strays + 1
  <2>1. CASE m # from
    <3>1. overheard' = overheard + 1
      BY <2>1, <1>3
    <3> QED BY <3>1, <1>4, <1>5 DEF Strays
  <2>2. CASE Forsaken
    BY <2>2, <1>4, <1>5 DEF Strays
  <2> QED BY <2>1, <2>2, <1>8
<1>9. ASSUME NEW m \in HwIds PROVE Fits(m)'
  <2>1. CASE m \notin heard
    <3>1. pc'[m] = pc[m] /\ reply'[m] = reply[m]
      BY <2>1, <1>3
    <3> QED BY <3>1, <1>2, <1>6, FitsKept DEF FInv
  <2>2. CASE m \in heard
    <3> SUFFICES ASSUME req[m].kind = "fetch" PROVE Fits(m)'
      BY <1>2 DEF Fits
    <3>1. pc[m] = "listen" /\ pc'[m] = "replied" /\ reply'[m] = answer
      BY <2>2, <1>3
    <3>2. PICK len, s, t : len = Len(FetchView(answer)) /\ s = Strays /\ t = Strays'
      OBVIOUS
    <3>3. /\ s \in Nat /\ t \in Nat /\ t >= s /\ pos[m] \in Nat /\ req[m].swIndex \in Nat
          /\ req[m] \in FetchRequest
      BY <1>6, <3>2, FitTypes DEF FInv
    <3>4. Within(pos[m], 0, req[m].swIndex, s)
      BY <3>1, <3>2 DEF FInv, Fits
    <3>5. len \in Nat /\ len <= Chunk
      <4>1. files \in [SwIds -> Seq(Unit)]
        BY DEF TypeOK
      <4> QED BY <4>1, <1>1, <1>2, <3>2, ViewShort
    <3>6. Within(pos[m], len, req[m].swIndex + 1, t)
      <4>1. CASE m # from \/ Forsaken
        <5>1. t >= s + 1
          BY <4>1, <2>2, <1>8, <3>2
        <5> QED BY <5>1, <3>3, <3>4, <3>5, WithinStray
      <4>2. CASE m = from /\ ~Forsaken
        <5>1. serving.what = req[m]
          BY <4>2, <1>1, <1>2 DEF Forsaken
        <5>2. PICK file, p : file = LoadFile(files, req[m].swId) /\ p = req[m].swIndex * DataMax
          OBVIOUS
        <5>3. /\ answer.kind = "fetch" /\ file \in Seq(Unit) /\ p \in Nat
              /\ IsPiece(answer.data, file, p)
          <6>1. files \in [SwIds -> Seq(Unit)]
            BY DEF TypeOK
          <6> QED BY <6>1, <5>1, <5>2, <3>3, <1>1, FetchData
        <5>4. len = Len(answer.data)
          BY <5>3, <3>2 DEF FetchView
        <5>5. PICK size \in Nat : size = Len(file)
          BY <5>3
        <5>6. len <= DataMax /\ (len = 0 \/ p + len <= size)
          <6>1. len > 0 => p + len \in 1 .. Len(file)
            BY <5>3, <5>4, <3>5 DEF IsPiece
          <6> QED BY <6>1, <5>3, <5>4, <5>5, <3>5 DEF IsPiece
        <5>7. size + Slack <= Limit
          BY <5>2, <5>5, FileFits DEF FInv
        <5>8. len = 0 \/ req[m].swIndex * DataMax + len <= size
          BY <5>2, <5>6
        <5> QED BY <5>6, <5>7, <5>8, <3>3, <3>4, <3>5, WithinFile
      <4> QED BY <4>1, <4>2
    <3> QED BY <3>1, <3>2, <3>6, <1>2 DEF Fits
  <2> QED BY <2>1, <2>2
<1> QED BY <1>6, <1>7, <1>9 DEF FInv

(* What a loader does touches neither the others nor the radio.             *)
LEMMA LoaderOthers ==
  ASSUME TypeOK, NEW n \in HwIds, Loader(n)
  PROVE  /\ pc[n] \in {"replied", "copy", "save"}
         /\ UNCHANGED <<files, serving, lates, overheard, reply>>
         /\ \A m \in HwIds \ {n} : UNCHANGED <<pc[m], req[m], pos[m], todo[m], flush[m]>>
<1>1. /\ pc \in [HwIds -> LocState] /\ req \in [HwIds -> Request] /\ pos \in [HwIds -> Nat]
      /\ todo \in [HwIds -> Seq(Unit)] /\ flush \in [HwIds -> BOOLEAN]
  BY DEF TypeOK
<1>2. CASE IdentifyFailed(n) \/ Fetched(n) \/ FetchEnd(n)
  BY <1>1, <1>2 DEF IdentifyFailed, Fetched, FetchEnd, budgetVars
<1>3. CASE Identified(n) \/ Dispatched(n)
  BY <1>1, <1>3 DEF Identified, Dispatched, Ask, budgetVars
<1>4. CASE Copy(n) \/ Save(n)
  BY <1>1, <1>4 DEF Copy, Save, budgetVars
<1> QED BY <1>2, <1>3, <1>4 DEF Loader

(* A loader that asks anew may make a stray of an answer it has given up.   *)
LEMMA LoaderStrays ==
  ASSUME TypeOK, FInv, NEW n \in HwIds, Loader(n)
  PROVE  /\ Strays' \in Nat /\ Strays' >= Strays
         /\ FilesPublished'
         /\ \A m \in HwIds \ {n} : Fits(m)'
<1>1. /\ pc[n] \in {"replied", "copy", "save"}
      /\ UNCHANGED <<files, serving, lates, overheard, reply>>
      /\ \A m \in HwIds \ {n} : UNCHANGED <<pc[m], req[m], pos[m], todo[m], flush[m]>>
  BY LoaderOthers
<1>2. Forsaken' => Forsaken
  <2>1. CASE serving = Idle
    BY <2>1, <1>1 DEF Forsaken
  <2>2. CASE serving # Idle /\ serving.from = n
    BY <2>2, <1>1 DEF Forsaken
  <2>3. CASE serving # Idle /\ serving.from # n
    <3>1. serving.from \in HwIds \ {n}
      BY <2>3, ServingType
    <3> QED BY <3>1, <2>3, <1>1 DEF Forsaken
  <2> QED BY <2>1, <2>2, <2>3
<1>3. Strays' \in Nat /\ Strays' >= Strays
  <2>0. lates \in Nat /\ overheard \in Nat
    BY FitConstants DEF TypeOK
  <2>1. lates' \in Nat /\ overheard' \in Nat /\ overheard' >= overheard
    BY <1>1, <2>0
  <2> QED BY <2>1, <1>1, <1>2, StraysKept DEF FInv
<1>4. FilesPublished'
  BY <1>1 DEF FInv, FilesPublished
<1> QED BY <1>1, <1>3, <1>4, FitsKept DEF FInv

(* The reply to hello, a right or a wrong one, starts at the beginning.     *)
LEMMA IdentifiedFits ==
  ASSUME Fitting, TypeOK, FInv, NEW n \in HwIds, Identified(n)
  PROVE  FInv'
<1>1. Strays' \in Nat /\ FilesPublished' /\ \A m \in HwIds \ {n} : Fits(m)'
  BY LoaderStrays DEF Loader
<1>2. Fits(n)'
  <2>1. /\ pc \in [HwIds -> LocState] /\ req \in [HwIds -> Request] /\ pos \in [HwIds -> Nat]
    BY DEF TypeOK
  <2>2. CASE CrcAgrees(n, HelloView(reply[n]).crc)
    BY <2>1, <2>2 DEF Identified, Fits
  <2>3. CASE ~CrcAgrees(n, HelloView(reply[n]).crc)
    <3>1. /\ pc'[n] = "send" /\ pos'[n] = 0 /\ req'[n].swIndex = 0
      BY <2>1, <2>3 DEF Identified, Ask
    <3>2. PICK t : t = Strays'
      OBVIOUS
    <3>3. PICK file : file = LoadFile(files, NoSwId)
      OBVIOUS
    <3>4. Within(0, 0, 0, t)
      <4>1. Slack <= Limit
        BY <3>3, FileFits DEF FInv
      <4>2. PICK x \in Nat : x = Chunk * t
        BY <1>1, <3>2, StrayData
      <4> QED BY <4>1, <4>2, FitConstants DEF Within
    <3> QED BY <3>1, <3>2, <3>4 DEF Fits
  <2> QED BY <2>2, <2>3
<1> QED BY <1>1, <1>2 DEF FInv

(* Data taken for that of the chunk.                                        *)
LEMMA FetchedFits ==
  ASSUME TypeOK, FInv, NEW n \in HwIds, Fetched(n)
  PROVE  FInv'
<1>1. /\ Strays' \in Nat /\ Strays' >= Strays
      /\ FilesPublished' /\ \A m \in HwIds \ {n} : Fits(m)'
  BY LoaderStrays DEF Loader
<1>2. Fits(n)'
  <2>1. /\ pc[n] = "replied" /\ pc'[n] = "copy" /\ UNCHANGED <<req, pos>>
        /\ todo'[n] = FetchView(reply[n]) /\ ~flush'[n] /\ req[n].kind = "fetch"
    BY DEF Fetched, TypeOK
  <2>2. PICK s, t : s = Strays /\ t = Strays'
    OBVIOUS
  <2>3. Within(pos[n], Len(FetchView(reply[n])), req[n].swIndex + 1, t)
    <3>1. Within(pos[n], Len(FetchView(reply[n])), req[n].swIndex + 1, s)
      BY <2>1, <2>2 DEF FInv, Fits
    <3>2. /\ pos[n] \in Nat /\ Len(FetchView(reply[n])) \in Nat /\ req[n].swIndex + 1 \in Nat
          /\ s \in Nat /\ t \in Nat /\ t >= s
      BY <1>1, <2>1, <2>2, FitTypes DEF FInv
    <3> QED BY <3>1, <3>2, WithinKept
  <2> QED BY <2>1, <2>2, <2>3 DEF Fits
<1> QED BY <1>1, <1>2 DEF FInv

(* What is within bounds is below the loader.                               *)
LEMMA WithinLimit ==
  ASSUME TypeOK, FInv, NEW at \in Nat, NEW len \in Nat, NEW index, Within(at, len, index, Strays)
  PROVE  at + len <= Limit
<1>1. PICK x \in Nat : x = Chunk * Strays /\ x <= Slack
  BY StrayBound DEF FInv
<1>2. at + len + Slack <= Limit + x
  BY <1>1 DEF Within
<1> QED BY <1>1, <1>2, FitConstants

(* A started page below the limit ends there, too.                          *)
LEMMA PageEnd ==
  ASSUME NEW k \in Nat, NEW b \in Nat \ {0}, NEW f \in 0 .. b - 1, NEW l \in Nat
  PROVE  /\ k * b + f <= l * b /\ f > 0 => k * b + b <= l * b
         /\ k * b + f < l * b => k + 1 <= l
<1>1. ASSUME k * b + f < l * b PROVE k + 1 <= l
  <2>1. SUFFICES ASSUME l <= k PROVE FALSE
    OBVIOUS
  <2>2. l * b <= k * b
    BY <2>1
  <2>3. k * b \in Nat /\ l * b \in Nat
    OBVIOUS
  <2> QED BY <1>1, <2>2, <2>3
<1>2. ASSUME k * b + f <= l * b, f > 0 PROVE k * b + b <= l * b
  <2>1. CASE k + 1 <= l
    <3>1. (k + 1) * b <= l * b
      BY <2>1
    <3>2. (k + 1) * b = k * b + b
      OBVIOUS
    <3> QED BY <3>1, <3>2
  <2>2. CASE l <= k
    <3>1. l * b <= k * b
      BY <2>2
    <3>2. k * b \in Nat /\ l * b \in Nat
      OBVIOUS
    <3> QED BY <3>1, <3>2, <1>2
  <2> QED BY <2>1, <2>2
<1> QED BY <1>1, <1>2

(* The padding of the last page.                                            *)
LEMMA FetchEndFits ==
  ASSUME IInv, FInv, NEW n \in HwIds, FetchEnd(n)
  PROVE  FInv'
<1>0. TypeOK /\ BufferInStep
  BY DEF IInv
<1>1. Strays' \in Nat /\ FilesPublished' /\ \A m \in HwIds \ {n} : Fits(m)'
  BY <1>0, LoaderStrays DEF Loader
<1>2. Fits(n)'
  <2>1. /\ pc[n] = "replied" /\ pc'[n] = "copy" /\ UNCHANGED <<req, pos>>
        /\ todo'[n] = Padding(n) /\ flush'[n] /\ req[n].kind = "fetch"
    BY <1>0 DEF FetchEnd, TypeOK
  <2>2. pos[n] <= Limit /\ pos[n] \in Nat
    <3>1. PICK len : len = Len(FetchView(reply[n]))
      OBVIOUS
    <3>2. len \in Nat /\ pos[n] \in Nat
      BY <1>0, <3>1, FitTypes
    <3>3. Within(pos[n], len, req[n].swIndex + 1, Strays)
      BY <2>1, <3>1 DEF FInv, Fits
    <3>4. pos[n] + len <= Limit
      BY <1>0, <3>2, <3>3, WithinLimit
    <3> QED BY <3>2, <3>4, FitConstants
  <2>3. pos[n] + Len(Padding(n)) <= Limit
    <3>1. CASE pageFill[n] = 0
      <4>1. Padding(n) = <<>>
        BY <1>0, <3>1, PaddingType
      <4>2. Len(Padding(n)) = 0
        BY <4>1
      <4> QED BY <4>2, <2>2, FitConstants
    <3>2. CASE pageFill[n] # 0
      <4>1. PICK k \in 0 .. pos[n] : pos[n] = k * PageSize + pageFill[n]
        BY <1>0, <2>1 DEF BufferInStep
      <4>2. /\ k \in Nat /\ PageSize \in Nat \ {0} /\ pageFill[n] \in 0 .. PageSize - 1
            /\ LoadPage \in Nat /\ pageFill[n] > 0
        <5>1. pageFill[n] \in 0 .. PageSize /\ pageFill[n] < PageSize
          BY <1>0, <2>1 DEF TypeOK, BufferInStep
        <5> QED BY <5>1, <4>1, <2>2, <3>2, SlotFacts, LoaderAssumption
      <4>3. k * PageSize + PageSize <= Limit
        BY <4>1, <4>2, <2>2, PageEnd DEF Limit
      <4>4. pageFill[n] + Len(Padding(n)) = PageSize
        BY <1>0, <4>2, PaddingType
      <4>5. PICK m, l : m = k * PageSize /\ l = Len(Padding(n))
        OBVIOUS
      <4>6. m \in Nat /\ l \in Nat
        <5>1. Padding(n) \in Seq(Unit)
          BY <1>0, PaddingType
        <5> QED BY <5>1, <4>2, <4>5
      <4> QED BY <4>1, <4>2, <4>3, <4>4, <4>5, <4>6, FitConstants
    <3> QED BY <3>1, <3>2
  <2> QED BY <2>1, <2>3 DEF Fits
<1> QED BY <1>1, <1>2 DEF FInv

(* Copying moves pos by what it takes from the data.                        *)
LEMMA CopyMoves ==
  ASSUME TypeOK, NEW n \in HwIds, Copy(n)
  PROVE  /\ CopyCount(n) \in Nat /\ CopyCount(n) <= Len(todo[n])
         /\ pos'[n] = pos[n] + CopyCount(n)
         /\ Len(todo'[n]) = Len(todo[n]) - CopyCount(n)
         /\ pos'[n] + Len(todo'[n]) = pos[n] + Len(todo[n])
         /\ \A i \in 1 .. Len(todo'[n]) : todo'[n][i] = todo[n][CopyCount(n) + i]
<1>1. CopyCount(n) \in Nat /\ CopyCount(n) <= Len(todo[n])
  BY CopyCountFacts
<1>2. PICK c, l : c = CopyCount(n) /\ l = Len(todo[n])
  OBVIOUS
<1>3. /\ pos'[n] = pos[n] + c /\ todo'[n] = SubSeq(todo[n], c + 1, l)
      /\ pos[n] \in Nat /\ todo[n] \in Seq(Unit) /\ l \in Nat
  <2>1. pos \in [HwIds -> Nat] /\ todo \in [HwIds -> Seq(Unit)]
    BY DEF TypeOK
  <2>2. /\ pos' = [pos EXCEPT ![n] = @ + c]
        /\ todo' = [todo EXCEPT ![n] = SubSeq(@, c + 1, Len(@))]
    BY <1>2 DEF Copy
  <2>3. l \in Nat
    BY <2>1, <1>2
  <2> QED BY <2>1, <2>2, <2>3, <1>2
<1>4. \A i \in c + 1 .. l : todo[n][i] \in Unit
  BY <1>1, <1>2, <1>3
<1>5. PICK a : a = c + 1
  OBVIOUS
<1>6. /\ a \in Int /\ l \in Int /\ l - a + 1 = l - c
      /\ \A i \in a .. l : todo[n][i] \in Unit
  BY <1>1, <1>2, <1>3, <1>4, <1>5
<1>7. /\ Len(SubSeq(todo[n], a, l)) = IF a <= l THEN l - a + 1 ELSE 0
      /\ \A i \in 1 .. l - a + 1 : SubSeq(todo[n], a, l)[i] = todo[n][a + i - 1]
  BY <1>6, SubSeqProperties
<1>8. Len(SubSeq(todo[n], a, l)) = l - c
  <2>1. (IF a <= l THEN l - a + 1 ELSE 0) = l - c
    BY <1>1, <1>2, <1>3, <1>5
  <2> QED BY <2>1, <1>7
<1>9. \A i \in 1 .. l - c : SubSeq(todo[n], a, l)[i] = todo[n][c + i]
  <2>1. \A i \in 1 .. l - c : a + i - 1 = c + i
    BY <1>1, <1>2, <1>3, <1>5
  <2> QED BY <2>1, <1>6, <1>7
<1>10. SubSeq(todo[n], a, l) = todo'[n]
  BY <1>3, <1>5
<1>11. pos'[n] + Len(todo'[n]) = pos[n] + Len(todo[n])
  BY <1>1, <1>2, <1>3, <1>8, <1>10
<1> QED BY <1>1, <1>2, <1>3, <1>8, <1>9, <1>10, <1>11

(* A round of RfDispatch.                                                   *)
LEMMA CopyFits ==
  ASSUME IInv, FInv, NEW n \in HwIds, Copy(n) \/ Save(n)
  PROVE  FInv'
<1>0. TypeOK /\ Dispatching
  BY DEF IInv
<1>1. /\ Strays' \in Nat /\ Strays' >= Strays
      /\ FilesPublished' /\ \A m \in HwIds \ {n} : Fits(m)'
  BY <1>0, LoaderStrays DEF Loader
<1>2. Fits(n)'
  <2>1. /\ pc[n] \in {"copy", "save"} /\ pc'[n] \in {"copy", "save"}
        /\ UNCHANGED <<req, flush>> /\ req[n].kind = "fetch"
    BY <1>0 DEF Copy, Save, TypeOK, Dispatching
  <2>2. pos'[n] + Len(todo'[n]) = pos[n] + Len(todo[n])
    <3>1. CASE Copy(n)
      BY <1>0, <3>1, CopyMoves
    <3>2. CASE Save(n)
      BY <3>2 DEF Save
    <3> QED BY <3>1, <3>2
  <2>3. PICK s, t : s = Strays /\ t = Strays'
    OBVIOUS
  <2>4. CASE flush[n]
    BY <2>1, <2>2, <2>4 DEF FInv, Fits
  <2>5. CASE ~flush[n]
    <3>1. Within(pos[n], Len(todo[n]), req[n].swIndex + 1, t)
      <4>1. Within(pos[n], Len(todo[n]), req[n].swIndex + 1, s)
        BY <2>1, <2>3, <2>5 DEF FInv, Fits
      <4>2. /\ pos[n] \in Nat /\ Len(todo[n]) \in Nat /\ req[n].swIndex + 1 \in Nat
            /\ s \in Nat /\ t \in Nat /\ t >= s
        BY <1>0, <1>1, <2>1, <2>3, FitTypes DEF FInv
      <4> QED BY <4>1, <4>2, WithinKept
    <3>2. Within(pos'[n], Len(todo'[n]), req[n].swIndex + 1, t)
      BY <3>1, <2>2, Zenon DEF Within
    <3> QED BY <2>1, <2>3, <2>5, <3>2 DEF Fits
  <2> QED BY <2>4, <2>5
<1> QED BY <1>1, <1>2 DEF FInv

(* The next request is for the next chunk.                                  *)
LEMMA DispatchedFits ==
  ASSUME IInv, FInv, NEW n \in HwIds, Dispatched(n)
  PROVE  FInv'
<1>0. TypeOK /\ Dispatching
  BY DEF IInv
<1>1. /\ Strays' \in Nat /\ Strays' >= Strays
      /\ FilesPublished' /\ \A m \in HwIds \ {n} : Fits(m)'
  BY <1>0, LoaderStrays DEF Loader
<1>2. Fits(n)'
  <2>1. /\ pc[n] = "copy" /\ todo[n] = <<>> /\ UNCHANGED <<pos, todo, flush>>
        /\ pc'[n] = "send" /\ req[n].kind = "fetch"
        /\ flush[n] => req'[n].kind = "hello"
        /\ ~flush[n] => req'[n].swIndex = req[n].swIndex + 1
    BY <1>0 DEF Dispatched, Ask, TypeOK, Dispatching, HelloOf, NextIndex
  <2>2. CASE flush[n]
    BY <2>1, <2>2 DEF Fits
  <2>3. CASE ~flush[n]
    <3>1. PICK s, t : s = Strays /\ t = Strays'
      OBVIOUS
    <3>2. Len(todo[n]) = 0
      BY <2>1
    <3>3. Within(pos[n], 0, req[n].swIndex + 1, s)
      BY <2>1, <2>3, <3>1, <3>2 DEF FInv, Fits
    <3>4. /\ pos[n] \in Nat /\ 0 \in Nat /\ req[n].swIndex + 1 \in Nat
          /\ s \in Nat /\ t \in Nat /\ t >= s
      BY <1>0, <1>1, <2>1, <3>1, FitTypes DEF FInv
    <3>5. Within(pos[n], 0, req[n].swIndex + 1, t)
      BY <3>3, <3>4, WithinKept
    <3> QED BY <2>1, <2>3, <3>1, <3>5 DEF Fits
  <2> QED BY <2>2, <2>3
<1> QED BY <1>1, <1>2 DEF FInv

(* A power failure.                                                         *)
LEMMA ResetFits ==
  ASSUME TypeOK, FInv, NEW n \in HwIds, Reset(n)
  PROVE  FInv'
<1>1. /\ UNCHANGED <<files, serving, overheard>>
      /\ IF serving = Idle THEN lates' = lates ELSE lates' = lates + 1
      /\ req'[n] = HelloOf(n)
      /\ \A m \in HwIds \ {n} :
           UNCHANGED <<pc[m], req[m], pos[m], todo[m], flush[m], reply[m]>>
  BY DEF Reset, TypeOK
<1>2. Strays' \in Nat /\ Strays' >= Strays
  <2>0. lates \in Nat /\ overheard \in Nat
    BY FitConstants DEF TypeOK
  <2>1. lates' \in Nat /\ overheard' \in Nat /\ overheard' >= overheard
    BY <1>1, <2>0
  <2>2. serving = Idle => ~Forsaken'
    BY <1>1 DEF Forsaken
  <2> QED BY <2>1, <2>2, <1>1, StraysKept DEF FInv
<1>3. FilesPublished'
  BY <1>1 DEF FInv, FilesPublished
<1>4. Fits(n)'
  BY <1>1 DEF Fits, HelloOf
<1>5. \A m \in HwIds \ {n} : Fits(m)'
  BY <1>1, <1>2, FitsKept DEF FInv
<1> QED BY <1>2, <1>3, <1>4, <1>5 DEF FInv

(* A file replaced on the server has to fit, too.                           *)
LEMMA PublishFits ==
  ASSUME TypeOK, FInv, NEW s \in SwIds, NEW file \in Versions[s], Publish(s, file)
  PROVE  FInv'
<1>1. UNCHANGED <<serving, pc, req, reply, pos, todo, flush, overheard, lates>>
  BY DEF Publish, loaderVars
<1>2. FilesPublished'
  BY DEF FInv, FilesPublished, TypeOK, Publish
<1>3. Strays' \in Nat /\ Strays' >= Strays
  <2>0. lates \in Nat /\ overheard \in Nat
    BY FitConstants DEF TypeOK
  <2>1. lates' \in Nat /\ overheard' \in Nat /\ overheard' >= overheard
    BY <1>1, <2>0
  <2>2. Forsaken' => Forsaken
    BY <1>1 DEF Forsaken
  <2> QED BY <2>1, <2>2, <1>1, StraysKept DEF FInv
<1> QED BY <1>1, <1>2, <1>3, FitsKept DEF FInv

(* At first nothing is fetched.                                             *)
LEMMA InitFits == Init => FInv
<1> SUFFICES ASSUME Init PROVE FInv
  OBVIOUS
<1>1. FilesPublished /\ ~Forsaken /\ lates = 0 /\ overheard = 0
  BY DEF Init, FilesPublished, Forsaken
<1>2. Strays = 0
  <2>1. lates + overheard - 0 = 0
    BY <1>1
  <2> QED BY <1>1, <2>1, Zenon DEF Strays
<1>3. \A n \in HwIds : Fits(n)
  BY DEF Init, InitLoader, HelloOf, Fits
<1> QED BY <1>1, <1>2, <1>3 DEF FInv

(* Every step keeps loaders within the bounds.                              *)
LEMMA NextFits ==
  ASSUME Fitting, IInv, FInv, [Next]_vars
  PROVE  FInv'
<1>0. TypeOK
  BY DEF IInv
<1>1. CASE Serve
  BY <1>0, <1>1, ServeFits
<1>2. ASSUME NEW n \in HwIds, Send(n) \/ Timeout(n) \/ Reset(n) PROVE FInv'
  BY <1>0, <1>2, SendFits, TimeoutFits, ResetFits
<1>3. ASSUME NEW n \in HwIds, Loader(n) PROVE FInv'
  <2>1. CASE IdentifyFailed(n)
    <3>1. /\ Strays' \in Nat /\ Strays' >= Strays
          /\ FilesPublished' /\ \A m \in HwIds \ {n} : Fits(m)'
      BY <1>0, <1>3, LoaderStrays
    <3>2. Fits(n)'
      BY <1>0, <2>1 DEF IdentifyFailed, Fits
    <3> QED BY <3>1, <3>2 DEF FInv
  <2> QED BY <1>0, <1>3, <2>1, IdentifiedFits, FetchedFits, FetchEndFits, CopyFits,
             DispatchedFits DEF Loader
<1>4. ASSUME NEW s \in SwIds, NEW file \in Versions[s], Publish(s, file) PROVE FInv'
  BY <1>0, <1>4, PublishFits
<1>5. CASE UNCHANGED vars
  <2>1. UNCHANGED <<files, serving, pc, req, reply, pos, todo, flush, lates, overheard>>
    BY <1>5 DEF vars, loaderVars, budgetVars
  <2>2. FilesPublished' /\ Strays' = Strays
    BY <2>1 DEF FInv, FilesPublished, Strays, Forsaken
  <2>3. Strays' \in Nat /\ Strays' >= Strays
    BY <2>2 DEF FInv
  <2> QED BY <1>0, <2>1, <2>2, <2>3, FitsKept DEF FInv
<1> QED BY <1>1, <1>2, <1>3, <1>4, <1>5 DEF Next

(* The page that RfDispatch erases or saves is one before the loader's.     *)
LEMMA PageBelow ==
  ASSUME IInv, FInv, NEW n \in HwIds
  PROVE  /\ Copy(n) => pos[n] \div PageSize \in 0 .. LoadPage - 1
         /\ Save(n) => pageNum[n] \in 0 .. LoadPage - 1
<1>1. /\ TypeOK /\ BufferInStep /\ Dispatching /\ PageSize \in Nat \ {0} /\ LoadPage \in Nat
      /\ pos[n] \in Nat /\ pageNum[n] \in Nat /\ Len(todo[n]) \in Nat
      /\ pageFill[n] \in 0 .. PageSize /\ todo[n] \in Seq(Unit)
  <2>1. TypeOK /\ BufferInStep /\ Dispatching
    BY DEF IInv
  <2>2. PageSize \in Nat \ {0} /\ LoadPage \in Nat
    BY SlotFacts, LoaderAssumption
  <2>3. /\ pos[n] \in Nat /\ pageNum[n] \in Nat
        /\ pageFill[n] \in 0 .. PageSize /\ todo[n] \in Seq(Unit)
    BY <2>1 DEF TypeOK
  <2>4. Len(todo[n]) \in Nat
    BY <2>3
  <2> QED BY <2>1, <2>2, <2>3, <2>4
<1>2. ASSUME pc[n] \in {"copy", "save"} PROVE pos[n] + Len(todo[n]) <= Limit
  <2>1. req[n].kind = "fetch"
    BY <1>1, <1>2 DEF Dispatching
  <2>2. CASE flush[n]
    BY <1>2, <2>1, <2>2 DEF FInv, Fits
  <2>3. CASE ~flush[n]
    <3>1. PICK at \in Nat, len \in Nat : at = pos[n] /\ len = Len(todo[n])
      BY <1>1
    <3>2. Within(at, len, req[n].swIndex + 1, Strays)
      BY <1>2, <2>1, <2>3, <3>1 DEF FInv, Fits
    <3> QED BY <1>1, <3>1, <3>2, WithinLimit
  <2> QED BY <2>2, <2>3
<1>3. ASSUME Copy(n) PROVE pos[n] \div PageSize \in 0 .. LoadPage - 1
  <2>1. pc[n] = "copy" /\ todo[n] # <<>> /\ req[n].kind = "fetch"
    BY <1>1, <1>3 DEF Copy, Dispatching
  <2>2. Len(todo[n]) > 0
    BY <1>1, <2>1, EmptySeq
  <2>3. pos[n] < Limit
    <3>1. Limit \in Nat
      BY FitConstants
    <3> QED BY <3>1, <1>1, <1>2, <2>1, <2>2
  <2>4. PICK k \in 0 .. pos[n] : pos[n] = k * PageSize + pageFill[n]
    BY <1>1, <2>1 DEF BufferInStep
  <2>5. k \in Nat /\ pageFill[n] \in 0 .. PageSize - 1
    <3>1. pageFill[n] < PageSize
      BY <1>1, <2>1 DEF BufferInStep
    <3> QED BY <3>1, <1>1, <2>4
  <2>6. k + 1 <= LoadPage
    <3>1. k * PageSize + pageFill[n] < LoadPage * PageSize
      BY <2>3, <2>4 DEF Limit
    <3> QED BY <3>1, <1>1, <2>5, PageEnd
  <2>7. pos[n] \div PageSize = k
    BY <1>1, <2>4, <2>5, PageOfPos
  <2> QED BY <1>1, <2>5, <2>6, <2>7
<1>4. ASSUME Save(n) PROVE pageNum[n] \in 0 .. LoadPage - 1
  <2>1. pc[n] = "save"
    BY <1>4 DEF Save
  <2>2. pos[n] = (pageNum[n] + 1) * PageSize
    BY <1>1, <2>1 DEF BufferInStep
  <2>3. (pageNum[n] + 1) * PageSize <= Limit
    <3>1. Limit \in Nat
      BY FitConstants
    <3>2. pos[n] <= Limit
      BY <3>1, <1>1, <1>2, <2>1
    <3> QED BY <3>2, <2>2
  <2>4. pageNum[n] * PageSize + 0 < LoadPage * PageSize
    <3>1. (pageNum[n] + 1) * PageSize = pageNum[n] * PageSize + PageSize
      BY <1>1
    <3>2. PICK a, b : a = pageNum[n] * PageSize /\ b = LoadPage * PageSize
      OBVIOUS
    <3>3. a \in Nat /\ b \in Nat
      BY <1>1, <3>2
    <3>4. a + PageSize <= b
      BY <2>3, <3>1, <3>2 DEF Limit
    <3>5. a + 0 < b
      BY <1>1, <3>3, <3>4
    <3> QED BY <3>2, <3>5
  <2>5. 0 \in 0 .. PageSize - 1
    BY <1>1
  <2>6. pageNum[n] + 1 <= LoadPage
    BY <1>1, <2>4, <2>5, PageEnd
  <2> QED BY <1>1, <2>6
<1> QED BY <1>3, <1>4

(* Programming a page leaves the others alone.                              *)
LEMMA ProgramOne ==
  ASSUME TypeOK, NEW n \in HwIds, NEW page \in Pages, NEW content, Program(n, page, content)
  PROVE  /\ \A m \in HwIds \ {n} : flash'[m] = flash[m]
         /\ \A p \in Pages \ {page} : flash'[n][p] = flash[n][p]
         /\ flash'[n][page] = content
<1>1. flash' = [flash EXCEPT ![n][page] = content]
  BY DEF Program
<1>2. flash \in [HwIds -> Flash] /\ flash[n] \in [Pages -> Page]
  BY DEF TypeOK, Flash
<1> QED BY <1>1, <1>2

(* A node comes with its loader.                                            *)
LEMMA InitIntact == Init => LoaderIntact
<1> SUFFICES ASSUME Init, NEW n \in HwIds, NEW p \in LoadPage .. FlashPages - 1,
                    NEW i \in Slots
             PROVE  flash[n][p][i] = LoaderUnit
  BY DEF LoaderIntact
<1>1. p \in Pages /\ p # 0 /\ p >= LoadPage
  BY LoaderAssumption DEF Pages
<1>2. \A file : Installed(file)[p][i] = LoaderUnit
  BY <1>1 DEF Installed
<1>3. \E file : flash[n] = Installed(file)
  BY DEF Init, Factory
<1> QED BY <1>2, <1>3

(* LoaderIntact: when every file fits below the loader with room for as     *)
(* many chunks as there can be stray replies, no fetchAll, however often it *)
(* is cut short, answered wrongly or started over, erases or writes a page  *)
(* of the loader.                                                           *)
THEOREM LoaderAlwaysIntact == Fitting => (Spec => []LoaderIntact)
<1> SUFFICES ASSUME Fitting PROVE Spec => []LoaderIntact
  OBVIOUS
<1>1. IInv /\ FInv /\ [Next]_vars => FInv'
  BY NextFits
<1>2. IInv /\ FInv /\ LoaderIntact /\ [Next]_vars => LoaderIntact'
  <2> SUFFICES ASSUME IInv, FInv, LoaderIntact, [Next]_vars PROVE LoaderIntact'
    OBVIOUS
  <2>1. CASE flash' = flash
    BY <2>1 DEF LoaderIntact
  <2>2. ASSUME NEW n \in HwIds, NEW page \in 0 .. LoadPage - 1, NEW content,
               Program(n, page, content)
        PROVE  LoaderIntact'
    <3>1. TypeOK /\ page \in Pages
          /\ \A p \in LoadPage .. FlashPages - 1 : p \in Pages /\ p # page
      BY LoaderAssumption DEF IInv, Pages
    <3>2. \A m \in HwIds : \A p \in LoadPage .. FlashPages - 1 : flash'[m][p] = flash[m][p]
      BY <3>1, <2>2, ProgramOne
    <3> QED BY <3>2 DEF LoaderIntact
  <2>3. ASSUME NEW n \in HwIds, Copy(n) PROVE LoaderIntact'
    <3>1. flash' = flash \/ Program(n, pos[n] \div PageSize, ErasedPage)
      BY <2>3 DEF Copy
    <3> QED BY <3>1, <2>1, <2>2, <2>3, PageBelow
  <2>4. ASSUME NEW n \in HwIds, Save(n) PROVE LoaderIntact'
    <3>1. Program(n, pageNum[n], pageBuf[n])
      BY <2>4 DEF Save
    <3> QED BY <3>1, <2>2, <2>4, PageBelow
  <2>5. CASE UNCHANGED vars \/ Serve \/ \E s \in SwIds : \E file \in Versions[s] : Publish(s, file)
    BY <2>1, <2>5 DEF vars, loaderVars, Serve, Publish
  <2>6. ASSUME NEW n \in HwIds,
               \/ Send(n) \/ Timeout(n) \/ Reset(n) \/ IdentifyFailed(n) \/ Identified(n)
               \/ Fetched(n) \/ FetchEnd(n) \/ Dispatched(n)
        PROVE  LoaderIntact'
    BY <2>1, <2>6 DEF Send, Timeout, Reset, IdentifyFailed, Identified, Fetched,
                      FetchEnd, Dispatched
  <2> QED BY <2>3, <2>4, <2>5, <2>6 DEF Next, Loader
<1> QED BY <1>1, <1>2, Invariance, InitFits, InitIntact, PTL DEF Spec

-----------------------------------------------------------------------------
(* A reliable and prompt server: the image arrives unit by unit.            *)

(* Every file holds a vector table, with the unused vector and the checksum *)
(* left 0: that is what un-patching page 0 brings back.                     *)
Vectors ==
  \A s \in SwIds : \A v \in Versions[s] : \A slot \in {SpareSlot, SumSlot} :
    slot < Len(v) /\ v[slot + 1] = Zero

Steady == Prompt /\ Reliable /\ MaxPublish = 0 /\ Fitting /\ Vectors

(* A unit of the file, or of what fills its last page.                      *)
Whole(file, i) == IF i < Len(file) THEN file[i + 1] ELSE Blank

(* A page as main sees it.                                                  *)
Plain(page, p) == IF p = 0 THEN Unpatch(page) ELSE page

(* The units of a file in: its pages, the page to be saved, a started page, *)
(* and the data of a chunk.                                                 *)
PageRight(file, page, p) ==
  \A i \in Slots : Plain(page, p)[i] = Whole(file, p * PageSize + i)
PagesRight(file, pages, count) ==
  \A p \in 0 .. count - 1 : PageRight(file, pages[p], p)
BufRight(file, buf, fill, at) ==
  \A i \in 0 .. fill - 1 : buf[i] = Whole(file, at - fill + i)
DataRight(file, data, at) ==
  \A i \in 1 .. Len(data) : data[i] = Whole(file, at + i - 1)

(* The file that is fetched, and how many of its pages are saved.           *)
Part(n)  == LoadFile(files, swid[n])
Saved(n) == IF pc[n] = "save" THEN pageNum[n] ELSE pos[n] \div PageSize

(* The chunks that were fetched are those asked for; what came is in place. *)
Stream(n) ==
  req[n].kind = "fetch" =>
    /\ swid[n] = req[n].swId /\ swid[n] \in SwIds
    /\ pc[n] \in {"send", "listen", "replied"} =>
         pos[n] = Lesser(req[n].swIndex * DataMax, Len(Part(n)))
    /\ pc[n] \in {"copy", "save"} => DataRight(Part(n), todo[n], pos[n])
    /\ pc[n] \in {"copy", "save"} /\ ~flush[n] =>
         pos[n] + Len(todo[n]) = Lesser((req[n].swIndex + 1) * DataMax, Len(Part(n)))
    /\ PagesRight(Part(n), flash[n], Saved(n))
    /\ pc[n] # "save" => BufRight(Part(n), pageBuf[n], pageFill[n], pos[n])
    /\ pc[n] = "save" => PageRight(Part(n), pageBuf[n], pageNum[n])

SInv == \A n \in HwIds : Stream(n)

(* A page that is full is a page of the file, patched or not.               *)
LEMMA FullPage ==
  ASSUME NEW file, NEW buf \in Page, NEW k \in Nat,
         BufRight(file, buf, PageSize, k * PageSize + PageSize),
         Whole(file, SpareSlot) = Zero, Whole(file, SumSlot) = Zero
  PROVE  PageRight(file, IF k = 0 THEN Patch(buf) ELSE buf, k)
<1>1. PICK m : m = k * PageSize
  OBVIOUS
<1>2. m \in Nat /\ PageSize \in Nat \ {0}
  BY <1>1, SlotFacts
<1>3. ASSUME NEW i \in Slots PROVE buf[i] = Whole(file, m + i)
  <2>1. i \in 0 .. PageSize - 1
    BY SlotFacts
  <2>2. (m + PageSize) - PageSize + i = m + i
    BY <1>2, <2>1
  <2>3. BufRight(file, buf, PageSize, m + PageSize)
    BY <1>1, Zenon
  <2>4. buf[i] = Whole(file, (m + PageSize) - PageSize + i)
    BY <2>1, <2>3, Zenon DEF BufRight
  <2> QED BY <2>2, <2>4, Zenon
<1>4. CASE k = 0
  <2>1. m = 0
    BY <1>1, <1>2, <1>4
  <2>2. \A i \in Slots : buf[i] = Whole(file, i)
    <3>1. \A i \in Slots : m + i = i
      BY <2>1, SlotFacts
    <3> QED BY <3>1, <1>3
  <2>3. \A i \in Slots : Unpatch(Patch(buf))[i] = buf[i]
    <3>1. buf[SpareSlot] = Zero /\ buf[SumSlot] = Zero
      BY <2>2, SlotFacts
    <3> QED BY <3>1, LoaderAssumption DEF Unpatch, Patch, Page
  <2>4. \A i \in Slots : Unpatch(Patch(buf))[i] = Whole(file, m + i)
    BY <2>3, <1>3
  <2> QED BY <1>1, <1>4, <2>4 DEF PageRight, Plain
<1>5. CASE k # 0
  BY <1>1, <1>3, <1>5 DEF PageRight, Plain
<1> QED BY <1>4, <1>5

(* One more page of the file saved.                                         *)
LEMMA PageSaved ==
  ASSUME NEW file, NEW pages, NEW after, NEW k \in Nat, PagesRight(file, pages, k),
         PageRight(file, after[k], k), \A p \in 0 .. k - 1 : after[p] = pages[p]
  PROVE  PagesRight(file, after, k + 1)
<1>1. \A p \in 0 .. k : p \in 0 .. k - 1 \/ p = k
  OBVIOUS
<1>2. k + 1 - 1 = k
  OBVIOUS
<1> QED BY <1>1, <1>2 DEF PagesRight

(* The file that is fetched, as the server has it.                          *)
LEMMA PartType ==
  ASSUME TypeOK, FilesPublished, NEW n \in HwIds, swid[n] \in SwIds
  PROVE  /\ Part(n) \in Seq(Unit) /\ Len(Part(n)) \in Nat
         /\ Vectors => Whole(Part(n), SpareSlot) = Zero /\ Whole(Part(n), SumSlot) = Zero
<1>1. Part(n) = files[swid[n]] /\ Part(n) \in Versions[swid[n]]
  BY DEF Part, LoadFile, FilesPublished
<1>2. Part(n) \in Seq(Unit)
  BY <1>1 DEF TypeOK
<1> QED BY <1>1, <1>2 DEF Vectors, Whole

(* With a steady server the reply is the answer from the files it has.      *)
LEMMA AnswerIs ==
  ASSUME Steady, PInv, NEW n \in HwIds, pc[n] = "replied"
  PROVE  reply[n] = Answer(files, req[n])
  BY DEF Steady, PInv, AnswerHeld, Answers

(* A chunk that came: its data, and where the position stands.              *)
LEMMA ChunkCame ==
  ASSUME Steady, TypeOK, PInv, NEW n \in HwIds, Stream(n), pc[n] = "replied",
         req[n].kind = "fetch"
  PROVE  /\ reply[n].kind = "fetch" /\ reply[n].data \in Seq(Unit)
         /\ reply[n].data = <<>> => pos[n] = Len(Part(n))
         /\ DataRight(Part(n), reply[n].data, pos[n])
         /\ reply[n].data # <<>> =>
              pos[n] + Len(reply[n].data)
                = Lesser((req[n].swIndex + 1) * DataMax, Len(Part(n)))
<1>1. PICK file, p, data : /\ file = Part(n) /\ p = req[n].swIndex * DataMax
                           /\ data = reply[n].data
  OBVIOUS
<1>2. /\ swid[n] = req[n].swId /\ swid[n] \in SwIds /\ pos[n] = Lesser(p, Len(file))
  BY <1>1 DEF Stream
<1>3. reply[n] = Answer(files, req[n])
  BY AnswerIs
<1>4. req[n] \in FetchRequest /\ req[n].swIndex \in Nat
  BY FitTypes
<1>5. files \in [SwIds -> Seq(Unit)] /\ file = LoadFile(files, req[n].swId)
  BY <1>1, <1>2 DEF TypeOK, Part
<1>6. reply[n].kind = "fetch" /\ file \in Seq(Unit) /\ p \in Nat /\ IsPiece(data, file, p)
  BY <1>1, <1>3, <1>4, <1>5, FetchData
<1>7. PICK size \in Nat, len \in Nat : size = Len(file) /\ len = Len(data)
  BY <1>6 DEF IsPiece
<1>8. data \in Seq(Unit)
  BY <1>6 DEF IsPiece
<1>9. /\ size <= p => len = 0 /\ data = <<>>
      /\ size > p => len = Lesser(DataMax, size - p)
      /\ pos[n] = Lesser(p, size)
      /\ DataMax \in Nat \ {0}
  BY <1>2, <1>6, <1>7, ServerAssumption DEF IsPiece
<1>10. len = 0 => pos[n] = size
  BY <1>9, <1>6 DEF Lesser
<1>11. len # 0 => pos[n] = p /\ p < size
  BY <1>9, <1>6 DEF Lesser
<1>12. DataRight(file, data, pos[n])
  <2> SUFFICES ASSUME NEW i \in 1 .. len PROVE data[i] = Whole(file, pos[n] + i - 1)
    BY <1>7 DEF DataRight
  <2>1. p + i \in 1 .. size /\ data[i] = file[p + i]
    BY <1>6, <1>7 DEF IsPiece
  <2>2. pos[n] = p /\ pos[n] + i - 1 < size /\ (pos[n] + i - 1) + 1 = p + i
    BY <1>6, <1>11, <2>1
  <2> QED BY <1>7, <2>1, <2>2 DEF Whole
<1>13. data # <<>> => pos[n] + len = Lesser((req[n].swIndex + 1) * DataMax, size)
  <2> SUFFICES ASSUME data # <<>>
               PROVE  pos[n] + len = Lesser((req[n].swIndex + 1) * DataMax, size)
    OBVIOUS
  <2>1. len # 0
    BY <1>7, <1>8, EmptySeq
  <2>2. (req[n].swIndex + 1) * DataMax = p + DataMax
    BY <1>1, <1>4, <1>9
  <2>3. p + len = Lesser(p + DataMax, size)
    BY <1>6, <1>9, <1>11, <2>1 DEF Lesser
  <2> QED BY <1>11, <2>1, <2>2, <2>3
<1>14. data = <<>> => pos[n] = size
  BY <1>7, <1>10
<1> QED BY <1>1, <1>6, <1>7, <1>8, <1>12, <1>13, <1>14

(* A loader on which nothing but the place in request() changes.            *)
LEMMA StreamKept ==
  ASSUME NEW n \in HwIds, Stream(n), UNCHANGED files,
         UNCHANGED <<req[n], swid[n], pos[n], pageFill[n], pageBuf[n], todo[n],
                     flush[n], pageNum[n], flash[n]>>,
         \/ pc'[n] = pc[n]
         \/ pc[n] \in {"send", "listen", "replied"} /\ pc'[n] \in {"send", "listen", "replied"}
  PROVE  Stream(n)'
<1>1. Part(n)' = Part(n)
  BY DEF Part
<1>2. Saved(n)' = Saved(n)
  BY DEF Saved
<1> QED BY <1>1, <1>2 DEF Stream

(* The reply to hello says which file; nothing of it is there yet.          *)
LEMMA IdentifiedStream ==
  ASSUME Steady, IInv, PInv, NEW n \in HwIds, Identified(n)
  PROVE  Stream(n)'
<1> SUFFICES ASSUME req'[n].kind = "fetch" PROVE Stream(n)'
  BY DEF Stream
<1>0. TypeOK /\ BufferInStep
  BY DEF IInv
<1>1. /\ pc[n] = "replied" /\ req[n].kind = "hello"
      /\ UNCHANGED <<files, pageFill, todo, flush, pageNum, flash>>
      /\ pc \in [HwIds -> LocState] /\ req \in [HwIds -> Request] /\ pos \in [HwIds -> Nat]
      /\ swid \in [HwIds -> AnySwId]
  BY <1>0 DEF Identified, TypeOK
<1>2. ~CrcAgrees(n, HelloView(reply[n]).crc)
  BY <1>1 DEF Identified
<1>3. /\ pc'[n] = "send" /\ pos'[n] = 0 /\ swid'[n] = HelloView(reply[n]).swId
      /\ req'[n].swId = HelloView(reply[n]).swId /\ req'[n].swIndex = 0
  BY <1>1, <1>2 DEF Identified, Ask
<1>4. HelloView(reply[n]).swId \in SwIds
  <2>1. reply[n] = Answer(files, req[n])
    BY <1>1, AnswerIs
  <2>2. req[n] \in HelloRequest
    BY <1>1 DEF Request, FetchRequest
  <2>3. HelloView(reply[n]).swId = Assign[req[n].hwId] /\ req[n].hwId \in HwIds
    BY <2>1, <2>2 DEF Answer, Hello, HelloView, HelloRequest
  <2> QED BY <2>3, ServerAssumption
<1>5. pageFill'[n] = 0
  BY <1>0, <1>1 DEF BufferInStep
<1>6. Saved(n)' = 0
  <2>1. 0 \div PageSize = 0
    BY SlotFacts
  <2> QED BY <2>1, <1>3 DEF Saved
<1>7. PICK file : file = Part(n)'
  OBVIOUS
<1>8. PagesRight(file, flash'[n], 0) /\ BufRight(file, pageBuf'[n], 0, 0)
  BY DEF PagesRight, BufRight
<1>9. 0 = Lesser(0 * DataMax, Len(file))
  <2>1. swid'[n] \in SwIds
    BY <1>3, <1>4
  <2>2. file = files[swid'[n]]
    BY <1>1, <1>7, <2>1 DEF Part, LoadFile
  <2>3. Len(file) \in Nat
    BY <1>0, <2>1, <2>2 DEF TypeOK
  <2>4. 0 * DataMax = 0
    BY FitConstants
  <2> QED BY <2>3, <2>4 DEF Lesser
<1> QED BY <1>3, <1>4, <1>5, <1>6, <1>7, <1>8, <1>9 DEF Stream

(* A chunk came.                                                            *)
LEMMA FetchedStream ==
  ASSUME Steady, TypeOK, PInv, NEW n \in HwIds, Stream(n), Fetched(n)
  PROVE  Stream(n)'
<1>1. /\ pc[n] = "replied" /\ req[n].kind = "fetch" /\ ReplyLen(reply[n]) - HdrLen > 0
      /\ todo'[n] = FetchView(reply[n]) /\ ~flush'[n] /\ pc'[n] = "copy"
      /\ UNCHANGED <<files, req, swid, pos, pageFill, pageBuf, pageNum, flash>>
  BY DEF Fetched, TypeOK
<1>2. /\ reply[n].kind = "fetch" /\ reply[n].data \in Seq(Unit)
      /\ DataRight(Part(n), reply[n].data, pos[n])
      /\ reply[n].data # <<>> =>
           pos[n] + Len(reply[n].data) = Lesser((req[n].swIndex + 1) * DataMax, Len(Part(n)))
  BY <1>1, ChunkCame
<1>3. todo'[n] = reply[n].data /\ ReplyLen(reply[n]) = HdrLen + Len(reply[n].data)
  BY <1>1, <1>2 DEF FetchView, ReplyLen
<1>4. reply[n].data # <<>>
  <2>1. SUFFICES ASSUME reply[n].data = <<>> PROVE FALSE
    OBVIOUS
  <2>2. Len(reply[n].data) = 0
    BY <2>1
  <2> QED BY <2>2, <1>1, <1>3, ServerAssumption
<1>5. Part(n)' = Part(n)
  BY <1>1 DEF Part
<1>6. Saved(n)' = Saved(n)
  BY <1>1 DEF Saved
<1> QED BY <1>1, <1>2, <1>3, <1>4, <1>5, <1>6 DEF Stream

(* The end of the file.                                                     *)
LEMMA FetchEndStream ==
  ASSUME Steady, TypeOK, PInv, NEW n \in HwIds, Stream(n), FetchEnd(n)
  PROVE  Stream(n)'
<1>1. /\ pc[n] = "replied" /\ req[n].kind = "fetch" /\ ReplyLen(reply[n]) - HdrLen <= 0
      /\ todo'[n] = Padding(n) /\ flush'[n] /\ pc'[n] = "copy"
      /\ UNCHANGED <<files, req, swid, pos, pageFill, pageBuf, pageNum, flash>>
  BY DEF FetchEnd, TypeOK
<1>2. /\ reply[n].kind = "fetch" /\ reply[n].data \in Seq(Unit)
      /\ reply[n].data = <<>> => pos[n] = Len(Part(n))
  BY <1>1, ChunkCame
<1>3. reply[n].data = <<>>
  <2>1. ReplyLen(reply[n]) = HdrLen + Len(reply[n].data)
    BY <1>2 DEF ReplyLen
  <2>2. PICK len \in Nat : len = Len(reply[n].data)
    BY <1>2
  <2>3. len = 0
    BY <2>1, <2>2, <1>1, ServerAssumption
  <2> QED BY <2>2, <2>3, <1>2, EmptySeq
<1>4. DataRight(Part(n), Padding(n), pos[n])
  <2>1. \A i \in 1 .. Len(Padding(n)) : Padding(n)[i] = Blank
    <3>1. pageFill[n] \in 0 .. PageSize /\ PageSize \in Nat
      BY SlotFacts DEF TypeOK
    <3>2. CASE pageFill[n] > 0
      <4>1. PICK len : len = PageSize - pageFill[n]
        OBVIOUS
      <4>2. len \in Nat /\ Padding(n) = [i \in 1 .. len |-> Blank]
        BY <3>1, <3>2, <4>1 DEF Padding
      <4>3. Len(Padding(n)) = len
        BY <4>2
      <4> QED BY <4>2, <4>3
    <3>3. CASE ~(pageFill[n] > 0)
      BY <3>3 DEF Padding
    <3> QED BY <3>2, <3>3
  <2>2. PICK at \in Nat : at = pos[n] /\ at = Len(Part(n))
    BY <1>2, <1>3 DEF TypeOK
  <2>3. ASSUME NEW i \in 1 .. Len(Padding(n)) PROVE ~(at + i - 1 < Len(Part(n)))
    <3>1. i \in Int /\ i >= 1
      <4>1. Len(Padding(n)) \in Nat
        <5>1. Padding(n) \in Seq(Unit)
          BY PaddingType
        <5> QED BY <5>1
      <4> QED BY <4>1
    <3> QED BY <3>1, <2>2
  <2> QED BY <2>1, <2>2, <2>3 DEF DataRight, Whole
<1>5. Part(n)' = Part(n)
  BY <1>1 DEF Part
<1>6. Saved(n)' = Saved(n)
  BY <1>1 DEF Saved
<1> QED BY <1>1, <1>4, <1>5, <1>6 DEF Stream

(* The next units in the page buffer.                                       *)
LEMMA FilledRight ==
  ASSUME TypeOK, NEW n \in HwIds, NEW file,
         BufRight(file, pageBuf[n], pageFill[n], pos[n]), DataRight(file, todo[n], pos[n])
  PROVE  BufRight(file, Filled(n), pageFill[n] + CopyCount(n), pos[n] + CopyCount(n))
<1>1. PICK c, f, at : c = CopyCount(n) /\ f = pageFill[n] /\ at = pos[n]
  OBVIOUS
<1>2. /\ c \in Nat /\ c <= Len(todo[n]) /\ f \in Nat /\ f + c <= PageSize /\ at \in Nat
      /\ PageSize \in Nat /\ Slots = 0 .. PageSize - 1 /\ Len(todo[n]) \in Nat
  <2>1. pageFill[n] \in Nat /\ pos[n] \in Nat /\ todo[n] \in Seq(Unit)
    BY SlotFacts DEF TypeOK
  <2> QED BY <2>1, <1>1, CopyCountFacts, SlotFacts
<1> SUFFICES ASSUME NEW i \in 0 .. (f + c) - 1
             PROVE  Filled(n)[i] = Whole(file, (at + c) - (f + c) + i)
  <2>1. BufRight(file, Filled(n), f + c, at + c)
    BY Zenon DEF BufRight
  <2> QED BY <2>1, <1>1
<1>3. i \in Slots /\ (at + c) - (f + c) + i = (at - f) + i
  BY <1>2
<1>4. CASE i < f
  <2>1. i \in 0 .. f - 1
    BY <1>2, <1>4
  <2>2. pageBuf[n][i] = Whole(file, (at - f) + i)
    BY <1>1, <2>1 DEF BufRight
  <2>3. Filled(n)[i] = pageBuf[n][i]
    BY <1>1, <1>2, <1>3, <1>4 DEF Filled
  <2> QED BY <1>3, <2>2, <2>3
<1>5. CASE i >= f
  <2>1. PICK j : j = i - f + 1
    OBVIOUS
  <2>2. j \in 1 .. Len(todo[n]) /\ at + j - 1 = (at - f) + i
    BY <1>2, <1>5, <2>1
  <2>3. todo[n][j] = Whole(file, at + j - 1)
    BY <1>1, <2>2 DEF DataRight
  <2>4. Filled(n)[i] = todo[n][j]
    BY <1>1, <1>2, <1>3, <1>5, <2>1 DEF Filled
  <2> QED BY <1>3, <2>2, <2>3, <2>4
<1> QED BY <1>2, <1>4, <1>5

(* Pages of the file stay when RfDispatch works on a later one.             *)
LEMMA EarlierPages ==
  ASSUME TypeOK, NEW n \in HwIds, NEW file, NEW page \in 0 .. LoadPage - 1, NEW content,
         PagesRight(file, flash[n], page), Program(n, page, content)
  PROVE  /\ \A p \in 0 .. page - 1 : flash'[n][p] = flash[n][p]
         /\ flash'[n][page] = content
         /\ PagesRight(file, flash'[n], page)
<1>1. page \in Pages /\ \A p \in 0 .. page - 1 : p \in Pages \ {page}
  BY LoaderAssumption DEF Pages
<1>2. (\A p \in 0 .. page - 1 : flash'[n][p] = flash[n][p]) /\ flash'[n][page] = content
  BY <1>1, ProgramOne
<1> QED BY <1>2 DEF PagesRight

(* A round of RfDispatch's loop.                                            *)
LEMMA CopyStream ==
  ASSUME Steady, IInv, FInv, NEW n \in HwIds, Stream(n), Copy(n)
  PROVE  Stream(n)'
<1>0. TypeOK /\ BufferInStep /\ Dispatching /\ FilesPublished
  BY DEF IInv, FInv
<1>1. /\ pc[n] = "copy" /\ UNCHANGED <<files, req, swid, flush>> /\ req[n].kind = "fetch"
      /\ pc \in [HwIds -> LocState] /\ pageFill \in [HwIds -> 0 .. PageSize]
      /\ pageBuf \in [HwIds -> Page] /\ pageNum \in [HwIds -> Nat]
  BY <1>0 DEF Copy, Dispatching, TypeOK
<1>2. PICK c, f, at, file, page :
        /\ c = CopyCount(n) /\ f = pageFill[n] /\ at = pos[n] /\ file = Part(n)
        /\ page = at \div PageSize
  OBVIOUS
<1>3. /\ c \in Nat /\ f \in Nat /\ at \in Nat /\ PageSize \in Nat \ {0} /\ f + c <= PageSize
      /\ f \in 0 .. PageSize - 1
  <2>1. pageFill[n] \in 0 .. PageSize /\ pageFill[n] < PageSize /\ pos[n] \in Nat
    BY <1>0, <1>1 DEF BufferInStep, TypeOK
  <2> QED BY <2>1, <1>0, <1>2, CopyCountFacts, SlotFacts
<1>4. /\ swid[n] = req[n].swId /\ swid[n] \in SwIds
      /\ DataRight(file, todo[n], at) /\ BufRight(file, pageBuf[n], f, at)
      /\ PagesRight(file, flash[n], page)
      /\ ~flush[n] => at + Len(todo[n]) = Lesser((req[n].swIndex + 1) * DataMax, Len(file))
  BY <1>1, <1>2 DEF Stream, Saved
<1>5. /\ pos'[n] = at + c /\ pos'[n] + Len(todo'[n]) = at + Len(todo[n])
      /\ c <= Len(todo[n]) /\ Len(todo'[n]) = Len(todo[n]) - c
      /\ \A i \in 1 .. Len(todo'[n]) : todo'[n][i] = todo[n][c + i]
  BY <1>0, <1>2, CopyMoves
<1>6. DataRight(file, todo'[n], at + c)
  <2> SUFFICES ASSUME NEW i \in 1 .. Len(todo'[n])
               PROVE  todo'[n][i] = Whole(file, (at + c) + i - 1)
    BY Zenon DEF DataRight
  <2>1. PICK len \in Nat : len = Len(todo[n])
    BY <1>0 DEF TypeOK
  <2>2. c + i \in 1 .. len /\ at + (c + i) - 1 = (at + c) + i - 1
    BY <1>3, <1>5, <2>1
  <2>3. todo[n][c + i] = Whole(file, at + (c + i) - 1)
    BY <1>4, <2>1, <2>2 DEF DataRight
  <2> QED BY <1>5, <2>2, <2>3
<1>7. BufRight(file, Filled(n), f + c, at + c)
  BY <1>0, <1>2, <1>4, FilledRight
<1>8. PICK k \in 0 .. at : at = k * PageSize + f
  BY <1>0, <1>1, <1>2 DEF BufferInStep
<1>9. page = k /\ k \in Nat
  BY <1>2, <1>3, <1>8, PageOfPos
<1>10. Part(n)' = file
  BY <1>1, <1>2 DEF Part
<1>11. pageFill'[n] = f + c
  BY <1>1, <1>2 DEF Copy
<1>12. CASE f + c < PageSize
  <2>1. UNCHANGED <<pc, pageNum, flash>> /\ pageBuf'[n] = Filled(n)
    <3>1. ~(f + c >= PageSize)
      BY <1>3, <1>12
    <3> QED BY <3>1, <1>1, <1>2 DEF Copy
  <2>2. Saved(n)' = page
    <3>1. PICK m \in Nat : m = k * PageSize
      BY <1>3, <1>9
    <3>2. at + c = m + (f + c) /\ f + c \in 0 .. PageSize - 1
      BY <1>3, <1>8, <1>12, <3>1
    <3>3. (k * PageSize + (f + c)) \div PageSize = k
      BY <1>3, <1>9, <3>2, PageOfPos
    <3>4. (at + c) \div PageSize = k
      BY <3>1, <3>2, <3>3
    <3> QED BY <3>4, <2>1, <1>1, <1>5, <1>9 DEF Saved
  <2> QED BY <1>1, <1>4, <1>5, <1>6, <1>7, <1>10, <1>11, <2>1, <2>2 DEF Stream
<1>13. CASE ~(f + c < PageSize)
  <2>1. /\ pageNum'[n] = page /\ pageBuf'[n] = Finished(n, page)
        /\ Program(n, page, ErasedPage) /\ pc'[n] = "save"
    BY <1>1, <1>2, <1>13 DEF Copy
  <2>2. page \in 0 .. LoadPage - 1
    BY <1>2, PageBelow
  <2>3. PagesRight(file, flash'[n], page)
    BY <1>0, <1>4, <2>1, <2>2, EarlierPages
  <2>4. PageRight(file, Finished(n, page), page)
    <3>1. f + c = PageSize /\ at + c = k * PageSize + PageSize
      <4>1. PICK m \in Nat : m = k * PageSize
        BY <1>3, <1>9
      <4>2. f + c = PageSize /\ at + c = m + PageSize
        BY <1>3, <1>8, <1>13, <4>1
      <4> QED BY <4>1, <4>2
    <3>2. BufRight(file, Filled(n), PageSize, k * PageSize + PageSize)
      BY <1>7, <3>1, Zenon
    <3>3. Whole(file, SpareSlot) = Zero /\ Whole(file, SumSlot) = Zero
      BY <1>0, <1>2, <1>4, PartType DEF Steady
    <3>4. Filled(n) \in Page
      BY <1>0, FilledType
    <3>5. PageRight(file, IF k = 0 THEN Patch(Filled(n)) ELSE Filled(n), k)
      BY <1>9, <3>2, <3>3, <3>4, FullPage
    <3> QED BY <3>5, <1>9, Zenon DEF Finished
  <2>5. Saved(n)' = page
    BY <2>1 DEF Saved
  <2> QED BY <1>1, <1>4, <1>5, <1>6, <1>10, <2>1, <2>3, <2>4, <2>5 DEF Stream
<1> QED BY <1>12, <1>13

(* A page saved.                                                            *)
LEMMA SaveStream ==
  ASSUME Steady, IInv, FInv, NEW n \in HwIds, Stream(n), Save(n)
  PROVE  Stream(n)'
<1>0. TypeOK /\ BufferInStep /\ Dispatching
  BY DEF IInv
<1>1. /\ pc[n] = "save" /\ pc'[n] = "copy" /\ pageFill'[n] = 0 /\ req[n].kind = "fetch"
      /\ UNCHANGED <<files, req, swid, pos, pageBuf, todo, flush, pageNum>>
      /\ Program(n, pageNum[n], pageBuf[n])
  BY <1>0 DEF Save, Dispatching, TypeOK
<1>2. PICK file, page : file = Part(n) /\ page = pageNum[n]
  OBVIOUS
<1>3. PagesRight(file, flash[n], page) /\ PageRight(file, pageBuf[n], page)
  BY <1>1, <1>2 DEF Stream, Saved
<1>4. page \in 0 .. LoadPage - 1
  BY <1>2, PageBelow
<1>5. /\ \A p \in 0 .. page - 1 : flash'[n][p] = flash[n][p]
      /\ flash'[n][page] = pageBuf[n]
      /\ PagesRight(file, flash'[n], page)
  <2>1. Program(n, page, pageBuf[n])
    BY <1>1, <1>2
  <2> QED BY <2>1, <1>0, <1>3, <1>4, EarlierPages
<1>6. PagesRight(file, flash'[n], page + 1)
  <2>1. page \in Nat
    BY <1>4
  <2>2. PageRight(file, flash'[n][page], page)
    BY <1>3, <1>5
  <2> QED BY <2>1, <2>2, <1>3, <1>5, PageSaved
<1>7. Saved(n)' = page + 1
  <2>1. pos[n] = (page + 1) * PageSize
    BY <1>0, <1>1, <1>2 DEF BufferInStep
  <2>2. page + 1 \in Nat /\ PageSize \in Nat \ {0} /\ 0 \in 0 .. PageSize - 1
    BY <1>4, SlotFacts
  <2>3. ((page + 1) * PageSize + 0) \div PageSize = page + 1
    BY <2>2, PageOfPos
  <2>4. (page + 1) * PageSize + 0 = (page + 1) * PageSize
    BY <2>2
  <2> QED BY <2>1, <2>3, <2>4, <1>1 DEF Saved
<1>8. BufRight(file, pageBuf'[n], 0, pos[n])
  BY DEF BufRight
<1>9. Part(n)' = file
  BY <1>1, <1>2 DEF Part
<1> QED BY <1>1, <1>2, <1>6, <1>7, <1>8, <1>9 DEF Stream

(* The next chunk.                                                          *)
LEMMA DispatchedStream ==
  ASSUME TypeOK, Dispatching, NEW n \in HwIds, Stream(n), Dispatched(n)
  PROVE  Stream(n)'
<1>1. /\ pc[n] = "copy" /\ todo[n] = <<>> /\ pc'[n] = "send"
      /\ UNCHANGED <<files, swid, pos, pageFill, pageBuf, flash>>
      /\ req[n].kind = "fetch"
      /\ flush[n] => req'[n].kind = "hello"
      /\ ~flush[n] => req'[n].swId = swid[n] /\ req'[n].swIndex = req[n].swIndex + 1
  BY DEF Dispatched, Dispatching, Ask, TypeOK, HelloOf, NextIndex
<1> SUFFICES ASSUME ~flush[n] PROVE Stream(n)'
  BY <1>1 DEF Stream
<1>2. Part(n)' = Part(n) /\ Saved(n)' = Saved(n)
  BY <1>1 DEF Part, Saved
<1>3. pos[n] = Lesser((req[n].swIndex + 1) * DataMax, Len(Part(n)))
  <2>1. pos[n] + Len(todo[n]) = Lesser((req[n].swIndex + 1) * DataMax, Len(Part(n)))
    BY <1>1 DEF Stream
  <2>2. Len(todo[n]) = 0 /\ pos[n] \in Nat
    BY <1>1 DEF TypeOK
  <2>3. pos[n] + 0 = pos[n]
    BY <2>2
  <2> QED BY <2>1, <2>2, <2>3
<1> QED BY <1>1, <1>2, <1>3 DEF Stream

(* Every step keeps what was fetched in place.                              *)
LEMMA NextStream ==
  ASSUME Steady, IInv, FInv, PInv, SInv, [Next]_vars
  PROVE  SInv'
<1> SUFFICES ASSUME NEW n \in HwIds PROVE Stream(n)'
  BY DEF SInv
<1>0. TypeOK /\ Dispatching /\ Stream(n) /\ \A m \in HwIds : m = n
  BY DEF IInv, SInv, Steady, Reliable, Alone
<1>1. CASE Serve
  <2>1. UNCHANGED <<files, req, swid, pos, pageFill, pageBuf, todo, flush, pageNum, flash>>
    BY <1>1 DEF Serve
  <2>2. pc'[n] = pc[n] \/ (pc[n] = "listen" /\ pc'[n] = "replied")
    BY <1>1 DEF Serve
  <2> QED BY <1>0, <2>1, <2>2, StreamKept
<1>2. CASE Send(n) \/ Timeout(n)
  <2>1. UNCHANGED <<files, req, swid, pos, pageFill, pageBuf, todo, flush, pageNum, flash>>
    BY <1>2 DEF Send, Timeout
  <2>2. pc[n] \in {"send", "listen"} /\ pc'[n] \in {"send", "listen", "replied"}
    BY <1>0, <1>2 DEF Send, Timeout, TypeOK
  <2> QED BY <1>0, <2>1, <2>2, StreamKept
<1>3. CASE IdentifyFailed(n)
  BY <1>3 DEF IdentifyFailed, Stream
<1>4. CASE Reset(n)
  <2>1. req'[n] = HelloOf(n)
    BY <1>0, <1>4 DEF Reset, TypeOK
  <2> QED BY <2>1 DEF Stream, HelloOf
<1>5. CASE Identified(n)
  BY <1>5, IdentifiedStream
<1>6. CASE Fetched(n) \/ FetchEnd(n)
  BY <1>0, <1>6, FetchedStream, FetchEndStream
<1>7. CASE Copy(n) \/ Save(n)
  BY <1>0, <1>7, CopyStream, SaveStream
<1>8. CASE Dispatched(n)
  BY <1>0, <1>8, DispatchedStream
<1>9. CASE \E s \in SwIds : \E file \in Versions[s] : Publish(s, file)
  BY <1>0, <1>9 DEF Publish, Steady, TypeOK
<1>10. CASE UNCHANGED vars
  <2>1. UNCHANGED <<files, pc, req, swid, pos, pageFill, pageBuf, todo, flush, pageNum, flash>>
    BY <1>10 DEF vars, loaderVars
  <2> QED BY <1>0, <2>1, StreamKept
<1>11. ASSUME NEW m \in HwIds, Send(m) \/ Timeout(m) \/ Loader(m) \/ Reset(m)
       PROVE  Stream(n)'
  BY <1>0, <1>11, <1>2, <1>3, <1>4, <1>5, <1>6, <1>7, <1>8 DEF Loader
<1> QED BY <1>1, <1>9, <1>10, <1>11 DEF Next

(* Division with remainder.                                                 *)
LEMMA Division ==
  ASSUME NEW a \in Nat, NEW b \in Nat \ {0}
  PROVE  /\ a \div b \in Nat /\ a % b \in 0 .. b - 1
         /\ a = (a \div b) * b + (a % b)
  OBVIOUS

(* What was received is the file, up to pos and no further.                 *)
LEMMA StreamIsExact ==
  ASSUME Steady, IInv, FInv, PInv, SInv
  PROVE  StreamExact
<1>0. TypeOK /\ BufferInStep /\ PageSize \in Nat \ {0}
  BY SlotFacts DEF IInv
<1> DEFINE Received(n, saved, i) ==
             IF i >= saved THEN pageBuf[n][i - saved]
             ELSE IF i < PageSize THEN Unpatch(flash[n][0])[i]
             ELSE flash[n][i \div PageSize][i % PageSize]
<1>1. ASSUME NEW n \in HwIds, req[n].kind = "fetch", pc[n] # "save", NEW i \in 0 .. pos[n] - 1
      PROVE  Received(n, pos[n] - (pos[n] % PageSize), i) = Whole(Part(n), i)
  <2>1. PICK f, at, file : f = pageFill[n] /\ at = pos[n] /\ file = Part(n)
    OBVIOUS
  <2>2. at \in Nat /\ f \in 0 .. PageSize - 1 /\ i \in Nat /\ i < at
    <3>1. pageFill[n] \in 0 .. PageSize /\ pageFill[n] < PageSize /\ pos[n] \in Nat
      BY <1>0, <1>1 DEF BufferInStep, TypeOK
    <3> QED BY <3>1, <2>1, <1>0, <1>1
  <2>3. PICK k \in 0 .. at : at = k * PageSize + f
    BY <1>0, <1>1, <2>1 DEF BufferInStep
  <2>4. at \div PageSize = k /\ k \in Nat
    BY <1>0, <2>2, <2>3, PageOfPos
  <2>5. PICK m \in Nat : m = k * PageSize
    BY <1>0, <2>4
  <2>6. at - (at % PageSize) = m
    <3>1. at = (at \div PageSize) * PageSize + (at % PageSize) /\ (at % PageSize) \in Int
      BY <1>0, <2>2, Division
    <3>2. at = m + (at % PageSize)
      BY <3>1, <2>4, <2>5
    <3> QED BY <3>1, <3>2, <2>2
  <2>7. PagesRight(file, flash[n], k) /\ BufRight(file, pageBuf[n], f, at)
    BY <1>1, <2>1, <2>4 DEF SInv, Stream, Saved
  <2>8. CASE i >= m
    <3>1. i - m \in 0 .. f - 1 /\ at - f + (i - m) = i
      BY <1>0, <2>2, <2>3, <2>5, <2>8
    <3>2. pageBuf[n][i - m] = Whole(file, at - f + (i - m))
      BY <2>7, <3>1 DEF BufRight
    <3> QED BY <2>1, <2>6, <2>8, <3>1, <3>2
  <2>9. CASE ~(i >= m)
    <3>1. PICK q, r : q = i \div PageSize /\ r = i % PageSize
      OBVIOUS
    <3>2. q \in Nat /\ r \in 0 .. PageSize - 1 /\ i = q * PageSize + r
      BY <1>0, <2>2, <3>1, Division
    <3>3. q \in 0 .. k - 1
      <4>1. q * PageSize + r < k * PageSize
        BY <2>2, <2>5, <2>9, <3>2
      <4>2. q + 1 <= k
        BY <1>0, <2>4, <3>2, <4>1, PageEnd
      <4> QED BY <4>2, <2>4, <3>2
    <3>4. Plain(flash[n][q], q)[r] = Whole(file, i)
      <4>1. PageRight(file, flash[n][q], q)
        BY <2>7, <3>3 DEF PagesRight
      <4>2. r \in Slots
        BY <3>2, SlotFacts
      <4>3. Plain(flash[n][q], q)[r] = Whole(file, q * PageSize + r)
        BY <4>1, <4>2 DEF PageRight
      <4> QED BY <4>3, <3>2
    <3>5. CASE i < PageSize
      <4>1. q = 0
        <5>1. SUFFICES ASSUME q >= 1 PROVE FALSE
          BY <3>2
        <5>2. q * PageSize >= 1 * PageSize
          BY <5>1, <1>0, <3>2
        <5> QED BY <5>2, <1>0, <2>2, <3>2, <3>5
      <4>2. r = i
        BY <1>0, <3>2, <4>1
      <4>3. Unpatch(flash[n][0])[i] = Whole(file, i)
        BY <3>4, <4>1, <4>2 DEF Plain
      <4> QED BY <2>1, <2>6, <2>9, <3>5, <4>3
    <3>6. CASE ~(i < PageSize)
      <4>1. q # 0
        <5>1. SUFFICES ASSUME q = 0 PROVE FALSE
          OBVIOUS
        <5>2. i = r
          BY <5>1, <1>0, <3>2
        <5> QED BY <5>2, <1>0, <3>2, <3>6
      <4>2. flash[n][q][r] = Whole(file, i)
        BY <3>4, <4>1 DEF Plain
      <4> QED BY <2>1, <2>6, <2>9, <3>1, <3>6, <4>2
    <3> QED BY <3>5, <3>6
  <2> QED BY <2>8, <2>9
<1>2. ASSUME NEW n \in HwIds, pc[n] = "replied", req[n].kind = "fetch",
             reply[n].data = <<>>
      PROVE  pos[n] = Len(Part(n))
  BY <1>0, <1>2, ChunkCame DEF SInv
<1> QED BY <1>1, <1>2, Zenon DEF StreamExact, Whole, Part

(* StreamExact: with a prompt and reliable server whose files stay, every   *)
(* unit of the file goes where it belongs, through all chunk and page ends, *)
(* the patch of page 0, retries after losses and power failures; and        *)
(* fetchAll ends at the end of the file.                                    *)
THEOREM StreamAlwaysExact == Steady => (Spec => []StreamExact)
<1> SUFFICES ASSUME Steady PROVE Spec => []StreamExact
  OBVIOUS
<1>1. Init => SInv
  <2> SUFFICES ASSUME Init PROVE SInv
    OBVIOUS
  <2>1. \A n \in HwIds : req[n].kind = "hello"
    BY DEF Init, InitLoader, HelloOf
  <2> QED BY <2>1 DEF SInv, Stream
<1>2. IInv /\ FInv /\ [Next]_vars => FInv'
  BY NextFits DEF Steady
<1>3. IInv /\ PInv /\ [Next]_vars => PInv'
  BY NextPrompt DEF Steady, IInv
<1>4. IInv /\ FInv /\ PInv /\ SInv /\ [Next]_vars => SInv'
  BY NextStream
<1>5. IInv /\ FInv /\ PInv /\ SInv => StreamExact
  BY StreamIsExact
<1> QED BY <1>1, <1>2, <1>3, <1>4, <1>5, Invariance, InitFits, InitPrompt, PTL DEF Spec
=============================================================================
