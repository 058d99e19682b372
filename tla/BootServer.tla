------------------------------ MODULE BootServer ------------------------------
(***************************************************************************)
(* The boot server (tools/jeeboot/include/bootserver.h): what it answers   *)
(* to a request, as operators on the files it serves.  The server keeps no *)
(* session: every reply is computed from the request alone.                *)
(*                                                                         *)
(* A file is a sequence of units.  A CRC is modelled as the content it is  *)
(* computed from, so two contents have the same CRC only when they are     *)
(* equal; the size travels with it.  Reply lengths are kept in units,      *)
(* because the loader tells replies apart by nothing but their length.     *)
(***************************************************************************)
EXTENDS Integers, Sequences

CONSTANTS
  SwIds,      \* software ids that have a .bin file
  HwIds,      \* hardware ids of the nodes
  Assign,     \* index.txt: the software id of each hardware id
  Unit,       \* the contents of one unit of a file or of flash
  Junk,       \* a unit read out of a reply of the other kind
  NoSwId,     \* a software id without a file
  DataMax,    \* BOOT_DATA_MAX: units of data in a full fetch reply
  HdrLen,     \* length of FetchReply.swIdXor
  HelloLen    \* sizeof (HelloReply)

ASSUME ServerAssumption ==
  /\ Assign \in [HwIds -> SwIds]
  /\ Junk \in Unit
  /\ NoSwId \notin SwIds
  /\ DataMax \in Nat \ {0}
  /\ HdrLen \in Nat \ {0}
  /\ HelloLen \in Nat
  /\ HelloLen > HdrLen

AnySwId == SwIds \union {NoSwId}

HelloRequest == [kind : {"hello"}, hwId : HwIds]
FetchRequest == [kind : {"fetch"}, swId : AnySwId, swIndex : Nat]
Request      == HelloRequest \union FetchRequest

BootReply ==
  [kind : {"hello", "fetch", "none"}, swId : AnySwId, crc : Seq(Unit),
   data : Seq(Unit)]

(* driver.loadFile: a missing file is an empty one. *)
LoadFile(files, swId) == IF swId \in SwIds THEN files[swId] ELSE <<>>

(* hello(): the software id for this hardware, with size and CRC. *)
Hello(files, req) ==
  LET swId == Assign[req.hwId]
  IN  [kind |-> "hello", swId |-> swId, crc |-> LoadFile(files, swId),
       data |-> <<>>]

(* fetch(): the chunk at swIndex, clamped to 0 .. DataMax units. *)
Fetch(files, req) ==
  LET file == LoadFile(files, req.swId)
      pos  == req.swIndex * DataMax
      left == Len(file) - pos
      len  == IF left < 0 THEN 0 ELSE IF left > DataMax THEN DataMax ELSE left
  IN  [kind |-> "fetch", swId |-> NoSwId, crc |-> <<>>,
       data |-> SubSeq(file, pos + 1, pos + len)]

(* request(): dispatch on the length of the request. *)
Answer(files, req) ==
  IF req.kind = "hello" THEN Hello(files, req) ELSE Fetch(files, req)

(* What RfDriver::request returns when all tries failed. *)
NoReply == [kind |-> "none", swId |-> NoSwId, crc |-> <<>>, data |-> <<>>]

(* The length RfDriver::request returns for a reply. *)
ReplyLen(reply) ==
  CASE reply.kind = "hello" -> HelloLen
    [] reply.kind = "fetch" -> HdrLen + Len(reply.data)
    [] OTHER                -> -1

(* BootReply is a union: reply.h of a fetch reply is data, and so is       *)
(* reply.f.data of a hello reply.                                          *)
HelloView(reply) ==
  IF reply.kind = "hello" THEN [swId |-> reply.swId, crc |-> reply.crc]
                          ELSE [swId |-> NoSwId, crc |-> <<Junk>>]
FetchView(reply) ==
  IF reply.kind = "hello" THEN [i \in 1 .. HelloLen - HdrLen |-> Junk]
                          ELSE reply.data
=============================================================================
