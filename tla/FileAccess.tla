------------------------------ MODULE FileAccess ------------------------------
(***************************************************************************)
(* How the boot server finds the software of a node: selectCode and parse  *)
(* of tools/jeeboot/include/fileaccess.h.  One FileAccess object lives as  *)
(* long as the server does.  Each hello request makes it read index.txt    *)
(* again, into a table that keeps what earlier readings put there.         *)
(* Comments, malformed lines and the hex notation are left out: an index   *)
(* file is the sequence of its entries.                                    *)
(***************************************************************************)
EXTENDS Integers, Sequences, FiniteSets

CONSTANTS
  HwIds, SwIds,
  Type,        \* the node type that the loaders announce (99)
  MapSize,     \* entries of map (10)
  MaxLines,    \* bound: entries of the index file
  MaxEdits     \* bound: changes of the index file

ASSUME FileAccessAssumption ==
  /\ Type \notin SwIds /\ 0 \notin SwIds
  /\ MapSize \in Nat /\ MaxLines \in Nat /\ MaxEdits \in Nat

VARIABLES
  exists,    \* whether there is an index file
  index,     \* its entries
  map,       \* the entries of map[] that are in use; fill is its length
  overrun,   \* parse wrote behind the end of map
  asked,     \* the hardware id of the last request
  selected,  \* the software id selected for it
  edits

vars == <<exists, index, map, overrun, asked, selected, edits>>

Entry == [hwId : HwIds, swId : SwIds]

IndexFiles == UNION {[1 .. n -> Entry] : n \in 0 .. MaxLines}

(* Mistake: the first entry counts.                                         *)
LookupFirst(entries, hw) ==
  LET hits == {i \in 1 .. Len(entries) : entries[i].hwId = hw}
  IN  IF hits = {} THEN Type
      ELSE entries[CHOOSE i \in hits : \A j \in hits : i <= j].swId

(* The last entry for a hardware id counts; without one the node type is    *)
(* the software id.                                                         *)
Lookup(entries, hw) ==
  LET hits == {i \in 1 .. Len(entries) : entries[i].hwId = hw}
  IN  IF hits = {} THEN Type
      ELSE entries[CHOOSE i \in hits : \A j \in hits : j <= i].swId

Init ==
  /\ exists \in BOOLEAN
  /\ index \in IndexFiles
  /\ map = <<>>
  /\ overrun = FALSE
  /\ asked \in HwIds
  /\ selected = 0
  /\ edits = 0

(* The file is edited: an entry is added, changed or removed, or all of it  *)
(* is.                                                                      *)
AddEntry(entry) ==
  /\ exists /\ Len(index) < MaxLines
  /\ index' = Append(index, entry) /\ exists' = exists

ChangeEntry(i, swId) ==
  /\ exists /\ i \in 1 .. Len(index)
  /\ index' = [index EXCEPT ![i].swId = swId] /\ exists' = exists

RemoveEntry(i) ==
  /\ exists /\ i \in 1 .. Len(index)
  /\ index' = SubSeq(index, 1, i - 1) \o SubSeq(index, i + 1, Len(index))
  /\ exists' = exists

RemoveFile == exists /\ exists' = FALSE /\ index' = index

Edit ==
  /\ edits < MaxEdits
  /\ edits' = edits + 1
  /\ \/ \E entry \in Entry : AddEntry(entry)
     \/ \E i \in 1 .. MaxLines : RemoveEntry(i) \/ \E s \in SwIds : ChangeEntry(i, s)
     \/ RemoveFile
  /\ UNCHANGED <<map, overrun, asked, selected>>

(* parse() appends the entries of the file to the table.                    *)
Parsed == map \o index

(* The table has room for them.                                             *)
Fits == Len(Parsed) <= MapSize

(* selectCode(): without an index file the answer is 0.  Nothing is known   *)
(* of a program that has written behind map[], so it takes no more steps.   *)
SelectCode(hw) ==
  /\ ~overrun
  /\ asked' = hw
  /\ IF ~exists
     THEN selected' = 0 /\ UNCHANGED <<map, overrun>>
     ELSE IF ~Fits
     THEN overrun' = TRUE /\ UNCHANGED <<map, selected>>
     ELSE /\ map' = Parsed
          /\ selected' = Lookup(Parsed, hw)
          /\ UNCHANGED overrun
  /\ UNCHANGED <<exists, index, edits>>

Next == Edit \/ \E hw \in HwIds : SelectCode(hw)

Spec == Init /\ [][Next]_vars

-----------------------------------------------------------------------------
(* Properties *)

Selecting == \E hw \in HwIds : SelectCode(hw) /\ ~overrun'

(* Type invariant: the table stays within map[].                            *)
TypeOK ==
  /\ exists \in BOOLEAN
  /\ index \in IndexFiles
  /\ map \in Seq(Entry) /\ Len(map) <= MapSize
  /\ overrun \in BOOLEAN
  /\ asked \in HwIds
  /\ selected \in SwIds \union {0, Type}
  /\ edits \in 0 .. MaxEdits

(* A node that is in the index file gets the software that the file gives   *)
(* it now, however often and whenever the file was read and edited before.  *)
ListedNodesFollowIndex ==
  [][Selecting /\ exists /\ (\E i \in 1 .. Len(index) :
                                        index[i].hwId = asked')
       => selected' = Lookup(index, asked')]_vars

(* "if not found, use the type itself as swId for new nodes": a node which  *)
(* is not in the index file gets its type.                                  *)
UnlistedNodesGetType ==
  [][Selecting /\ exists /\ (\A i \in 1 .. Len(index) :
                                        index[i].hwId # asked')
       => selected' = Type]_vars
=============================================================================
