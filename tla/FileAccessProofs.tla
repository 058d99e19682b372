--------------------------- MODULE FileAccessProofs ---------------------------
(***************************************************************************)
(* Which software a node gets, for any table, index files of any length    *)
(* and any number of edits: the lines read last decide, because the last   *)
(* entry counts and reading only appends.                                  *)
(***************************************************************************)
EXTENDS FileAccess, WellFoundedInduction, SequenceTheorems, TLAPS

(* Index files are the sequences of no more than MaxLines entries.          *)
LEMMA IndexIsSeq ==
  ASSUME NEW x \in IndexFiles
  PROVE  x \in Seq(Entry) /\ Len(x) \in 0 .. MaxLines
<1>1. PICK n \in 0 .. MaxLines : x \in [1 .. n -> Entry]  BY DEF IndexFiles
<1>2. n \in Nat  BY FileAccessAssumption
<1> QED  BY <1>1, <1>2

LEMMA SeqIsIndex ==
  ASSUME NEW x \in Seq(Entry), Len(x) <= MaxLines
  PROVE  x \in IndexFiles
<1>1. Len(x) \in 0 .. MaxLines /\ x \in [1 .. Len(x) -> Entry]
  BY FileAccessAssumption, LenProperties
<1> QED  BY <1>1 DEF IndexFiles

-----------------------------------------------------------------------------
(* Lookup *)

Hits(entries, hw) == {i \in 1 .. Len(entries) : entries[i].hwId = hw}
LastHit(entries, hw) ==
  CHOOSE i \in Hits(entries, hw) : \A j \in Hits(entries, hw) : j <= i

LEMMA LookupByHits ==
  ASSUME NEW entries, NEW hw
  PROVE  Lookup(entries, hw) =
           IF Hits(entries, hw) = {} THEN Type ELSE entries[LastHit(entries, hw)].swId
BY DEF Lookup, Hits, LastHit

(* If there is an entry for a hardware id, there is a last one.             *)
LEMMA LastHitExists ==
  ASSUME NEW entries \in Seq(Entry), NEW hw, Hits(entries, hw) # {}
  PROVE  /\ LastHit(entries, hw) \in Hits(entries, hw)
         /\ \A j \in Hits(entries, hw) : j <= LastHit(entries, hw)
<1> DEFINE Distances == {n \in Nat : Len(entries) - n \in Hits(entries, hw)}
<1>1. Len(entries) \in Nat /\ Hits(entries, hw) \subseteq 1 .. Len(entries)
  BY LenProperties DEF Hits
<1>2. PICK i \in Hits(entries, hw) : TRUE  OBVIOUS
<1>3. i \in Nat /\ i <= Len(entries)  BY <1>1
<1>4. Len(entries) - i \in Nat /\ Len(entries) - (Len(entries) - i) = i  BY <1>1, <1>3
<1>5. Len(entries) - i \in Distances  BY <1>4
<1>6. PICK n \in Distances : \A m \in Distances : n <= m
  <2> DEFINE Less == {ss \in Nat \X Nat : ss[1] < ss[2]}
  <2>1. Distances \subseteq Nat /\ Distances # {}  BY <1>5
  <2>2. IsWellFoundedOn(Less, Nat)  BY NatLessThanWellFounded, Zenon DEF OpToRel
  <2> HIDE DEF Distances
  <2>3. PICK n \in Distances : \A m \in Distances : ~(<<m, n>> \in Less)
    <3> HIDE DEF Less
    <3> QED  BY <2>1, <2>2, WFMin
  <2>4. ASSUME NEW m \in Distances PROVE n <= m
    <3>1. m \in Nat /\ n \in Nat  BY <2>1
    <3>2. ~(m < n)  BY <2>3, <3>1
    <3> QED  BY <3>1, <3>2
  <2> QED  BY <2>4
<1>7. ASSUME NEW j \in Hits(entries, hw)
      PROVE  j <= Len(entries) - n
  <2>1. j \in Nat /\ j <= Len(entries)  BY <1>1
  <2>2. Len(entries) - j \in Nat /\ Len(entries) - (Len(entries) - j) = j  BY <1>1, <2>1
  <2>3. n <= Len(entries) - j  BY <1>6, <2>2
  <2> QED  BY <1>1, <2>1, <2>3
<1>8. Len(entries) - n \in Hits(entries, hw)  OBVIOUS
<1> HIDE DEF Distances
<1> QED  BY <1>7, <1>8 DEF LastHit

(* An entry behind a table hides those of the table.                        *)
LEMMA LookupInTail ==
  ASSUME NEW old \in Seq(Entry), NEW new \in Seq(Entry), NEW hw,
         \E i \in 1 .. Len(new) : new[i].hwId = hw
  PROVE  Lookup(old \o new, hw) = Lookup(new, hw)
<1> DEFINE all == old \o new
           a == LastHit(new, hw)
           b == LastHit(all, hw)
<1>1. /\ Len(old) \in Nat /\ Len(new) \in Nat
      /\ all \in Seq(Entry) /\ Len(all) = Len(old) + Len(new)
      /\ \A i \in 1 .. Len(all) :
           all[i] = IF i <= Len(old) THEN old[i] ELSE new[i - Len(old)]
  BY ConcatProperties, LenProperties
<1>2. Hits(new, hw) # {}  BY DEF Hits
<1>3. a \in 1 .. Len(new) /\ new[a].hwId = hw /\ \A j \in Hits(new, hw) : j <= a
  BY <1>2, LastHitExists DEF Hits
<1>4. Len(old) + a \in Hits(all, hw) /\ all[Len(old) + a] = new[a]
  <2>1. Len(old) + a \in 1 .. Len(all)  BY <1>1, <1>3
  <2>2. ~(Len(old) + a <= Len(old)) /\ (Len(old) + a) - Len(old) = a  BY <1>1, <1>3
  <2>3. all[Len(old) + a] = new[a]  BY <1>1, <2>1, <2>2
  <2> HIDE DEF all, a
  <2> QED  BY <1>3, <2>1, <2>3 DEF Hits
<1>5. b \in 1 .. Len(all) /\ all[b].hwId = hw /\ \A j \in Hits(all, hw) : j <= b
  BY <1>1, <1>4, LastHitExists DEF Hits
<1>6. Len(old) + a <= b  BY <1>4, <1>5
<1>7. b - Len(old) \in 1 .. Len(new) /\ all[b] = new[b - Len(old)]
  BY <1>1, <1>3, <1>5, <1>6
<1>8. b - Len(old) \in Hits(new, hw)  BY <1>5, <1>7 DEF Hits
<1>9. b = Len(old) + a
  <2>1. b - Len(old) <= a  BY <1>3, <1>8
  <2>2. a \in Nat /\ b \in Nat /\ Len(old) \in Nat  BY <1>1, <1>3, <1>5
  <2> HIDE DEF all, a, b
  <2> QED  BY <1>6, <2>1, <2>2
<1>10. Hits(all, hw) # {}  BY <1>4
<1>11. all[b] = new[a]  BY <1>4, <1>9
<1> HIDE DEF all
<1>12. Lookup(all, hw) = all[b].swId  BY <1>10, LookupByHits
<1>13. Lookup(new, hw) = new[a].swId  BY <1>2, LookupByHits
<1> QED  BY <1>11, <1>12, <1>13 DEF all

LEMMA LookupType ==
  ASSUME NEW entries \in Seq(Entry), NEW hw
  PROVE  Lookup(entries, hw) \in SwIds \union {0, Type}
<1>1. CASE Hits(entries, hw) = {}  BY <1>1, LookupByHits
<1>2. CASE Hits(entries, hw) # {}
  <2>1. LastHit(entries, hw) \in 1 .. Len(entries)  BY <1>2, LastHitExists DEF Hits
  <2>2. entries[LastHit(entries, hw)] \in Entry  BY <2>1, ElementOfSeq
  <2> QED  BY <1>2, <2>2, LookupByHits DEF Entry
<1> QED  BY <1>1, <1>2

-----------------------------------------------------------------------------
(* Edits keep an index file an index file.                                  *)
LEMMA EditType ==
  ASSUME index \in IndexFiles, exists \in BOOLEAN, edits \in 0 .. MaxEdits, Edit
  PROVE  index' \in IndexFiles /\ exists' \in BOOLEAN /\ edits' \in 0 .. MaxEdits
<1>1. index \in Seq(Entry) /\ Len(index) \in 0 .. MaxLines  BY IndexIsSeq
<1>2. edits' \in 0 .. MaxEdits  BY FileAccessAssumption DEF Edit
<1>3. ASSUME NEW entry \in Entry, AddEntry(entry)
      PROVE  index' \in IndexFiles /\ exists' \in BOOLEAN
  <2>1. Append(index, entry) \in Seq(Entry) /\ Len(Append(index, entry)) = Len(index) + 1
    BY <1>1, AppendProperties
  <2>2. Len(Append(index, entry)) <= MaxLines
    BY <1>1, <1>3, <2>1, FileAccessAssumption DEF AddEntry
  <2>3. Append(index, entry) \in IndexFiles  BY <2>1, <2>2, SeqIsIndex
  <2> QED  BY <1>3, <2>3 DEF AddEntry
<1>4. ASSUME NEW i \in 1 .. MaxLines, RemoveEntry(i)
      PROVE  index' \in IndexFiles /\ exists' \in BOOLEAN
  <2> DEFINE before == SubSeq(index, 1, i - 1)
             after == SubSeq(index, i + 1, Len(index))
  <2>1. i \in 1 .. Len(index) /\ Len(index) \in Nat  BY <1>1, <1>4 DEF RemoveEntry
  <2>2. before \in Seq(Entry) /\ Len(before) = i - 1
    <3>1. \A k \in 1 .. i - 1 : k \in 1 .. Len(index)  BY <2>1
    <3> QED  BY <1>1, <2>1, <3>1, SubSeqProperties
  <2>3. after \in Seq(Entry) /\ Len(after) = Len(index) - i
    <3>1. \A k \in i + 1 .. Len(index) : k \in 1 .. Len(index)  BY <2>1
    <3> QED  BY <1>1, <2>1, <3>1, SubSeqProperties
  <2> HIDE DEF before, after
  <2>4. before \o after \in Seq(Entry) /\ Len(before \o after) = Len(before) + Len(after)
    BY <2>2, <2>3, ConcatProperties
  <2>5. Len(before \o after) <= MaxLines
    BY <1>1, <2>1, <2>2, <2>3, <2>4, FileAccessAssumption
  <2>6. before \o after \in IndexFiles  BY <2>4, <2>5, SeqIsIndex
  <2> QED  BY <1>4, <2>6 DEF RemoveEntry, before, after
<1>5. ASSUME NEW i \in 1 .. MaxLines, NEW s \in SwIds, ChangeEntry(i, s)
      PROVE  index' \in IndexFiles /\ exists' \in BOOLEAN
  <2>1. i \in 1 .. Len(index)  BY <1>5 DEF ChangeEntry
  <2>2. index[i] \in Entry  BY <1>1, <2>1, ElementOfSeq
  <2>3. [index[i] EXCEPT !.swId = s] \in Entry  BY <2>2 DEF Entry
  <2> DEFINE changed == [index[i] EXCEPT !.swId = s]
  <2>4. index' = [index EXCEPT ![i] = changed] /\ exists' = exists
    BY <1>5 DEF ChangeEntry
  <2> HIDE DEF changed
  <2>5. /\ [index EXCEPT ![i] = changed] \in Seq(Entry)
        /\ Len([index EXCEPT ![i] = changed]) = Len(index)
    BY <1>1, <2>1, <2>3, ExceptSeq DEF changed
  <2>6. Len(index) <= MaxLines  BY <1>1, FileAccessAssumption
  <2>7. index' \in IndexFiles  BY <2>4, <2>5, <2>6, SeqIsIndex
  <2> QED  BY <2>4, <2>7
<1>6. CASE RemoveFile
  <2>1. index' = index /\ exists' = FALSE  BY <1>6, Zenon DEF RemoveFile
  <2> QED  BY <1>2, <2>1
<1> QED  BY <1>2, <1>3, <1>4, <1>5, <1>6 DEF Edit

LEMMA SelectType ==
  ASSUME TypeOK, NEW hw \in HwIds, SelectCode(hw)
  PROVE  TypeOK'
<1> USE DEF TypeOK
<1>1. index \in Seq(Entry)  BY IndexIsSeq
<1>2. Parsed \in Seq(Entry)  BY <1>1, ConcatProperties DEF Parsed
<1>3. Lookup(Parsed, hw) \in SwIds \union {0, Type}  BY <1>2, LookupType
<1>4. CASE ~exists  BY <1>4 DEF SelectCode
<1>5. CASE exists /\ ~Fits  BY <1>5 DEF SelectCode
<1>6. CASE exists /\ Fits
  <2>1. map' = Parsed /\ selected' = Lookup(Parsed, hw)  BY <1>6 DEF SelectCode
  <2>2. Len(map') <= MapSize  BY <1>6, <2>1 DEF Fits
  <2> QED  BY <1>2, <1>3, <2>1, <2>2 DEF SelectCode
<1> QED  BY <1>4, <1>5, <1>6

(* The type invariant: whatever is edited and asked for, the table stays    *)
(* within map[] as long as parse has not written behind it.                 *)
THEOREM TypeCorrect == Spec => []TypeOK
<1>1. Init => TypeOK
  <2> SUFFICES ASSUME Init PROVE TypeOK  OBVIOUS
  <2>1. map \in Seq(Entry) /\ Len(map) <= MapSize
    BY EmptySeq, FileAccessAssumption DEF Init
  <2>2. edits \in 0 .. MaxEdits  BY FileAccessAssumption DEF Init
  <2>3. overrun \in BOOLEAN /\ selected \in SwIds \union {0, Type}  BY DEF Init
  <2> QED  BY <2>1, <2>2, <2>3 DEF Init, TypeOK
<1>2. TypeOK /\ [Next]_vars => TypeOK'
  <2> SUFFICES ASSUME TypeOK, [Next]_vars PROVE TypeOK'  OBVIOUS
  <2>1. CASE Edit
    <3>1. UNCHANGED <<map, overrun, asked, selected>>  BY <2>1 DEF Edit
    <3>2. index' \in IndexFiles /\ exists' \in BOOLEAN /\ edits' \in 0 .. MaxEdits
      BY <2>1, EditType DEF TypeOK
    <3> QED  BY <3>1, <3>2 DEF TypeOK
  <2>2. ASSUME NEW hw \in HwIds, SelectCode(hw) PROVE TypeOK'  BY <2>2, SelectType
  <2>3. CASE UNCHANGED vars  BY <2>3 DEF TypeOK, vars
  <2> QED  BY <2>1, <2>2, <2>3 DEF Next
<1> QED  BY <1>1, <1>2, PTL DEF Spec

(* ListedNodesFollowIndex: whatever the table has collected, selectCode     *)
(* gives a node that is in the index file what the file says now.           *)
THEOREM ListedAlwaysFollow == Spec => ListedNodesFollowIndex
<1> DEFINE Listed == \E i \in 1 .. Len(index) : index[i].hwId = asked'
           Follows == Selecting /\ exists /\ Listed => selected' = Lookup(index, asked')
<1>1. TypeOK /\ [Next]_vars => [Follows]_vars
  <2> SUFFICES ASSUME TypeOK, Selecting, exists, Listed
      PROVE  selected' = Lookup(index, asked')
    OBVIOUS
  <2>1. PICK hw \in HwIds : SelectCode(hw) /\ ~overrun'  BY DEF Selecting
  <2>2. asked' = hw  BY <2>1 DEF SelectCode
  <2>3. selected' = Lookup(Parsed, hw)  BY <2>1 DEF SelectCode
  <2>4. map \in Seq(Entry) /\ index \in Seq(Entry)  BY IndexIsSeq DEF TypeOK
  <2>5. Lookup(map \o index, hw) = Lookup(index, hw)
    BY <2>2, <2>4, LookupInTail
  <2> QED  BY <2>2, <2>3, <2>5 DEF Parsed
<1> HIDE DEF Follows
<1>2. Spec => [][Follows]_vars  BY <1>1, TypeCorrect, PTL DEF Spec
<1> QED  BY <1>2 DEF ListedNodesFollowIndex, Follows
=============================================================================
