------------------------------ MODULE UploadProofs ------------------------------
(***************************************************************************)
(* Proofs about the USB boot loader and the tools that talk to it, for     *)
(* every image, layout of flash memory and bound.  First what holds of the *)
(* loader alone, whatever the host sends and whenever it sends it: what    *)
(* becomes of the loader's own words, and of the vector that starts it.    *)
(* Then host and loader together, byte by byte: a tool that saw an ACK for *)
(* everything has left its image in flash memory, and a tool that nothing  *)
(* disturbed is never refused.                                             *)
(***************************************************************************)
EXTENDS Upload, SequenceTheorems, WellFoundedInduction, TLAPS

(* writeFlash never gets an offset beyond the user's pages, and starts with *)
(* the first word of the block.                                             *)
WriteInv ==
  /\ args \in Seq(Byte)
  /\ prog \in Nat
  /\ DOMAIN flash = Words
  /\ at = "flashing" => prog = 0
  /\ at \in {"flashing", "programming"} =>
       /\ Len(args) >= 6
       /\ Offset(Address) < userLimit

(* The halves of the words of the loader are as they were, or zero for good. *)
WornHalf(x, h) ==
  \/ x[h] = LoaderVec[h] /\ x[h + 1] = LoaderVec[h + 1]
  \/ x[h] = 0 /\ x[h + 1] = 0
Worn(x) == x = <<x[1], x[2], x[3], x[4]>> /\ WornHalf(x, 1) /\ WornHalf(x, 3)
LoaderWorn == \A w \in LoaderWords : Worn(flash[w])
LoaderInv == WriteInv /\ LoaderWorn

(* No block starts in the middle of the first two words or ends within      *)
(* them, and none runs on into the loader.                                  *)
SafeBlocks ==
  at = "programming" =>
    /\ Offset(Address) \notin {2, 4, 6}
    /\ Offset(Address) = 0 => BlockWords >= 2
    /\ ~RunsOver

(* The vector of the loader is missing only while the block that brings it  *)
(* back has not got as far as its second word.                              *)
VectorInv ==
  ~cut /\ flash[1] # LoaderVec =>
    /\ at = "programming"
    /\ Offset(Address) = 0
    /\ prog <= 1
    /\ flash[1] = Blank

-----------------------------------------------------------------------------
(* Addresses. *)

LEMMA Times ==
  ASSUME NEW a \in Nat, NEW b \in Nat, NEW c \in Nat, a <= b
  PROVE  c * a <= c * b /\ c * a \in Nat /\ c * b \in Nat /\ c * (a + 1) = c * a + c
<1>1. PICK d \in Nat : b = a + d
  <2> WITNESS b - a \in Nat
  <2> QED OBVIOUS
<1>2. c * b = c * a + c * d /\ c * d \in Nat /\ c * a \in Nat
  BY <1>1
<1> QED BY <1>2

(* What is at place n of a row of blocks of d is in block n \div d.         *)
LEMMA Quotient ==
  ASSUME NEW n \in Nat, NEW d \in Nat, d >= 1
  PROVE  /\ n \div d \in Nat /\ n % d \in 0 .. d - 1
         /\ n = d * (n \div d) + (n % d)
OBVIOUS

LEMMA Below ==
  ASSUME NEW n \in Nat, NEW d \in Nat, d >= 1, NEW k \in Nat, n < k * d
  PROVE  n \div d < k
<1>1. n \div d \in Nat /\ n >= d * (n \div d)
  BY Quotient
<1>2. ASSUME k <= n \div d PROVE FALSE
  <2>1. d * k <= d * (n \div d) /\ d * k \in Nat
    BY <1>1, <1>2, Times
  <2> QED BY <1>1, <2>1
<1> QED BY <1>1, <1>2

LEMMA NotBelow ==
  ASSUME NEW n \in Nat, NEW d \in Nat, d >= 1, NEW k \in Nat, n >= k * d
  PROVE  n \div d >= k
<1>1. n \div d \in Nat /\ n < d * (n \div d) + d
  BY Quotient
<1>2. ASSUME n \div d < k PROVE FALSE
  <2>1. n \div d + 1 <= k /\ n \div d + 1 \in Nat
    BY <1>1, <1>2
  <2>2. d * (n \div d + 1) <= d * k /\ d * (n \div d + 1) = d * (n \div d) + d
    BY <1>1, <2>1, Times
  <2> QED BY <1>1, <2>2
<1> QED BY <1>1, <1>2

(* A page is PageWords words.                                               *)
PageWords == PageSize \div 4

LEMMA Sizes ==
  /\ PageWords \in Nat /\ PageWords >= 2 /\ PageWords >= 1
  /\ PageSize \in Nat /\ PageSize >= 1 /\ PageSize = 4 * PageWords
  /\ UserPages \in Nat /\ UserPages >= 1 /\ BootPages \in Nat /\ BootPages >= 1
  /\ userLimit \in Nat /\ userLimit = 4 * (UserPages * PageWords)
  /\ UserPages * PageWords \in Nat /\ UserPages * PageWords >= 2
  /\ MaxBlock \in 8 .. 256
<1>1. /\ PageSize \in Nat /\ PageSize > 4 /\ PageSize % 4 = 0
      /\ UserPages \in Nat /\ UserPages >= 1 /\ BootPages \in Nat /\ BootPages >= 1
      /\ MaxBlock \in 8 .. 256
  BY UsbSerUpAssumption
<1>2. PageWords \in Nat /\ PageWords >= 2 /\ PageSize = 4 * PageWords
  BY <1>1 DEF PageWords
<1>3. UserPages * PageSize = 4 * (UserPages * PageWords)
  BY <1>1, <1>2
<1>4. PageWords * 1 <= PageWords * UserPages /\ PageWords * UserPages \in Nat
  BY <1>1, <1>2, Times
<1>5. UserPages * PageWords \in Nat /\ UserPages * PageWords >= 2
  BY <1>1, <1>2, <1>4
<1>6. PageWords >= 1 /\ PageSize >= 1
  BY <1>1, <1>2
<1> QED BY <1>1, <1>2, <1>3, <1>5, <1>6 DEF userLimit

(* The words of the loader come after those of the user, and are at least   *)
(* two.                                                                     *)
LEMMA WordFacts ==
  /\ 0 \in Words /\ 1 \in Words /\ 1 \notin LoaderWords
  /\ userLimit \div 4 = UserPages * PageWords
  /\ userLimit \div 4 + 1 \in LoaderWords
  /\ LoaderWords = {w \in Words : w >= UserPages * PageWords}
  /\ Words \subseteq Nat
<1> DEFINE U == UserPages * PageWords
           B == BootPages * PageWords
<1>1. U \in Nat /\ U >= 2 /\ userLimit = 4 * U
  BY Sizes
<1>2. BootPages * PageSize = 4 * B /\ B \in Nat /\ B >= 2
  <2>1. PageWords * 1 <= PageWords * BootPages /\ PageWords * BootPages \in Nat
    BY Sizes, Times
  <2> QED BY <2>1, Sizes
<1> HIDE DEF U, B
<1>3. (userLimit + BootPages * PageSize) \div 4 = U + B /\ userLimit \div 4 = U
  BY <1>1, <1>2
<1>4. Words = 0 .. U + B - 1
  <2>1. Words = 0 .. (userLimit + BootPages * PageSize) \div 4 - 1
    BY DEF Words
  <2> QED BY <1>1, <1>2, <2>1
<1>5. LoaderWords = {w \in Words : w >= U}
  BY <1>1, <1>2, <1>4 DEF LoaderWords
<1>6. /\ 0 \in Words /\ 1 \in Words /\ 1 \notin LoaderWords
      /\ U + 1 \in LoaderWords /\ Words \subseteq Nat
  BY <1>1, <1>2, <1>4, <1>5
<1> QED BY <1>3, <1>5, <1>6 DEF U

(* The address of a block, once its bytes are there.                        *)
LEMMA Numbers ==
  ASSUME NEW b \in Byte
  PROVE  b \in Nat
BY DEF Byte

LEMMA Offsets ==
  ASSUME args \in Seq(Byte), Len(args) >= 4
  PROVE  Offset(Address) \in Nat
<1>1. Address[3] = args[3] /\ Address[4] = args[4]
  BY DEF Address
<1>2. args[3] \in Byte /\ args[4] \in Byte
  OBVIOUS
<1>3. Address[3] \in Nat /\ Address[4] \in Nat
  BY <1>1, <1>2, Numbers, Zenon
<1>4. Address[3] * 256 + Address[4] \in Nat
  BY <1>3
<1>5. 65536 \in Nat
  OBVIOUS
<1> QED BY <1>4, <1>5 DEF Offset

-----------------------------------------------------------------------------
(* The steps of the loader. *)

(* Taking a byte programs nothing, and a block goes to writeFlash only if   *)
(* it starts in the user's pages.                                           *)
LEMMA TakeByteStep ==
  ASSUME WriteInv, NEW b \in Byte, TakeByte(b)
  PROVE  /\ WriteInv' /\ UNCHANGED flash
         /\ at \notin {"flashing", "programming"} /\ at' # "programming"
<1>1. args \in Seq(Byte) /\ prog \in Nat /\ DOMAIN flash = Words /\ <<>> \in Seq(Byte)
      /\ Append(args, b) \in Seq(Byte)
  BY DEF WriteInv
<1>2. ASSUME NEW to \in {"cmd", "erase", "write", "read", "go", "user"}, Goto(to),
             UNCHANGED <<flash, prog>>, at \notin {"flashing", "programming"}
      PROVE  /\ WriteInv' /\ UNCHANGED flash
             /\ at \notin {"flashing", "programming"} /\ at' \notin {"flashing", "programming"}
  BY <1>1, <1>2 DEF Goto, WriteInv
<1>3. ASSUME Collect(b), UNCHANGED <<flash, prog>>, at \notin {"flashing", "programming"}
      PROVE  /\ WriteInv' /\ UNCHANGED flash
             /\ at \notin {"flashing", "programming"} /\ at' \notin {"flashing", "programming"}
  BY <1>1, <1>3 DEF Collect, WriteInv
<1>4. CASE initialSync(b)
  BY <1>2, <1>3, <1>4 DEF initialSync
<1>5. CASE uploadHandler(b)
  <2>1. \A c \in DOMAIN Handlers : Handlers[c] \in {"erase", "write", "read", "go"}
    BY DEF Handlers, ERASE, WRITE, READ, GO
  <2> QED BY <1>2, <1>3, <1>5, <2>1 DEF uploadHandler
<1>6. CASE erase(b)
  BY <1>2, <1>3, <1>6 DEF erase
<1>7. CASE getAddrCheck(b)
  BY <1>2, <1>3, <1>7 DEF getAddrCheck
<1>8. CASE writeData(b)
  <2> DEFINE more == Len(args) = 5 \/ Len(args) < 6 + Count
  <2>1. CASE more
    <3>1. Collect(b) /\ UNCHANGED <<prog, flash>> /\ at = "write"
      BY <1>8, <2>1 DEF writeData
    <3> QED BY <1>3, <3>1
  <2>2. CASE ~more /\ Offset(Address) < userLimit
    <3>1. /\ at' = "flashing" /\ prog' = 0 /\ UNCHANGED <<args, flash>> /\ at = "write"
          /\ Len(args) >= 5 /\ Len(args) # 5
      BY <1>8, <2>2 DEF writeData
    <3>2. Len(args) >= 6
      <4>1. Len(args) \in Nat
        BY <1>1
      <4>2. \A n \in Nat : n >= 5 /\ n # 5 => n >= 6
        OBVIOUS
      <4> QED BY <3>1, <4>1, <4>2, Zenon
    <3>3. WriteInv'
      BY <1>1, <2>2, <3>1, <3>2 DEF WriteInv, Address
    <3> QED BY <3>1, <3>3
  <2>3. CASE ~more /\ ~(Offset(Address) < userLimit)
    BY <1>2, <1>8, <2>3 DEF writeData
  <2> QED BY <2>1, <2>2, <2>3
<1>9. CASE readData(b)
  BY <1>2, <1>3, <1>9 DEF readData
<1> QED BY <1>4, <1>5, <1>6, <1>7, <1>8, <1>9 DEF TakeByte

(* Erasing a page of the user leaves the words of the loader alone, and     *)
(* blanks the vector only if the block is at the start.                     *)
LEMMA EraseStep ==
  ASSUME LoaderInv, ErasePage
  PROVE  /\ LoaderInv' /\ \A w \in LoaderWords : flash'[w] = flash[w]
         /\ at = "flashing" /\ at' = "programming" /\ prog' = 0
         /\ UNCHANGED Offset(Address)
         /\ flash'[1] = flash[1] \/ (Offset(Address) = 0 /\ flash'[1] = Blank)
<1>1. /\ at = "flashing" /\ at' = "programming" /\ UNCHANGED <<args, prog>>
      /\ args \in Seq(Byte) /\ Len(args) >= 6 /\ prog = 0
      /\ DOMAIN flash = Words
      /\ Offset(Address) < userLimit
  BY DEF LoaderInv, WriteInv, ErasePage
<1>2. UNCHANGED Offset(Address)
  BY <1>1 DEF Address
<1> DEFINE o == Offset(Address)
           onPage(w) == w \div PageWords = o \div PageSize
<1>3. \/ flash' = flash
      \/ /\ o % PageSize = 0
         /\ flash' = [w \in Words |-> IF onPage(w) THEN Blank ELSE flash[w]]
  BY DEF ErasePage, PageWords
<1>4. o \in Nat
  <2>1. Len(args) >= 4
    <3>1. Len(args) \in Nat
      BY <1>1
    <3> QED BY <1>1, <3>1
  <2> QED BY <1>1, <2>1, Offsets
<1>5. o < UserPages * PageSize
  BY <1>1 DEF userLimit
<1> HIDE DEF o
<1>6. o \div PageSize < UserPages /\ o \div PageSize \in Nat
  BY <1>4, <1>5, Sizes, Below, Quotient
<1>7. \A w \in LoaderWords : ~onPage(w)
  <2> TAKE w \in LoaderWords
  <2>1. w \in Nat /\ w >= UserPages * PageWords
    BY WordFacts
  <2>2. w \div PageWords >= UserPages /\ w \div PageWords \in Nat
    BY <2>1, Sizes, NotBelow, Quotient
  <2> QED BY <1>6, <2>2, Sizes
<1>8. o % PageSize = 0 /\ onPage(1) => o = 0
  <2>1. 1 \div PageWords = 0
    BY Sizes
  <2>2. o = PageSize * (o \div PageSize) + (o % PageSize)
    BY <1>4, Sizes, Quotient
  <2>3. PageSize * 0 = 0 /\ PageSize \in Nat
    BY Sizes
  <2> QED BY <2>1, <2>2, <2>3
<1>9. LoaderWords \subseteq Words /\ 1 \in Words
  BY WordFacts DEF LoaderWords
<1>10. /\ DOMAIN flash' = Words
       /\ \A w \in LoaderWords : flash'[w] = flash[w]
       /\ flash'[1] = flash[1] \/ (o = 0 /\ flash'[1] = Blank)
  <2>1. CASE flash' = flash
    BY <1>1, <2>1
  <2>2. CASE /\ o % PageSize = 0
             /\ flash' = [w \in Words |-> IF onPage(w) THEN Blank ELSE flash[w]]
    <3> HIDE DEF onPage
    <3> QED BY <1>1, <1>7, <1>8, <1>9, <2>2
  <2> QED BY <1>3, <2>1, <2>2
<1>11. WriteInv'
  BY <1>1, <1>2, <1>10 DEF WriteInv
<1>12. LoaderWorn'
  BY <1>10 DEF LoaderInv, LoaderWorn
<1> QED BY <1>1, <1>2, <1>10, <1>11, <1>12 DEF LoaderInv, o

(* A word that is programmed with a value for each of its halves.           *)
LEMMA VecFacts ==
  /\ LoaderVec = <<LoaderVec[1], LoaderVec[2], LoaderVec[3], LoaderVec[4]>>
  /\ LoaderVec[1] # 255 \/ LoaderVec[2] # 255
  /\ LoaderVec[3] # 255 \/ LoaderVec[4] # 255
  /\ LoaderVec[1] # 0 \/ LoaderVec[2] # 0
  /\ LoaderVec[3] # 0 \/ LoaderVec[4] # 0
  /\ LoaderVec # Blank
<1>1. /\ LoaderVec \in Byte \X Byte \X Byte \X Byte
      /\ \A h \in {1, 3} : \E k \in {h, h + 1} : LoaderVec[k] # 255
      /\ \A h \in {1, 3} : \E k \in {h, h + 1} : LoaderVec[k] # 0
  BY WordAssumption
<1>2. LoaderVec = <<LoaderVec[1], LoaderVec[2], LoaderVec[3], LoaderVec[4]>>
  BY <1>1
<1>3. 1 + 1 = 2 /\ 3 + 1 = 4
  OBVIOUS
<1>4. /\ \E k \in {1, 2} : LoaderVec[k] # 255
      /\ \E k \in {3, 4} : LoaderVec[k] # 255
      /\ \E k \in {1, 2} : LoaderVec[k] # 0
      /\ \E k \in {3, 4} : LoaderVec[k] # 0
  BY <1>1, <1>3
<1>5. LoaderVec # Blank
  <2>1. Blank[1] = 255 /\ Blank[2] = 255
    BY DEF Blank
  <2> QED BY <1>4, <2>1
<1> QED BY <1>2, <1>4, <1>5

LEMMA Halves ==
  ASSUME NEW x, NEW y
  PROVE  /\ Programmed(x, y) = <<Programmed(x, y)[1], Programmed(x, y)[2],
                                 Programmed(x, y)[3], Programmed(x, y)[4]>>
         /\ \A h \in {1, 3} :
              \/ /\ Takes(x, y, h)
                 /\ Programmed(x, y)[h] = y[h] /\ Programmed(x, y)[h + 1] = y[h + 1]
              \/ /\ ~Takes(x, y, h)
                 /\ Programmed(x, y)[h] = x[h] /\ Programmed(x, y)[h + 1] = x[h + 1]
<1>1. PICK low, high : /\ low = IF Takes(x, y, 1) THEN y ELSE x
                       /\ high = IF Takes(x, y, 3) THEN y ELSE x
  OBVIOUS
<1>2. Programmed(x, y) = <<low[1], low[2], high[3], high[4]>>
  BY <1>1 DEF Programmed
<1>3. /\ Programmed(x, y)[1] = low[1] /\ Programmed(x, y)[2] = low[2]
      /\ Programmed(x, y)[3] = high[3] /\ Programmed(x, y)[4] = high[4]
  BY <1>2
<1> QED BY <1>1, <1>2, <1>3

(* A half of the loader that changes becomes zero, and stays zero.          *)
LEMMA WornKept ==
  ASSUME NEW x, NEW y, Worn(x)
  PROVE  /\ Worn(Programmed(x, y))
         /\ Programmed(x, y) = LoaderVec => x = LoaderVec
         /\ \A k \in 1 .. 4 : Programmed(x, y)[k] \in {x[k], 0}
<1>1. PICK p : p = Programmed(x, y)
  OBVIOUS
<1>2. /\ p = <<p[1], p[2], p[3], p[4]>>
      /\ \A h \in {1, 3} :
              \/ Takes(x, y, h) /\ p[h] = y[h] /\ p[h + 1] = y[h + 1]
              \/ ~Takes(x, y, h) /\ p[h] = x[h] /\ p[h + 1] = x[h + 1]
  BY <1>1, Halves
<1>3. ASSUME NEW h \in {1, 3}
      PROVE  \/ p[h] = x[h] /\ p[h + 1] = x[h + 1]
             \/ p[h] = 0 /\ p[h + 1] = 0
  <2>1. x[h] # 255 \/ x[h + 1] # 255
    BY VecFacts DEF Worn, WornHalf
  <2> QED BY <1>2, <2>1 DEF Takes
<1>4. WornHalf(p, 1) /\ WornHalf(p, 3)
  BY <1>3 DEF Worn, WornHalf
<1>5. p = LoaderVec => x = LoaderVec
  <2> SUFFICES ASSUME p = LoaderVec PROVE x = LoaderVec
    OBVIOUS
  <2>1. /\ x[1] = LoaderVec[1] /\ x[2] = LoaderVec[2]
        /\ x[3] = LoaderVec[3] /\ x[4] = LoaderVec[4]
    BY <1>3, VecFacts DEF Worn, WornHalf
  <2> QED BY <2>1, VecFacts DEF Worn
<1>6. \A k \in 1 .. 4 : p[k] \in {x[k], 0}
  <2>1. /\ p[1] \in {x[1], 0} /\ p[2] \in {x[2], 0}
        /\ p[3] \in {x[3], 0} /\ p[4] \in {x[4], 0}
    BY <1>3
  <2> QED BY <2>1
<1> QED BY <1>1, <1>2, <1>4, <1>5, <1>6 DEF Worn

LEMMA VecWorn == Worn(LoaderVec)
BY VecFacts DEF Worn, WornHalf

(* An erased word takes what it is given.                                   *)
LEMMA BlankTakes ==
  ASSUME NEW y, y = <<y[1], y[2], y[3], y[4]>>
  PROVE  Programmed(Blank, y) = y
<1>1. Takes(Blank, y, 1) /\ Takes(Blank, y, 3)
  BY DEF Takes, Blank
<1> QED BY <1>1 DEF Programmed

(* A word that is programmed, or half of it before a reset, changes no word *)
(* but those that it is in.                                                 *)
LEMMA ProgramAtFacts ==
  ASSUME NEW o, NEW new, flash' = ProgramAt(o, new)
  PROVE  /\ DOMAIN flash' = Words
         /\ \A w \in Words :
              \/ flash'[w] = flash[w]
              \/ w \in {o \div 4, (o + 3) \div 4} /\ \E y : flash'[w] = Programmed(flash[w], y)
<1>1. flash' = [w \in Words |-> IF w \in {o \div 4, (o + 3) \div 4}
                                THEN Programmed(flash[w], Share(w, o, new)) ELSE flash[w]]
  BY DEF ProgramAt
<1>2. \A w \in Words : flash'[w] = IF w \in {o \div 4, (o + 3) \div 4}
                                   THEN Programmed(flash[w], Share(w, o, new)) ELSE flash[w]
  BY <1>1
<1> QED BY <1>1, <1>2

(* The bytes of the block that is being written.                            *)
LEMMA BlockFacts ==
  ASSUME WriteInv, at = "programming", prog < BlockWords
  PROVE  /\ Offset(Address) \in Nat /\ Offset(Address) < userLimit
         /\ prog \in Nat /\ BlockWords \in Nat /\ Target = Offset(Address) + 4 * prog
         /\ Target \in Nat
<1>1. args \in Seq(Byte) /\ Len(args) >= 6 /\ prog \in Nat /\ Offset(Address) < userLimit
  BY DEF WriteInv
<1>2. Len(args) >= 4
  <2>1. Len(args) \in Nat
    BY <1>1
  <2> QED BY <1>1, <2>1
<1>3. Offset(Address) \in Nat
  BY <1>1, <1>2, Offsets
<1>4. Counted(args[6]) \in Nat
  <2>1. args[6] \in Byte
    BY <1>1
  <2>2. args[6] \in Nat /\ MaxBlock \in Nat
    BY <2>1, Numbers, Sizes
  <2> QED BY <2>2 DEF Counted
<1>5. BlockWords \in Nat
  BY <1>4 DEF BlockWords, Count
<1> QED BY <1>1, <1>3, <1>5 DEF Target

(* A word of the loader is programmed only by a block that runs over.       *)
LEMMA LoaderShare ==
  ASSUME WriteInv, at = "programming", prog < BlockWords, NEW new, flash' = ProgramAt(Target, new)
  PROVE  \A w \in LoaderWords :
           flash'[w] # flash[w] => RunsOver /\ \E y : flash'[w] = Programmed(flash[w], y)
<1> SUFFICES ASSUME NEW w \in LoaderWords, flash'[w] # flash[w]
             PROVE  RunsOver /\ \E y : flash'[w] = Programmed(flash[w], y)
  OBVIOUS
<1>1. w \in Words /\ w \in Nat /\ w * 4 >= userLimit /\ userLimit \in Nat
  BY WordFacts, Sizes DEF LoaderWords
<1>2. w \in {Target \div 4, (Target + 3) \div 4} /\ \E y : flash'[w] = Programmed(flash[w], y)
  BY <1>1, ProgramAtFacts
<1>3. PICK a \in Nat, i \in Nat, n \in Nat :
        /\ a = Offset(Address) /\ i = prog /\ n = BlockWords
        /\ Target = a + 4 * i /\ a < userLimit /\ i < n
  BY BlockFacts
<1>4. w * 4 <= a + 4 * i + 3
  BY <1>1, <1>2, <1>3
<1>5. a + 4 * n > userLimit
  BY <1>1, <1>3, <1>4
<1> QED BY <1>2, <1>3, <1>5 DEF RunsOver

LEMMA ShareWorn ==
  ASSUME LoaderInv, at = "programming", prog < BlockWords, NEW new, flash' = ProgramAt(Target, new)
  PROVE  LoaderWorn'
<1>1. \A w \in LoaderWords :
        flash'[w] = flash[w] \/ \E y : flash'[w] = Programmed(flash[w], y)
  BY LoaderShare DEF LoaderInv
<1>2. \A w \in LoaderWords : Worn(flash[w])
  BY DEF LoaderInv, LoaderWorn
<1>3. \A w \in LoaderWords : Worn(flash'[w])
  BY <1>1, <1>2, WornKept
<1> QED BY <1>3 DEF LoaderWorn

(* Programming leaves a word below the block alone, and the word it gives   *)
(* to the vector of a block at the start is the loader's.                   *)
LEMMA ProgramStep ==
  ASSUME LoaderInv, ProgramWord
  PROVE  /\ LoaderInv'
         /\ at = "programming" /\ at' = "programming"
         /\ prog \in Nat /\ prog' = prog + 1
         /\ UNCHANGED Offset(Address)
<1>1. /\ at = "programming" /\ at' = "programming" /\ UNCHANGED args /\ prog' = prog + 1
      /\ args \in Seq(Byte) /\ Len(args) >= 6 /\ prog \in Nat
      /\ Offset(Address) < userLimit /\ prog < BlockWords
  BY DEF LoaderInv, WriteInv, ProgramWord
<1>2. UNCHANGED Offset(Address)
  BY <1>1 DEF Address
<1>3. PICK junk \in {0, 255} : flash' = ProgramAt(Target, Patched(prog, junk))
  BY DEF ProgramWord
<1>4. DOMAIN flash' = Words
  BY <1>3, ProgramAtFacts
<1>5. LoaderWorn'
  BY <1>1, <1>3, ShareWorn
<1>6. WriteInv'
  BY <1>1, <1>2, <1>4 DEF WriteInv
<1> QED BY <1>1, <1>2, <1>5, <1>6 DEF LoaderInv

(* The second word of flash memory, in a block that is safe.                *)
LEMMA ProgramVector ==
  ASSUME LoaderInv, LoaderIntact, SafeBlocks, ProgramWord, flash[1] \in {LoaderVec, Blank}
  PROVE  /\ Offset(Address) = 0 /\ prog = 1 => flash'[1] = LoaderVec
         /\ ~(Offset(Address) = 0 /\ prog = 1) => flash'[1] = flash[1]
<1>1. PICK junk \in {0, 255} : flash' = ProgramAt(Target, Patched(prog, junk))
  BY DEF ProgramWord
<1>2. at = "programming" /\ prog < BlockWords /\ Offset(Address) % 2 = 0 /\ WriteInv
  BY DEF ProgramWord, LoaderInv
<1>3. PICK a \in Nat, i \in Nat : a = Offset(Address) /\ i = prog /\ Target = a + 4 * i
  BY <1>2, BlockFacts
<1>4. a \notin {2, 4, 6} /\ a % 2 = 0
  BY <1>2, <1>3 DEF SafeBlocks
<1>5. 1 \in {Target \div 4, (Target + 3) \div 4} <=> a = 0 /\ i = 1
  BY <1>3, <1>4
<1>6. flash'[1] = IF 1 \in {Target \div 4, (Target + 3) \div 4}
                  THEN Programmed(flash[1], Share(1, Target, Patched(prog, junk))) ELSE flash[1]
  BY <1>1, WordFacts DEF ProgramAt
<1>7. CASE a = 0 /\ i = 1
  <2>1. Patched(prog, junk) = LoaderVec
    <3>1. Patched(prog, junk) = flash[userLimit \div 4 + 1]
      BY <1>3, <1>7 DEF Patched
    <3>2. flash[userLimit \div 4 + 1] = LoaderVec
      BY WordFacts DEF LoaderIntact
    <3> QED BY <3>1, <3>2
  <2>2. Target = 4 * 1
    BY <1>3, <1>7
  <2>3. Share(1, Target, LoaderVec) = LoaderVec
    BY <2>2 DEF Share
  <2>4. flash'[1] = Programmed(flash[1], LoaderVec)
    BY <1>5, <1>6, <1>7, <2>1, <2>3
  <2>5. Programmed(Blank, LoaderVec) = LoaderVec
    BY VecFacts, BlankTakes
  <2>6. Programmed(LoaderVec, LoaderVec) = LoaderVec
    BY VecFacts DEF Programmed
  <2> QED BY <1>3, <1>7, <2>4, <2>5, <2>6
<1>8. CASE ~(a = 0 /\ i = 1)
  BY <1>3, <1>5, <1>6, <1>8
<1> QED BY <1>7, <1>8

(* The other steps of loader and host program nothing, but that a reset may *)
(* leave half a word programmed.  Only PowerCut sets cut, and nothing       *)
(* resets it.                                                               *)
OtherSteps ==
  \/ Start \/ Send \/ Hold \/ Receive \/ PowerCut
  \/ (ProgramOdd \/ WriteDone) /\ UNCHANGED cut
  \/ UNCHANGED vars

LEMMA OtherStep ==
  ASSUME WriteInv, OtherSteps
  PROVE  /\ WriteInv'
         /\ \/ UNCHANGED <<at, args, prog, flash, cut>>
            \/ ProgramOdd /\ UNCHANGED <<flash, cut>>
            \/ WriteDone /\ UNCHANGED <<flash, cut>>
            \/ cut' = (cut \/ at = "programming") /\ at' # "programming" /\ (UNCHANGED flash \/ Torn)
<1>1. /\ args \in Seq(Byte) /\ prog \in Nat /\ DOMAIN flash = Words
      /\ <<>> \in Seq(Byte)
  BY DEF WriteInv
<1>2. CASE UNCHANGED <<at, args, prog, flash, cut>>
  BY <1>2 DEF WriteInv, Address
<1>3. CASE PowerCut
  <2>1. /\ at' \in {"sync", "lost"} /\ args' = <<>> /\ prog' = prog /\ (UNCHANGED flash \/ Torn)
        /\ cut' = (cut \/ at = "programming")
    BY <1>3 DEF PowerCut, Reset, Goto
  <2>2. DOMAIN flash' = Words
    BY <1>1, <2>1, ProgramAtFacts DEF Torn
  <2> QED BY <1>1, <2>1, <2>2 DEF WriteInv
<1>4. CASE ProgramOdd /\ UNCHANGED cut
  BY <1>1, <1>4 DEF ProgramOdd, Goto, WriteInv
<1>5. CASE WriteDone /\ UNCHANGED cut
  BY <1>1, <1>5 DEF WriteDone, Goto, WriteInv
<1>6. \/ UNCHANGED <<at, args, prog, flash, cut>> \/ PowerCut
      \/ (ProgramOdd /\ UNCHANGED cut) \/ (WriteDone /\ UNCHANGED cut)
  BY DEF OtherSteps, Start, Send, Hold, Receive, vars, devVars
<1> QED BY <1>2, <1>3, <1>4, <1>5, <1>6

(* Half a word, before a reset.                                             *)
LEMMA TornStep ==
  ASSUME LoaderInv, Torn
  PROVE  LoaderWorn' /\ at = "programming" /\ prog < BlockWords
         /\ \E new : flash' = ProgramAt(Target, new)
<1>1. at = "programming" /\ prog < BlockWords /\ \E new : flash' = ProgramAt(Target, new)
  BY DEF Torn
<1> QED BY <1>1, ShareWorn

(* A step of loader and host is one of these.                               *)
LEMMA Steps ==
  ASSUME [Next]_vars
  PROVE  \/ UNCHANGED cut /\ \E b \in Byte : TakeByte(b)
         \/ UNCHANGED cut /\ ErasePage
         \/ UNCHANGED cut /\ ProgramWord
         \/ OtherSteps
BY DEF Next, Loader, Flashing, WriteFlash, OtherSteps

LEMMA InitLoader == Init => LoaderInv /\ LoaderIntact /\ VectorInv
<1> SUFFICES ASSUME Init PROVE LoaderInv /\ LoaderIntact /\ VectorInv
  OBVIOUS
<1>1. /\ args = <<>> /\ prog = 0 /\ at = "sync"
      /\ flash = [w \in Words |-> IF w = 1 \/ w * 4 >= userLimit THEN LoaderVec ELSE Old]
  BY DEF Init, InitDevice
<1>2. \A w \in LoaderWords : w \in Words /\ w * 4 >= userLimit
  BY DEF LoaderWords
<1>3. LoaderWorn
  BY <1>1, <1>2, VecWorn DEF LoaderWorn
<1>4. WriteInv
  BY <1>1 DEF WriteInv
<1>5. flash[1] = LoaderVec
  BY <1>1, WordFacts
<1>6. LoaderIntact
  BY <1>1, <1>2 DEF LoaderIntact
<1> QED BY <1>3, <1>4, <1>5, <1>6 DEF LoaderInv, VectorInv

LEMMA NextLoader == LoaderInv /\ [Next]_vars => LoaderInv'
<1> SUFFICES ASSUME LoaderInv, [Next]_vars PROVE LoaderInv'
  OBVIOUS
<1>1. CASE UNCHANGED flash /\ WriteInv'
  BY <1>1 DEF LoaderInv, LoaderWorn
<1>2. CASE \E b \in Byte : TakeByte(b)
  BY <1>1, <1>2, TakeByteStep DEF LoaderInv
<1>3. CASE OtherSteps
  <2>1. WriteInv' /\ (UNCHANGED flash \/ Torn)
    BY <1>3, OtherStep DEF LoaderInv
  <2> QED BY <1>1, <2>1, TornStep DEF LoaderInv
<1> QED BY <1>2, <1>3, Steps, EraseStep, ProgramStep

(* What a step does to a word of the loader.                                *)
LEMMA LoaderChange ==
  ASSUME LoaderInv, [Next]_vars, NEW w \in LoaderWords, flash'[w] # flash[w]
  PROVE  at = "programming" /\ RunsOver /\ Worn(flash[w]) /\ \E y : flash'[w] = Programmed(flash[w], y)
<1>1. WriteInv /\ Worn(flash[w])
  BY DEF LoaderInv, LoaderWorn
<1>2. ASSUME NEW new, at = "programming", prog < BlockWords, flash' = ProgramAt(Target, new)
      PROVE  RunsOver /\ \E y : flash'[w] = Programmed(flash[w], y)
  BY <1>1, <1>2, LoaderShare
<1>3. CASE ProgramWord
  <2>1. at = "programming" /\ prog < BlockWords /\ \E new : flash' = ProgramAt(Target, new)
    BY <1>3 DEF ProgramWord
  <2> QED BY <1>1, <1>2, <2>1
<1>4. CASE Torn
  BY <1>1, <1>2, <1>4, TornStep
<1>5. ~ErasePage
  BY EraseStep DEF LoaderInv
<1>6. ~(\E b \in Byte : TakeByte(b))
  BY <1>1, TakeByteStep
<1>7. OtherSteps => Torn
  BY <1>1, OtherStep
<1> QED BY <1>3, <1>4, <1>5, <1>6, <1>7, Steps

(* Once changed, a word of the loader does not come back.                   *)
LEMMA NoReturn ==
  ASSUME LoaderInv, [Next]_vars, NEW w \in LoaderWords, flash'[w] = LoaderVec
  PROVE  flash[w] = LoaderVec
<1>1. CASE flash'[w] # flash[w]
  <2>1. Worn(flash[w]) /\ \E y : flash'[w] = Programmed(flash[w], y)
    BY <1>1, LoaderChange
  <2> QED BY <2>1, WornKept
<1> QED BY <1>1

LEMMA NextVector ==
  LoaderInv /\ LoaderIntact /\ VectorInv /\ SafeBlocks /\ [Next]_vars => (LoaderIntact /\ VectorInv)'
<1> SUFFICES ASSUME LoaderInv, LoaderIntact, VectorInv, SafeBlocks, [Next]_vars
             PROVE  LoaderIntact' /\ VectorInv'
  OBVIOUS
<1>0. LoaderIntact'
  <2>1. ASSUME NEW w \in LoaderWords PROVE flash'[w] = flash[w]
    BY LoaderChange DEF SafeBlocks
  <2> QED BY <2>1 DEF LoaderIntact
<1> SUFFICES ASSUME ~cut', flash'[1] # LoaderVec
             PROVE  /\ at' = "programming" /\ Offset(Address)' = 0
                    /\ prog' <= 1 /\ flash'[1] = Blank
  BY <1>0 DEF VectorInv
<1>1. CASE UNCHANGED cut /\ \E b \in Byte : TakeByte(b)
  BY <1>1, TakeByteStep DEF VectorInv, LoaderInv
<1>2. CASE UNCHANGED cut /\ ErasePage
  BY <1>2, EraseStep DEF VectorInv
<1>3. CASE UNCHANGED cut /\ ProgramWord
  <2>1. flash[1] \in {LoaderVec, Blank}
    BY <1>3 DEF VectorInv
  <2>2. ~(Offset(Address) = 0 /\ prog = 1) /\ flash'[1] = flash[1]
    BY <1>3, <2>1, ProgramVector
  <2>3. flash[1] = Blank /\ Offset(Address) = 0 /\ prog <= 1 /\ prog # 1
    BY <1>3, <2>2 DEF VectorInv
  <2>4. prog \in Nat /\ prog' = prog + 1 /\ at' = "programming" /\ UNCHANGED Offset(Address)
    BY <1>3, ProgramStep
  <2>5. prog' <= 1
    BY <2>3, <2>4
  <2> QED BY <2>2, <2>3, <2>4, <2>5
<1>4. CASE OtherSteps
  <2>2. CASE UNCHANGED <<at, args, prog, flash, cut>>
    BY <2>2 DEF VectorInv, Address
  <2>3. CASE ProgramOdd /\ UNCHANGED <<flash, cut>>
    BY <2>3 DEF VectorInv, ProgramOdd
  <2>4. CASE WriteDone /\ UNCHANGED <<flash, cut>>
    <3>1. at = "programming" /\ Offset(Address) = 0 /\ prog <= 1 /\ prog \in Nat
      BY <2>4 DEF VectorInv, LoaderInv, WriteInv
    <3>2. prog >= 2
      BY <2>4, <3>1 DEF WriteDone, SafeBlocks
    <3> QED BY <3>1, <3>2
  <2>5. CASE cut' = (cut \/ at = "programming") /\ (UNCHANGED flash \/ Torn)
    <3>1. ~cut /\ at # "programming"
      BY <2>5, Zenon
    <3>2. UNCHANGED flash
      BY <2>5, <3>1 DEF Torn
    <3> QED BY <3>1, <3>2 DEF VectorInv
  <2> QED BY <1>4, <2>2, <2>3, <2>4, <2>5, OtherStep DEF LoaderInv
<1> QED BY <1>1, <1>2, <1>3, <1>4, Steps

-----------------------------------------------------------------------------
(* Whatever a host sends, whenever, and wherever resets hit: writeFlash is  *)
(* only reached with an offset below userLimit and erases the page of that  *)
(* offset, so that no word of the loader is ever erased; and a word of it   *)
(* changes only by a block that starts below and runs on into the loader,   *)
(* by which halves of it can become zero and nothing else.                  *)
THEOREM LoaderOnlyOverrun == Spec => LoaderKept
<1>1. LoaderInv /\ [Next]_vars =>
        [\A w \in LoaderWords : flash'[w] # flash[w] =>
           /\ at = "programming" /\ RunsOver
           /\ \A k \in 1 .. 4 : flash'[w][k] \in {flash[w][k], 0}]_vars
  <2> SUFFICES ASSUME LoaderInv, [Next]_vars, NEW w \in LoaderWords, flash'[w] # flash[w]
               PROVE  /\ at = "programming" /\ RunsOver
                      /\ \A k \in 1 .. 4 : flash'[w][k] \in {flash[w][k], 0}
    OBVIOUS
  <2>1. at = "programming" /\ RunsOver /\ Worn(flash[w]) /\ \E y : flash'[w] = Programmed(flash[w], y)
    BY LoaderChange
  <2> QED BY <2>1, WornKept
<1> QED BY <1>1, InitLoader, NextLoader, PTL DEF Spec, LoaderKept

(* The vector of the loader survives every upload, and goes for good only   *)
(* by a reset in the middle of writeFlash, provided that no block starts    *)
(* within the first two words or ends there, and none runs on into the      *)
(* loader.  Without that it is lost: a block at 4 programs zeros over it.   *)
THEOREM VectorAlwaysKept == Spec /\ []SafeBlocks => []VectorKept
<1>1. VectorInv => VectorKept
  BY DEF VectorInv, VectorKept
<1>2. Init => LoaderInv /\ LoaderIntact /\ VectorInv
  BY InitLoader
<1> QED BY <1>1, <1>2, NextLoader, NextVector, PTL DEF Spec

(***************************************************************************)
(* Host and loader byte by byte, as long as they are in step.              *)
(***************************************************************************)

(* A sequence, whatever it holds.                                          *)
IsSeq(s) == s \in Seq({s[i] : i \in DOMAIN s})

Queues == IsSeq(wire) /\ IsSeq(back) /\ IsSeq(pending) /\ IsSeq(tosend)

(* The bytes of the command under way, and the replies on their way.       *)
Stream == (args \o wire) \o tosend
Replied == pending \o back

NoReply == pending = <<>> /\ back = <<>>
Acked == pending = <<>> /\ back = <<ACK>>
Sent == wire = <<>> /\ tosend = <<>>

Idle(s) == \A i \in 1 .. Len(s) : s[i] = 255
AddressOf(j) == Checked(send4bytes(j * BlockLen))
DataOf(j) == Checked(<<BlockLen - 1>> \o SubSeq(Image, j * BlockLen + 1, (j + 1) * BlockLen))
BlockSize == BlockLen \div 4
PerPage == PageSize \div BlockLen

(* The loader waits for a command that starts after any number of bytes that *)
(* it made up; or for nothing but such bytes, with all but n replies NAKs.   *)
CmdOpen(c) ==
  /\ at = "cmd" /\ NoReply /\ Len(args) <= 1
  /\ Len(Stream) >= 2 /\ Stream[Len(Stream) - 1] = c /\ Stream[Len(Stream)] = 255 - c
  /\ \A i \in 1 .. Len(Stream) - 2 : Stream[i] = 255
Listening(n) ==
  /\ at = "cmd" /\ Len(args) <= 1
  /\ Idle(Stream)
  /\ Len(Replied) >= n
  /\ \A i \in n + 1 .. Len(Replied) : Replied[i] = NAK
  /\ Script[step].bytes # <<>> => pending = <<>>

(* A command has its answer; its address, data or count is under way, or done. *)
Accepted(h) == at = h /\ args = <<>> /\ Sent /\ Acked
AddrOpen(h, j) == at = h /\ Len(args) < 5 /\ NoReply /\ Stream = AddressOf(j)
AddrDone(h, j) == at = h /\ args = AddressOf(j) /\ Sent /\ Acked
DataOpen(j) == at = "write" /\ Len(args) >= 5 /\ NoReply /\ Stream = AddressOf(j) \o DataOf(j)
CountOpen == at = "read" /\ Len(args) >= 5 /\ NoReply /\ Stream = AddressOf(0) \o <<3, 252>>
Started == at = "user" /\ Sent /\ Acked

(* Some of what the loader waits for has not come yet.                     *)
Unread == Len(args) < Len(Stream)

(* So many replies to a command are left, or all of them, after an ACK.    *)
Has(n) == at = "cmd" /\ args = <<>> /\ Sent /\ Len(Replied) = n
Answer(n) == Has(n) /\ Replied[1] = ACK

(* Block j waits to be written.                                            *)
Holds(j) ==
  /\ Len(args) = 6 + BlockLen /\ Offset(Address) = j * BlockLen /\ Count = BlockLen
  /\ \A k \in 1 .. BlockLen : args[6 + k] = Image[j * BlockLen + k]
Taken(j) == NoReply /\ Sent /\ Holds(j)

(* So many words are written, and the rest of the page is blank.           *)
Wanted(w) == CASE w = 0 -> ImageWord(1) [] w = 1 -> LoaderVec [] OTHER -> ImageWord(w)
Written(n) == \A w \in 0 .. n - 1 : flash[w] = Wanted(w)
BlankFrom(n, page) == \A w \in Words : w >= n /\ w \div PageWords = page => flash[w] = Blank
Stored(j) ==
  /\ Written(j * BlockSize)
  /\ j % PerPage # 0 => BlankFrom(j * BlockSize, j \div PerPage)
Storing(j) ==
  /\ prog <= BlockSize
  /\ Written(j * BlockSize + prog)
  /\ BlankFrom(j * BlockSize + prog, j \div PerPage)

(* Where "flash" is: in block j, or after the last.                        *)
Writing(j) ==
  \/ step = 2 + 3 * j /\ Stored(j) /\ (CmdOpen(WRITE) \/ Accepted("write"))
  \/ step = 3 + 3 * j /\ Stored(j) /\ (AddrOpen("write", j) \/ AddrDone("write", j))
  \/ step = 4 + 3 * j /\ Stored(j) /\ (DataOpen(j) \/ (at = "flashing" /\ Taken(j)))
  \/ step = 4 + 3 * j /\ Storing(j) /\ at = "programming" /\ Taken(j)
  \/ step = 4 + 3 * j /\ Stored(j + 1) /\ Listening(1)
After == 3 * Blocks
Reading ==
  \/ step = 2 + After /\ (CmdOpen(READ) \/ Accepted("read"))
  \/ step = 3 + After /\ (AddrOpen("read", 0) \/ AddrDone("read", 0))
  \/ step = 4 + After /\ (CountOpen \/ Listening(5))
  \/ step = 5 + After /\ left \in 1 .. 4 /\ Listening(left)
Starting ==
  \/ step = 6 + After /\ (CmdOpen(GO) \/ Accepted("go"))
  \/ step = 7 + After /\ (AddrOpen("go", 0) \/ Started)
FlashLock ==
  \/ \E j \in 0 .. Blocks - 1 : Writing(j)
  \/ Stored(Blocks) /\ (Reading \/ Starting)

(* Where "folie" is; the loader knows no command to unprotect.             *)
FolieLock ==
  \/ step = 2 /\ (CmdOpen(GET) \/ (Listening(11) /\ Replied[2] = 7))
  \/ step = 3 /\ Listening(10) /\ Replied[1] = 7
  \/ step = 4 /\ left \in 1 .. 8 /\ Listening(left + 1)
  \/ step = 5 /\ Listening(1)
  \/ step = 6 /\ (CmdOpen(GETID) \/ Listening(5))
  \/ step = 7 /\ left \in 1 .. 3 /\ Listening(left + 1)
  \/ step = 8 /\ Listening(1)
  \/ step = 9 /\ CmdOpen(RDUNP)

(* Out of step: no command will be answered, or the next reply is a NAK.   *)
Resting == at \in {"sync", "user", "fault", "lost"}
Off == Resting /\ back = <<>> /\ (Script[step].bytes # <<>> => pending = <<>>)
Refused == pending = <<>> /\ back # <<>> /\ back[1] = NAK /\ Wants = "ack"

(* A greeting is to be sent, on its way, or answered.                      *)
Greeting ==
  /\ pending = <<>>
  /\ \/ tosend = <<127>> /\ (wire = <<>> \/ Gone)
     \/ /\ tosend = <<>> /\ back = <<>>
        /\ \/ Gone
           \/ at = "sync" /\ wire \in {<<>>, <<127>>}
           \/ at = "cmd" /\ (wire = <<127>> \/ (wire = <<>> /\ args = <<127>>))
     \/ /\ tosend = <<>> /\ at = "cmd" /\ wire = <<>> /\ args \in {<<>>, <<255>>}
        /\ back # <<>> /\ back[1] \in {ACK, NAK}
        /\ \A i \in 2 .. Len(back) : back[i] = NAK

LastStep == IF tool = "flash" THEN Len(Script) ELSE 9
Locked ==
  \/ Off \/ Refused
  \/ tool = "flash" /\ FlashLock
  \/ tool = "folie" /\ FolieLock
InStep ==
  \/ step = 1 /\ Greeting
  \/ step \in 2 .. LastStep /\ Locked
  \/ /\ tool = "flash" /\ step = Done
     /\ wire = <<>> /\ Resting /\ Written(Blocks * BlockSize)

StepInv == step >= 1 /\ tool # "wipe" /\ ~stale /\ ~astray /\ LoaderStarts => InStep
ExactInv == Queues /\ StepInv

-----------------------------------------------------------------------------
(* Sequences of anything. *)

LEMMA SeqIn ==
  ASSUME NEW D, NEW s \in Seq(D)
  PROVE  IsSeq(s) /\ Len(s) \in Nat /\ DOMAIN s = 1 .. Len(s)
<1> DEFINE E == {s[i] : i \in DOMAIN s}
<1>1. Len(s) \in Nat /\ DOMAIN s = 1 .. Len(s)
  OBVIOUS
<1>2. s = [i \in 1 .. Len(s) |-> s[i]]
  OBVIOUS
<1>3. \A i \in 1 .. Len(s) : s[i] \in E
  BY <1>1
<1> HIDE DEF E
<1>4. s \in [1 .. Len(s) -> E]
  BY <1>2, <1>3, Zenon
<1>5. s \in Seq(E)
  BY <1>1, <1>4
<1> QED BY <1>1, <1>5 DEF IsSeq, E

(* Two of them are sequences over one set.                                 *)
Over(D, s) == s \in Seq(D)
LEMMA Common ==
  ASSUME NEW s, NEW t, IsSeq(s), IsSeq(t)
  PROVE  \E D : Over(D, s) /\ Over(D, t)
<1> DEFINE S == {s[i] : i \in DOMAIN s}
           T == {t[i] : i \in DOMAIN t}
           D == S \cup T
<1>1. s \in Seq(S) /\ t \in Seq(T)
  BY DEF IsSeq
<1> HIDE DEF S, T
<1>2. \A r \in Seq(S) : r \in Seq(D)
  OBVIOUS
<1>3. \A r \in Seq(T) : r \in Seq(D)
  OBVIOUS
<1> QED BY <1>1, <1>2, <1>3, Zenon DEF Over

LEMMA SeqFacts ==
  ASSUME NEW s, IsSeq(s)
  PROVE  /\ Len(s) \in Nat /\ DOMAIN s = 1 .. Len(s)
         /\ s = <<>> <=> Len(s) = 0
         /\ s # <<>> => Len(s) >= 1 /\ Head(s) = s[1]
         /\ s \o <<>> = s /\ <<>> \o s = s
<1> DEFINE D == {s[i] : i \in DOMAIN s}
<1>1. s \in Seq(D)
  BY DEF IsSeq
<1> HIDE DEF D
<1>2. s \o <<>> = s /\ <<>> \o s = s
  BY <1>1, ConcatEmptySeq
<1> QED BY <1>1, <1>2

LEMMA NothingSeq == IsSeq(<<>>) /\ Len(<<>>) = 0
<1>1. <<>> \in Seq({}) /\ Len(<<>>) = 0
  OBVIOUS
<1> QED BY <1>1, SeqIn

LEMMA JoinFacts ==
  ASSUME NEW s, NEW t, IsSeq(s), IsSeq(t)
  PROVE  /\ IsSeq(s \o t) /\ Len(s \o t) = Len(s) + Len(t)
         /\ \A i \in 1 .. Len(s) : (s \o t)[i] = s[i]
         /\ \A i \in 1 .. Len(t) : (s \o t)[Len(s) + i] = t[i]
<1>1. PICK D : Over(D, s) /\ Over(D, t)
  BY Common
<1>2. s \in Seq(D) /\ t \in Seq(D)
  BY <1>1 DEF Over
<1>3. PICK m \in Nat, n \in Nat : m = Len(s) /\ n = Len(t)
  BY <1>2
<1>4. /\ s \o t \in Seq(D) /\ Len(s \o t) = Len(s) + Len(t)
      /\ \A i \in 1 .. m + n : (s \o t)[i] = IF i <= m THEN s[i] ELSE t[i - m]
  BY <1>2, <1>3, ConcatProperties
<1>5. ASSUME NEW i \in 1 .. m PROVE (s \o t)[i] = s[i]
  <2>1. i \in 1 .. m + n /\ i <= m
    OBVIOUS
  <2> QED BY <1>4, <2>1
<1>6. ASSUME NEW i \in 1 .. n PROVE (s \o t)[m + i] = t[i]
  <2>1. m + i \in 1 .. m + n /\ ~(m + i <= m) /\ (m + i) - m = i
    OBVIOUS
  <2> QED BY <1>4, <2>1
<1>7. IsSeq(s \o t)
  BY <1>4, SeqIn
<1> QED BY <1>3, <1>4, <1>5, <1>6, <1>7

LEMMA TailFacts ==
  ASSUME NEW s, IsSeq(s), s # <<>>
  PROVE  /\ IsSeq(Tail(s)) /\ Len(Tail(s)) = Len(s) - 1 /\ Head(s) = s[1]
         /\ \A i \in 1 .. Len(s) - 1 : Tail(s)[i] = s[i + 1]
<1> DEFINE D == {s[i] : i \in DOMAIN s}
<1>1. s \in Seq(D)
  BY DEF IsSeq
<1> HIDE DEF D
<1>2. /\ Tail(s) \in Seq(D) /\ Len(Tail(s)) = Len(s) - 1 /\ Head(s) = s[1]
      /\ \A i \in 1 .. Len(s) - 1 : Tail(s)[i] = s[i + 1]
  BY <1>1
<1> QED BY <1>2, SeqIn

LEMMA AppendFacts ==
  ASSUME NEW s, NEW x, IsSeq(s)
  PROVE  /\ IsSeq(Append(s, x)) /\ Len(Append(s, x)) = Len(s) + 1
         /\ Append(s, x)[Len(s) + 1] = x
         /\ \A i \in 1 .. Len(s) : Append(s, x)[i] = s[i]
<1> DEFINE D == {s[i] : i \in DOMAIN s}
           E == D \cup {x}
<1>1. s \in Seq(D)
  BY DEF IsSeq
<1> HIDE DEF D
<1>2. s \in Seq(E) /\ x \in E
  BY <1>1
<1> HIDE DEF E
<1>3. /\ Append(s, x) \in Seq(E) /\ Len(Append(s, x)) = Len(s) + 1
      /\ Append(s, x)[Len(s) + 1] = x
      /\ \A i \in 1 .. Len(s) : Append(s, x)[i] = s[i]
  BY <1>2, AppendProperties
<1> QED BY <1>3, SeqIn

LEMMA EqualSeqs ==
  ASSUME NEW s, NEW t, IsSeq(s), IsSeq(t), Len(s) = Len(t),
         \A i \in 1 .. Len(s) : s[i] = t[i]
  PROVE  s = t
<1>1. PICK D : Over(D, s) /\ Over(D, t)
  BY Common
<1>2. s \in Seq(D) /\ t \in Seq(D)
  BY <1>1 DEF Over
<1> QED BY <1>2, SeqEqual

LEMMA Cuts ==
  ASSUME NEW s, IsSeq(s), NEW n \in 0 .. Len(s)
  PROVE  /\ IsSeq(SubSeq(s, 1, n)) /\ IsSeq(SubSeq(s, n + 1, Len(s)))
         /\ Len(SubSeq(s, 1, n)) = n /\ Len(SubSeq(s, n + 1, Len(s))) = Len(s) - n
         /\ \A i \in 1 .. n : SubSeq(s, 1, n)[i] = s[i]
         /\ \A i \in 1 .. Len(s) - n : SubSeq(s, n + 1, Len(s))[i] = s[n + i]
         /\ SubSeq(s, 1, n) \o SubSeq(s, n + 1, Len(s)) = s
<1> DEFINE D == {s[i] : i \in DOMAIN s}
<1>1. s \in Seq(D)
  BY DEF IsSeq
<1> HIDE DEF D
<1>2. /\ SubSeq(s, 1, n) \in Seq(D) /\ Len(SubSeq(s, 1, n)) = n
      /\ \A i \in 1 .. n : SubSeq(s, 1, n)[i] = s[i]
  BY <1>1
<1>3. /\ SubSeq(s, n + 1, Len(s)) \in Seq(D) /\ Len(SubSeq(s, n + 1, Len(s))) = Len(s) - n
      /\ \A i \in 1 .. Len(s) - n : SubSeq(s, n + 1, Len(s))[i] = s[n + i]
  BY <1>1
<1>4. IsSeq(SubSeq(s, 1, n)) /\ IsSeq(SubSeq(s, n + 1, Len(s)))
  BY <1>2, <1>3, SeqIn
<1>5. SubSeq(s, 1, n) \o SubSeq(s, n + 1, Len(s)) = s
  <2>1. SubSeq(s, 1, Len(s)) = s
    BY <1>1, SubSeqFull
  <2>2. 1 \in 1 .. Len(s) + 1 /\ n \in 1 - 1 .. Len(s) /\ Len(s) \in n .. Len(s)
    BY <1>1
  <2> QED BY <1>1, <2>1, <2>2, ConcatAdjacentSubSeq
<1> QED BY <1>2, <1>3, <1>4, <1>5

(* Three in one.                                                           *)
Three(s, t, u) == (s \o t) \o u

LEMMA Assoc ==
  ASSUME NEW s, NEW t, NEW u, IsSeq(s), IsSeq(t), IsSeq(u)
  PROVE  Three(s, t, u) = s \o (t \o u)
<1> DEFINE S == {s[i] : i \in DOMAIN s}
           T == {t[i] : i \in DOMAIN t}
           U == {u[i] : i \in DOMAIN u}
           D == S \cup T \cup U
<1>1. s \in Seq(S) /\ t \in Seq(T) /\ u \in Seq(U)
  BY DEF IsSeq
<1> HIDE DEF S, T, U
<1>2. \A r \in Seq(S) : r \in Seq(D)
  OBVIOUS
<1>3. \A r \in Seq(T) : r \in Seq(D)
  OBVIOUS
<1>4. \A r \in Seq(U) : r \in Seq(D)
  OBVIOUS
<1> HIDE DEF D
<1>5. s \in Seq(D) /\ t \in Seq(D) /\ u \in Seq(D)
  BY <1>1, <1>2, <1>3, <1>4, Zenon
<1> QED BY <1>5, ConcatAssociative DEF Three

LEMMA ThreeFacts ==
  ASSUME NEW s, NEW t, NEW u, IsSeq(s), IsSeq(t), IsSeq(u)
  PROVE  /\ IsSeq(Three(s, t, u)) /\ Len(Three(s, t, u)) = Len(s) + Len(t) + Len(u)
         /\ \A i \in 1 .. Len(s) : Three(s, t, u)[i] = s[i]
         /\ \A i \in 1 .. Len(t) : Three(s, t, u)[Len(s) + i] = t[i]
         /\ \A i \in 1 .. Len(u) : Three(s, t, u)[Len(s) + Len(t) + i] = u[i]
<1>1. PICK st : st = s \o t
  OBVIOUS
<1>2. /\ IsSeq(st) /\ Len(st) = Len(s) + Len(t)
      /\ \A i \in 1 .. Len(s) : st[i] = s[i]
      /\ \A i \in 1 .. Len(t) : st[Len(s) + i] = t[i]
  BY <1>1, JoinFacts
<1>3. PICK stu : stu = st \o u
  OBVIOUS
<1>4. /\ IsSeq(stu) /\ Len(stu) = Len(st) + Len(u)
      /\ \A i \in 1 .. Len(st) : stu[i] = st[i]
      /\ \A i \in 1 .. Len(u) : stu[Len(st) + i] = u[i]
  <2>1. IsSeq(st)
    BY <1>2
  <2>2. /\ IsSeq(st \o u) /\ Len(st \o u) = Len(st) + Len(u)
        /\ \A i \in 1 .. Len(st) : (st \o u)[i] = st[i]
        /\ \A i \in 1 .. Len(u) : (st \o u)[Len(st) + i] = u[i]
    BY <2>1, JoinFacts
  <2> QED BY <1>3, <2>2, Zenon
<1>5. Three(s, t, u) = stu
  BY <1>1, <1>3 DEF Three
<1>6. Len(s) \in Nat /\ Len(t) \in Nat /\ Len(u) \in Nat
  BY SeqFacts
<1>7. \A i \in 1 .. Len(s) : i \in 1 .. Len(st)
  BY <1>2, <1>6
<1>8. \A i \in 1 .. Len(t) : Len(s) + i \in 1 .. Len(st)
  BY <1>2, <1>6
<1>9. ASSUME NEW i \in 1 .. Len(u) PROVE stu[Len(s) + Len(t) + i] = u[i]
  BY <1>2, <1>4
<1> QED BY <1>2, <1>4, <1>5, <1>7, <1>8, <1>9

(* A byte goes from the second to the first, or some from the third to the *)
(* second.                                                                 *)
LEMMA TakeSame ==
  ASSUME NEW a, NEW w, NEW u, IsSeq(a), IsSeq(w), IsSeq(u), w # <<>>
  PROVE  Three(Append(a, Head(w)), Tail(w), u) = Three(a, w, u)
<1>1. PICK x, y : x = Append(a, Head(w)) /\ y = Tail(w)
  OBVIOUS
<1>2. /\ IsSeq(x) /\ Len(x) = Len(a) + 1 /\ x[Len(a) + 1] = Head(w)
      /\ \A i \in 1 .. Len(a) : x[i] = a[i]
  BY <1>1, AppendFacts
<1>3. /\ IsSeq(y) /\ Len(y) = Len(w) - 1 /\ Head(w) = w[1]
      /\ \A i \in 1 .. Len(w) - 1 : y[i] = w[i + 1]
  BY <1>1, TailFacts
<1>4. Len(a) \in Nat /\ Len(w) \in Nat /\ Len(w) >= 1 /\ Len(u) \in Nat
  BY SeqFacts
<1>5. x \o y = a \o w
  <2>1. PICK l, r : l = x \o y /\ r = a \o w
    OBVIOUS
  <2>2. /\ IsSeq(l) /\ Len(l) = Len(x) + Len(y)
        /\ \A i \in 1 .. Len(x) : l[i] = x[i]
        /\ \A i \in 1 .. Len(y) : l[Len(x) + i] = y[i]
    <3>1. IsSeq(x) /\ IsSeq(y)
      BY <1>2, <1>3
    <3>2. /\ IsSeq(x \o y) /\ Len(x \o y) = Len(x) + Len(y)
          /\ \A i \in 1 .. Len(x) : (x \o y)[i] = x[i]
          /\ \A i \in 1 .. Len(y) : (x \o y)[Len(x) + i] = y[i]
      BY <3>1, JoinFacts
    <3> QED BY <2>1, <3>2, Zenon
  <2>3. /\ IsSeq(r) /\ Len(r) = Len(a) + Len(w)
        /\ \A i \in 1 .. Len(a) : r[i] = a[i]
        /\ \A i \in 1 .. Len(w) : r[Len(a) + i] = w[i]
    BY <2>1, JoinFacts
  <2>4. ASSUME NEW i \in 1 .. Len(l) PROVE l[i] = r[i]
    <3>1. CASE i <= Len(a)
      <4>1. i \in 1 .. Len(a) /\ i \in 1 .. Len(x)
        BY <1>2, <1>4, <3>1
      <4> QED BY <1>2, <2>2, <2>3, <4>1
    <3>2. CASE i = Len(a) + 1
      <4>1. i \in 1 .. Len(x) /\ 1 \in 1 .. Len(w)
        BY <1>2, <1>4, <3>2
      <4> QED BY <1>2, <1>3, <2>2, <2>3, <3>2, <4>1
    <3>3. CASE i > Len(a) + 1
      <4>1. PICK k \in 1 .. Len(w) - 1 : i = Len(x) + k
        <5>1. i - Len(x) \in 1 .. Len(w) - 1 /\ i = Len(x) + (i - Len(x))
          BY <1>2, <1>3, <1>4, <2>2, <3>3
        <5> QED BY <5>1
      <4>2. i = Len(a) + (k + 1) /\ k + 1 \in 1 .. Len(w) /\ k \in 1 .. Len(y)
        BY <1>2, <1>3, <1>4, <4>1
      <4>3. l[i] = y[k]
        BY <2>2, <4>1, <4>2
      <4>4. r[i] = w[k + 1]
        BY <2>3, <4>2
      <4> QED BY <1>3, <4>3, <4>4
    <3> QED BY <1>2, <1>3, <1>4, <2>2, <3>1, <3>2, <3>3
  <2>5. Len(l) = Len(r)
    BY <1>2, <1>3, <1>4, <2>2, <2>3
  <2> QED BY <2>1, <2>2, <2>3, <2>4, <2>5, EqualSeqs
<1> QED BY <1>1, <1>5 DEF Three

LEMMA SendSame ==
  ASSUME NEW a, NEW w, NEW u, IsSeq(a), IsSeq(w), IsSeq(u), NEW n \in 0 .. Len(u)
  PROVE  /\ Three(a, w \o SubSeq(u, 1, n), SubSeq(u, n + 1, Len(u))) = Three(a, w, u)
         /\ Three(a, w \o u, <<>>) = Three(a, w, u)
<1>1. PICK x, y : x = SubSeq(u, 1, n) /\ y = SubSeq(u, n + 1, Len(u))
  OBVIOUS
<1>2. IsSeq(x) /\ IsSeq(y) /\ x \o y = u
  BY <1>1, Cuts
<1>3. IsSeq(a \o w) /\ IsSeq(w \o x) /\ IsSeq(w \o u)
  BY <1>2, JoinFacts
<1>4. Three(a, w, x) = a \o (w \o x) /\ Three(a, w, u) = a \o (w \o u)
  <2>1. IsSeq(x)
    BY <1>2
  <2>2. Three(a, w, x) = a \o (w \o x)
    BY <2>1, Assoc
  <2>3. Three(a, w, u) = a \o (w \o u)
    BY Assoc
  <2> QED BY <2>2, <2>3
<1>5. Three(a, w \o x, y) = Three(a \o w, x, y)
  BY <1>4 DEF Three
<1>6. Three(a \o w, x, y) = (a \o w) \o (x \o y)
  <2>1. IsSeq(x) /\ IsSeq(y)
    BY <1>2
  <2>2. PICK aw : aw = a \o w
    OBVIOUS
  <2>3. IsSeq(aw)
    BY <1>3, <2>2
  <2>4. Three(aw, x, y) = aw \o (x \o y)
    BY <2>1, <2>3, Assoc
  <2> QED BY <2>2, <2>4, Zenon
<1>7. (a \o w) \o (x \o y) = Three(a, w, u)
  BY <1>2 DEF Three
<1>8. Three(a, w \o u, <<>>) = Three(a, w, u)
  <2>1. IsSeq(a \o (w \o u))
    BY <1>3, JoinFacts
  <2>2. (a \o (w \o u)) \o <<>> = a \o (w \o u)
    BY <2>1, SeqFacts
  <2>3. Three(a, w \o u, <<>>) = (a \o (w \o u)) \o <<>>
    BY DEF Three
  <2> QED BY <1>4, <2>2, <2>3
<1> QED BY <1>1, <1>5, <1>6, <1>7, <1>8

-----------------------------------------------------------------------------
(* The scripts. *)

(* Induction, with a set for what is to be shown.                          *)
LEMMA NatInduct ==
  ASSUME NEW N \in Nat, NEW P, 0 \in P, \A n \in 0 .. N - 1 : n \in P => n + 1 \in P
  PROVE  \A n \in 0 .. N : n \in P
<1> DEFINE S == {n \in 0 .. N : n \notin P}
           Less == {ss \in Nat \X Nat : ss[1] < ss[2]}
<1>1. IsWellFoundedOn(Less, Nat)
  BY NatLessThanWellFounded, Zenon DEF OpToRel
<1>2. SUFFICES ASSUME S # {} PROVE FALSE
  OBVIOUS
<1>3. PICK n \in S : \A m \in S : ~(<<m, n>> \in Less)
  <2>1. S \subseteq Nat
    OBVIOUS
  <2> HIDE DEF Less, S
  <2> QED BY <1>1, <1>2, <2>1, WFMin
<1>4. n \in 1 .. N /\ n - 1 \in 0 .. N - 1
  OBVIOUS
<1>5. n - 1 \in P
  <2>1. <<n - 1, n>> \in Less
    BY <1>4
  <2>2. n - 1 \notin S
    BY <1>3, <2>1
  <2> QED BY <1>4, <2>2
<1>6. (n - 1) + 1 = n
  BY <1>4
<1> QED BY <1>4, <1>5, <1>6

(* The first n of seqs, flattened, for all n up to a number.               *)
Joined(s, t) == s \o t
Flattens(f, seqs, n) ==
  f = [i \in 1 .. n |-> IF i = 1 THEN seqs[i] ELSE Joined(f[i - 1], seqs[i])]

LEMMA JoinedFacts ==
  ASSUME NEW s, NEW t, IsSeq(s), IsSeq(t)
  PROVE  /\ IsSeq(Joined(s, t)) /\ Len(Joined(s, t)) = Len(s) + Len(t)
         /\ \A i \in 1 .. Len(s) : Joined(s, t)[i] = s[i]
         /\ \A i \in 1 .. Len(t) : Joined(s, t)[Len(s) + i] = t[i]
BY JoinFacts DEF Joined

LEMMA FlattensExists ==
  ASSUME NEW seqs, NEW N \in Nat
  PROVE  \E f : Flattens(f, seqs, N)
<1> DEFINE P == {n \in 0 .. N : \E f : Flattens(f, seqs, n)}
<1>1. 0 \in P
  <2>1. Flattens([i \in 1 .. 0 |-> seqs], seqs, 0)
    BY DEF Flattens
  <2> QED BY <2>1
<1>2. ASSUME NEW n \in 0 .. N - 1, n \in P PROVE n + 1 \in P
  <2>1. PICK f : Flattens(f, seqs, n)
    BY <1>2
  <2> DEFINE g == [i \in 1 .. n + 1 |->
                     IF i <= n THEN f[i]
                     ELSE IF i = 1 THEN seqs[i] ELSE Joined(f[n], seqs[i])]
  <2>2. ASSUME NEW i \in 1 .. n + 1
        PROVE  g[i] = IF i = 1 THEN seqs[i] ELSE Joined(g[i - 1], seqs[i])
    <3>1. CASE i <= n
      <4>1. i \in 1 .. n /\ (i # 1 => i - 1 \in 1 .. n + 1 /\ i - 1 <= n)
        BY <3>1
      <4>2. f[i] = IF i = 1 THEN seqs[i] ELSE Joined(f[i - 1], seqs[i])
        BY <2>1, <4>1 DEF Flattens
      <4> QED BY <3>1, <4>1, <4>2
    <3>2. CASE i = n + 1
      <4>1. ~(i <= n) /\ i - 1 = n /\ (i # 1 => n \in 1 .. n + 1 /\ n <= n)
        BY <3>2
      <4> QED BY <4>1
    <3> QED BY <3>1, <3>2
  <2>3. Flattens(g, seqs, n + 1)
    BY <2>2 DEF Flattens
  <2> QED BY <2>3
<1> HIDE DEF P
<1>3. N \in P
  BY <1>1, <1>2, NatInduct
<1> QED BY <1>3 DEF P

LEMMA FlattenFound ==
  ASSUME NEW s, Len(s) \in Nat, Len(s) # 0
  PROVE  \E f : Flattens(f, s, Len(s)) /\ FlattenSeq(s) = f[Len(s)]
<1>1. FlattenSeq(s) = (CHOOSE f : Flattens(f, s, Len(s)))[Len(s)]
  BY DEF FlattenSeq, Flattens, Joined
<1>2. \E f : Flattens(f, s, Len(s))
  BY FlattensExists
<1> QED BY <1>1, <1>2

(* The entries of n blocks, one block after the other.                     *)
Rows(r, n) ==
  /\ IsSeq(r) /\ Len(r) = 3 * n
  /\ \A j \in 0 .. n - 1 :
       /\ r[3 * j + 1] = Cmd(WRITE)
       /\ r[3 * j + 2] = Entry(AddressOf(j), "ack", 0)
       /\ r[3 * j + 3] = Entry(DataOf(j), "ack", 0)

Row(x, j) ==
  /\ IsSeq(x) /\ Len(x) = 3 /\ x[1] = Cmd(WRITE)
  /\ x[2] = Entry(AddressOf(j), "ack", 0) /\ x[3] = Entry(DataOf(j), "ack", 0)

LEMMA BlockRow ==
  ASSUME NEW j
  PROVE  Row(WriteBlock(j), j)
<1>1. PICK a, b, c : a = Cmd(WRITE) /\ b = Entry(AddressOf(j), "ack", 0)
                     /\ c = Entry(DataOf(j), "ack", 0)
  OBVIOUS
<1>2. WriteBlock(j) = <<a, b, c>>
  BY <1>1, Zenon DEF WriteBlock, AddressOf, DataOf
<1>3. /\ <<a, b, c>> \in Seq({a, b, c}) /\ Len(<<a, b, c>>) = 3
      /\ <<a, b, c>>[1] = a /\ <<a, b, c>>[2] = b /\ <<a, b, c>>[3] = c
  OBVIOUS
<1>4. IsSeq(<<a, b, c>>)
  BY <1>3, SeqIn
<1> QED BY <1>1, <1>2, <1>3, <1>4, Zenon DEF Row

LEMMA RowsMore ==
  ASSUME NEW n \in Nat, NEW r, NEW x, Rows(r, n), Row(x, n)
  PROVE  Rows(Joined(r, x), n + 1)
<1>1. PICK t : t = Joined(r, x)
  OBVIOUS
<1>2. IsSeq(r) /\ IsSeq(x)
  BY DEF Rows, Row
<1>3. /\ IsSeq(t) /\ Len(t) = Len(r) + Len(x)
      /\ \A i \in 1 .. Len(r) : t[i] = r[i]
      /\ \A i \in 1 .. Len(x) : t[Len(r) + i] = x[i]
  <2>1. /\ IsSeq(Joined(r, x)) /\ Len(Joined(r, x)) = Len(r) + Len(x)
        /\ \A i \in 1 .. Len(r) : Joined(r, x)[i] = r[i]
        /\ \A i \in 1 .. Len(x) : Joined(r, x)[Len(r) + i] = x[i]
    BY <1>2, JoinedFacts
  <2> QED BY <1>1, <2>1, Zenon
<1>9. /\ Len(r) = 3 * n /\ Len(x) = 3 /\ x[1] = Cmd(WRITE)
      /\ x[2] = Entry(AddressOf(n), "ack", 0) /\ x[3] = Entry(DataOf(n), "ack", 0)
  BY DEF Rows, Row
<1>4. Len(t) = 3 * (n + 1)
  BY <1>9, <1>3
<1>5. ASSUME NEW j \in 0 .. n
      PROVE  /\ t[3 * j + 1] = Cmd(WRITE)
             /\ t[3 * j + 2] = Entry(AddressOf(j), "ack", 0)
             /\ t[3 * j + 3] = Entry(DataOf(j), "ack", 0)
  <2>1. CASE j = n
    <3>1. 1 \in 1 .. Len(x) /\ 2 \in 1 .. Len(x) /\ 3 \in 1 .. Len(x)
      BY <1>9
    <3>2. t[Len(r) + 1] = x[1] /\ t[Len(r) + 2] = x[2] /\ t[Len(r) + 3] = x[3]
      BY <1>3, <3>1
    <3> QED BY <1>9, <2>1, <3>2
  <2>2. CASE j # n
    <3>1. j \in 0 .. n - 1
      BY <2>2
    <3>2. 3 * j + 1 \in 1 .. Len(r) /\ 3 * j + 2 \in 1 .. Len(r) /\ 3 * j + 3 \in 1 .. Len(r)
      BY <1>9, <3>1
    <3>3. t[3 * j + 1] = r[3 * j + 1] /\ t[3 * j + 2] = r[3 * j + 2] /\ t[3 * j + 3] = r[3 * j + 3]
      BY <1>3, <3>2
    <3> QED BY <3>1, <3>3 DEF Rows
  <2> QED BY <2>1, <2>2
<1>6. (n + 1) - 1 = n
  OBVIOUS
<1> QED BY <1>1, <1>3, <1>4, <1>5, <1>6 DEF Rows

LEMMA ImageSize ==
  /\ Blocks \in Nat /\ BlockLen \in Nat /\ BlockLen >= 8 /\ BlockLen <= 256
  /\ BlockSize \in Nat /\ BlockSize >= 2 /\ BlockLen = 4 * BlockSize
  /\ Len(Image) \in Nat /\ Image \in Seq(Byte)
<1>1. Image \in Seq(Byte) /\ BlockLen \in 5 .. 256 /\ BlockLen % 4 = 0
  BY UploadAssumption
<1>2. Len(Image) \in Nat
  BY <1>1
<1>3. Blocks \in Nat
  BY <1>1, <1>2 DEF Blocks
<1>4. BlockSize \in Nat /\ BlockSize >= 2 /\ BlockLen = 4 * BlockSize
  BY <1>1 DEF BlockSize
<1> QED BY <1>1, <1>2, <1>3, <1>4

LEMMA WriteFlashRows == Rows(writeFlash, Blocks)
<1> DEFINE B == [k \in 1 .. Blocks |-> WriteBlock(k - 1)]
<1>1. Blocks \in Nat
  BY ImageSize
<1>2. IsSeq(B) /\ Len(B) = Blocks
  <2> DEFINE E == {WriteBlock(k - 1) : k \in 1 .. Blocks}
  <2>1. \A k \in 1 .. Blocks : WriteBlock(k - 1) \in E
    OBVIOUS
  <2> HIDE DEF E
  <2>2. B \in Seq(E) /\ Len(B) = Blocks
    BY <1>1, <2>1
  <2> QED BY <2>2, SeqIn
<1>3. writeFlash = FlattenSeq(B)
  BY DEF writeFlash
<1>4. ASSUME NEW k \in 1 .. Blocks PROVE B[k] = WriteBlock(k - 1)
  OBVIOUS
<1> HIDE DEF B
<1>5. CASE Blocks = 0
  <2>1. FlattenSeq(B) = B
    BY <1>2, <1>5 DEF FlattenSeq
  <2>2. \A j \in 0 .. Blocks - 1 : FALSE
    BY <1>5
  <2> QED BY <1>2, <1>3, <1>5, <2>1, <2>2 DEF Rows
<1>6. CASE Blocks # 0
  <2>1. PICK f : Flattens(f, B, Blocks) /\ FlattenSeq(B) = f[Blocks]
    BY <1>1, <1>2, <1>6, FlattenFound
  <2> DEFINE P == {n \in 0 .. Blocks : n = 0 \/ Rows(f[n], n)}
  <2>2. 0 \in P
    BY <1>1
  <2>3. ASSUME NEW n \in 0 .. Blocks - 1, n \in P PROVE n + 1 \in P
    <3>1. n + 1 \in 1 .. Blocks /\ (n + 1) - 1 = n /\ n \in Nat
      BY <1>1
    <3>2. B[n + 1] = WriteBlock(n)
      BY <1>4, <3>1
    <3>3. f[n + 1] = IF n + 1 = 1 THEN WriteBlock(n) ELSE Joined(f[n], WriteBlock(n))
      BY <2>1, <3>1, <3>2 DEF Flattens
    <3>4. CASE n = 0
      <4>1. f[1] = WriteBlock(0)
        BY <3>3, <3>4
      <4>2. Rows(f[1], 1)
        <5>1. \A j \in 0 .. 1 - 1 : j = 0
          OBVIOUS
        <5>2. 3 * 1 = 3 /\ 3 * 0 + 1 = 1 /\ 3 * 0 + 2 = 2 /\ 3 * 0 + 3 = 3
          OBVIOUS
        <5> QED BY <4>1, <5>1, <5>2, BlockRow DEF Rows, Row
      <4> QED BY <3>1, <3>4, <4>2
    <3>5. CASE n # 0
      <4>1. Rows(f[n], n) /\ f[n + 1] = Joined(f[n], WriteBlock(n))
        BY <2>3, <3>3, <3>5
      <4>2. Rows(Joined(f[n], WriteBlock(n)), n + 1)
        BY <3>1, <4>1, BlockRow, RowsMore
      <4> QED BY <3>1, <4>1, <4>2
    <3> QED BY <3>4, <3>5
  <2> HIDE DEF P
  <2>4. Blocks \in P
    BY <1>1, <2>2, <2>3, NatInduct
  <2> QED BY <1>3, <1>6, <2>1, <2>4 DEF P
<1> QED BY <1>5, <1>6

LEMMA Singleton ==
  ASSUME NEW x
  PROVE  IsSeq(<<x>>) /\ Len(<<x>>) = 1 /\ <<x>>[1] = x
<1>1. <<x>> \in Seq({x}) /\ Len(<<x>>) = 1 /\ <<x>>[1] = x
  OBVIOUS
<1> QED BY <1>1, SeqIn

LEMMA FourOf ==
  ASSUME NEW a, NEW b, NEW c, NEW d
  PROVE  /\ IsSeq(<<a, b, c, d>>) /\ Len(<<a, b, c, d>>) = 4
         /\ <<a, b, c, d>>[1] = a /\ <<a, b, c, d>>[2] = b
         /\ <<a, b, c, d>>[3] = c /\ <<a, b, c, d>>[4] = d
<1>1. /\ <<a, b, c, d>> \in Seq({a, b, c, d}) /\ Len(<<a, b, c, d>>) = 4
      /\ <<a, b, c, d>>[1] = a /\ <<a, b, c, d>>[2] = b
      /\ <<a, b, c, d>>[3] = c /\ <<a, b, c, d>>[4] = d
  OBVIOUS
<1> QED BY <1>1, SeqIn

LEMMA ThreeOf ==
  ASSUME NEW a, NEW b, NEW c
  PROVE  /\ IsSeq(<<a, b, c>>) /\ Len(<<a, b, c>>) = 3
         /\ <<a, b, c>>[1] = a /\ <<a, b, c>>[2] = b /\ <<a, b, c>>[3] = c
<1>1. /\ <<a, b, c>> \in Seq({a, b, c}) /\ Len(<<a, b, c>>) = 3
      /\ <<a, b, c>>[1] = a /\ <<a, b, c>>[2] = b /\ <<a, b, c>>[3] = c
  OBVIOUS
<1> QED BY <1>1, SeqIn

LEMMA TwoOf ==
  ASSUME NEW a, NEW b
  PROVE  /\ IsSeq(<<a, b>>) /\ Len(<<a, b>>) = 2
         /\ <<a, b>>[1] = a /\ <<a, b>>[2] = b
<1>1. /\ <<a, b>> \in Seq({a, b}) /\ Len(<<a, b>>) = 2
      /\ <<a, b>>[1] = a /\ <<a, b>>[2] = b
  OBVIOUS
<1> QED BY <1>1, SeqIn

(* A sequence begins with another, or goes on with it after n elements.    *)
PartAt(s, n, t) == \A i \in 1 .. Len(t) : s[n + i] = t[i]

LEMMA JoinParts ==
  ASSUME NEW s, NEW t, IsSeq(s), IsSeq(t)
  PROVE  /\ IsSeq(s \o t) /\ Len(s \o t) = Len(s) + Len(t)
         /\ PartAt(s \o t, 0, s) /\ PartAt(s \o t, Len(s), t)
         /\ \A n \in Nat : \A r : /\ n + Len(r) <= Len(s) /\ Len(r) \in Nat /\ PartAt(s, n, r)
                                 => PartAt(s \o t, n, r)
<1>1. /\ IsSeq(s \o t) /\ Len(s \o t) = Len(s) + Len(t)
      /\ \A i \in 1 .. Len(s) : (s \o t)[i] = s[i]
      /\ \A i \in 1 .. Len(t) : (s \o t)[Len(s) + i] = t[i]
  BY JoinFacts
<1>2. PICK st : st = s \o t
  OBVIOUS
<1>3. PICK m \in Nat, n \in Nat : m = Len(s) /\ n = Len(t)
  BY SeqFacts
<1>4. /\ \A i \in 1 .. m : st[i] = s[i]
      /\ \A i \in 1 .. n : st[m + i] = t[i]
  BY <1>1, <1>2, <1>3, Zenon
<1>5. \A i \in 1 .. m : st[0 + i] = s[i]
  BY <1>4
<1>6. ASSUME NEW k \in Nat, NEW r, k + Len(r) <= m, Len(r) \in Nat, PartAt(s, k, r)
      PROVE  PartAt(st, k, r)
  <2>1. ASSUME NEW i \in 1 .. Len(r) PROVE st[k + i] = r[i]
    <3>1. k + i \in 1 .. m
      BY <1>6
    <3>2. s[k + i] = r[i]
      BY <1>6 DEF PartAt
    <3> QED BY <1>4, <3>1, <3>2
  <2> QED BY <2>1 DEF PartAt
<1>7. /\ PartAt(st, 0, s) /\ PartAt(st, m, t)
      /\ \A k \in Nat : \A r : k + Len(r) <= m /\ Len(r) \in Nat /\ PartAt(s, k, r) => PartAt(st, k, r)
  BY <1>3, <1>4, <1>5, <1>6 DEF PartAt
<1> QED BY <1>1, <1>2, <1>3, <1>7, Zenon

FlashEntries ==
  /\ Len(Script) = 7 + After /\ Script[1] = Connect
  /\ \A j \in 0 .. Blocks - 1 :
       /\ Script[2 + 3 * j] = Cmd(WRITE)
       /\ Script[3 + 3 * j] = Entry(AddressOf(j), "ack", 0)
       /\ Script[4 + 3 * j] = Entry(DataOf(j), "ack", 0)
  /\ Script[2 + After] = Cmd(READ)
  /\ Script[3 + After] = Entry(AddressOf(0), "ack", 0)
  /\ Script[4 + After] = Entry(<<3, 252>>, "ack", 0)
  /\ Script[5 + After] = Take(4)
  /\ Script[6 + After] = Cmd(GO)
  /\ Script[7 + After] = Entry(AddressOf(0), "ack", 0)

FolieEntries ==
  /\ Len(Script) \in Nat /\ Len(Script) > 9 /\ Script[1] = Connect
  /\ Script[2] = Cmd(GET) /\ Script[3] = Entry(<<>>, "count", 0) /\ Script[4] = Take(0)
  /\ Script[5] = WantAck /\ Script[6] = Cmd(GETID) /\ Script[7] = Take(3)
  /\ Script[8] = WantAck /\ Script[9] = Cmd(RDUNP)

LEMMA FlashScript == tool = "flash" => FlashEntries
<1> SUFFICES ASSUME tool = "flash" PROVE FlashEntries
  OBVIOUS
<1>1. Script = ((<<Connect>> \o writeFlash) \o ReadFirst) \o sendGoCmd
  BY DEF Script, Scripts
<1>2. PICK c, w, r, g : c = <<Connect>> /\ w = writeFlash /\ r = ReadFirst /\ g = sendGoCmd
  OBVIOUS
<1>3. IsSeq(c) /\ Len(c) = 1 /\ c[1] = Connect
  BY <1>2, Singleton
<1>4. Rows(w, Blocks)
  BY <1>2, WriteFlashRows
<1>5. 0 * BlockLen = 0
  BY ImageSize
<1>6. /\ IsSeq(r) /\ Len(r) = 4 /\ r[1] = Cmd(READ) /\ r[2] = Entry(AddressOf(0), "ack", 0)
      /\ r[3] = Entry(<<3, 252>>, "ack", 0) /\ r[4] = Take(4)
  <2>1. r = <<Cmd(READ), Entry(AddressOf(0), "ack", 0), Entry(<<3, 252>>, "ack", 0), Take(4)>>
    BY <1>2, <1>5, Zenon DEF ReadFirst, AddressOf
  <2> QED BY <2>1, FourOf
<1>7. IsSeq(g) /\ Len(g) = 2 /\ g[1] = Cmd(GO) /\ g[2] = Entry(AddressOf(0), "ack", 0)
  <2>1. g = <<Cmd(GO), Entry(AddressOf(0), "ack", 0)>>
    BY <1>2, <1>5, Zenon DEF sendGoCmd, AddressOf
  <2> QED BY <2>1, TwoOf, Zenon
<1>8. IsSeq(w) /\ Len(w) = After /\ After \in Nat /\ Blocks \in Nat /\ After = 3 * Blocks
  BY <1>4, ImageSize DEF Rows, After
<1>9. PICK cw : cw = c \o w
  OBVIOUS
<1>10. /\ IsSeq(cw) /\ Len(cw) = 1 + After
       /\ \A i \in 1 .. 1 : cw[i] = c[i]
       /\ \A i \in 1 .. After : cw[1 + i] = w[i]
  <2>1. /\ IsSeq(c \o w) /\ Len(c \o w) = Len(c) + Len(w)
        /\ \A i \in 1 .. Len(c) : (c \o w)[i] = c[i]
        /\ \A i \in 1 .. Len(w) : (c \o w)[Len(c) + i] = w[i]
    <3>1. IsSeq(c) /\ IsSeq(w)
      BY <1>3, <1>8
    <3> QED BY <3>1, JoinFacts
  <2> QED BY <1>3, <1>8, <1>9, <2>1, Zenon
<1>11. PICK cwr : cwr = cw \o r
  OBVIOUS
<1>12. /\ IsSeq(cwr) /\ Len(cwr) = (1 + After) + 4
       /\ \A i \in 1 .. 1 + After : cwr[i] = cw[i]
       /\ \A i \in 1 .. 4 : cwr[(1 + After) + i] = r[i]
  <2>1. /\ IsSeq(cw \o r) /\ Len(cw \o r) = Len(cw) + Len(r)
        /\ \A i \in 1 .. Len(cw) : (cw \o r)[i] = cw[i]
        /\ \A i \in 1 .. Len(r) : (cw \o r)[Len(cw) + i] = r[i]
    <3>1. IsSeq(cw) /\ IsSeq(r)
      BY <1>6, <1>10
    <3> QED BY <3>1, JoinFacts
  <2> QED BY <1>6, <1>10, <1>11, <2>1, Zenon
<1>13. /\ Len(Script) = ((1 + After) + 4) + 2
       /\ \A i \in 1 .. (1 + After) + 4 : Script[i] = cwr[i]
       /\ \A i \in 1 .. 2 : Script[((1 + After) + 4) + i] = g[i]
  <2>1. /\ Len(cwr \o g) = Len(cwr) + Len(g)
        /\ \A i \in 1 .. Len(cwr) : (cwr \o g)[i] = cwr[i]
        /\ \A i \in 1 .. Len(g) : (cwr \o g)[Len(cwr) + i] = g[i]
    <3>1. IsSeq(cwr) /\ IsSeq(g)
      BY <1>7, <1>12
    <3> QED BY <3>1, JoinFacts
  <2>2. Script = cwr \o g
    BY <1>1, <1>2, <1>9, <1>11, Zenon
  <2> QED BY <1>7, <1>12, <2>1, <2>2, Zenon
<1> DEFINE s(i) == Script[i]
<1>14. s(1) = Connect
  <2>1. 1 \in 1 .. (1 + After) + 4 /\ 1 \in 1 .. 1 + After /\ 1 \in 1 .. 1
    BY <1>8
  <2> QED BY <1>3, <1>10, <1>12, <1>13, <2>1
<1>15. ASSUME NEW i \in 1 .. After PROVE Script[1 + i] = w[i]
  <2>1. 1 + i \in 1 .. (1 + After) + 4 /\ 1 + i \in 1 .. 1 + After
    BY <1>8
  <2> QED BY <1>10, <1>12, <1>13, <2>1
<1>16. ASSUME NEW j \in 0 .. Blocks - 1
       PROVE  /\ Script[2 + 3 * j] = Cmd(WRITE)
              /\ Script[3 + 3 * j] = Entry(AddressOf(j), "ack", 0)
              /\ Script[4 + 3 * j] = Entry(DataOf(j), "ack", 0)
  <2>1. /\ 3 * j + 1 \in 1 .. After /\ 3 * j + 2 \in 1 .. After /\ 3 * j + 3 \in 1 .. After
        /\ 1 + (3 * j + 1) = 2 + 3 * j /\ 1 + (3 * j + 2) = 3 + 3 * j
        /\ 1 + (3 * j + 3) = 4 + 3 * j
    BY <1>8
  <2>2. /\ w[3 * j + 1] = Cmd(WRITE)
        /\ w[3 * j + 2] = Entry(AddressOf(j), "ack", 0)
        /\ w[3 * j + 3] = Entry(DataOf(j), "ack", 0)
    BY <1>4 DEF Rows
  <2> QED BY <1>15, <2>1, <2>2
<1>17. ASSUME NEW i \in 1 .. 4 PROVE Script[(1 + After) + i] = r[i]
  <2>1. (1 + After) + i \in 1 .. (1 + After) + 4
    BY <1>8
  <2> QED BY <1>12, <1>13, <2>1
<1>18. /\ Script[(1 + After) + 1] = r[1] /\ Script[(1 + After) + 2] = r[2]
       /\ Script[(1 + After) + 3] = r[3] /\ Script[(1 + After) + 4] = r[4]
       /\ Script[((1 + After) + 4) + 1] = g[1] /\ Script[((1 + After) + 4) + 2] = g[2]
  BY <1>13, <1>17
<1>19. /\ (1 + After) + 1 = 2 + After /\ (1 + After) + 2 = 3 + After
       /\ (1 + After) + 3 = 4 + After /\ (1 + After) + 4 = 5 + After
       /\ ((1 + After) + 4) + 1 = 6 + After /\ ((1 + After) + 4) + 2 = 7 + After
  BY <1>8
<1>20. /\ Script[2 + After] = r[1] /\ Script[3 + After] = r[2]
       /\ Script[4 + After] = r[3] /\ Script[5 + After] = r[4]
       /\ Script[6 + After] = g[1] /\ Script[7 + After] = g[2]
  BY <1>18, <1>19, Zenon
<1>21. Len(Script) = 7 + After
  BY <1>13, <1>19, Zenon
<1> QED BY <1>6, <1>7, <1>14, <1>16, <1>20, <1>21, Zenon DEF FlashEntries

LEMMA FolieScript == tool = "folie" => FolieEntries
<1> SUFFICES ASSUME tool = "folie" PROVE FolieEntries
  OBVIOUS
<1>1. Script = ((((<<Connect>> \o getBootVersion) \o getChipType) \o Unprotect)
                \o massErase) \o writeFlash
  BY DEF Script, Scripts, uploadSTM32
<1>2. PICK c, v, t, u, m, w : c = <<Connect>> /\ v = getBootVersion /\ t = getChipType
                              /\ u = Unprotect /\ m = massErase /\ w = writeFlash
  OBVIOUS
<1>3. IsSeq(c) /\ Len(c) = 1 /\ c[1] = Connect
  BY <1>2, Singleton
<1>4. /\ IsSeq(v) /\ Len(v) = 4 /\ v[1] = Cmd(GET) /\ v[2] = Entry(<<>>, "count", 0)
      /\ v[3] = Take(0) /\ v[4] = WantAck
  BY <1>2, FourOf DEF getBootVersion
<1>5. IsSeq(t) /\ Len(t) = 3 /\ t[1] = Cmd(GETID) /\ t[2] = Take(3) /\ t[3] = WantAck
  BY <1>2, ThreeOf DEF getChipType
<1>6. IsSeq(u) /\ Len(u) = 3 /\ u[1] = Cmd(RDUNP)
  BY <1>2, ThreeOf DEF Unprotect
<1>7. IsSeq(m) /\ IsSeq(w) /\ Len(m) = 2 /\ Len(w) \in Nat
  BY <1>2, TwoOf, WriteFlashRows, SeqFacts DEF massErase, Rows
<1>8. PICK a1 : a1 = c \o v
  OBVIOUS
<1>9. IsSeq(a1) /\ Len(a1) = 5 /\ a1[1] = Connect /\ PartAt(a1, 1, v)
  <2>1. IsSeq(a1) /\ Len(a1) = 1 + 4 /\ PartAt(a1, 0, c) /\ PartAt(a1, 1, v)
    BY <1>3, <1>4, <1>8, JoinParts, Zenon
  <2>2. a1[0 + 1] = c[1]
    BY <1>3, <2>1 DEF PartAt
  <2> QED BY <1>3, <2>1, <2>2
<1>10. PICK a2 : a2 = a1 \o t
  OBVIOUS
<1>11. IsSeq(a2) /\ Len(a2) = 8 /\ PartAt(a2, 0, a1) /\ PartAt(a2, 5, t)
  <2>1. IsSeq(a2) /\ Len(a2) = 5 + 3 /\ PartAt(a2, 0, a1) /\ PartAt(a2, 5, t)
    BY <1>5, <1>9, <1>10, JoinParts, Zenon
  <2> QED BY <2>1
<1>12. PICK a3 : a3 = a2 \o u
  OBVIOUS
<1>13. IsSeq(a3) /\ Len(a3) = 11 /\ PartAt(a3, 0, a2) /\ PartAt(a3, 8, u)
  <2>1. IsSeq(a3) /\ Len(a3) = 8 + 3 /\ PartAt(a3, 0, a2) /\ PartAt(a3, 8, u)
    BY <1>6, <1>11, <1>12, JoinParts, Zenon
  <2> QED BY <2>1
<1>14. PICK a4 : a4 = a3 \o m
  OBVIOUS
<1>15. IsSeq(a4) /\ Len(a4) = 13 /\ PartAt(a4, 0, a3)
  <2>1. IsSeq(a4) /\ Len(a4) = 11 + 2 /\ PartAt(a4, 0, a3)
    BY <1>7, <1>13, <1>14, JoinParts, Zenon
  <2> QED BY <2>1
<1>16. PICK a5 : a5 = a4 \o w
  OBVIOUS
<1>17. IsSeq(a5) /\ Len(a5) = 13 + Len(w) /\ PartAt(a5, 0, a4)
  BY <1>7, <1>15, <1>16, JoinParts, Zenon
<1>18. Script = a5
  BY <1>1, <1>2, <1>8, <1>10, <1>12, <1>14, <1>16, Zenon
<1>19. ASSUME NEW i \in 1 .. 11 PROVE a5[i] = a3[i]
  <2>1. a5[0 + i] = a4[i] /\ a4[0 + i] = a3[i]
    BY <1>13, <1>15, <1>17 DEF PartAt
  <2> QED BY <2>1
<1>20. ASSUME NEW i \in 1 .. 8 PROVE a3[i] = a2[i]
  <2>1. a3[0 + i] = a2[i]
    BY <1>11, <1>13 DEF PartAt
  <2> QED BY <2>1
<1>21. ASSUME NEW i \in 1 .. 5 PROVE a2[i] = a1[i]
  <2>1. a2[0 + i] = a1[i]
    BY <1>9, <1>11 DEF PartAt
  <2> QED BY <2>1
<1>22. /\ a1[1 + 1] = v[1] /\ a1[1 + 2] = v[2] /\ a1[1 + 3] = v[3] /\ a1[1 + 4] = v[4]
  BY <1>4, <1>9 DEF PartAt
<1>23. a2[5 + 1] = t[1] /\ a2[5 + 2] = t[2] /\ a2[5 + 3] = t[3]
  BY <1>5, <1>11 DEF PartAt
<1>24. a3[8 + 1] = u[1]
  BY <1>6, <1>13 DEF PartAt
<1>25. /\ a5[1] = a1[1] /\ a5[2] = a1[2] /\ a5[3] = a1[3] /\ a5[4] = a1[4] /\ a5[5] = a1[5]
       /\ a5[6] = a2[6] /\ a5[7] = a2[7] /\ a5[8] = a2[8] /\ a5[9] = a3[9]
  BY <1>19, <1>20, <1>21
<1>26. /\ a1[2] = v[1] /\ a1[3] = v[2] /\ a1[4] = v[3] /\ a1[5] = v[4]
       /\ a2[6] = t[1] /\ a2[7] = t[2] /\ a2[8] = t[3] /\ a3[9] = u[1]
  BY <1>22, <1>23, <1>24
<1>27. Len(Script) \in Nat /\ Len(Script) > 9
  BY <1>7, <1>17, <1>18
<1> QED BY <1>4, <1>5, <1>6, <1>9, <1>18, <1>25, <1>26, <1>27, Zenon DEF FolieEntries

-----------------------------------------------------------------------------
(* The queues between host and loader are sequences. *)

LEMMA EntryFacts ==
  ASSUME NEW b, NEW w, NEW n
  PROVE  Entry(b, w, n).bytes = b /\ Entry(b, w, n).wants = w /\ Entry(b, w, n).n = n
BY DEF Entry

LEMMA CheckedFacts ==
  ASSUME NEW s, IsSeq(s)
  PROVE  /\ IsSeq(Checked(s)) /\ Len(Checked(s)) = Len(s) + 1
         /\ \A i \in 1 .. Len(s) : Checked(s)[i] = s[i]
BY AppendFacts DEF Checked

LEMMA AddressFacts ==
  ASSUME NEW j
  PROVE  /\ IsSeq(AddressOf(j)) /\ Len(AddressOf(j)) = 5
         /\ AddressOf(j)[1] = 8 /\ AddressOf(j)[2] = 0
         /\ AddressOf(j)[3] = (j * BlockLen) \div 256
         /\ AddressOf(j)[4] = (j * BlockLen) % 256
<1>1. PICK a, b, s : a = (j * BlockLen) \div 256 /\ b = (j * BlockLen) % 256 /\ s = <<8, 0, a, b>>
  OBVIOUS
<1>2. send4bytes(j * BlockLen) = s
  BY <1>1, Zenon DEF send4bytes
<1>3. IsSeq(s) /\ Len(s) = 4 /\ s[1] = 8 /\ s[2] = 0 /\ s[3] = a /\ s[4] = b
  BY <1>1, FourOf
<1>4. /\ IsSeq(Checked(s)) /\ Len(Checked(s)) = 4 + 1
      /\ Checked(s)[1] = 8 /\ Checked(s)[2] = 0 /\ Checked(s)[3] = a /\ Checked(s)[4] = b
  <2>1. IsSeq(s)
    BY <1>3
  <2>2. /\ IsSeq(Checked(s)) /\ Len(Checked(s)) = Len(s) + 1
        /\ \A i \in 1 .. Len(s) : Checked(s)[i] = s[i]
    BY <2>1, CheckedFacts
  <2>3. PICK c : c = Checked(s)
    OBVIOUS
  <2>4. IsSeq(c) /\ Len(c) = 4 + 1 /\ \A i \in 1 .. 4 : c[i] = s[i]
    BY <1>3, <2>2, <2>3, Zenon
  <2> QED BY <1>3, <2>3, <2>4
<1>5. AddressOf(j) = Checked(s)
  BY <1>2, Zenon DEF AddressOf
<1> QED BY <1>1, <1>4, <1>5

(* Block j is in the image.                                                *)
LEMMA BlockRange ==
  ASSUME NEW j \in 0 .. Blocks - 1
  PROVE  /\ j \in Nat /\ j * BlockLen \in Nat /\ (j + 1) * BlockLen = j * BlockLen + BlockLen
         /\ (j + 1) * BlockLen \in Nat /\ (j + 1) * BlockLen <= Len(Image)
<1>1. Blocks \in Nat /\ BlockLen \in Nat /\ BlockLen >= 1 /\ Len(Image) \in Nat
  BY ImageSize
<1>2. j \in Nat /\ j + 1 \in Nat /\ j + 1 <= Blocks
  BY <1>1
<1>3. /\ BlockLen * (j + 1) <= BlockLen * Blocks /\ BlockLen * Blocks \in Nat
      /\ BlockLen * (j + 1) \in Nat
  BY <1>1, <1>2, Times
<1>4. BlockLen * (j + 1) = BlockLen * j + BlockLen /\ BlockLen * j \in Nat
  <2>1. j <= j
    BY <1>2
  <2> QED BY <1>1, <1>2, <2>1, Times
<1>5. BlockLen * Blocks <= Len(Image)
  <2>1. /\ Len(Image) = BlockLen * (Len(Image) \div BlockLen) + (Len(Image) % BlockLen)
        /\ Len(Image) % BlockLen \in 0 .. BlockLen - 1
    BY <1>1, Quotient
  <2>2. Len(Image) = BlockLen * Blocks + (Len(Image) % BlockLen)
    BY <2>1 DEF Blocks
  <2> QED BY <1>1, <1>3, <2>1, <2>2
<1>6. j * BlockLen = BlockLen * j /\ (j + 1) * BlockLen = BlockLen * (j + 1)
  BY <1>1, <1>2
<1> QED BY <1>1, <1>2, <1>3, <1>4, <1>5, <1>6

LEMMA DataFacts ==
  ASSUME NEW j \in 0 .. Blocks - 1
  PROVE  /\ IsSeq(DataOf(j)) /\ Len(DataOf(j)) = 2 + BlockLen
         /\ DataOf(j)[1] = BlockLen - 1
         /\ \A k \in 1 .. BlockLen : DataOf(j)[1 + k] = Image[j * BlockLen + k]
<1>1. PICK o, e : o = j * BlockLen /\ e = (j + 1) * BlockLen
  OBVIOUS
<1>2. o \in Nat /\ e = o + BlockLen /\ e <= Len(Image) /\ e \in Nat
  BY <1>1, BlockRange
<1>3. BlockLen \in Nat /\ BlockLen >= 1 /\ Len(Image) \in Nat /\ Image \in Seq(Byte)
  BY ImageSize
<1>4. o + 1 \in 1 .. Len(Image) + 1 /\ e \in (o + 1) - 1 .. Len(Image) /\ o + 1 <= e
  BY <1>2, <1>3
<1>5. PICK d : d = SubSeq(Image, o + 1, e)
  OBVIOUS
<1>6. /\ d \in Seq(Byte) /\ Len(d) = e - (o + 1) + 1
      /\ \A i \in 1 .. e - (o + 1) + 1 : d[i] = Image[(o + 1) + i - 1]
  BY <1>3, <1>4, <1>5, SubSeqProperties
<1>7. IsSeq(d) /\ Len(d) = BlockLen /\ \A k \in 1 .. BlockLen : d[k] = Image[o + k]
  <2>1. IsSeq(d)
    BY <1>6, SeqIn
  <2>2. e - (o + 1) + 1 = BlockLen
    BY <1>2, <1>3
  <2>3. \A k \in 1 .. BlockLen : (o + 1) + k - 1 = o + k
    BY <1>2, <1>3
  <2> QED BY <1>6, <2>1, <2>2, <2>3
<1>8. PICK c, s : c = <<BlockLen - 1>> /\ s = c \o d
  OBVIOUS
<1>9. IsSeq(c) /\ Len(c) = 1 /\ c[1] = BlockLen - 1
  BY <1>8, Singleton
<1>10. /\ IsSeq(s) /\ Len(s) = 1 + BlockLen /\ s[1] = BlockLen - 1
       /\ \A k \in 1 .. BlockLen : s[1 + k] = d[k]
  <2>1. IsSeq(c) /\ IsSeq(d)
    BY <1>7, <1>9
  <2>2. /\ IsSeq(c \o d) /\ Len(c \o d) = Len(c) + Len(d)
        /\ \A i \in 1 .. Len(c) : (c \o d)[i] = c[i]
        /\ \A i \in 1 .. Len(d) : (c \o d)[Len(c) + i] = d[i]
    BY <2>1, JoinFacts
  <2>3. /\ IsSeq(s) /\ Len(s) = 1 + BlockLen
        /\ \A i \in 1 .. 1 : s[i] = c[i]
        /\ \A i \in 1 .. BlockLen : s[1 + i] = d[i]
    BY <1>7, <1>8, <1>9, <2>2, Zenon
  <2> QED BY <1>9, <2>3
<1>11. PICK r : r = Checked(s)
  OBVIOUS
<1>12. IsSeq(r) /\ Len(r) = (1 + BlockLen) + 1 /\ \A i \in 1 .. 1 + BlockLen : r[i] = s[i]
  <2>1. IsSeq(s)
    BY <1>10
  <2>2. /\ IsSeq(Checked(s)) /\ Len(Checked(s)) = Len(s) + 1
        /\ \A i \in 1 .. Len(s) : Checked(s)[i] = s[i]
    BY <2>1, CheckedFacts
  <2> QED BY <1>10, <1>11, <2>2, Zenon
<1>13. DataOf(j) = r
  BY <1>1, <1>5, <1>8, <1>11, Zenon DEF DataOf
<1>14. ASSUME NEW k \in 1 .. BlockLen PROVE r[1 + k] = Image[o + k]
  <2>1. 1 + k \in 1 .. 1 + BlockLen
    BY <1>3
  <2> QED BY <1>7, <1>10, <1>12, <2>1
<1>15. r[1] = BlockLen - 1 /\ Len(r) = 2 + BlockLen
  <2>1. 1 \in 1 .. 1 + BlockLen
    BY <1>3
  <2> QED BY <1>3, <1>10, <1>12, <2>1
<1> QED BY <1>1, <1>12, <1>13, <1>14, <1>15

(* The bytes of every entry of every script are a sequence.                *)
Sendable(s) == IsSeq(s) /\ \A i \in 1 .. Len(s) : IsSeq(s[i].bytes)

LEMMA SendableJoin ==
  ASSUME NEW s, NEW t, Sendable(s), Sendable(t)
  PROVE  Sendable(s \o t)
<1>1. IsSeq(s) /\ IsSeq(t)
  BY DEF Sendable
<1>2. PICK st, m, n : st = s \o t /\ m = Len(s) /\ n = Len(t)
  OBVIOUS
<1>3. /\ IsSeq(st) /\ Len(st) = m + n /\ m \in Nat /\ n \in Nat
      /\ \A i \in 1 .. m : st[i] = s[i]
      /\ \A i \in 1 .. n : st[m + i] = t[i]
  <2>1. /\ IsSeq(s \o t) /\ Len(s \o t) = Len(s) + Len(t)
        /\ \A i \in 1 .. Len(s) : (s \o t)[i] = s[i]
        /\ \A i \in 1 .. Len(t) : (s \o t)[Len(s) + i] = t[i]
    BY <1>1, JoinFacts
  <2>2. Len(s) \in Nat /\ Len(t) \in Nat
    BY <1>1, SeqFacts
  <2> QED BY <1>2, <2>1, <2>2, Zenon
<1>4. ASSUME NEW i \in 1 .. m + n PROVE IsSeq(st[i].bytes)
  <2>1. CASE i <= m
    <3>1. i \in 1 .. m
      BY <1>3, <2>1
    <3>2. IsSeq(s[i].bytes)
      BY <1>2, <3>1 DEF Sendable
    <3> QED BY <1>3, <3>1, <3>2
  <2>2. CASE i > m
    <3>1. i - m \in 1 .. n /\ i = m + (i - m)
      BY <1>3, <2>2
    <3>2. st[m + (i - m)] = t[i - m]
      BY <1>3, <3>1
    <3>3. IsSeq(t[i - m].bytes)
      BY <1>2, <3>1 DEF Sendable
    <3> QED BY <3>1, <3>2, <3>3
  <2> QED BY <1>3, <2>1, <2>2
<1> QED BY <1>2, <1>3, <1>4 DEF Sendable

LEMMA Sendables ==
  /\ \A c : IsSeq(Cmd(c).bytes) /\ IsSeq(Entry(<<c>>, "any", MaxGreetings).bytes)
  /\ IsSeq(Connect.bytes) /\ IsSeq(WantAck.bytes) /\ \A n : IsSeq(Take(n).bytes)
  /\ IsSeq(Entry(<<>>, "count", 0).bytes)
  /\ IsSeq(Entry(<<255, 255>>, "slow", 0).bytes) /\ IsSeq(Entry(<<3, 252>>, "ack", 0).bytes)
<1>1. ASSUME NEW c PROVE IsSeq(Cmd(c).bytes) /\ IsSeq(Entry(<<c>>, "any", MaxGreetings).bytes)
  BY TwoOf, Singleton, EntryFacts DEF Cmd
<1>2. IsSeq(Connect.bytes)
  BY Singleton, EntryFacts DEF Connect
<1>3. IsSeq(WantAck.bytes) /\ IsSeq(Entry(<<>>, "count", 0).bytes)
  BY NothingSeq, EntryFacts DEF WantAck
<1>4. ASSUME NEW n PROVE IsSeq(Take(n).bytes)
  BY NothingSeq, EntryFacts DEF Take
<1>5. IsSeq(Entry(<<255, 255>>, "slow", 0).bytes) /\ IsSeq(Entry(<<3, 252>>, "ack", 0).bytes)
  BY TwoOf, EntryFacts
<1> QED BY <1>1, <1>2, <1>3, <1>4, <1>5

LEMMA RowsSendable == Sendable(writeFlash)
<1>1. PICK w : w = writeFlash
  OBVIOUS
<1>2. /\ IsSeq(w) /\ Len(w) = 3 * Blocks /\ Blocks \in Nat
      /\ \A j \in 0 .. Blocks - 1 :
           /\ w[3 * j + 1] = Cmd(WRITE)
           /\ w[3 * j + 2] = Entry(AddressOf(j), "ack", 0)
           /\ w[3 * j + 3] = Entry(DataOf(j), "ack", 0)
  BY <1>1, WriteFlashRows, ImageSize DEF Rows
<1>3. ASSUME NEW i \in 1 .. 3 * Blocks PROVE IsSeq(w[i].bytes)
  <2>1. PICK j \in 0 .. Blocks - 1 : i = 3 * j + 1 \/ i = 3 * j + 2 \/ i = 3 * j + 3
    <3>1. (i - 1) \div 3 \in 0 .. Blocks - 1
      BY <1>2
    <3>2. i = 3 * ((i - 1) \div 3) + 1 \/ i = 3 * ((i - 1) \div 3) + 2 \/ i = 3 * ((i - 1) \div 3) + 3
      BY <1>2
    <3> QED BY <3>1, <3>2
  <2>2. /\ w[3 * j + 1] = Cmd(WRITE)
        /\ w[3 * j + 2] = Entry(AddressOf(j), "ack", 0)
        /\ w[3 * j + 3] = Entry(DataOf(j), "ack", 0)
    BY <1>2
  <2>3. IsSeq(Cmd(WRITE).bytes)
    BY Sendables
  <2>4. IsSeq(Entry(AddressOf(j), "ack", 0).bytes)
    BY AddressFacts, EntryFacts
  <2>5. IsSeq(Entry(DataOf(j), "ack", 0).bytes)
    BY DataFacts, EntryFacts
  <2> QED BY <2>1, <2>2, <2>3, <2>4, <2>5
<1> QED BY <1>1, <1>2, <1>3 DEF Sendable

LEMMA OneSendable ==
  ASSUME NEW a, IsSeq(a.bytes)
  PROVE  Sendable(<<a>>)
<1>1. \A i \in 1 .. 1 : i = 1
  OBVIOUS
<1> QED BY <1>1, Singleton DEF Sendable

LEMMA TwoSendable ==
  ASSUME NEW a, NEW b, IsSeq(a.bytes), IsSeq(b.bytes)
  PROVE  Sendable(<<a, b>>)
<1>1. \A i \in 1 .. 2 : i = 1 \/ i = 2
  OBVIOUS
<1> QED BY <1>1, TwoOf DEF Sendable

LEMMA ThreeSendable ==
  ASSUME NEW a, NEW b, NEW c,
         IsSeq(a.bytes), IsSeq(b.bytes), IsSeq(c.bytes)
  PROVE  Sendable(<<a, b, c>>)
<1>1. \A i \in 1 .. 3 : i = 1 \/ i = 2 \/ i = 3
  OBVIOUS
<1> QED BY <1>1, ThreeOf DEF Sendable

LEMMA FourSendable ==
  ASSUME NEW a, NEW b, NEW c, NEW d,
         IsSeq(a.bytes), IsSeq(b.bytes), IsSeq(c.bytes), IsSeq(d.bytes)
  PROVE  Sendable(<<a, b, c, d>>)
<1>1. \A i \in 1 .. 4 : i = 1 \/ i = 2 \/ i = 3 \/ i = 4
  OBVIOUS
<1> QED BY <1>1, FourOf DEF Sendable

LEMMA FiveSendable ==
  ASSUME NEW a, NEW b, NEW c, NEW d, NEW e,
         IsSeq(a.bytes), IsSeq(b.bytes), IsSeq(c.bytes), IsSeq(d.bytes), IsSeq(e.bytes)
  PROVE  Sendable(<<a, b, c, d, e>>)
<1>1. \A i \in 1 .. 5 : i = 1 \/ i = 2 \/ i = 3 \/ i = 4 \/ i = 5
  OBVIOUS
<1>2. PICK s : s = <<a, b, c, d, e>>
  OBVIOUS
<1>3. /\ s \in Seq({a, b, c, d, e}) /\ Len(s) = 5
      /\ s[1] = a /\ s[2] = b /\ s[3] = c /\ s[4] = d /\ s[5] = e
  BY <1>2
<1>4. IsSeq(s)
  BY <1>3, SeqIn
<1> QED BY <1>1, <1>2, <1>3, <1>4 DEF Sendable

LEMMA AllSendable ==
  ASSUME tool \in {"folie", "flash", "wipe"}
  PROVE  Sendable(Script)
<1>1. Sendable(<<Connect>>)
  BY Sendables, OneSendable
<1>2. Sendable(getBootVersion)
  BY Sendables, FourSendable DEF getBootVersion
<1>3. Sendable(getChipType)
  BY Sendables, ThreeSendable DEF getChipType
<1>4. Sendable(Unprotect)
  BY Sendables, ThreeSendable DEF Unprotect
<1>5. Sendable(massErase)
  BY Sendables, TwoSendable DEF massErase
<1>6. Sendable(ErasePages)
  <2>1. IsSeq(Entry(Checked(<<1, 0, 1>>), "ack", 0).bytes)
    BY ThreeOf, CheckedFacts, EntryFacts
  <2> QED BY <2>1, Sendables, FiveSendable DEF ErasePages
<1>7. /\ IsSeq(Entry(Checked(send4bytes(0)), "ack", 0).bytes)
  <2>1. IsSeq(send4bytes(0))
    BY FourOf DEF send4bytes
  <2> QED BY <2>1, CheckedFacts, EntryFacts
<1>8. Sendable(ReadFirst)
  BY <1>7, Sendables, FourSendable DEF ReadFirst
<1>9. Sendable(sendGoCmd)
  BY <1>7, Sendables, TwoSendable DEF sendGoCmd
<1>10. CASE tool = "flash"
  <2>1. Sendable(((<<Connect>> \o writeFlash) \o ReadFirst) \o sendGoCmd)
    BY <1>1, <1>8, <1>9, RowsSendable, SendableJoin
  <2> QED BY <1>10, <2>1 DEF Script, Scripts
<1>11. CASE tool = "folie"
  <2>1. Sendable(((((<<Connect>> \o getBootVersion) \o getChipType) \o Unprotect)
                  \o massErase) \o writeFlash)
    BY <1>1, <1>2, <1>3, <1>4, <1>5, RowsSendable, SendableJoin
  <2> QED BY <1>11, <2>1 DEF Script, Scripts, uploadSTM32
<1>12. CASE tool = "wipe"
  <2>1. Sendable((<<Connect>> \o ErasePages) \o massErase)
    BY <1>1, <1>5, <1>6, SendableJoin
  <2> QED BY <1>12, <2>1 DEF Script, Scripts
<1> QED BY <1>10, <1>11, <1>12

(* What is known of every state: types, and what is proved above.          *)
Orderly ==
  /\ tool \in {"folie", "flash", "wipe"} /\ step \in Int
  /\ Queues /\ LoaderInv

LEMMA AnswerFacts ==
  /\ DOMAIN Answers = {GET, GETVER, GETID}
  /\ \A c \in DOMAIN Answers : IsSeq(Answers[c])
  /\ Answers[GET] = <<121, 7, 34, 0, 1, 2, 17, 33, 49, 67, 121>>
  /\ Answers[GETID] = <<121, 1, 4, 16, 121>>
<1>1. /\ DOMAIN Answers = {GET, GETVER, GETID}
      /\ Answers[GET] = <<121, 7, 34, 0, 1, 2, 17, 33, 49, 67, 121>>
      /\ Answers[GETVER] = <<121, 34, 0, 0, 121>>
      /\ Answers[GETID] = <<121, 1, 4, 16, 121>>
  BY DEF Answers, ACK, GET, GETVER, GETID, READ, GO, WRITE, ERASE
<1>2. /\ <<121, 7, 34, 0, 1, 2, 17, 33, 49, 67, 121>> \in Seq(Int)
      /\ <<121, 34, 0, 0, 121>> \in Seq(Int) /\ <<121, 1, 4, 16, 121>> \in Seq(Int)
  OBVIOUS
<1>3. \A c \in DOMAIN Answers : Answers[c] \in Seq(Int)
  BY <1>1, <1>2, Zenon
<1>4. \A c \in DOMAIN Answers : IsSeq(Answers[c])
  BY <1>3, SeqIn
<1> QED BY <1>1, <1>4

LEMMA CountType ==
  ASSUME args \in Seq(Byte), Len(args) >= 6
  PROVE  Count \in 1 .. 256
<1>1. args[6] \in Byte
  <2>1. 6 \in 1 .. Len(args)
    OBVIOUS
  <2> QED BY <2>1
<1>2. args[6] \in 0 .. 255
  BY <1>1 DEF Byte
<1>3. MaxBlock \in 8 .. 256
  BY Sizes
<1>4. \A n \in 0 .. 255, m \in 8 .. 256 : (IF n < m THEN n + 1 ELSE m) \in 1 .. 256
  OBVIOUS
<1> QED BY <1>2, <1>3, <1>4, Zenon DEF Count, Counted

LEMMA PutFacts ==
  ASSUME NEW r, IsSeq(back), IsSeq(r), Put(r)
  PROVE  IsSeq(back') /\ \E q : IsSeq(q) /\ back' = back \o q
<1>1. IsSeq(back \o r)
  BY JoinFacts
<1> QED BY <1>1 DEF Put

(* Replies are only added at the end.                                      *)
LEMMA TakeQueues ==
  ASSUME Queues, args \in Seq(Byte), NEW b \in Byte, TakeByte(b)
  PROVE  IsSeq(wire') /\ IsSeq(back') /\ \E q : IsSeq(q) /\ back' = back \o q
<1>1. IsSeq(wire) /\ IsSeq(back)
  BY DEF Queues
<1>2. IsSeq(wire')
  <2>1. CASE wire # <<>> /\ wire' = Tail(wire)
    BY <1>1, <2>1, TailFacts
  <2> QED BY <1>1, <2>1 DEF TakeByte, getByte, Arrived, GaveUp
<1>3. IsSeq(<<ACK>>) /\ IsSeq(<<NAK>>)
  BY Singleton
<1>4. CASE UNCHANGED back
  <2>1. back \o <<>> = back /\ IsSeq(<<>>)
    BY <1>1, SeqFacts, NothingSeq
  <2> QED BY <1>1, <1>2, <1>4, <2>1
<1>5. CASE Put(<<ACK>>) \/ Put(<<NAK>>)
  BY <1>1, <1>2, <1>3, <1>5, PutFacts
<1>6. CASE initialSync(b)
  BY <1>4, <1>5, <1>6 DEF initialSync
<1>7. CASE uploadHandler(b)
  <2>1. CASE args # <<>> /\ args[1] \in DOMAIN Answers /\ Put(Answers[args[1]])
    BY <1>1, <1>2, <2>1, AnswerFacts, PutFacts
  <2> QED BY <1>4, <1>5, <1>7, <2>1 DEF uploadHandler
<1>8. CASE erase(b)
  BY <1>4, <1>5, <1>8 DEF erase
<1>9. CASE getAddrCheck(b)
  BY <1>4, <1>5, <1>9 DEF getAddrCheck
<1>10. CASE writeData(b)
  BY <1>4, <1>5, <1>10 DEF writeData
<1>11. CASE readData(b)
  <2>1. CASE Len(args) = 5
    BY <1>4, <1>11, <2>1 DEF readData
  <2>2. CASE Len(args) # 5
    <3>1. Len(args) >= 6
      <4>1. Len(args) \in Nat /\ Len(args) >= 5
        BY <1>11 DEF readData
      <4>2. \A n \in Nat : n >= 5 /\ n # 5 => n >= 6
        OBVIOUS
      <4> QED BY <2>2, <4>1, <4>2, Zenon
    <3>2. Count \in 1 .. 256
      BY <3>1, CountType
    <3> DEFINE o == Offset(Address)
               S(i) == IF (o + i) \div 4 \in Words
                       THEN flash[(o + i) \div 4][((o + i) % 4) + 1] ELSE 0
               d == [i \in 1 .. Count |-> S(i - 1)]
    <3>3. Put(<<ACK>> \o d)
      BY <1>11, <2>2 DEF readData
    <3> HIDE DEF S
    <3>4. IsSeq(d)
      <4> DEFINE E == {S(i - 1) : i \in 1 .. Count}
      <4>1. \A i \in 1 .. Count : S(i - 1) \in E
        OBVIOUS
      <4> HIDE DEF E
      <4>2. d \in Seq(E)
        BY <3>2, <4>1
      <4> QED BY <4>2, SeqIn
    <3> HIDE DEF d
    <3>5. IsSeq(<<ACK>> \o d)
      BY <1>3, <3>4, JoinFacts
    <3> QED BY <1>1, <1>2, <3>3, <3>5, PutFacts
  <2> QED BY <2>1, <2>2
<1> QED BY <1>2, <1>6, <1>7, <1>8, <1>9, <1>10, <1>11 DEF TakeByte

(* An entry of the script is entered, or the end.                          *)
LEMMA EnterFacts ==
  ASSUME tool \in {"folie", "flash", "wipe"}, NEW k \in Int, Enter(k)
  PROVE  /\ step' = k /\ IsSeq(tosend')
         /\ k \in 1 .. Len(Script) => tosend' = Script[k].bytes /\ left' = Script[k].n
<1>1. Sendable(Script) /\ IsSeq(WantAck.bytes)
  BY AllSendable, Sendables
<1>2. CASE k \in 1 .. Len(Script)
  BY <1>1, <1>2 DEF Enter, Sendable
<1>3. CASE k \notin 1 .. Len(Script)
  BY <1>1, <1>3 DEF Enter
<1> QED BY <1>2, <1>3

(* The next reply: from the chunk, from another chunk, or none.            *)
ReplyOf(r, rest, b) ==
  \/ pending # <<>> /\ r = Head(pending) /\ rest = Tail(pending) /\ b = back
  \/ /\ pending = <<>> /\ back # <<>> /\ r = Head(back)
     /\ \E k \in {1, Len(back)} : rest = SubSeq(back, 2, k) /\ b = SubSeq(back, k + 1, Len(back))
  \/ pending = <<>> /\ back = <<>> /\ Silent /\ r = 0 /\ rest = <<>> /\ b = <<>>

Looks(r, rest) ==
  \/ connectToTarget(r, rest) \/ wantAck(r, rest) \/ wantSlowAck(r, rest) \/ TakeReply(r, rest)

LEMMA ReceiveFacts ==
  ASSUME Receive
  PROVE  /\ Running /\ tosend = <<>>
         /\ \E r, rest : ReplyOf(r, rest, back') /\ Looks(r, rest)
         /\ UNCHANGED <<wire, at, args, prog, flash, tool, stale, astray>>
<1>1. PICK y \in Replies : back' = y.back /\ Looks(y.r, y.rest)
  BY DEF Receive, Looks
<1>2. ReplyOf(y.r, y.rest, y.back)
  <2>1. CASE pending # <<>>
    BY <2>1 DEF Replies, ReplyOf
  <2>2. CASE pending = <<>> /\ back # <<>>
    BY <2>2 DEF Replies, ReplyOf
  <2>3. CASE pending = <<>> /\ back = <<>>
    BY <2>3 DEF Replies, ReplyOf
  <2> QED BY <2>1, <2>2, <2>3
<1>3. UNCHANGED <<wire, at, args, prog, flash, tool, stale, astray>> /\ Running /\ tosend = <<>>
  BY DEF Receive
<1> QED BY <1>1, <1>2, <1>3

(* With the reply away, the rest of the chunk and what is behind it are    *)
(* all the others.                                                         *)
LEMMA ReplyFacts ==
  ASSUME Queues, NEW r, NEW rest, NEW b, ReplyOf(r, rest, b)
  PROVE  /\ IsSeq(rest) /\ IsSeq(b) /\ IsSeq(Replied)
         /\ Len(rest \o b) = IF Replied = <<>> THEN 0 ELSE Len(Replied) - 1
         /\ Replied = <<>> => Silent /\ r = 0 /\ rest = <<>> /\ b = <<>>
         /\ Replied # <<>> => r = Replied[1]
         /\ \A i \in 1 .. Len(Replied) - 1 : (rest \o b)[i] = Replied[i + 1]
<1>1. IsSeq(pending) /\ IsSeq(back)
  BY DEF Queues
<1>2. IsSeq(Replied) /\ Len(Replied) \in Nat
  BY <1>1, JoinFacts, SeqFacts DEF Replied
<1>3. CASE pending # <<>>
  <2>1. r = Head(pending) /\ rest = Tail(pending) /\ b = back
    BY <1>3 DEF ReplyOf
  <2>2. PICK p, q, m, n : p = pending /\ q = rest /\ m = Len(pending) /\ n = Len(back)
    OBVIOUS
  <2>3. /\ IsSeq(q) /\ Len(q) = m - 1 /\ r = p[1]
        /\ \A i \in 1 .. m - 1 : q[i] = p[i + 1]
    BY <1>1, <1>3, <2>1, <2>2, TailFacts
  <2>4. m \in Nat /\ m >= 1 /\ n \in Nat
    BY <1>1, <1>3, <2>2, SeqFacts
  <2>5. PICK all, more : all = Replied /\ more = q \o back
    OBVIOUS
  <2>6. /\ Len(all) = m + n
        /\ \A i \in 1 .. m : all[i] = p[i]
        /\ \A i \in 1 .. n : all[m + i] = back[i]
    <3>1. /\ Len(pending \o back) = Len(pending) + Len(back)
          /\ \A i \in 1 .. Len(pending) : (pending \o back)[i] = pending[i]
          /\ \A i \in 1 .. Len(back) : (pending \o back)[Len(pending) + i] = back[i]
      BY <1>1, JoinFacts
    <3> QED BY <2>2, <2>5, <3>1, Zenon DEF Replied
  <2>7. /\ Len(more) = (m - 1) + n
        /\ \A i \in 1 .. m - 1 : more[i] = q[i]
        /\ \A i \in 1 .. n : more[(m - 1) + i] = back[i]
    <3>1. IsSeq(q)
      BY <2>3
    <3>2. /\ Len(q \o back) = Len(q) + Len(back)
          /\ \A i \in 1 .. Len(q) : (q \o back)[i] = q[i]
          /\ \A i \in 1 .. Len(back) : (q \o back)[Len(q) + i] = back[i]
      BY <1>1, <3>1, JoinFacts
    <3>3. Len(q) = m - 1
      BY <2>3
    <3> QED BY <2>2, <2>5, <3>2, <3>3, Zenon
  <2>8. ASSUME NEW i \in 1 .. (m + n) - 1 PROVE more[i] = all[i + 1]
    <3>1. CASE i <= m - 1
      <4>1. i \in 1 .. m - 1 /\ i + 1 \in 1 .. m
        BY <2>4, <3>1
      <4> QED BY <2>3, <2>6, <2>7, <4>1
    <3>2. CASE i > m - 1
      <4>1. PICK k \in 1 .. n : i = (m - 1) + k /\ i + 1 = m + k
        <5>1. /\ i - (m - 1) \in 1 .. n /\ i = (m - 1) + (i - (m - 1))
              /\ i + 1 = m + (i - (m - 1))
          BY <2>4, <3>2
        <5> QED BY <5>1
      <4> QED BY <2>6, <2>7, <4>1
    <3> QED BY <2>4, <3>1, <3>2
  <2>9. all # <<>> /\ r = all[1] /\ Len(more) = Len(all) - 1 /\ Len(all) = m + n
    <3>1. 1 \in 1 .. m /\ Len(all) >= 1 /\ (m - 1) + n = (m + n) - 1
      BY <2>4, <2>6
    <3>2. all # <<>>
      BY <1>2, <2>5, <3>1, SeqFacts
    <3> QED BY <2>3, <2>6, <2>7, <3>1, <3>2
  <2>10. IsSeq(rest) /\ IsSeq(b) /\ rest \o b = more /\ Replied = all
    BY <1>1, <2>1, <2>2, <2>3, <2>5
  <2> QED BY <1>2, <2>8, <2>9, <2>10
<1>4. CASE pending = <<>> /\ back # <<>>
  <2>1. PICK k \in {1, Len(back)} :
          rest = SubSeq(back, 2, k) /\ b = SubSeq(back, k + 1, Len(back))
    BY <1>4 DEF ReplyOf
  <2>2. r = Head(back) /\ Replied = back
    BY <1>1, <1>4, SeqFacts DEF ReplyOf, Replied
  <2>3. PICK s, n : s = back /\ n = Len(back)
    OBVIOUS
  <2>4. IsSeq(s) /\ n \in Nat /\ n >= 1 /\ n = Len(s) /\ r = s[1] /\ s # <<>>
    BY <1>1, <1>4, <2>2, <2>3, SeqFacts
  <2>5. PICK t : t = Tail(s)
    OBVIOUS
  <2>6. IsSeq(t) /\ Len(t) = n - 1 /\ \A i \in 1 .. n - 1 : t[i] = s[i + 1]
    BY <2>4, <2>5, TailFacts
  <2>7. PICK D : Over(D, s)
    BY <2>4 DEF IsSeq, Over
  <2>8. s \in Seq(D)
    BY <2>7 DEF Over
  <2>9. SubSeq(s, 2, n) = t
    BY <2>3, <2>4, <2>5, <2>8, TailIsSubSeq
  <2>10. SubSeq(s, 2, 1) = <<>> /\ SubSeq(s, n + 1, n) = <<>>
    BY <2>4, <2>8, SubSeqEmpty
  <2>11. t \o <<>> = t /\ <<>> \o t = t /\ IsSeq(<<>>)
    BY <2>6, SeqFacts, NothingSeq
  <2>12. IsSeq(rest) /\ IsSeq(b) /\ rest \o b = t
    <3>1. CASE k = 1
      <4>1. k + 1 = 2
        BY <3>1
      <4>2. rest = <<>> /\ b = t
        BY <2>1, <2>3, <2>9, <2>10, <3>1, <4>1
      <4> QED BY <2>6, <2>11, <4>2
    <3>2. CASE k = Len(back)
      <4>1. rest = t /\ b = <<>>
        BY <2>1, <2>3, <2>9, <2>10, <3>2
      <4> QED BY <2>6, <2>11, <4>1
    <3> QED BY <2>1, <3>1, <3>2
  <2> QED BY <1>2, <2>2, <2>3, <2>4, <2>6, <2>12
<1>5. CASE pending = <<>> /\ back = <<>>
  <2>1. Silent /\ r = 0 /\ rest = <<>> /\ b = <<>>
    BY <1>5 DEF ReplyOf
  <2>2. Replied = <<>> /\ <<>> \o <<>> = <<>> /\ Len(<<>>) = 0 /\ IsSeq(<<>>)
    BY <1>5, NothingSeq, SeqFacts DEF Replied
  <2>3. \A i \in 1 .. 0 - 1 : FALSE
    OBVIOUS
  <2> QED BY <1>2, <2>1, <2>2, <2>3
<1> QED BY <1>3, <1>4, <1>5

(* What a look at a reply leads to.                                        *)
LEMMA LooksFacts ==
  ASSUME Orderly, NEW r, NEW rest, IsSeq(rest), tosend = <<>>, Looks(r, rest)
  PROVE  step' \in Int /\ IsSeq(tosend') /\ IsSeq(pending')
<1>1. tool \in {"folie", "flash", "wipe"} /\ step \in Int /\ step + 1 \in Int /\ -step \in Int
  BY DEF Orderly
<1>2. CASE Proceed(rest)
  <2>1. Enter(step + 1) /\ IsSeq(pending')
    BY <1>2, NothingSeq DEF Proceed
  <2> QED BY <1>1, <2>1, EnterFacts
<1>3. CASE Exit(rest)
  <2>1. Enter(-step) /\ IsSeq(pending')
    BY <1>3 DEF Exit
  <2> QED BY <1>1, <2>1, EnterFacts
<1>4. CASE UNCHANGED step /\ tosend' \in {tosend, <<127>>} /\ pending' = rest
  BY <1>1, <1>4, Singleton, NothingSeq
<1>5. CASE step' = step + 1 /\ UNCHANGED tosend /\ pending' = rest
  BY <1>1, <1>5, NothingSeq
<1>6. CASE connectToTarget(r, rest)
  BY <1>2, <1>3, <1>4, <1>6 DEF connectToTarget
<1>7. CASE wantAck(r, rest)
  BY <1>2, <1>3, <1>7 DEF wantAck
<1>8. CASE wantSlowAck(r, rest)
  BY <1>2, <1>3, <1>4, <1>8 DEF wantSlowAck
<1>9. CASE TakeReply(r, rest)
  BY <1>2, <1>4, <1>5, <1>9 DEF TakeReply
<1> QED BY <1>6, <1>7, <1>8, <1>9 DEF Looks

LEMMA InitOrderly == Init => Orderly
<1> SUFFICES ASSUME Init PROVE Orderly
  OBVIOUS
<1>1. /\ tool \in Tools /\ step = 0 /\ wire = <<>> /\ back = <<>>
      /\ pending = <<>> /\ tosend = <<>>
  BY DEF Init, InitDevice
<1>2. tool \in {"folie", "flash", "wipe"}
  BY <1>1, UploadAssumption
<1>3. Queues
  BY <1>1, NothingSeq DEF Queues
<1>4. LoaderInv
  BY InitLoader
<1> QED BY <1>1, <1>2, <1>3, <1>4 DEF Orderly

(* What Send leaves, and what it does not touch.                           *)
LEMMA SendFacts ==
  ASSUME Orderly, Send
  PROVE  /\ Queues' /\ tosend # <<>> /\ Stream' = Stream
         /\ UNCHANGED <<back, at, args, prog, flash, tool, step, left, pending>>
         /\ \E n \in 0 .. Len(tosend) :
              /\ wire' = wire \o SubSeq(tosend, 1, n)
              /\ tosend' = SubSeq(tosend, n + 1, Len(tosend))
<1>1. /\ IsSeq(wire) /\ IsSeq(back) /\ IsSeq(pending) /\ IsSeq(tosend)
      /\ args \in Seq(Byte)
  BY DEF Orderly, Queues, LoaderInv, WriteInv
<1>2. tosend # <<>> /\ UNCHANGED <<back, at, args, prog, flash, tool, step, left, pending>>
  BY DEF Send
<1>3. IsSeq(args) /\ Len(tosend) \in Nat
  BY <1>1, SeqIn, SeqFacts
<1>4. PICK n \in 0 .. Len(tosend) :
        /\ wire' = wire \o SubSeq(tosend, 1, n)
        /\ tosend' = SubSeq(tosend, n + 1, Len(tosend))
  <2>1. CASE wire' = wire \o tosend /\ tosend' = <<>>
    <3>1. PICK D : Over(D, tosend)
      BY <1>1 DEF IsSeq, Over
    <3>2. tosend \in Seq(D)
      BY <3>1 DEF Over
    <3>3. SubSeq(tosend, 1, Len(tosend)) = tosend
      BY <3>2, SubSeqFull
    <3>4. SubSeq(tosend, Len(tosend) + 1, Len(tosend)) = <<>>
      BY <1>3, <3>2, SubSeqEmpty
    <3>5. Len(tosend) \in 0 .. Len(tosend)
      BY <1>3
    <3> QED BY <2>1, <3>3, <3>4, <3>5
  <2>2. CASE \E k \in 0 .. Len(tosend) - 1 :
               /\ wire' = wire \o SubSeq(tosend, 1, k)
               /\ tosend' = SubSeq(tosend, k + 1, Len(tosend))
    <3>1. PICK k \in 0 .. Len(tosend) - 1 :
               /\ wire' = wire \o SubSeq(tosend, 1, k)
               /\ tosend' = SubSeq(tosend, k + 1, Len(tosend))
      BY <2>2
    <3>2. k \in 0 .. Len(tosend)
      BY <1>3
    <3> QED BY <3>1, <3>2
  <2> QED BY <2>1, <2>2 DEF Send
<1>5. IsSeq(SubSeq(tosend, 1, n)) /\ IsSeq(SubSeq(tosend, n + 1, Len(tosend)))
  BY <1>1, Cuts
<1>6. IsSeq(wire') /\ IsSeq(tosend')
  BY <1>1, <1>4, <1>5, JoinFacts
<1>7. Three(args, wire \o SubSeq(tosend, 1, n), SubSeq(tosend, n + 1, Len(tosend)))
        = Three(args, wire, tosend)
  BY <1>1, <1>3, SendSame
<1>8. Three(args', wire', tosend') = Three(args, wire, tosend)
  BY <1>2, <1>4, <1>7
<1>9. Stream' = Stream
  BY <1>8 DEF Three, Stream
<1> QED BY <1>1, <1>2, <1>4, <1>6, <1>9 DEF Queues

LEMMA NextOrderly == Orderly /\ [Next]_vars => Orderly'
<1> SUFFICES ASSUME Orderly, [Next]_vars PROVE Orderly'
  OBVIOUS
<1>1. LoaderInv'
  BY NextLoader DEF Orderly
<1>2. /\ IsSeq(wire) /\ IsSeq(back) /\ IsSeq(pending) /\ IsSeq(tosend)
      /\ tool \in {"folie", "flash", "wipe"} /\ step \in Int /\ args \in Seq(Byte) /\ Queues
  BY DEF Orderly, Queues, LoaderInv, WriteInv
<1>3. CASE UNCHANGED <<tool, step, tosend, pending>> /\ IsSeq(wire') /\ IsSeq(back')
  BY <1>1, <1>2, <1>3 DEF Orderly, Queues
<1>4. CASE Start
  <2>1. /\ tool' \in Tools /\ step' = 1 /\ tosend' = Connect.bytes /\ pending' = <<>>
        /\ back' \in {back, <<>>} /\ UNCHANGED wire
    BY <1>4 DEF Start
  <2>2. tool' \in {"folie", "flash", "wipe"} /\ step' \in Int
    BY <2>1, UploadAssumption
  <2>3. Queues'
    BY <1>2, <2>1, Sendables, NothingSeq DEF Queues
  <2> QED BY <1>1, <2>2, <2>3 DEF Orderly
<1>5. CASE Send
  BY <1>1, <1>2, <1>5, SendFacts DEF Orderly
<1>6. CASE Hold
  BY <1>2, <1>3, <1>6 DEF Hold, devVars
<1>7. CASE Receive
  <2>1. /\ tosend = <<>> /\ UNCHANGED <<wire, tool>>
        /\ \E r, rest : ReplyOf(r, rest, back') /\ Looks(r, rest)
    BY <1>7, ReceiveFacts
  <2>2. PICK r, rest : ReplyOf(r, rest, back') /\ Looks(r, rest)
    BY <2>1
  <2>3. IsSeq(rest) /\ IsSeq(back')
    BY <1>2, <2>2, ReplyFacts
  <2>4. step' \in Int /\ IsSeq(tosend') /\ IsSeq(pending')
    BY <2>1, <2>2, <2>3, LooksFacts
  <2> QED BY <1>1, <1>2, <2>1, <2>3, <2>4 DEF Orderly, Queues
<1>8. CASE Loader
  <2>1. UNCHANGED <<tool, step, tosend, pending>> /\ \E b \in Byte : TakeByte(b)
    BY <1>8 DEF Loader
  <2> QED BY <1>2, <1>3, <2>1, TakeQueues
<1>9. CASE Flashing
  <2>1. UNCHANGED <<tool, step, tosend, pending>> /\ WriteFlash
    BY <1>9 DEF Flashing, hostVars
  <2>2. IsSeq(<<ACK>>)
    BY Singleton
  <2>3. CASE UNCHANGED back /\ UNCHANGED wire
    BY <1>2, <1>3, <2>1, <2>3
  <2>4. CASE Put(<<ACK>>) /\ UNCHANGED wire
    BY <1>2, <1>3, <2>1, <2>2, <2>4, PutFacts
  <2> QED BY <2>1, <2>3, <2>4 DEF WriteFlash, ErasePage, ProgramWord, ProgramOdd, WriteDone
<1>10. CASE PowerCut
  <2>1. UNCHANGED <<tool, step, tosend, pending>> /\ wire' = <<>> /\ back' = <<>>
    BY <1>10 DEF PowerCut, Reset, hostVars
  <2> QED BY <1>2, <1>3, <2>1, NothingSeq
<1>11. CASE UNCHANGED vars
  BY <1>2, <1>3, <1>11 DEF vars, devVars, hostVars
<1> QED BY <1>4, <1>5, <1>6, <1>7, <1>8, <1>9, <1>10, <1>11 DEF Next

-----------------------------------------------------------------------------
(* The bytes on their way, and how the loader takes them. *)

LEMMA ThreeMore ==
  ASSUME NEW a, NEW w, NEW u, IsSeq(a), IsSeq(w), IsSeq(u)
  PROVE  /\ Len(Three(a, w, u)) = 0 => a = <<>> /\ w = <<>> /\ u = <<>>
         /\ w # <<>> => Three(a, w, u)[Len(a) + 1] = Head(w) /\ Len(Three(a, w, u)) >= Len(a) + 1
         /\ w = <<>> /\ u = <<>> => Three(a, w, u) = a
         /\ Len(Three(a, w, u)) = Len(a) => w = <<>> /\ u = <<>>
         /\ Len(Three(a, w, u)) >= Len(a)
<1>1. PICK k, m, n : k = Len(a) /\ m = Len(w) /\ n = Len(u)
  OBVIOUS
<1>2. /\ k \in Nat /\ m \in Nat /\ n \in Nat
      /\ a = <<>> <=> k = 0
      /\ w = <<>> <=> m = 0
      /\ u = <<>> <=> n = 0
      /\ w # <<>> => Head(w) = w[1]
  BY <1>1, SeqFacts
<1>3. PICK t : t = Three(a, w, u)
  OBVIOUS
<1>4. Len(t) = k + m + n /\ \A i \in 1 .. m : t[k + i] = w[i]
  <2>1. /\ Len(Three(a, w, u)) = Len(a) + Len(w) + Len(u)
        /\ \A i \in 1 .. Len(w) : Three(a, w, u)[Len(a) + i] = w[i]
    BY ThreeFacts
  <2> QED BY <1>1, <1>3, <2>1, Zenon
<1>5. w = <<>> /\ u = <<>> => t = a
  <2>1. (a \o <<>>) \o <<>> = a
    BY SeqFacts
  <2> QED BY <1>3, <2>1 DEF Three
<1>6. w # <<>> => t[k + 1] = Head(w) /\ Len(t) >= k + 1
  <2>1. w # <<>> => 1 \in 1 .. m
    BY <1>2
  <2> QED BY <1>2, <1>4, <2>1
<1>7. /\ Len(t) = 0 => a = <<>> /\ w = <<>> /\ u = <<>>
      /\ Len(t) = k => w = <<>> /\ u = <<>>
      /\ Len(t) >= k
  BY <1>2, <1>4
<1> QED BY <1>1, <1>3, <1>5, <1>6, <1>7

(* Without the first.                                                      *)
LEMMA Forget ==
  ASSUME NEW a, NEW w, NEW u, IsSeq(a), IsSeq(w), IsSeq(u)
  PROVE  /\ Len(Three(a, w, u)) = Len(a) + Len(Three(<<>>, w, u))
         /\ Len(Three(<<>>, w, u)) \in Nat
         /\ \A i \in 1 .. Len(Three(<<>>, w, u)) : Three(a, w, u)[Len(a) + i] = Three(<<>>, w, u)[i]
<1>1. PICK v : v = w \o u
  OBVIOUS
<1>2. IsSeq(v)
  BY <1>1, JoinFacts
<1>3. Three(a, w, u) = a \o v
  BY <1>1, Assoc
<1>4. Three(<<>>, w, u) = v
  BY <1>1, SeqFacts DEF Three
<1>5. /\ Len(a \o v) = Len(a) + Len(v) /\ Len(v) \in Nat
      /\ \A i \in 1 .. Len(v) : (a \o v)[Len(a) + i] = v[i]
  BY <1>2, JoinFacts, SeqFacts
<1> QED BY <1>3, <1>4, <1>5, Zenon

LEMMA StreamFacts ==
  ASSUME Orderly
  PROVE  /\ IsSeq(args) /\ IsSeq(wire) /\ IsSeq(tosend) /\ IsSeq(back) /\ IsSeq(pending)
         /\ IsSeq(Stream) /\ Len(Stream) \in Nat /\ Len(args) \in Nat /\ Len(Stream) >= Len(args)
         /\ args = <<>> <=> Len(args) = 0
         /\ \A i \in 1 .. Len(args) : Stream[i] = args[i]
         /\ Stream = Three(args, wire, tosend) /\ Stream' = Three(args', wire', tosend')
<1>1. IsSeq(args) /\ IsSeq(wire) /\ IsSeq(tosend) /\ IsSeq(back) /\ IsSeq(pending)
  BY SeqIn DEF Orderly, Queues, LoaderInv, WriteInv
<1>2. Stream = Three(args, wire, tosend) /\ Stream' = Three(args', wire', tosend')
  BY DEF Stream, Three
<1>3. /\ IsSeq(Three(args, wire, tosend))
      /\ \A i \in 1 .. Len(args) : Three(args, wire, tosend)[i] = args[i]
  BY <1>1, ThreeFacts
<1>4. Len(Three(args, wire, tosend)) \in Nat
  BY <1>3, SeqFacts
<1>5. Len(Three(args, wire, tosend)) >= Len(args)
  BY <1>1, ThreeMore
<1>6. Len(args) \in Nat /\ (args = <<>> <=> Len(args) = 0)
  BY <1>1, SeqFacts
<1> QED BY <1>1, <1>2, <1>3, <1>4, <1>5, <1>6, Zenon

(* A byte that arrives and is collected stays in its place.                *)
LEMMA CollectFacts ==
  ASSUME Orderly, NEW b, Collect(b), Arrived(b), UNCHANGED tosend
  PROVE  /\ Stream' = Stream /\ b = Stream[Len(args) + 1]
         /\ args' = Append(args, b) /\ Len(args') = Len(args) + 1
         /\ Len(Stream) >= Len(args) + 1
         /\ Len(Stream) = Len(args) + 1 => wire' = <<>> /\ tosend' = <<>> /\ args' = Stream
<1>1. /\ IsSeq(args) /\ IsSeq(wire) /\ IsSeq(tosend)
      /\ Stream = Three(args, wire, tosend) /\ Stream' = Three(args', wire', tosend')
  BY StreamFacts
<1>2. args' = Append(args, b) /\ wire # <<>> /\ b = Head(wire) /\ wire' = Tail(wire)
  BY DEF Collect, Arrived
<1>3. Three(Append(args, Head(wire)), Tail(wire), tosend) = Three(args, wire, tosend)
  BY <1>1, <1>2, TakeSame
<1>4. Stream' = Stream
  BY <1>1, <1>2, <1>3
<1>5. b = Stream[Len(args) + 1] /\ Len(Stream) >= Len(args) + 1
  BY <1>1, <1>2, ThreeMore
<1>6. IsSeq(args') /\ IsSeq(wire') /\ IsSeq(tosend') /\ Len(args') = Len(args) + 1
  BY <1>1, <1>2, AppendFacts, TailFacts
<1>7. ASSUME Len(Stream) = Len(args) + 1
      PROVE  wire' = <<>> /\ tosend' = <<>> /\ args' = Stream
  <2>1. Len(Three(args', wire', tosend')) = Len(args')
    BY <1>1, <1>4, <1>6, <1>7
  <2>2. wire' = <<>> /\ tosend' = <<>>
    BY <1>6, <2>1, ThreeMore
  <2>3. Three(args', wire', tosend') = args'
    BY <1>6, <2>2, ThreeMore
  <2> QED BY <1>1, <1>4, <2>2, <2>3
<1> QED BY <1>2, <1>4, <1>5, <1>6, <1>7

(* What the loader answers to a command c and a second byte b.             *)
Known(c, b) == b = 255 - c /\ c \in DOMAIN Answers \cup DOMAIN Handlers
Answered(c, b) ==
  \/ ~Known(c, b) /\ at' = "cmd" /\ Put(<<NAK>>)
  \/ Known(c, b) /\ c \in DOMAIN Answers /\ at' = "cmd" /\ Put(Answers[c])
  \/ Known(c, b) /\ c \in DOMAIN Handlers /\ at' = Handlers[c] /\ Put(<<ACK>>)

Shifted(t, s, n) == Len(t) = Len(s) - n /\ \A i \in 1 .. Len(s) - n : t[i] = s[n + i]

(* Where the loader waits for a command, it collects a first byte, and     *)
(* answers to a second: one that arrived or one that it made up.           *)
First(b) ==
  /\ args = <<>> /\ at' = "cmd" /\ UNCHANGED back /\ args' = <<b>>
  /\ \/ Stream' = Stream /\ Len(Stream) >= 1 /\ b = Stream[1]
     \/ b = 255 /\ Shifted(Stream, Stream', 1) /\ Stream'[1] = 255
Second(b) ==
  /\ Len(args) = 1 /\ Len(Stream) >= 1 /\ args' = <<>>
  /\ Answered(Stream[1], b)
  /\ \/ Len(Stream) >= 2 /\ b = Stream[2] /\ Shifted(Stream', Stream, 2)
     \/ b = 255 /\ Shifted(Stream', Stream, 1)

LEMMA AtCmd ==
  ASSUME at = "cmd", NEW b, TakeByte(b)
  PROVE  uploadHandler(b) /\ getByte(b)
BY DEF TakeByte, initialSync, erase, getAddrCheck, writeData, readData

LEMMA CmdTake ==
  ASSUME Orderly, at = "cmd", Len(args) <= 1, NEW b \in Byte, TakeByte(b), UNCHANGED tosend
  PROVE  First(b) \/ Second(b)
<1>1. /\ IsSeq(args) /\ IsSeq(wire) /\ IsSeq(tosend)
      /\ Stream = Three(args, wire, tosend) /\ Stream' = Three(args', wire', tosend')
      /\ Len(args) \in Nat /\ args = <<>> <=> Len(args) = 0
      /\ Len(Stream) \in Nat /\ Len(Stream) >= Len(args)
      /\ \A i \in 1 .. Len(args) : Stream[i] = args[i]
  BY StreamFacts
<1>2. uploadHandler(b) /\ getByte(b)
  BY AtCmd
<1>3. CASE args = <<>>
  <2>1. Collect(b) /\ UNCHANGED <<at, back>>
    BY <1>2, <1>3 DEF uploadHandler, Collect
  <2>2. args' = <<b>>
    <3>1. Append(<<>>, b) = <<b>>
      OBVIOUS
    <3> QED BY <1>3, <2>1, <3>1 DEF Collect
  <2>3. CASE Arrived(b)
    <3>1. Stream' = Stream /\ b = Stream[Len(args) + 1] /\ Len(Stream) >= Len(args) + 1
      BY <2>1, <2>3, CollectFacts
    <3>2. b = Stream[1] /\ Len(Stream) >= 1
      BY <1>1, <1>3, <3>1
    <3> QED BY <1>3, <2>1, <2>2, <3>1, <3>2 DEF First
  <2>4. CASE GaveUp(b)
    <3>1. b = 255 /\ UNCHANGED wire
      BY <2>4 DEF GaveUp
    <3>2. IsSeq(<<255>>) /\ Len(<<255>>) = 1 /\ <<255>>[1] = 255
      BY Singleton
    <3>7. PICK x : x = <<255>>
      OBVIOUS
    <3>8. IsSeq(x)
      BY <3>2, <3>7
    <3>9. IsSeq(wire) /\ IsSeq(tosend)
      BY <1>1
    <3>10. /\ Len(Three(x, wire, tosend)) = Len(x) + Len(Three(<<>>, wire, tosend))
           /\ \A i \in 1 .. Len(Three(<<>>, wire, tosend)) :
                Three(x, wire, tosend)[Len(x) + i] = Three(<<>>, wire, tosend)[i]
      BY <3>8, <3>9, Forget
    <3>3. /\ Len(Three(<<255>>, wire, tosend)) = 1 + Len(Three(<<>>, wire, tosend))
          /\ \A i \in 1 .. Len(Three(<<>>, wire, tosend)) :
               Three(<<255>>, wire, tosend)[1 + i] = Three(<<>>, wire, tosend)[i]
      BY <3>2, <3>7, <3>10, Zenon
    <3>4. Stream = Three(<<>>, wire, tosend) /\ Stream' = Three(<<255>>, wire, tosend)
      BY <1>1, <1>3, <2>2, <3>1
    <3>5. Three(<<255>>, wire, tosend)[1] = 255
      <4>1. \A i \in 1 .. Len(<<255>>) : Three(<<255>>, wire, tosend)[i] = <<255>>[i]
        BY <1>1, <3>2, ThreeFacts
      <4>2. 1 \in 1 .. Len(<<255>>)
        OBVIOUS
      <4> QED BY <3>2, <4>1, <4>2
    <3>6. Shifted(Stream, Stream', 1) /\ Stream'[1] = 255
      <4>1. PICK s, t : s = Stream /\ t = Stream'
        OBVIOUS
      <4>2. Len(t) = 1 + Len(s) /\ (\A i \in 1 .. Len(s) : t[1 + i] = s[i]) /\ t[1] = 255
        BY <3>3, <3>4, <3>5, <4>1, Zenon
      <4>3. Len(t) - 1 = Len(s)
        BY <1>1, <4>1, <4>2
      <4> QED BY <4>1, <4>2, <4>3 DEF Shifted
    <3> QED BY <1>3, <2>1, <2>2, <3>1, <3>6 DEF First
  <2> QED BY <1>2, <2>3, <2>4 DEF getByte
<1>4. CASE args # <<>>
  <2>1. Len(args) = 1 /\ Len(Stream) >= 1 /\ args[1] = Stream[1]
    <3>1. Len(args) = 1
      <4>1. \A n \in Nat : n <= 1 /\ n # 0 => n = 1
        OBVIOUS
      <4>2. Len(args) \in Nat
        BY <1>1
      <4>3. Len(args) # 0
        BY <1>1, <1>4
      <4> QED BY <4>1, <4>2, <4>3, Zenon
    <3>2. 1 \in 1 .. Len(args)
      BY <3>1
    <3> QED BY <1>1, <3>1, <3>2
  <2>2. Answered(args[1], b) /\ args' = <<>>
    BY <1>2, <1>4 DEF uploadHandler, Answered, Known, Goto
  <2>3. Answered(Stream[1], b)
    BY <2>1, <2>2
  <2>4. IsSeq(<<>>)
    BY NothingSeq
  <2>5. CASE Arrived(b)
    <3>1. wire # <<>> /\ b = Head(wire) /\ wire' = Tail(wire)
      BY <2>5 DEF Arrived
    <3>2. PICK x : x = Append(args, b)
      OBVIOUS
    <3>3. IsSeq(x) /\ Len(x) = 2 /\ IsSeq(wire') /\ IsSeq(tosend)
      <4>1. IsSeq(x) /\ Len(x) = Len(args) + 1
        BY <1>1, <3>2, AppendFacts
      <4> QED BY <1>1, <2>1, <3>1, <4>1, TailFacts
    <3>4. Three(x, wire', tosend) = Stream
      BY <1>1, <3>1, <3>2, TakeSame
    <3>5. b = Stream[2] /\ Len(Stream) >= 2
      <4>1. Three(args, wire, tosend)[Len(args) + 1] = Head(wire)
            /\ Len(Three(args, wire, tosend)) >= Len(args) + 1
        BY <1>1, <3>1, ThreeMore
      <4> QED BY <1>1, <2>1, <3>1, <4>1
    <3>6. /\ Len(Three(x, wire', tosend)) = Len(x) + Len(Three(<<>>, wire', tosend))
          /\ Len(Three(<<>>, wire', tosend)) \in Nat
          /\ \A i \in 1 .. Len(Three(<<>>, wire', tosend)) :
               Three(x, wire', tosend)[Len(x) + i] = Three(<<>>, wire', tosend)[i]
      <4>1. IsSeq(x) /\ IsSeq(wire') /\ IsSeq(tosend)
        BY <3>3
      <4> QED BY <4>1, Forget
    <3>7. Stream' = Three(<<>>, wire', tosend)
      BY <1>1, <2>2
    <3>8. Shifted(Stream', Stream, 2)
      <4>1. PICK s, t : s = Stream /\ t = Stream'
        OBVIOUS
      <4>2. Len(s) = 2 + Len(t) /\ Len(t) \in Nat /\ \A i \in 1 .. Len(t) : s[2 + i] = t[i]
        BY <3>3, <3>4, <3>6, <3>7, <4>1, Zenon
      <4>3. Len(s) - 2 = Len(t)
        BY <4>2
      <4> QED BY <4>1, <4>2, <4>3 DEF Shifted
    <3> QED BY <2>1, <2>2, <2>3, <3>5, <3>8 DEF Second
  <2>6. CASE GaveUp(b)
    <3>1. b = 255 /\ UNCHANGED wire
      BY <2>6 DEF GaveUp
    <3>2. /\ Len(Three(args, wire, tosend)) = Len(args) + Len(Three(<<>>, wire, tosend))
          /\ Len(Three(<<>>, wire, tosend)) \in Nat
          /\ \A i \in 1 .. Len(Three(<<>>, wire, tosend)) :
               Three(args, wire, tosend)[Len(args) + i] = Three(<<>>, wire, tosend)[i]
      BY <1>1, Forget
    <3>3. Stream' = Three(<<>>, wire, tosend)
      BY <1>1, <2>2, <3>1
    <3>4. Shifted(Stream', Stream, 1)
      <4>1. PICK s, t : s = Stream /\ t = Stream'
        OBVIOUS
      <4>2. Len(s) = 1 + Len(t) /\ Len(t) \in Nat /\ \A i \in 1 .. Len(t) : s[1 + i] = t[i]
        BY <1>1, <2>1, <3>2, <3>3, <4>1, Zenon
      <4>3. Len(s) - 1 = Len(t)
        BY <4>2
      <4> QED BY <4>1, <4>2, <4>3 DEF Shifted
    <3> QED BY <2>1, <2>2, <2>3, <3>1, <3>4 DEF Second
  <2> QED BY <1>2, <2>5, <2>6 DEF getByte
<1> QED BY <1>3, <1>4

(* The last byte on its way.                                               *)
LEMMA LastByte ==
  ASSUME Orderly, wire # <<>>, Len(Stream) <= Len(args) + 1
  PROVE  Len(Stream) = Len(args) + 1 /\ Tail(wire) = <<>> /\ tosend = <<>>
<1>1. PICK k, m, n, s : k = Len(args) /\ m = Len(wire) /\ n = Len(tosend) /\ s = Len(Stream)
  OBVIOUS
<1>2. /\ IsSeq(args) /\ IsSeq(wire) /\ IsSeq(tosend) /\ Stream = Three(args, wire, tosend)
  BY StreamFacts
<1>3. /\ k \in Nat /\ m \in Nat /\ n \in Nat
      /\ m # 0
      /\ tosend = <<>> <=> n = 0
  BY <1>1, <1>2, SeqFacts
<1>4. Len(Three(args, wire, tosend)) = Len(args) + Len(wire) + Len(tosend)
  BY <1>2, ThreeFacts
<1>5. s = k + m + n
  BY <1>1, <1>2, <1>4
<1>6. m = 1 /\ n = 0 /\ s = k + 1
  BY <1>1, <1>3, <1>5
<1>7. IsSeq(Tail(wire)) /\ Len(Tail(wire)) = m - 1
  BY <1>1, <1>2, TailFacts
<1>8. Len(Tail(wire)) = 0
  BY <1>6, <1>7
<1>9. Tail(wire) = <<>>
  BY <1>7, <1>8, SeqFacts
<1> QED BY <1>1, <1>3, <1>6, <1>9

(* Nothing is left.                                                        *)
LEMMA NothingLeft ==
  ASSUME NEW w, NEW u, IsSeq(w), IsSeq(u), Len(Three(<<>>, w, u)) = 0
  PROVE  w = <<>> /\ u = <<>>
BY NothingSeq, ThreeMore

LEMMA Codes ==
  /\ ACK = 121 /\ NAK = 31 /\ GET = 0 /\ GETVER = 1 /\ GETID = 2 /\ READ = 17 /\ GO = 33
  /\ WRITE = 49 /\ ERASE = 67 /\ RDUNP = 146
  /\ DOMAIN Answers = {0, 1, 2} /\ DOMAIN Handlers = {67, 49, 17, 33}
  /\ Handlers[49] = "write" /\ Handlers[17] = "read" /\ Handlers[33] = "go"
BY DEF ACK, NAK, GET, GETVER, GETID, READ, GO, WRITE, ERASE, RDUNP, Answers, Handlers

(* A command on its way, after bytes that the loader made up.              *)
LEMMA CmdLoader ==
  ASSUME Orderly, NEW c \in 0 .. 254, CmdOpen(c), NEW b \in Byte, TakeByte(b),
         UNCHANGED <<tosend, pending>>
  PROVE  \/ CmdOpen(c)'
         \/ pending' = <<>> /\ back' = <<NAK>>
         \/ c \in DOMAIN Handlers /\ Accepted(Handlers[c])'
         \/ /\ c \in DOMAIN Answers /\ at' = "cmd" /\ args' = <<>> /\ Idle(Stream')
            /\ pending' = <<>> /\ back' = Answers[c]
<1>1. PICK L \in Nat : L = Len(Stream)
  BY StreamFacts
<1>2. /\ at = "cmd" /\ pending = <<>> /\ back = <<>> /\ Len(args) <= 1
      /\ L >= 2 /\ Stream[L - 1] = c /\ Stream[L] = 255 - c
      /\ \A i \in 1 .. L - 2 : Stream[i] = 255
  BY <1>1 DEF CmdOpen, NoReply
<1>3. First(b) \/ Second(b)
  BY <1>2, CmdTake
<1>4. <<>> \o <<NAK>> = <<NAK>> /\ <<>> \o <<ACK>> = <<ACK>>
  BY Singleton, SeqFacts
<1>5. CASE First(b)
  <2>1. at' = "cmd" /\ UNCHANGED back /\ Len(args') <= 1
    <3>1. Len(<<b>>) = 1
      OBVIOUS
    <3> QED BY <1>5, <3>1 DEF First
  <2>2. CASE Stream' = Stream
    BY <1>1, <1>2, <2>1, <2>2 DEF CmdOpen, NoReply
  <2>3. CASE Shifted(Stream, Stream', 1) /\ Stream'[1] = 255
    <3>1. PICK s, t : s = Stream /\ t = Stream'
      OBVIOUS
    <3>2. L = Len(t) - 1 /\ t[1] = 255 /\ \A i \in 1 .. Len(t) - 1 : s[i] = t[1 + i]
      BY <1>1, <2>3, <3>1 DEF Shifted
    <3>3. Len(t) = L + 1
      <4>1. Len(Three(args', wire', tosend')) \in Nat
        <5>1. IsSeq(wire') /\ IsSeq(tosend')
          BY StreamFacts, TakeQueues DEF Orderly, LoaderInv, WriteInv
        <5>2. IsSeq(args')
          BY <1>5, Singleton DEF First
        <5>3. IsSeq(Three(args', wire', tosend'))
          BY <5>1, <5>2, ThreeFacts
        <5> QED BY <5>3, SeqFacts
      <4>2. Len(t) \in Nat
        BY <3>1, <4>1, StreamFacts
      <4> QED BY <3>2, <4>2
    <3>4. L - 1 \in 1 .. Len(t) - 1 /\ L \in 1 .. Len(t) - 1
      BY <1>2, <3>3
    <3>5. t[1 + (L - 1)] = c /\ t[1 + L] = 255 - c
      BY <1>2, <3>1, <3>2, <3>4
    <3>6. t[Len(t) - 1] = c /\ t[Len(t)] = 255 - c
      <4>1. Len(t) - 1 = 1 + (L - 1) /\ Len(t) = 1 + L
        BY <3>3
      <4> QED BY <3>5, <4>1
    <3>7. ASSUME NEW i \in 1 .. Len(t) - 2 PROVE t[i] = 255
      <4>1. CASE i = 1
        BY <3>2, <4>1
      <4>2. CASE i # 1
        <5>1. i - 1 \in 1 .. L - 2 /\ i - 1 \in 1 .. Len(t) - 1 /\ 1 + (i - 1) = i
          BY <3>3, <4>2
        <5>2. s[i - 1] = 255
          BY <1>2, <3>1, <5>1
        <5>3. s[i - 1] = t[1 + (i - 1)]
          BY <3>2, <5>1
        <5> QED BY <5>1, <5>2, <5>3, Zenon
      <4> QED BY <4>1, <4>2
    <3>8. Len(t) >= 2
      BY <1>2, <3>3
    <3> QED BY <1>2, <2>1, <3>1, <3>6, <3>7, <3>8 DEF CmdOpen, NoReply
  <2> QED BY <1>5, <2>2, <2>3 DEF First
<1>6. CASE Second(b)
  <2>1. args' = <<>> /\ Answered(Stream[1], b)
    BY <1>6 DEF Second
  <2>2. CASE ~Known(Stream[1], b)
    <3>1. Put(<<NAK>>)
      BY <2>1, <2>2 DEF Answered
    <3> QED BY <1>2, <1>4, <3>1 DEF Put
  <2>3. CASE Known(Stream[1], b)
    <3>1. L = 2 /\ Stream[1] = c /\ Stream[2] = 255 - c
      <4>1. ASSUME L # 2 PROVE FALSE
        <5>1. 1 \in 1 .. L - 2
          BY <1>2, <4>1
        <5>2. Stream[1] = 255
          BY <1>2, <5>1
        <5> QED BY <2>3, <5>2, Codes DEF Known
      <4> QED BY <1>2, <4>1
    <3>2. \/ c \in DOMAIN Answers /\ at' = "cmd" /\ Put(Answers[c])
          \/ c \in DOMAIN Handlers /\ at' = Handlers[c] /\ Put(<<ACK>>)
      BY <2>1, <2>3, <3>1 DEF Answered
    <3>3. \/ b = 255 - c /\ Shifted(Stream', Stream, 2)
          \/ b = 255 /\ Shifted(Stream', Stream, 1)
      BY <1>6, <3>1 DEF Second
    <3>4. b = 255 - c
      BY <2>3, <3>1 DEF Known
    <3>5. PICK s, t : s = Stream /\ t = Stream'
      OBVIOUS
    <3>6. CASE c \in DOMAIN Answers /\ at' = "cmd" /\ Put(Answers[c])
      <4>1. Idle(t)
        <5>1. CASE Shifted(Stream', Stream, 2)
          <6>1. Len(t) = 0
            <7>1. Len(t) = Len(s) - 2
              BY <3>5, <5>1, Zenon DEF Shifted
            <7>2. Len(s) = 2
              BY <1>1, <3>1, <3>5, Zenon
            <7> QED BY <7>1, <7>2
          <6> QED BY <6>1 DEF Idle
        <5>2. CASE b = 255 /\ Shifted(Stream', Stream, 1)
          <6>1. Len(t) = 1 /\ \A i \in 1 .. 1 : t[i] = s[1 + i]
            <7>1. Len(t) = Len(s) - 1 /\ \A i \in 1 .. Len(s) - 1 : t[i] = s[1 + i]
              BY <3>5, <5>2, Zenon DEF Shifted
            <7>2. Len(s) = 2
              BY <1>1, <3>1, <3>5, Zenon
            <7> QED BY <7>1, <7>2
          <6>2. s[1 + 1] = 255 - c /\ 255 - c = 255
            BY <3>1, <3>4, <3>5, <5>2
          <6> QED BY <6>1, <6>2 DEF Idle
        <5> QED BY <3>3, <5>1, <5>2
      <4>2. back' = Answers[c]
        <5>1. <<>> \o Answers[c] = Answers[c]
          BY <3>6, AnswerFacts, SeqFacts
        <5> QED BY <1>2, <3>6, <5>1 DEF Put
      <4> QED BY <1>2, <2>1, <3>5, <3>6, <4>1, <4>2
    <3>7. CASE c \in DOMAIN Handlers /\ at' = Handlers[c] /\ Put(<<ACK>>)
      <4>1. Shifted(Stream', Stream, 2)
        <5>1. c # 0
          BY <3>7, Codes
        <5> QED BY <3>3, <3>4, <5>1
      <4>2. Len(Stream') = 0
        <5>1. Len(t) = Len(s) - 2
          BY <3>5, <4>1, Zenon DEF Shifted
        <5>2. Len(s) = 2
          BY <1>1, <3>1, <3>5, Zenon
        <5>3. Len(t) = 0
          BY <5>1, <5>2
        <5> QED BY <3>5, <5>3, Zenon
      <4>3. Len(Three(<<>>, wire', tosend')) = 0
        BY <2>1, <4>2, StreamFacts
      <4>4. IsSeq(wire') /\ IsSeq(tosend')
        BY StreamFacts, TakeQueues DEF Orderly, LoaderInv, WriteInv
      <4>5. wire' = <<>> /\ tosend' = <<>>
        BY <4>3, <4>4, NothingLeft
      <4>6. back' = <<ACK>>
        BY <1>2, <1>4, <3>7 DEF Put
      <4> QED BY <1>2, <2>1, <3>7, <4>5, <4>6 DEF Accepted, Sent, Acked
    <3> QED BY <3>2, <3>6, <3>7
  <2> QED BY <2>2, <2>3
<1> QED BY <1>3, <1>5, <1>6

(* A reply more.                                                           *)
LEMMA RepliedMore ==
  ASSUME Orderly, NEW x, UNCHANGED pending, back' = back \o <<x>>
  PROVE  /\ Len(Replied) \in Nat /\ Len(Replied') = Len(Replied) + 1
         /\ \A i \in 1 .. Len(Replied) : Replied'[i] = Replied[i]
         /\ Replied'[Len(Replied) + 1] = x
<1>1. IsSeq(pending) /\ IsSeq(back)
  BY StreamFacts
<1>2. IsSeq(<<x>>) /\ Len(<<x>>) = 1 /\ <<x>>[1] = x
  BY Singleton
<1>3. PICK r, e : r = Replied /\ e = <<x>>
  OBVIOUS
<1>4. IsSeq(r) /\ Len(r) \in Nat
  BY <1>1, <1>3, JoinFacts, SeqFacts DEF Replied
<1>5. IsSeq(e) /\ Len(e) = 1 /\ e[1] = x
  BY <1>2, <1>3
<1>6. Replied' = r \o e
  <2>1. PICK p, q : p = pending /\ q = back
    OBVIOUS
  <2>2. IsSeq(p) /\ IsSeq(q) /\ IsSeq(e)
    BY <1>1, <1>5, <2>1
  <2>3. Three(p, q, e) = p \o (q \o e)
    BY <2>2, Assoc
  <2> QED BY <1>3, <2>1, <2>3 DEF Three, Replied
<1>7. IsSeq(e)
  BY <1>5
<1>8. /\ Len(r \o e) = Len(r) + Len(e)
      /\ \A i \in 1 .. Len(r) : (r \o e)[i] = r[i]
      /\ \A i \in 1 .. Len(e) : (r \o e)[Len(r) + i] = e[i]
  BY <1>4, <1>7, JoinFacts
<1>9. PICK t : t = Replied'
  OBVIOUS
<1>10. /\ Len(t) = Len(r) + 1
       /\ \A i \in 1 .. Len(r) : t[i] = r[i]
       /\ \A i \in 1 .. 1 : t[Len(r) + i] = e[i]
  BY <1>5, <1>6, <1>8, <1>9, Zenon
<1> QED BY <1>3, <1>4, <1>5, <1>9, <1>10

LEMMA SameEntry ==
  ASSUME UNCHANGED <<tool, step>>
  PROVE  /\ Script' = Script /\ Script[step]' = Script[step] /\ Wants' = Wants
         /\ (Script[step].bytes)' = Script[step].bytes
BY DEF Script, Wants

(* A loader that is left alone makes up bytes and adds NAKs.               *)
LEMMA ListenLoader ==
  ASSUME Orderly, NEW n \in Nat, Listening(n), NEW b \in Byte, TakeByte(b),
         UNCHANGED <<tosend, pending, tool, step>>
  PROVE  /\ Listening(n)' /\ Len(Replied) \in Nat /\ Len(Replied') >= Len(Replied)
         /\ \A i \in 1 .. Len(Replied) : Replied'[i] = Replied[i]
<1>1. /\ at = "cmd" /\ Len(args) <= 1 /\ Idle(Stream)
      /\ Len(Replied) >= n
      /\ \A i \in n + 1 .. Len(Replied) : Replied[i] = NAK
      /\ Script[step].bytes # <<>> => pending = <<>>
  BY DEF Listening
<1>2. First(b) \/ Second(b)
  BY <1>1, CmdTake
<1>3. IsSeq(Replied) /\ Len(Replied) \in Nat
  BY StreamFacts, JoinFacts, SeqFacts DEF Replied
<1>4. (Script[step].bytes)' = Script[step].bytes
  BY SameEntry
<1>5. Len(args') <= 1 /\ Idle(Stream') /\ at' = "cmd"
      /\ (UNCHANGED back \/ back' = back \o <<NAK>>)
  <2>1. CASE First(b)
    <3>1. Len(<<b>>) = 1
      OBVIOUS
    <3>2. Len(args') <= 1 /\ at' = "cmd" /\ UNCHANGED back
      BY <2>1, <3>1 DEF First
    <3>3. CASE Stream' = Stream
      BY <1>1, <3>2, <3>3
    <3>4. CASE Shifted(Stream, Stream', 1) /\ Stream'[1] = 255
      <4>1. PICK s, t : s = Stream /\ t = Stream'
        OBVIOUS
      <4>2. Len(s) = Len(t) - 1 /\ t[1] = 255 /\ \A i \in 1 .. Len(t) - 1 : s[i] = t[1 + i]
        BY <3>4, <4>1 DEF Shifted
      <4>3. ASSUME NEW i \in 1 .. Len(t) PROVE t[i] = 255
        <5>1. CASE i = 1
          BY <4>2, <5>1
        <5>2. CASE i # 1
          <6>1. Len(t) \in Int
            <7>1. IsSeq(wire') /\ IsSeq(tosend')
              BY StreamFacts, TakeQueues DEF Orderly, LoaderInv, WriteInv
            <7>2. IsSeq(args')
              BY <2>1, Singleton DEF First
            <7>3. IsSeq(Three(args', wire', tosend'))
              BY <7>1, <7>2, ThreeFacts
            <7> QED BY <4>1, <7>3, SeqFacts, StreamFacts
          <6>2. i - 1 \in 1 .. Len(t) - 1 /\ i - 1 \in 1 .. Len(s) /\ 1 + (i - 1) = i
            BY <4>2, <5>2, <6>1
          <6>3. s[i - 1] = 255
            BY <1>1, <4>1, <6>2 DEF Idle
          <6> QED BY <4>2, <6>2, <6>3
        <5> QED BY <5>1, <5>2
      <4> QED BY <3>2, <4>1, <4>3 DEF Idle
    <3> QED BY <2>1, <3>3, <3>4 DEF First
  <2>2. CASE Second(b)
    <3>1. Stream[1] = 255
      <4>1. Len(Stream) >= 1 /\ Len(Stream) \in Nat
        BY <2>2, StreamFacts DEF Second
      <4>2. 1 \in 1 .. Len(Stream)
        BY <4>1
      <4> QED BY <1>1, <4>2 DEF Idle
    <3>2. ~Known(Stream[1], b)
      BY <3>1, Codes DEF Known
    <3>3. at' = "cmd" /\ Put(<<NAK>>) /\ args' = <<>>
      BY <2>2, <3>2 DEF Second, Answered
    <3>4. PICK s, t : s = Stream /\ t = Stream'
      OBVIOUS
    <3>5. \E k \in {1, 2} : Shifted(t, s, k)
      BY <2>2, <3>4 DEF Second
    <3>6. PICK k \in {1, 2} : Len(t) = Len(s) - k /\ \A i \in 1 .. Len(s) - k : t[i] = s[k + i]
      BY <3>5 DEF Shifted
    <3>7. Len(s) \in Nat /\ \A i \in 1 .. Len(s) : s[i] = 255
      BY <1>1, <3>4, StreamFacts DEF Idle
    <3>8. ASSUME NEW i \in 1 .. Len(t) PROVE t[i] = 255
      <4>1. i \in 1 .. Len(s) - k /\ k + i \in 1 .. Len(s)
        BY <3>6, <3>7
      <4> QED BY <3>6, <3>7, <4>1
    <3>9. Len(<<>>) <= 1
      OBVIOUS
    <3> QED BY <3>3, <3>4, <3>8, <3>9 DEF Idle, Put
  <2> QED BY <1>2, <2>1, <2>2
<1>6. CASE UNCHANGED back
  <2>1. Replied' = Replied
    BY <1>6 DEF Replied
  <2> QED BY <1>1, <1>3, <1>4, <1>5, <2>1 DEF Listening
<1>7. CASE back' = back \o <<NAK>>
  <2>1. PICK r, t : r = Replied /\ t = Replied'
    OBVIOUS
  <2>2. /\ Len(t) = Len(r) + 1 /\ Len(r) \in Nat
        /\ \A i \in 1 .. Len(r) : t[i] = r[i]
        /\ t[Len(r) + 1] = NAK
    BY <1>7, <2>1, RepliedMore
  <2>3. Len(r) >= n /\ \A i \in n + 1 .. Len(r) : r[i] = NAK
    BY <1>1, <2>1
  <2>4. ASSUME NEW i \in n + 1 .. Len(t) PROVE t[i] = NAK
    <3>1. CASE i = Len(r) + 1
      BY <2>2, <3>1
    <3>2. CASE i # Len(r) + 1
      <4>1. i \in 1 .. Len(r) /\ i \in n + 1 .. Len(r)
        BY <2>2, <3>2
      <4> QED BY <2>2, <2>3, <4>1
    <3> QED BY <3>1, <3>2
  <2>5. Len(t) >= n /\ Len(t) >= Len(r)
    BY <2>2, <2>3
  <2> QED BY <1>1, <1>3, <1>4, <1>5, <2>1, <2>2, <2>4, <2>5 DEF Listening
<1> QED BY <1>5, <1>6, <1>7

-----------------------------------------------------------------------------
(* The loader takes an address, the data and a count. *)

LEMMA LoaderFacts ==
  ASSUME Loader, ~astray'
  PROVE  /\ \E b \in Byte : TakeByte(b)
         /\ UNCHANGED <<tool, step, tosend, left, pending>> /\ stale' = stale /\ ~astray
         /\ wire = <<>> => at \in {"sync", "cmd"}
         /\ at = "sync" /\ at' = "cmd" /\ Running => Wants = "any"
<1>1. /\ \E b \in Byte : TakeByte(b)
      /\ UNCHANGED <<tool, step, tosend, left, pending>> /\ stale' = stale
  BY DEF Loader
<1>2. astray' = (astray \/ (wire = <<>> /\ at \notin {"sync", "cmd"})
                        \/ (at = "sync" /\ at' = "cmd" /\ Running /\ Wants # "any"))
  BY DEF Loader
<1>3. /\ ~astray
      /\ wire = <<>> => at \in {"sync", "cmd"}
      /\ at = "sync" /\ at' = "cmd" /\ Running => Wants = "any"
  BY <1>2, Zenon
<1> QED BY <1>1, <1>3

LEMMA AtAddr ==
  ASSUME at \in {"write", "read", "go"}, NEW b, TakeByte(b)
  PROVE  /\ getByte(b)
         /\ Len(args) < 5 => getAddrCheck(b)
         /\ Len(args) >= 5 /\ at = "write" /\ ~(Len(args) < 5) => writeData(b)
         /\ Len(args) >= 5 /\ at = "read" /\ ~(Len(args) < 5) => readData(b)
BY DEF TakeByte, initialSync, uploadHandler, erase, getAddrCheck, writeData, readData

LEMMA ArrivedOnly ==
  ASSUME wire # <<>>, NEW b, getByte(b)
  PROVE  Arrived(b) /\ b = Head(wire) /\ wire' = Tail(wire)
BY DEF getByte, Arrived, GaveUp

LEMMA OneAck ==
  ASSUME NoReply, Put(<<ACK>>), UNCHANGED pending
  PROVE  Acked'
<1>1. <<>> \o <<ACK>> = <<ACK>>
  BY Singleton, SeqFacts
<1> QED BY <1>1 DEF NoReply, Put, Acked

LEMMA AddrLoader ==
  ASSUME Orderly, NEW h \in {"write", "read", "go"}, NEW j, AddrOpen(h, j), wire # <<>>,
         NEW b \in Byte, TakeByte(b), UNCHANGED <<tosend, pending>>
  PROVE  AddrOpen(h, j)' \/ (h # "go" /\ AddrDone(h, j)') \/ (h = "go" /\ Started')
<1>1. at = h /\ Len(args) < 5 /\ NoReply /\ Stream = AddressOf(j) /\ Len(args) \in Nat
  BY StreamFacts DEF AddrOpen
<1>2. getAddrCheck(b) /\ Arrived(b) /\ wire' = Tail(wire)
  BY <1>1, AtAddr, ArrivedOnly
<1>3. Len(Stream) = 5
  BY <1>1, AddressFacts
<1>4. CASE Len(args) < 4
  <2>1. Collect(b) /\ UNCHANGED back
    BY <1>2, <1>4 DEF getAddrCheck
  <2>2. Stream' = Stream /\ Len(args') = Len(args) + 1 /\ at' = at
    BY <1>2, <2>1, CollectFacts DEF Collect
  <2>3. Len(args') < 5
    BY <1>1, <1>4, <2>2
  <2> QED BY <1>1, <2>1, <2>2, <2>3 DEF AddrOpen, NoReply
<1>5. CASE ~(Len(args) < 4)
  <2>1. Len(args) + 1 = 5
    BY <1>1, <1>5
  <2>2. Put(<<ACK>>) /\ IF at = "go" THEN Goto("user") ELSE Collect(b)
    BY <1>2, <1>5 DEF getAddrCheck
  <2>3. Acked'
    BY <1>1, <2>2, OneAck
  <2>4. Len(Stream) = Len(args) + 1
    BY <1>3, <2>1
  <2>5. CASE h = "go"
    <3>1. at' = "user"
      BY <1>1, <2>2, <2>5 DEF Goto
    <3>2. wire' = <<>> /\ tosend' = <<>>
      <4>1. Len(Stream) <= Len(args) + 1
        BY <1>3, <2>1
      <4> QED BY <1>2, <4>1, LastByte
    <3> QED BY <2>3, <2>5, <3>1, <3>2 DEF Started, Sent
  <2>6. CASE h # "go"
    <3>1. Collect(b)
      BY <1>1, <2>2, <2>6
    <3>2. wire' = <<>> /\ tosend' = <<>> /\ args' = Stream /\ at' = at
      BY <1>2, <2>4, <3>1, CollectFacts DEF Collect
    <3> QED BY <1>1, <2>3, <2>6, <3>2 DEF AddrDone, Sent
  <2> QED BY <2>5, <2>6
<1> QED BY <1>4, <1>5

(* The bytes of a command that follow its address.                         *)
Follows(s, j, d) ==
  /\ IsSeq(s) /\ Len(s) = 5 + Len(d)
  /\ \A i \in 1 .. 5 : s[i] = AddressOf(j)[i]
  /\ \A i \in 1 .. Len(d) : s[5 + i] = d[i]

LEMMA AfterAddress ==
  ASSUME NEW j, NEW d, IsSeq(d)
  PROVE  Follows(AddressOf(j) \o d, j, d)
<1>1. PICK a : a = AddressOf(j)
  OBVIOUS
<1>2. IsSeq(a)
  BY <1>1, AddressFacts
<1>3. /\ IsSeq(a \o d) /\ Len(a \o d) = Len(a) + Len(d)
      /\ \A i \in 1 .. Len(a) : (a \o d)[i] = a[i]
      /\ \A i \in 1 .. Len(d) : (a \o d)[Len(a) + i] = d[i]
  BY <1>2, JoinFacts
<1>4. Len(a) = 5
  BY <1>1, AddressFacts
<1> QED BY <1>1, <1>3, <1>4, Zenon DEF Follows

Whole(s, j) ==
  /\ Len(s) = 7 + BlockLen
  /\ s[1] = 8 /\ s[2] = 0 /\ s[3] = (j * BlockLen) \div 256 /\ s[4] = (j * BlockLen) % 256
  /\ s[6] = BlockLen - 1
  /\ \A k \in 1 .. BlockLen : s[6 + k] = Image[j * BlockLen + k]

LEMMA WholeBlock ==
  ASSUME NEW j \in 0 .. Blocks - 1
  PROVE  Whole(AddressOf(j) \o DataOf(j), j)
<1>1. PICK d : d = DataOf(j)
  OBVIOUS
<1>2. /\ Len(d) = 2 + BlockLen /\ d[1] = BlockLen - 1 /\ BlockLen \in Nat
      /\ \A k \in 1 .. BlockLen : d[1 + k] = Image[j * BlockLen + k]
  BY <1>1, DataFacts, ImageSize
<1>3. IsSeq(d)
  BY <1>1, DataFacts
<1>4. Follows(AddressOf(j) \o d, j, d)
  BY <1>3, AfterAddress
<1>5. PICK s : s = AddressOf(j) \o d
  OBVIOUS
<1>6. /\ Len(s) = 5 + Len(d)
      /\ \A i \in 1 .. 5 : s[i] = AddressOf(j)[i]
      /\ \A i \in 1 .. Len(d) : s[5 + i] = d[i]
  BY <1>4, <1>5, Zenon DEF Follows
<1>7. Len(s) = 7 + BlockLen
  BY <1>2, <1>6
<1>8. s[1] = 8 /\ s[2] = 0 /\ s[3] = (j * BlockLen) \div 256 /\ s[4] = (j * BlockLen) % 256
  <2>1. /\ AddressOf(j)[1] = 8 /\ AddressOf(j)[2] = 0
        /\ AddressOf(j)[3] = (j * BlockLen) \div 256
        /\ AddressOf(j)[4] = (j * BlockLen) % 256
    BY AddressFacts
  <2>2. 1 \in 1 .. 5 /\ 2 \in 1 .. 5 /\ 3 \in 1 .. 5 /\ 4 \in 1 .. 5
    OBVIOUS
  <2>3. /\ s[1] = AddressOf(j)[1] /\ s[2] = AddressOf(j)[2]
        /\ s[3] = AddressOf(j)[3] /\ s[4] = AddressOf(j)[4]
    BY <1>6, <2>2, Zenon
  <2> QED BY <2>1, <2>3, Zenon
<1>9. s[6] = BlockLen - 1
  <2>1. 1 \in 1 .. Len(d) /\ 5 + 1 = 6
    BY <1>2
  <2> QED BY <1>2, <1>6, <2>1, Zenon
<1>10. ASSUME NEW k \in 1 .. BlockLen PROVE s[6 + k] = Image[j * BlockLen + k]
  <2>1. 1 + k \in 1 .. Len(d) /\ 5 + (1 + k) = 6 + k
    BY <1>2
  <2> QED BY <1>2, <1>6, <2>1, Zenon
<1> QED BY <1>1, <1>5, <1>7, <1>8, <1>9, <1>10, Zenon DEF Whole

(* An address and a count that the loader understands as they were meant.  *)
LEMMA Understood ==
  ASSUME Fits, NEW j \in 0 .. Blocks - 1, args \in Seq(Byte), Len(args) >= 6,
         args[1] = 8, args[2] = 0,
         args[3] = (j * BlockLen) \div 256, args[4] = (j * BlockLen) % 256,
         args[6] = BlockLen - 1
  PROVE  Offset(Address) = j * BlockLen /\ Count = BlockLen /\ Offset(Address) < userLimit
<1>1. PICK o \in Nat : o = j * BlockLen
  BY BlockRange
<1>2. PICK x : x = Address
  OBVIOUS
<1>3. Offset(Address) = (o \div 256) * 256 + (o % 256)
  <2>1. 1 \in 1 .. Len(args) + 1 /\ 4 \in 1 - 1 .. Len(args) /\ 4 - 1 + 1 = 4
    OBVIOUS
  <2>2. \A i \in 1 .. 4 : x[i] = args[1 + i - 1]
    BY <1>2, <2>1, SubSeqProperties DEF Address
  <2>3. \A i \in 1 .. 4 : x[i] = args[i]
    BY <2>2
  <2>4. 1 \in 1 .. 4 /\ 2 \in 1 .. 4 /\ 3 \in 1 .. 4 /\ 4 \in 1 .. 4
    OBVIOUS
  <2>5. x[1] = 8 /\ x[2] = 0 /\ x[3] = o \div 256 /\ x[4] = o % 256
    BY <1>1, <2>3, <2>4, Zenon
  <2>6. Offset(x) = (o \div 256) * 256 + (o % 256)
    BY <2>5, SMT DEF Offset
  <2> QED BY <1>2, <2>6, Zenon
<1>4. Offset(Address) = o
  BY <1>1, <1>3
<1>5. Count = BlockLen
  <2>1. BlockLen <= MaxBlock /\ BlockLen \in Nat /\ BlockLen >= 8 /\ MaxBlock \in 8 .. 256
    BY ImageSize, Sizes DEF Fits
  <2>2. BlockLen - 1 < MaxBlock /\ (BlockLen - 1) + 1 = BlockLen
    BY <2>1
  <2> QED BY <2>2, Zenon DEF Count, Counted
<1>6. o < userLimit
  <2>1. (j + 1) * BlockLen = o + BlockLen /\ (j + 1) * BlockLen <= Len(Image)
    BY <1>1, BlockRange
  <2>2. Len(Image) <= userLimit /\ BlockLen \in Nat /\ BlockLen >= 8 /\ Len(Image) \in Nat
    BY ImageSize DEF Fits
  <2>3. userLimit \in Nat
    BY Sizes
  <2> QED BY <1>1, <2>1, <2>2, <2>3
<1> QED BY <1>1, <1>4, <1>5, <1>6

LEMMA SixRead ==
  ASSUME NEW a, NEW s, Len(a) \in Nat, Len(a) >= 6, \A i \in 1 .. Len(a) : s[i] = a[i]
  PROVE  a[1] = s[1] /\ a[2] = s[2] /\ a[3] = s[3] /\ a[4] = s[4] /\ a[6] = s[6]
<1>1. /\ 1 \in 1 .. Len(a) /\ 2 \in 1 .. Len(a) /\ 3 \in 1 .. Len(a)
      /\ 4 \in 1 .. Len(a) /\ 6 \in 1 .. Len(a)
  OBVIOUS
<1> QED BY <1>1, Zenon

LEMMA DataLoader ==
  ASSUME Orderly, Fits, NEW j \in 0 .. Blocks - 1, DataOpen(j), wire # <<>>,
         NEW b \in Byte, TakeByte(b), UNCHANGED <<tosend, pending>>
  PROVE  (DataOpen(j)' /\ Unread') \/ (at' = "flashing" /\ Taken(j)')
<1>1. at = "write" /\ Len(args) >= 5 /\ NoReply /\ Stream = AddressOf(j) \o DataOf(j)
  BY DEF DataOpen
<1>2. Len(args) \in Nat /\ args \in Seq(Byte) /\ \A i \in 1 .. Len(args) : Stream[i] = args[i]
  BY StreamFacts DEF Orderly, LoaderInv, WriteInv
<1>3. writeData(b) /\ Arrived(b) /\ wire' = Tail(wire)
  BY <1>1, <1>2, AtAddr, ArrivedOnly
<1>4. PICK s : s = AddressOf(j) \o DataOf(j)
  OBVIOUS
<1>5. /\ Len(s) = 7 + BlockLen
      /\ s[1] = 8 /\ s[2] = 0
      /\ s[3] = (j * BlockLen) \div 256 /\ s[4] = (j * BlockLen) % 256
      /\ s[6] = BlockLen - 1
      /\ \A k \in 1 .. BlockLen : s[6 + k] = Image[j * BlockLen + k]
  <2>1. Whole(s, j)
    BY <1>4, WholeBlock, Zenon
  <2> QED BY <2>1, Zenon DEF Whole
<1>6. Stream = s
  BY <1>1, <1>4
<1>7. CASE Len(args) = 5 \/ Len(args) < 6 + Count
  <2>1. Collect(b) /\ UNCHANGED back
    BY <1>3, <1>7 DEF writeData
  <2>2. Stream' = Stream /\ Len(args') = Len(args) + 1 /\ at' = at
    BY <1>3, <2>1, CollectFacts DEF Collect
  <2>3. Len(args') >= 5
    BY <1>1, <1>2, <2>2
  <2>4. Len(args) < 6 + BlockLen
    <3>1. CASE Len(args) = 5
      BY <3>1, ImageSize
    <3>2. CASE Len(args) # 5
      <4>1. Len(args) >= 6
        <5>1. \A n \in Nat : n >= 5 /\ n # 5 => n >= 6
          OBVIOUS
        <5> QED BY <1>1, <1>2, <3>2, <5>1, Zenon
      <4>2. Count = BlockLen
        <5>1. args[1] = s[1] /\ args[2] = s[2] /\ args[3] = s[3] /\ args[4] = s[4] /\ args[6] = s[6]
          <6>1. \A i \in 1 .. Len(args) : s[i] = args[i]
            BY <1>2, <1>6, Zenon
          <6>2. Len(args) \in Nat
            BY <1>2
          <6> QED BY <4>1, <6>1, <6>2, SixRead
        <5>2. /\ args[1] = 8 /\ args[2] = 0
              /\ args[3] = (j * BlockLen) \div 256 /\ args[4] = (j * BlockLen) % 256
              /\ args[6] = BlockLen - 1
          BY <1>5, <5>1, Zenon
        <5> QED BY <1>2, <4>1, <5>2, Understood
      <4> QED BY <1>7, <3>2, <4>2
    <3> QED BY <3>1, <3>2
  <2>5. Unread'
    <3>1. Len(Stream') = 7 + BlockLen
      BY <1>5, <1>6, <2>2
    <3>2. Len(args') < Len(Stream')
      BY <1>2, <2>2, <2>4, <3>1, ImageSize
    <3> QED BY <3>2 DEF Unread
  <2> QED BY <1>1, <2>1, <2>2, <2>3, <2>5 DEF DataOpen, NoReply
<1>8. CASE ~(Len(args) = 5 \/ Len(args) < 6 + Count)
  <2>1. Len(args) >= 6
    <3>1. \A n \in Nat : n >= 5 /\ n # 5 => n >= 6
      OBVIOUS
    <3> QED BY <1>1, <1>2, <1>8, <3>1, Zenon
  <2>2. args[1] = s[1] /\ args[2] = s[2] /\ args[3] = s[3] /\ args[4] = s[4] /\ args[6] = s[6]
    <3>1. 1 \in 1 .. Len(args) /\ 2 \in 1 .. Len(args) /\ 3 \in 1 .. Len(args)
          /\ 4 \in 1 .. Len(args) /\ 6 \in 1 .. Len(args)
      BY <1>2, <2>1
    <3> QED BY <1>2, <1>6, <3>1
  <2>3. Offset(Address) = j * BlockLen /\ Count = BlockLen /\ Offset(Address) < userLimit
    <3>1. /\ args[1] = 8 /\ args[2] = 0
          /\ args[3] = (j * BlockLen) \div 256 /\ args[4] = (j * BlockLen) % 256
          /\ args[6] = BlockLen - 1
      BY <1>5, <2>2, Zenon
    <3> QED BY <1>2, <2>1, <3>1, Understood
  <2>4. at' = "flashing" /\ UNCHANGED <<args, back>>
    BY <1>3, <1>8, <2>3 DEF writeData
  <2>5. Len(args) >= 6 + BlockLen /\ BlockLen \in Nat
    <3>1. Len(args) >= 6 + Count
      <4>1. Count \in Nat
        BY <2>3, ImageSize
      <4> QED BY <1>2, <1>8, <4>1
    <3> QED BY <2>3, <3>1, ImageSize
  <2>6. Len(args) = 6 + BlockLen /\ Tail(wire) = <<>> /\ tosend = <<>>
    <3>1. Len(Stream) <= Len(args) + 1
      BY <1>2, <1>5, <1>6, <2>5
    <3>2. Len(Stream) = Len(args) + 1 /\ Tail(wire) = <<>> /\ tosend = <<>>
      BY <1>3, <3>1, LastByte
    <3> QED BY <1>2, <1>5, <1>6, <2>5, <3>2
  <2>7. ASSUME NEW k \in 1 .. BlockLen PROVE args[6 + k] = Image[j * BlockLen + k]
    <3>1. 6 + k \in 1 .. Len(args)
      BY <2>5, <2>6
    <3>2. args[6 + k] = s[6 + k]
      BY <1>2, <1>6, <3>1
    <3> QED BY <1>5, <3>2
  <2>8. Holds(j)'
    <3>1. Holds(j)
      BY <2>3, <2>6, <2>7 DEF Holds
    <3> QED BY <2>4, <3>1 DEF Holds, Address, Count
  <2> QED BY <1>1, <1>3, <2>4, <2>6, <2>8 DEF Taken, NoReply, Sent
<1> QED BY <1>7, <1>8

-----------------------------------------------------------------------------
(* The other steps of the loader. *)

LEMMA NothingThere ==
  ASSUME args = <<>>, Sent
  PROVE  Stream = <<>> /\ Len(Stream) = 0
<1>1. Three(<<>>, <<>>, <<>>) = <<>>
  BY NothingSeq, ThreeMore
<1> QED BY <1>1 DEF Sent, Stream, Three

LEMMA CountLoader ==
  ASSUME Orderly, CountOpen, wire # <<>>, NEW b \in Byte, TakeByte(b),
         UNCHANGED <<tosend, pending>>
  PROVE  (CountOpen' /\ Unread') \/ (Listening(5)' /\ Answer(5)')
<1>1. at = "read" /\ Len(args) >= 5 /\ NoReply /\ Stream = AddressOf(0) \o <<3, 252>>
  BY DEF CountOpen
<1>2. Len(args) \in Nat /\ args \in Seq(Byte) /\ \A i \in 1 .. Len(args) : Stream[i] = args[i]
  BY StreamFacts DEF Orderly, LoaderInv, WriteInv
<1>3. readData(b) /\ Arrived(b) /\ wire' = Tail(wire)
  BY <1>1, <1>2, AtAddr, ArrivedOnly
<1>4. Len(Stream) = 7 /\ Stream[6] = 3
  <2>1. PICK d : d = <<3, 252>>
    OBVIOUS
  <2>2. IsSeq(d) /\ Len(d) = 2 /\ d[1] = 3
    BY <2>1, TwoOf
  <2>3. IsSeq(d)
    BY <2>2
  <2>4. Follows(AddressOf(0) \o d, 0, d)
    BY <2>3, AfterAddress
  <2>5. Follows(Stream, 0, d)
    BY <1>1, <2>1, <2>4
  <2>6. PICK s : s = Stream
    OBVIOUS
  <2>7. Len(s) = 5 + Len(d) /\ \A i \in 1 .. Len(d) : s[5 + i] = d[i]
    BY <2>5, <2>6 DEF Follows
  <2>8. Len(s) = 7 /\ s[5 + 1] = 3
    BY <2>2, <2>7
  <2> QED BY <2>6, <2>8
<1>5. CASE Len(args) = 5
  <2>1. Collect(b) /\ UNCHANGED back
    BY <1>3, <1>5 DEF readData
  <2>2. Stream' = Stream /\ Len(args') = Len(args) + 1 /\ at' = at
    BY <1>3, <2>1, CollectFacts DEF Collect
  <2>3. Len(args') >= 5
    BY <1>1, <1>2, <2>2
  <2>4. Len(args') < Len(Stream')
    <3>1. Len(args') = 5 + 1 /\ Len(Stream') = 7
      BY <1>4, <1>5, <2>2, Zenon
    <3> QED BY <3>1
  <2> QED BY <1>1, <2>1, <2>2, <2>3, <2>4 DEF CountOpen, NoReply, Unread
<1>6. CASE Len(args) # 5
  <2>1. Len(args) >= 6
    <3>1. \A n \in Nat : n >= 5 /\ n # 5 => n >= 6
      OBVIOUS
    <3> QED BY <1>1, <1>2, <1>6, <3>1, Zenon
  <2>2. wire' = <<>> /\ tosend' = <<>>
    <3>1. Len(Stream) <= Len(args) + 1
      BY <1>2, <1>4, <2>1
    <3> QED BY <1>3, <3>1, LastByte
  <2>3. Count = 4
    <3>1. 6 \in 1 .. Len(args)
      BY <1>2, <2>1
    <3>2. args[6] = 3
      BY <1>2, <1>4, <3>1
    <3>3. 3 < MaxBlock /\ 3 + 1 = 4
      BY Sizes
    <3> QED BY <3>2, <3>3, Zenon DEF Count, Counted
  <2> DEFINE o == Offset(Address)
             S(i) == IF (o + i) \div 4 \in Words
                     THEN flash[(o + i) \div 4][((o + i) % 4) + 1] ELSE 0
             d == [i \in 1 .. Count |-> S(i - 1)]
  <2>4. Put(<<ACK>> \o d) /\ Goto("cmd")
    BY <1>3, <1>6 DEF readData
  <2>5. IsSeq(d) /\ Len(d) = 4
    <3> DEFINE E == {S(i - 1) : i \in 1 .. 4}
    <3>1. \A i \in 1 .. 4 : S(i - 1) \in E
      OBVIOUS
    <3> HIDE DEF E, S
    <3>2. d \in Seq(E) /\ Len(d) = 4
      BY <2>3, <3>1
    <3> QED BY <3>2, SeqIn
  <2> HIDE DEF d
  <2>6. PICK e : e = <<ACK>>
    OBVIOUS
  <2>7. IsSeq(e) /\ Len(e) = 1
    BY <2>6, Singleton
  <2>8. IsSeq(e \o d) /\ Len(e \o d) = 5
    <3>1. IsSeq(e) /\ IsSeq(d)
      BY <2>5, <2>7
    <3>2. IsSeq(e \o d) /\ Len(e \o d) = Len(e) + Len(d)
      BY <3>1, JoinFacts
    <3> QED BY <2>5, <2>7, <3>2
  <2>9. Replied' = e \o d
    <3>1. PICK t : t = e \o d
      OBVIOUS
    <3>2. IsSeq(t)
      BY <2>8, <3>1
    <3>3. <<>> \o t = t
      BY <3>2, SeqFacts
    <3>4. pending' = <<>> /\ back' = <<>> \o t
      BY <1>1, <2>4, <2>6, <3>1 DEF Put, NoReply
    <3> QED BY <3>1, <3>3, <3>4 DEF Replied
  <2>10. at' = "cmd" /\ args' = <<>> /\ pending' = <<>> /\ Sent'
    BY <1>1, <2>2, <2>4 DEF Goto, NoReply, Sent
  <2>11. Len(Stream') = 0
    <3>1. Three(<<>>, <<>>, <<>>) = <<>>
      BY NothingSeq, ThreeMore
    <3> QED BY <2>10, <3>1 DEF Sent, Stream, Three
  <2>12. Idle(Stream')
    <3>1. PICK s : s = Stream'
      OBVIOUS
    <3>2. \A i \in 1 .. Len(s) : s[i] = 255
      BY <2>11, <3>1
    <3> QED BY <3>1, <3>2 DEF Idle
  <2>13. Len(args') <= 1
    BY <2>10
  <2>14. Len(Replied') >= 5 /\ \A i \in 5 + 1 .. Len(Replied') : Replied'[i] = NAK
    <3>1. PICK s : s = Replied'
      OBVIOUS
    <3>2. Len(s) = 5
      BY <2>8, <2>9, <3>1, Zenon
    <3>3. Len(s) >= 5 /\ \A i \in 5 + 1 .. Len(s) : s[i] = NAK
      BY <3>2
    <3> QED BY <3>1, <3>3
  <2>15. Len(Replied') = 5 /\ Replied'[1] = ACK
    <3>1. IsSeq(e) /\ IsSeq(d)
      BY <2>5, <2>7
    <3>2. \A i \in 1 .. Len(e) : (e \o d)[i] = e[i]
      BY <3>1, JoinFacts
    <3>3. (e \o d)[1] = ACK
      <4>1. 1 \in 1 .. Len(e) /\ e[1] = ACK
        BY <2>6, <2>7
      <4> QED BY <3>2, <4>1, Zenon
    <3> QED BY <2>8, <2>9, <3>3, Zenon
  <2>16. Answer(5)'
    BY <2>10, <2>15 DEF Answer, Has
  <2> QED BY <2>10, <2>12, <2>13, <2>14, <2>16 DEF Listening
<1> QED BY <1>5, <1>6

(* Where the loader waits for a greeting, or is no more.                   *)
LEMMA AtSync ==
  ASSUME Resting, NEW b, TakeByte(b)
  PROVE  at = "sync" /\ initialSync(b) /\ getByte(b)
BY DEF Resting, TakeByte, initialSync, uploadHandler, erase, getAddrCheck, writeData, readData

LEMMA SyncStep ==
  ASSUME Resting, NEW b, TakeByte(b)
  PROVE  /\ UNCHANGED flash
         /\ \/ at' = "cmd" /\ b = 127 /\ args' = <<>> /\ Put(<<ACK>>)
            \/ at' \in {"sync", "user"} /\ b # 127 /\ UNCHANGED back
<1>1. at = "sync" /\ initialSync(b)
  BY AtSync
<1> QED BY <1>1 DEF initialSync, Goto, Collect

LEMMA OffLoader ==
  ASSUME Off, Loader, ~astray', Running, Wants # "any"
  PROVE  Off'
<1>1. PICK b \in Byte : TakeByte(b)
  BY LoaderFacts
<1>2. Resting /\ back = <<>> /\ (Script[step].bytes # <<>> => pending = <<>>)
  BY DEF Off
<1>3. at = "sync"
  BY <1>1, <1>2, AtSync
<1>4. at' # "cmd" /\ UNCHANGED <<tool, step, pending>>
  BY <1>3, LoaderFacts
<1>5. at' \in {"sync", "user"} /\ UNCHANGED back
  BY <1>1, <1>2, <1>4, SyncStep
<1>6. (Script[step].bytes)' = Script[step].bytes
  BY <1>4, SameEntry
<1> QED BY <1>2, <1>4, <1>5, <1>6 DEF Off, Resting

LEMMA FirstStays ==
  ASSUME Queues, back # <<>>, NEW q, IsSeq(q), back' = back \o q
  PROVE  back' # <<>> /\ back'[1] = back[1] /\ Len(back') >= Len(back)
<1>1. IsSeq(back)
  BY DEF Queues
<1>2. PICK s, t : s = back /\ t = back'
  OBVIOUS
<1>3. IsSeq(s) /\ t = s \o q /\ s # <<>>
  BY <1>1, <1>2
<1>4. /\ IsSeq(s \o q) /\ Len(s \o q) = Len(s) + Len(q)
      /\ \A i \in 1 .. Len(s) : (s \o q)[i] = s[i]
  <2>1. IsSeq(s)
    BY <1>3
  <2> QED BY <2>1, JoinFacts
<1>5. Len(s) \in Nat /\ Len(s) >= 1 /\ Len(q) \in Nat
  BY <1>3, SeqFacts
<1>6. IsSeq(t) /\ Len(t) = Len(s) + Len(q) /\ t[1] = s[1]
  <2>1. 1 \in 1 .. Len(s)
    BY <1>5
  <2> QED BY <1>3, <1>4, <2>1, Zenon
<1>7. Len(t) >= Len(s) /\ Len(t) # 0
  BY <1>5, <1>6
<1>8. t # <<>>
  BY <1>6, <1>7, SeqFacts
<1> QED BY <1>2, <1>6, <1>7, <1>8

LEMMA RefusedKept ==
  ASSUME Orderly, Refused, UNCHANGED <<tool, step, pending>>,
         \E q : IsSeq(q) /\ back' = back \o q
  PROVE  Refused'
<1>1. pending = <<>> /\ back # <<>> /\ back[1] = NAK /\ Wants = "ack"
  BY DEF Refused
<1>2. PICK q : IsSeq(q) /\ back' = back \o q
  OBVIOUS
<1>3. back' # <<>> /\ back'[1] = back[1]
  BY <1>1, <1>2, FirstStays DEF Orderly
<1>4. Wants' = Wants
  BY SameEntry
<1> QED BY <1>1, <1>3, <1>4 DEF Refused

LEMMA RefusedLoader ==
  ASSUME Orderly, Refused, Loader
  PROVE  Refused'
<1>1. UNCHANGED <<tool, step, pending>> /\ \E b \in Byte : TakeByte(b)
  BY DEF Loader
<1>2. \E q : IsSeq(q) /\ back' = back \o q
  BY <1>1, TakeQueues DEF Orderly, LoaderInv, WriteInv
<1> QED BY <1>1, <1>2, RefusedKept

LEMMA DoneLoader ==
  ASSUME wire = <<>>, Resting, Loader
  PROVE  wire' = <<>> /\ Resting' /\ UNCHANGED flash
<1>1. PICK b \in Byte : TakeByte(b)
  BY DEF Loader
<1>2. b = 255 /\ wire' = <<>>
  BY <1>1 DEF TakeByte, getByte, Arrived, GaveUp
<1>3. UNCHANGED flash /\ at' \in {"sync", "user"}
  BY <1>1, <1>2, SyncStep
<1> QED BY <1>2, <1>3 DEF Resting

-----------------------------------------------------------------------------
(* A greeting on its way. *)

LEMMA HeadOf ==
  ASSUME NEW x
  PROVE  Head(<<x>>) = x /\ Tail(<<x>>) = <<>> /\ <<x>> # <<>> /\ Append(<<>>, x) = <<x>>
OBVIOUS

(* A greeting, or a byte that the loader made up, is no second byte.       *)
LEMMA NoCommand ==
  ASSUME at = "cmd", args # <<>>, NEW b, TakeByte(b), b = 127 \/ (b = 255 /\ args[1] \in {127, 255})
  PROVE  at' = "cmd" /\ args' = <<>> /\ Put(<<NAK>>)
<1>1. uploadHandler(b)
  BY AtCmd
<1>2. ~(b = 255 - args[1] /\ args[1] \in DOMAIN Answers \cup DOMAIN Handlers)
  BY Codes
<1> QED BY <1>1, <1>2 DEF uploadHandler, Goto

LEMMA GreetLoader ==
  ASSUME Orderly, Greeting, Loader
  PROVE  Greeting'
<1>1. pending = <<>> /\ UNCHANGED <<tosend, pending>> /\ \E b \in Byte : TakeByte(b)
  BY DEF Loader, Greeting
<1>2. PICK b \in Byte : TakeByte(b)
  BY <1>1
<1>3. getByte(b) /\ IsSeq(back)
  BY <1>2, StreamFacts DEF TakeByte
<1>4. ~Gone
  BY <1>2, AtSync DEF Gone, Resting
<1>5. wire = <<>> => b = 255 /\ wire' = <<>>
  BY <1>3 DEF getByte, Arrived, GaveUp
<1>6. wire = <<127>> => b = 127 /\ wire' = <<>>
  <2>1. wire = <<127>> => wire # <<>> /\ Head(wire) = 127 /\ Tail(wire) = <<>>
    BY HeadOf
  <2> QED BY <1>3, <2>1 DEF getByte, Arrived, GaveUp
<1>7. /\ back = <<>> /\ Put(<<ACK>>) => back' = <<ACK>>
      /\ back = <<>> /\ Put(<<NAK>>) => back' = <<NAK>>
  <2>1. <<>> \o <<NAK>> = <<NAK>> /\ <<>> \o <<ACK>> = <<ACK>>
    BY Singleton, SeqFacts
  <2> QED BY <2>1 DEF Put
<1>8. ASSUME NEW x \in {ACK, NAK}, back' = <<x>>
      PROVE  back' # <<>> /\ back'[1] \in {ACK, NAK} /\ \A i \in 2 .. Len(back') : back'[i] = NAK
  <2>1. PICK t : t = back'
    OBVIOUS
  <2>2. t = <<x>>
    BY <1>8, <2>1
  <2>3. t # <<>> /\ t[1] = x /\ Len(t) = 1
    BY <2>2
  <2>4. \A i \in 2 .. Len(t) : t[i] = NAK
    BY <2>3
  <2> QED BY <2>1, <2>3, <2>4
<1>9. CASE tosend = <<127>> /\ (wire = <<>> \/ Gone)
  BY <1>1, <1>4, <1>5, <1>9 DEF Greeting
<1>10. CASE tosend = <<>> /\ back = <<>> /\ at = "sync" /\ wire \in {<<>>, <<127>>}
  <2>1. \/ at' = "cmd" /\ b = 127 /\ args' = <<>> /\ Put(<<ACK>>)
        \/ at' \in {"sync", "user"} /\ b # 127 /\ UNCHANGED back
    BY <1>2, <1>10, SyncStep DEF Resting
  <2>2. wire' = <<>>
    BY <1>5, <1>6, <1>10
  <2>3. CASE at' = "cmd" /\ b = 127 /\ args' = <<>> /\ Put(<<ACK>>)
    <3>1. back' = <<ACK>>
      BY <1>7, <1>10, <2>3
    <3>2. back' # <<>> /\ back'[1] \in {ACK, NAK} /\ \A i \in 2 .. Len(back') : back'[i] = NAK
      BY <1>8, <3>1
    <3> QED BY <1>1, <1>10, <2>2, <2>3, <3>2 DEF Greeting
  <2>4. CASE at' \in {"sync", "user"} /\ b # 127 /\ UNCHANGED back
    BY <1>1, <1>10, <2>2, <2>4 DEF Greeting, Gone
  <2> QED BY <2>1, <2>3, <2>4
<1>11. CASE /\ tosend = <<>> /\ back = <<>> /\ at = "cmd"
            /\ wire = <<127>> \/ (wire = <<>> /\ args = <<127>>)
  <2>1. wire' = <<>>
    BY <1>5, <1>6, <1>11
  <2>2. CASE args = <<>>
    <3>1. wire = <<127>> /\ b = 127
      BY <1>6, <1>11, <2>2, HeadOf
    <3>2. at' = "cmd" /\ UNCHANGED back /\ args' = Append(<<>>, 127)
      BY <1>2, <1>11, <2>2, <3>1, AtCmd DEF uploadHandler, Collect
    <3>3. args' = <<127>>
      BY <3>2, HeadOf
    <3> QED BY <1>1, <1>11, <2>1, <3>2, <3>3 DEF Greeting
  <2>3. CASE args # <<>>
    <3>1. b = 127 \/ (b = 255 /\ args[1] \in {127, 255})
      <4>1. CASE wire = <<127>>
        BY <1>6, <4>1
      <4>2. CASE wire = <<>> /\ args = <<127>>
        <5>1. args[1] = 127
          BY <4>2
        <5> QED BY <1>5, <4>2, <5>1
      <4> QED BY <1>11, <4>1, <4>2
    <3>2. at' = "cmd" /\ args' = <<>> /\ Put(<<NAK>>)
      BY <1>2, <1>11, <2>3, <3>1, NoCommand
    <3>3. back' = <<NAK>>
      BY <1>7, <1>11, <3>2
    <3>4. back' # <<>> /\ back'[1] \in {ACK, NAK} /\ \A i \in 2 .. Len(back') : back'[i] = NAK
      BY <1>8, <3>3
    <3> QED BY <1>1, <1>11, <2>1, <3>2, <3>4 DEF Greeting
  <2> QED BY <2>2, <2>3
<1>12. CASE /\ tosend = <<>> /\ at = "cmd" /\ wire = <<>> /\ args \in {<<>>, <<255>>}
            /\ back # <<>> /\ back[1] \in {ACK, NAK}
            /\ \A i \in 2 .. Len(back) : back[i] = NAK
  <2>1. b = 255 /\ wire' = <<>>
    BY <1>5, <1>12
  <2>2. CASE args = <<>>
    <3>1. at' = "cmd" /\ UNCHANGED back /\ args' = Append(<<>>, 255)
      BY <1>2, <1>12, <2>1, <2>2, AtCmd DEF uploadHandler, Collect
    <3>2. args' = <<255>>
      BY <3>1, HeadOf
    <3> QED BY <1>1, <1>12, <2>1, <3>1, <3>2 DEF Greeting
  <2>3. CASE args = <<255>>
    <3>1. args # <<>> /\ args[1] = 255
      BY <2>3
    <3>2. at' = "cmd" /\ args' = <<>> /\ Put(<<NAK>>)
      BY <1>2, <1>12, <2>1, <3>1, NoCommand
    <3>3. PICK s, t, e : s = back /\ t = back' /\ e = <<NAK>>
      OBVIOUS
    <3>4. IsSeq(s) /\ IsSeq(e) /\ Len(e) = 1 /\ e[1] = NAK /\ t = s \o e
      BY <1>3, <3>2, <3>3, Singleton DEF Put
    <3>5. s # <<>> /\ s[1] \in {ACK, NAK} /\ \A i \in 2 .. Len(s) : s[i] = NAK
      BY <1>12, <3>3
    <3>6. Len(s) \in Nat /\ Len(s) >= 1
      BY <3>4, <3>5, SeqFacts
    <3>7. t # <<>> /\ t[1] = s[1]
      BY <1>12, <3>2, <3>3, <3>4, FirstStays DEF Orderly, Put
    <3>8. /\ Len(s \o e) = Len(s) + Len(e)
          /\ \A i \in 1 .. Len(s) : (s \o e)[i] = s[i]
          /\ \A i \in 1 .. Len(e) : (s \o e)[Len(s) + i] = e[i]
      <4>1. IsSeq(s) /\ IsSeq(e)
        BY <3>4
      <4> QED BY <4>1, JoinFacts
    <3>9. /\ Len(t) = Len(s) + 1
          /\ \A i \in 1 .. Len(s) : t[i] = s[i]
          /\ \A i \in 1 .. 1 : t[Len(s) + i] = e[i]
      BY <3>4, <3>8, Zenon
    <3>10. ASSUME NEW i \in 2 .. Len(t) PROVE t[i] = NAK
      <4>1. CASE i = Len(s) + 1
        BY <3>4, <3>9, <4>1
      <4>2. CASE i # Len(s) + 1
        <5>1. i \in 1 .. Len(s) /\ i \in 2 .. Len(s)
          BY <3>6, <3>9, <4>2
        <5> QED BY <3>5, <3>9, <5>1
      <4> QED BY <4>1, <4>2
    <3>11. back' # <<>> /\ back'[1] \in {ACK, NAK} /\ \A i \in 2 .. Len(back') : back'[i] = NAK
      BY <3>3, <3>5, <3>7, <3>10
    <3> QED BY <1>1, <1>12, <2>1, <3>2, <3>11 DEF Greeting
  <2> QED BY <1>12, <2>2, <2>3
<1> QED BY <1>4, <1>9, <1>10, <1>11, <1>12 DEF Greeting

-----------------------------------------------------------------------------
(* A block is erased, programmed and done. *)

LEMMA Pages ==
  ASSUME Fits
  PROVE  /\ PerPage \in Nat /\ PerPage >= 1
         /\ PageSize = BlockLen * PerPage /\ PageWords = BlockSize * PerPage
<1>1. /\ PageSize \in Nat /\ PageSize >= 1 /\ PageSize = 4 * PageWords /\ PageWords \in Nat
      /\ BlockLen \in Nat /\ BlockLen >= 1 /\ BlockSize \in Nat /\ BlockLen = 4 * BlockSize
  BY Sizes, ImageSize
<1>2. PageSize % BlockLen = 0
  BY DEF Fits
<1>3. /\ PageSize \div BlockLen \in Nat
      /\ PageSize = BlockLen * (PageSize \div BlockLen) + (PageSize % BlockLen)
  BY <1>1, Quotient
<1>4. PICK n \in Nat : n = PerPage /\ PageSize = BlockLen * n
  <2>1. PageSize \div BlockLen = PerPage
    BY DEF PerPage
  <2> QED BY <1>1, <1>2, <1>3, <2>1
<1>5. n >= 1
  <2>1. n # 0
    BY <1>1, <1>4
  <2> QED BY <2>1
<1>6. PageWords = BlockSize * n
  <2>1. (4 * BlockSize) * n = 4 * (BlockSize * n) /\ BlockSize * n \in Nat
    BY <1>1
  <2>2. 4 * PageWords = 4 * (BlockSize * n)
    BY <1>1, <1>4, <2>1
  <2> QED BY <1>1, <2>1, <2>2
<1> QED BY <1>4, <1>5, <1>6

(* What is between the start of a page and its end is in the page.         *)
LEMMA InPage ==
  ASSUME NEW x \in Nat, NEW d \in Nat, NEW size \in Nat, size >= 1
  PROVE  /\ size * d \in Nat
         /\ x >= size * d /\ x < size * d + size => x \div size = d /\ x % size = x - size * d
         /\ x < size * d => x \div size # d
<1>1. size * d \in Nat /\ d * size = size * d /\ (d + 1) * size = size * d + size /\ d + 1 \in Nat
  <2>1. d <= d
    OBVIOUS
  <2>2. size * d \in Nat /\ size * (d + 1) = size * d + size
    BY <2>1, Times
  <2> QED BY <2>2
<1>2. x \div size \in Nat /\ x = size * (x \div size) + (x % size) /\ x % size \in 0 .. size - 1
  BY Quotient
<1>3. x >= size * d => x \div size >= d
  BY <1>1, NotBelow
<1>4. x < size * d + size => x \div size < d + 1
  BY <1>1, Below
<1>5. x < size * d => x \div size < d
  BY <1>1, Below
<1>6. ASSUME x >= size * d, x < size * d + size
      PROVE  x \div size = d /\ x % size = x - size * d
  <2>1. x \div size = d
    BY <1>2, <1>3, <1>4, <1>6
  <2>2. x = size * d + (x % size)
    BY <1>2, <2>1
  <2> QED BY <1>1, <1>2, <2>1, <2>2
<1> QED BY <1>1, <1>2, <1>5, <1>6

(* Where block j is.                                                       *)
Place(j, d, m) ==
  /\ j * BlockSize \in Nat /\ j * BlockLen = 4 * (j * BlockSize)
  /\ (j * BlockLen) \div PageSize = d
  /\ (j * BlockLen) % PageSize = 0 <=> m = 0
  /\ d \in Nat /\ m \in Nat /\ m < PerPage
  /\ j * BlockSize = PageWords * d + BlockSize * m
  /\ BlockSize * m \in Nat /\ PageWords * d \in Nat
  /\ BlockSize * m + BlockSize <= PageWords

LEMMA BlockPlace ==
  ASSUME Fits, NEW j \in Nat
  PROVE  Place(j, j \div PerPage, j % PerPage)
<1>1. PICK n \in Nat : n = PerPage /\ n >= 1
  BY Pages
<1>2. PICK d \in Nat, m \in 0 .. n - 1 : d = j \div PerPage /\ m = j % PerPage /\ j = n * d + m
  <2>1. j \div n \in Nat /\ j % n \in 0 .. n - 1 /\ j = n * (j \div n) + (j % n)
    BY <1>1, Quotient
  <2> QED BY <1>1, <2>1
<1>3. PICK q \in Nat : q = BlockSize /\ q >= 2 /\ BlockLen = 4 * q
  BY ImageSize
<1>4. PageWords = q * n /\ PageSize = 4 * (q * n) /\ q * n \in Nat /\ q * n >= 1
  BY <1>1, <1>3, Pages, Sizes
<1>5. j * q = (q * n) * d + q * m
  <2>1. (n * d + m) * q = (q * n) * d + q * m
    <3>1. n * d \in Nat /\ m \in Nat
      BY <1>1, <1>2
    <3>2. PICK x \in Nat : x = n * d
      BY <3>1
    <3>3. (x + m) * q = q * x + q * m
      BY <1>3, <3>1
    <3>4. q * (n * d) = (q * n) * d
      BY <1>1, <1>2, <1>3
    <3> QED BY <3>2, <3>3, <3>4
  <2> QED BY <1>2, <2>1
<1>6. (q * n) * d \in Nat /\ q * m \in Nat /\ q * m + q <= q * n
  <2>1. m + 1 <= n /\ m \in Nat /\ m + 1 \in Nat /\ m <= m
    BY <1>1
  <2>2. q * (m + 1) <= q * n /\ q * (m + 1) = q * m + q /\ q * m \in Nat
    BY <1>1, <1>3, <2>1, Times
  <2>3. d <= d
    OBVIOUS
  <2>4. (q * n) * d \in Nat
    BY <1>4, <2>3, Times
  <2> QED BY <2>2, <2>4
<1>7. PICK x, y, z : x = (q * n) * d /\ y = q * m /\ z = j * BlockLen
  OBVIOUS
<1>8. /\ x \in Nat /\ y \in Nat /\ y + q <= q * n /\ j * q = x + y /\ j * q \in Nat
  BY <1>5, <1>6, <1>7
<1>9. j * BlockLen = 4 * (j * q)
  BY <1>3
<1>10. z \in Nat /\ z = 4 * x + 4 * y
  BY <1>7, <1>8, <1>9
<1>11. PageSize * d = 4 * x /\ PageSize \in Nat /\ PageSize >= 1
  <2>1. (4 * (q * n)) * d = 4 * ((q * n) * d)
    BY <1>4
  <2> QED BY <1>4, <1>7, <2>1, Sizes
<1>12. z >= PageSize * d /\ z < PageSize * d + PageSize
  <2>1. PageSize = 4 * (q * n)
    BY <1>4
  <2> QED BY <1>3, <1>4, <1>8, <1>10, <1>11, <2>1
<1>13. z \div PageSize = d /\ z % PageSize = z - PageSize * d
  BY <1>10, <1>11, <1>12, InPage
<1>14. z % PageSize = 4 * y
  BY <1>8, <1>10, <1>11, <1>13
<1>15. 4 * y = 0 <=> m = 0
  <2>1. ASSUME m # 0 PROVE y >= 1
    <3>1. 1 <= m /\ m \in Nat
      BY <1>1, <2>1
    <3>2. q * 1 <= q * m
      BY <1>3, <3>1, Times
    <3> QED BY <1>3, <1>7, <1>8, <3>2
  <2>2. m = 0 => y = 0
    BY <1>3, <1>7
  <2> QED BY <1>8, <2>1, <2>2
<1>16. m \in Nat /\ m < PerPage
  BY <1>1
<1>17. q * m + q <= PageWords
  BY <1>4, <1>6
<1> QED
  <2>1. j * BlockSize = PageWords * d + BlockSize * m
    BY <1>3, <1>4, <1>5
  <2>2. BlockSize * m \in Nat /\ PageWords * d \in Nat /\ BlockSize * m + BlockSize <= PageWords
    BY <1>3, <1>4, <1>6
  <2>3. j * BlockSize \in Nat /\ j * BlockLen = 4 * (j * BlockSize)
    BY <1>3, <1>8, <1>9
  <2>4. (j * BlockLen) \div PageSize = d /\ ((j * BlockLen) % PageSize = 0 <=> m = 0)
    BY <1>7, <1>13, <1>14, <1>15
  <2>5. Place(j, d, m)
    BY <1>16, <2>1, <2>2, <2>3, <2>4 DEF Place
  <2> QED BY <1>2, <2>5

LEMMA WordCount == \E e \in Nat : Words = 0 .. e - 1
<1>1. PICK e : e = (userLimit + BootPages * PageSize) \div 4
  OBVIOUS
<1>2. Words = 0 .. e - 1
  BY <1>1 DEF Words
<1>3. BootPages * PageSize \in Nat
  <2>1. BootPages \in Nat /\ PageSize \in Nat /\ BootPages <= BootPages
    BY Sizes
  <2>2. PageSize * BootPages \in Nat
    BY <2>1, Times
  <2> QED BY <2>1, <2>2
<1>4. e \in Nat
  BY <1>1, <1>3, Sizes
<1> QED BY <1>2, <1>4

LEMMA UserWord ==
  ASSUME NEW w \in Nat, w < UserPages * PageWords
  PROVE  w \in Words
<1>1. userLimit \div 4 + 1 \in Words /\ userLimit \div 4 = UserPages * PageWords
  BY WordFacts DEF LoaderWords
<1>2. PICK u \in Nat : u = UserPages * PageWords
  BY Sizes
<1>3. u + 1 \in Words /\ w < u
  BY <1>1, <1>2
<1> QED BY <1>3, WordCount

(* A word of block j.                                                      *)
LEMMA BlockWord ==
  ASSUME Fits, NEW j \in 0 .. Blocks - 1, NEW i \in 0 .. BlockSize - 1
  PROVE  /\ j \in Nat /\ j * BlockSize + i \in Nat /\ j * BlockSize + i \in Words
         /\ (j * BlockSize + i) \div PageWords = j \div PerPage
         /\ (j + 1) * BlockSize = j * BlockSize + BlockSize
<1>1. PICK q \in Nat : q = BlockSize /\ q >= 2 /\ BlockLen = 4 * q /\ Blocks \in Nat
  BY ImageSize
<1>2. j \in Nat /\ i \in Nat /\ i < q
  BY <1>1
<1>3. PICK d, m : d = j \div PerPage /\ m = j % PerPage
  OBVIOUS
<1>4. Place(j, d, m)
  BY <1>2, <1>3, BlockPlace
<1>5. PICK x, y, z : x = PageWords * d /\ y = BlockSize * m /\ z = j * BlockSize
  OBVIOUS
<1>6. /\ z \in Nat /\ x \in Nat /\ y \in Nat /\ d \in Nat /\ z = x + y /\ y + q <= PageWords
      /\ j * BlockLen = 4 * z
  BY <1>1, <1>4, <1>5 DEF Place
<1>7. PageWords \in Nat /\ PageWords >= 1
  BY Sizes
<1>8. (z + i) \div PageWords = d
  <2>1. z + i \in Nat /\ z + i >= x /\ z + i < x + PageWords
    BY <1>2, <1>6, <1>7
  <2>2. z + i >= PageWords * d /\ z + i < PageWords * d + PageWords
    BY <1>5, <2>1
  <2> QED BY <1>6, <1>7, <2>1, <2>2, InPage
<1>9. z + i \in Words
  <2>1. j * BlockLen + BlockLen <= Len(Image) /\ Len(Image) <= userLimit
    BY BlockRange DEF Fits
  <2>2. Len(Image) \in Nat /\ userLimit \in Nat /\ userLimit = 4 * (UserPages * PageWords)
        /\ UserPages * PageWords \in Nat
    BY ImageSize, Sizes
  <2>3. 4 * z + 4 * q <= userLimit
    BY <1>1, <1>6, <2>1, <2>2
  <2>4. z + i < UserPages * PageWords
    BY <1>2, <1>6, <2>2, <2>3
  <2>5. z + i \in Nat
    BY <1>2, <1>6
  <2> QED BY <2>4, <2>5, UserWord
<1>10. (j + 1) * BlockSize = j * BlockSize + BlockSize
  BY <1>1, <1>2
<1> QED BY <1>2, <1>3, <1>5, <1>6, <1>8, <1>9, <1>10

LEMMA HoldsFacts ==
  ASSUME Fits, NEW j \in 0 .. Blocks - 1, Holds(j)
  PROVE  /\ Offset(Address) = 4 * (j * BlockSize) /\ j * BlockSize \in Nat
         /\ Offset(Address) % 2 = 0 /\ Offset(Address) \div 4 = j * BlockSize
         /\ Offset(Address) \div PageSize = j \div PerPage
         /\ Offset(Address) % PageSize = 0 <=> j % PerPage = 0
         /\ Offset(Address) = 0 <=> j = 0
         /\ BlockWords = BlockSize /\ Count = BlockLen
<1>1. Offset(Address) = j * BlockLen /\ Count = BlockLen
  BY DEF Holds
<1>2. j \in Nat /\ Place(j, j \div PerPage, j % PerPage)
  BY BlockRange, BlockPlace
<1>3. PICK q \in Nat : q = BlockSize /\ q >= 2 /\ BlockLen = 4 * q
  BY ImageSize
<1>4. PICK z \in Nat : z = j * BlockSize /\ j * BlockLen = 4 * z
  BY <1>2 DEF Place
<1>5. (4 * z) % 2 = 0 /\ (4 * z) \div 4 = z
  OBVIOUS
<1>6. BlockWords = BlockSize
  <2>1. (4 * q + 3) \div 4 = q
    OBVIOUS
  <2> QED BY <1>1, <1>3, <2>1 DEF BlockWords
<1>7. z = 0 <=> j = 0
  <2>1. ASSUME j # 0 PROVE z # 0
    <3>1. 1 <= j
      BY <1>2, <2>1
    <3>2. q * 1 <= q * j
      BY <1>2, <1>3, <3>1, Times
    <3>3. q * j = z
      BY <1>2, <1>3, <1>4
    <3> QED BY <1>3, <3>2, <3>3
  <2>2. j = 0 => z = 0
    BY <1>3, <1>4
  <2> QED BY <2>1, <2>2
<1>8. 4 * z = 0 <=> j = 0
  BY <1>7
<1> QED BY <1>1, <1>2, <1>4, <1>5, <1>6, <1>8 DEF Place

LEMMA EraseBlock ==
  ASSUME Fits, Orderly, NEW j \in 0 .. Blocks - 1, Stored(j), Holds(j), ErasePage
  PROVE  Storing(j)' /\ Holds(j)'
<1>1. /\ Offset(Address) \div PageSize = j \div PerPage
      /\ Offset(Address) % PageSize = 0 <=> j % PerPage = 0
  BY HoldsFacts
<1>2. UNCHANGED <<args, prog>> /\ prog = 0 /\ DOMAIN flash = Words
  BY DEF ErasePage, Orderly, LoaderInv, WriteInv
<1>3. flash' = IF j % PerPage = 0
               THEN [w \in Words |-> IF w \div PageWords = j \div PerPage THEN Blank ELSE flash[w]]
               ELSE flash
  BY <1>1, Zenon DEF ErasePage, PageWords
<1>4. PICK z \in Nat, d \in Nat : z = j * BlockSize /\ d = j \div PerPage
  BY BlockRange, BlockPlace DEF Place
<1>5. Written(z) /\ (j % PerPage # 0 => BlankFrom(z, d))
  BY <1>4 DEF Stored
<1>6. \A w \in 0 .. z - 1 : w \in Words /\ (j % PerPage = 0 => w \div PageWords # d)
  <2> SUFFICES ASSUME NEW w \in 0 .. z - 1
               PROVE  w \in Words /\ (j % PerPage = 0 => w \div PageWords # d)
    OBVIOUS
  <2>1. Place(j, d, j % PerPage)
    BY <1>4, BlockRange, BlockPlace
  <2>2. w \in Words
    <3>1. j * BlockLen + BlockLen <= Len(Image) /\ Len(Image) <= userLimit
      BY BlockRange DEF Fits
    <3>2. /\ Len(Image) \in Nat /\ userLimit \in Nat /\ userLimit = 4 * (UserPages * PageWords)
          /\ UserPages * PageWords \in Nat /\ BlockLen \in Nat
      BY ImageSize, Sizes
    <3>3. j * BlockLen = 4 * z
      BY <1>4, <2>1 DEF Place
    <3>4. 4 * z <= 4 * (UserPages * PageWords)
      BY <3>1, <3>2, <3>3
    <3>5. w \in Nat /\ w < UserPages * PageWords
      BY <3>2, <3>4
    <3> QED BY <3>5, UserWord
  <2>3. ASSUME j % PerPage = 0 PROVE w \div PageWords # d
    <3>1. z = PageWords * d + BlockSize * (j % PerPage) /\ PageWords * d \in Nat
      BY <1>4, <2>1 DEF Place
    <3>2. BlockSize * 0 = 0
      BY ImageSize
    <3>3. z = PageWords * d
      BY <2>3, <3>1, <3>2
    <3>4. w \in Nat /\ w < PageWords * d
      BY <3>3
    <3> QED BY <3>4, Sizes, InPage
  <2> QED BY <2>2, <2>3
<1>7. Written(z)'
  <2> SUFFICES ASSUME NEW w \in 0 .. z - 1 PROVE flash'[w] = Wanted(w)
    BY DEF Written
  <2>1. flash[w] = Wanted(w)
    BY <1>5 DEF Written
  <2>2. flash'[w] = flash[w]
    <3>1. CASE j % PerPage = 0
      BY <1>3, <1>4, <1>6, <3>1
    <3>2. CASE j % PerPage # 0
      BY <1>3, <3>2
    <3> QED BY <3>1, <3>2
  <2> QED BY <2>1, <2>2
<1>8. BlankFrom(z, d)'
  <2>1. CASE j % PerPage = 0
    <3>1. \A w \in Words : w \div PageWords = d => flash'[w] = Blank
      BY <1>3, <1>4, <2>1
    <3> QED BY <3>1 DEF BlankFrom
  <2>2. CASE j % PerPage # 0
    <3>1. BlankFrom(z, d) /\ flash' = flash
      BY <1>3, <1>5, <2>2
    <3> QED BY <3>1 DEF BlankFrom
  <2> QED BY <2>1, <2>2
<1>9. prog' = 0 /\ 0 <= BlockSize /\ z + 0 = z
  BY <1>2, ImageSize
<1>10. Storing(j)'
  BY <1>4, <1>7, <1>8, <1>9 DEF Storing
<1>11. Holds(j)'
  BY <1>2 DEF Holds, Address, Count
<1> QED BY <1>10, <1>11

(* What goes into word i of block j, if the vector of the loader is there.  *)
LEMMA PatchedWanted ==
  ASSUME Fits, Orderly, LoaderStarts, NEW j \in 0 .. Blocks - 1, Holds(j), NEW i \in 0 .. BlockSize - 1, NEW junk
  PROVE  Patched(i, junk) = Wanted(j * BlockSize + i)
<1>1. PICK q \in Nat : q = BlockSize /\ q >= 2 /\ BlockLen = 4 * q
  BY ImageSize
<1>2. PICK z \in Nat : z = j * BlockSize /\ j * BlockLen = 4 * z
  BY HoldsFacts, BlockPlace, BlockRange DEF Place
<1>3. /\ \A k \in 1 .. BlockLen : args[6 + k] = Image[4 * z + k]
      /\ Count = BlockLen
  BY <1>2 DEF Holds
<1>4. ASSUME NEW h \in 0 .. q - 1 PROVE Given(h, junk) = ImageWord(z + h)
  <2>1. ASSUME NEW k \in 1 .. 4
        PROVE  /\ 4 * h + k <= Count
               /\ args[6 + 4 * h + k] = Image[4 * (z + h) + k]
    <3>1. 4 * h + k \in 1 .. BlockLen
      BY <1>1
    <3>2. args[6 + (4 * h + k)] = Image[4 * z + (4 * h + k)]
      BY <1>3, <3>1
    <3>3. 6 + (4 * h + k) = 6 + 4 * h + k /\ 4 * z + (4 * h + k) = 4 * (z + h) + k
      OBVIOUS
    <3>4. 4 * h + k <= Count
      BY <1>1, <1>3, <3>1
    <3> QED BY <3>2, <3>3, <3>4
  <2> QED BY <2>1, Zenon DEF Given, ImageWord
<1>5. Offset(Address) = 0 <=> z = 0
  <2>1. Offset(Address) = 4 * z
    BY <1>2, HoldsFacts
  <2> QED BY <2>1
<1>6. CASE z = 0 /\ i = 0
  <2>1. Given(1, junk) = ImageWord(1)
    <3>1. Given(1, junk) = ImageWord(z + 1)
      BY <1>1, <1>4
    <3>2. z + 1 = 1
      BY <1>6
    <3> QED BY <3>1, <3>2
  <2>2. z + i = 0
    BY <1>6
  <2>3. Patched(i, junk) = Given(1, junk)
    BY <1>5, <1>6 DEF Patched
  <2>4. Wanted(0) = ImageWord(1)
    BY DEF Wanted
  <2> QED BY <1>2, <2>1, <2>2, <2>3, <2>4
<1>7. CASE z = 0 /\ i = 1
  <2>1. z + i = 1
    BY <1>7
  <2>2. Patched(i, junk) = flash[userLimit \div 4 + 1]
    BY <1>5, <1>7 DEF Patched
  <2>3. flash[userLimit \div 4 + 1] = LoaderVec
    BY DEF LoaderStarts
  <2>4. Wanted(1) = LoaderVec
    BY DEF Wanted
  <2> QED BY <1>2, <2>1, <2>2, <2>3, <2>4
<1>8. CASE ~(z = 0 /\ i = 0) /\ ~(z = 0 /\ i = 1)
  <2>1. Patched(i, junk) = Given(i, junk)
    BY <1>5, <1>8 DEF Patched
  <2>2. z + i # 0 /\ z + i # 1
    <3>1. CASE z = 0
      BY <1>1, <1>8, <3>1
    <3>2. CASE z # 0
      <4>1. j # 0 /\ j \in Nat
        BY <1>1, <1>2, <3>2, BlockRange
      <4>2. q * 1 <= q * j
        BY <1>1, <4>1, Times
      <4>3. q * j = z
        BY <1>1, <1>2, <4>1
      <4>4. z >= 2
        BY <1>1, <4>2, <4>3
      <4> QED BY <1>1, <4>4
    <3> QED BY <3>1, <3>2
  <2>3. Wanted(z + i) = ImageWord(z + i)
    BY <2>2 DEF Wanted
  <2>4. Given(i, junk) = ImageWord(z + i)
    BY <1>1, <1>4
  <2> QED BY <1>2, <2>1, <2>3, <2>4
<1> QED BY <1>6, <1>7, <1>8

LEMMA WantedWord ==
  ASSUME NEW w
  PROVE  Wanted(w) = <<Wanted(w)[1], Wanted(w)[2], Wanted(w)[3], Wanted(w)[4]>>
<1>1. ASSUME NEW v PROVE ImageWord(v) = <<ImageWord(v)[1], ImageWord(v)[2], ImageWord(v)[3], ImageWord(v)[4]>>
  BY DEF ImageWord
<1> QED BY <1>1, VecFacts DEF Wanted

LEMMA ProgramBlock ==
  ASSUME Fits, Orderly, LoaderStarts, NEW j \in 0 .. Blocks - 1, Storing(j), Holds(j), ProgramWord
  PROVE  Storing(j)' /\ Holds(j)'
<1>1. /\ Offset(Address) = 4 * (j * BlockSize) /\ BlockWords = BlockSize
      /\ j * BlockSize \in Nat /\ BlockSize \in Nat
  BY HoldsFacts, ImageSize
<1>2. /\ UNCHANGED args /\ prog' = prog + 1 /\ prog \in Nat /\ DOMAIN flash = Words
      /\ prog < BlockSize
  BY <1>1 DEF ProgramWord, Orderly, LoaderInv, WriteInv
<1>3. PICK w : w = j * BlockSize + prog
  OBVIOUS
<1>4. prog \in 0 .. BlockSize - 1
  BY <1>1, <1>2
<1>5. w \in Nat /\ w \in Words /\ w \div PageWords = j \div PerPage
  BY <1>3, <1>4, BlockWord
<1>6. Written(w) /\ BlankFrom(w, j \div PerPage)
  BY <1>3 DEF Storing
<1>7. flash[w] = Blank
  <2>1. w >= w
    BY <1>5
  <2> QED BY <1>5, <1>6, <2>1 DEF BlankFrom
<1>8. PICK junk \in {0, 255} : flash' = ProgramAt(Target, Patched(prog, junk))
  BY DEF ProgramWord
<1>9. Patched(prog, junk) = Wanted(w)
  BY <1>3, <1>4, PatchedWanted
<1>10. Target = 4 * w
  <2>1. Target = Offset(Address) + 4 * prog
    BY DEF Target
  <2> QED BY <1>1, <1>2, <1>3, <2>1
<1>11. \A v \in Words : flash'[v] = IF v = w THEN Wanted(w) ELSE flash[v]
  <2>1. PICK o : o = 4 * w /\ o \div 4 = w /\ (o + 3) \div 4 = w
    BY <1>5
  <2>2. \A v \in Words : flash'[v] = IF v = w THEN Programmed(flash[v], Share(v, o, Wanted(w)))
                                     ELSE flash[v]
    <3>1. flash' = ProgramAt(o, Wanted(w))
      BY <1>8, <1>9, <1>10, <2>1
    <3>2. flash' = [v \in Words |-> IF v \in {o \div 4, (o + 3) \div 4}
                                    THEN Programmed(flash[v], Share(v, o, Wanted(w))) ELSE flash[v]]
      BY <3>1 DEF ProgramAt
    <3>3. {o \div 4, (o + 3) \div 4} = {w}
      BY <2>1
    <3>4. flash' = [v \in Words |-> IF v \in {w} THEN Programmed(flash[v], Share(v, o, Wanted(w)))
                                                  ELSE flash[v]]
      BY <3>2, <3>3, Zenon
    <3> QED BY <3>4, Zenon
  <2>3. Share(w, o, Wanted(w)) = Wanted(w)
    BY <1>5, <2>1 DEF Share
  <2>4. Programmed(flash[w], Wanted(w)) = Wanted(w)
    BY <1>7, WantedWord, BlankTakes
  <2>5. Programmed(flash[w], Share(w, o, Wanted(w))) = Wanted(w)
    BY <2>3, <2>4, Zenon
  <2> SUFFICES ASSUME NEW v \in Words PROVE flash'[v] = IF v = w THEN Wanted(w) ELSE flash[v]
    OBVIOUS
  <2>6. CASE v = w
    BY <2>2, <2>5, <2>6
  <2>7. CASE v # w
    BY <2>2, <2>7
  <2> QED BY <2>6, <2>7
<1>12. Written(w + 1)'
  <2> SUFFICES ASSUME NEW v \in 0 .. (w + 1) - 1 PROVE flash'[v] = Wanted(v)
    BY DEF Written
  <2>1. CASE v = w
    BY <1>5, <1>11, <2>1
  <2>2. CASE v # w
    <3>1. v \in 0 .. w - 1
      BY <1>5, <2>2
    <3>2. flash[v] = Wanted(v)
      BY <1>6, <3>1 DEF Written
    <3>3. v \in Words
      BY <1>5, <3>1, WordCount
    <3>4. flash'[v] = flash[v]
      BY <1>11, <2>2, <3>3
    <3> QED BY <3>2, <3>4
  <2> QED BY <2>1, <2>2
<1>13. BlankFrom(w + 1, j \div PerPage)'
  <2> SUFFICES ASSUME NEW v \in Words, v >= w + 1, v \div PageWords = j \div PerPage
               PROVE  flash'[v] = Blank
    BY DEF BlankFrom
  <2>1. v \in Nat
    BY WordFacts
  <2>2. v >= w /\ v # w
    BY <1>5, <2>1
  <2>3. flash[v] = Blank
    BY <1>6, <2>2 DEF BlankFrom
  <2> QED BY <1>11, <2>2, <2>3
<1>14. w + 1 = j * BlockSize + prog' /\ prog' <= BlockSize
  BY <1>1, <1>2, <1>3
<1>15. Storing(j)'
  BY <1>12, <1>13, <1>14 DEF Storing
<1>16. Holds(j)'
  BY <1>2 DEF Holds, Address, Count
<1> QED BY <1>15, <1>16

LEMMA EndBlock ==
  ASSUME Fits, Orderly, NEW j \in 0 .. Blocks - 1, Storing(j), Holds(j), prog = BlockWords,
         UNCHANGED flash
  PROVE  Stored(j + 1)'
<1>1. prog = BlockSize /\ BlockSize \in Nat /\ BlockSize >= 2
  BY HoldsFacts, ImageSize
<1>2. (j + 1) * BlockSize = j * BlockSize + BlockSize /\ j \in Nat /\ j * BlockSize \in Nat
  <2>1. 0 \in 0 .. BlockSize - 1
    BY <1>1
  <2> QED BY <2>1, BlockWord, HoldsFacts
<1>3. PICK z, d : z \in Nat /\ z = (j + 1) * BlockSize /\ d = j \div PerPage
  BY <1>1, <1>2
<1>4. Written(z) /\ BlankFrom(z, d)
  BY <1>1, <1>2, <1>3 DEF Storing
<1>5. Written(z)' /\ BlankFrom(z, d)'
  BY <1>4 DEF Written, BlankFrom
<1>6. (j + 1) % PerPage # 0 => (j + 1) \div PerPage = d
  <2>1. PICK n \in Nat : n = PerPage /\ n >= 1
    BY Pages
  <2>2. /\ j \div n \in Nat /\ j % n \in 0 .. n - 1 /\ j = n * (j \div n) + (j % n)
    BY <1>2, <2>1, Quotient
  <2>3. PICK m \in 0 .. n - 1 : m = j % n
    BY <2>2
  <2>4. PICK e \in Nat : e = j \div n
    BY <2>2
  <2>5. j = n * e + m /\ n * e \in Nat /\ n * (e + 1) = n * e + n /\ n * (e + 1) \in Nat
    <3>1. e <= e /\ e + 1 <= e + 1 /\ e + 1 \in Nat
      OBVIOUS
    <3>2. n * e \in Nat /\ n * (e + 1) = n * e + n /\ n * (e + 1) \in Nat
      BY <2>1, <3>1, Times
    <3> QED BY <2>2, <2>3, <2>4, <3>2
  <2>6. CASE m = n - 1
    <3>1. j + 1 = n * (e + 1)
      BY <2>1, <2>5, <2>6
    <3>2. j + 1 \in Nat /\ j + 1 >= n * (e + 1) /\ j + 1 < n * (e + 1) + n /\ e + 1 \in Nat
      BY <2>1, <2>5, <3>1
    <3>3. PICK f \in Nat, x \in Nat : f = e + 1 /\ x = j + 1
      BY <3>2
    <3>4. x >= n * f /\ x < n * f + n /\ x = n * f /\ n * f \in Nat
      BY <2>5, <3>1, <3>2, <3>3
    <3>5. x % n = x - n * f
      BY <2>1, <3>4, InPage
    <3>6. (j + 1) % n = 0
      BY <3>3, <3>4, <3>5
    <3> QED BY <2>1, <3>6
  <2>7. CASE m # n - 1
    <3>1. j + 1 \in Nat /\ j + 1 >= n * e /\ j + 1 < n * e + n
      BY <2>1, <2>5, <2>7
    <3>2. (j + 1) \div n = e
      BY <2>1, <3>1, InPage
    <3> QED BY <1>3, <2>1, <2>4, <3>2
  <2> QED BY <2>6, <2>7
<1> QED BY <1>3, <1>5, <1>6 DEF Stored

-----------------------------------------------------------------------------
(* writeFlash, and the steps that leave the conversation as it is. *)

LEMMA EndReply ==
  ASSUME NoReply, Sent, at' = "cmd", args' = <<>>, Put(<<ACK>>), UNCHANGED <<wire, tosend, pending>>
  PROVE  Listening(1)'
<1>1. pending' = <<>> /\ back' = <<ACK>>
  BY OneAck DEF Acked
<1>2. Stream' = <<>>
  <2>1. Three(<<>>, <<>>, <<>>) = <<>>
    BY NothingSeq, ThreeMore
  <2> QED BY <2>1 DEF Sent, Stream, Three
<1>3. Replied' = <<ACK>>
  <2>1. <<>> \o <<ACK>> = <<ACK>>
    BY Singleton, SeqFacts
  <2> QED BY <1>1, <2>1 DEF Replied
<1>4. Idle(<<>>)
  BY DEF Idle
<1>5. PICK s : s = <<ACK>>
  OBVIOUS
<1>6. Len(s) = 1
  BY <1>5
<1>7. Len(s) >= 1 /\ \A i \in 1 + 1 .. Len(s) : s[i] = NAK
  BY <1>6
<1>8. Len(args') <= 1
  OBVIOUS
<1> QED BY <1>1, <1>2, <1>3, <1>4, <1>5, <1>7, <1>8 DEF Listening

LEMMA FlashStep ==
  ASSUME Fits, Orderly, LoaderStarts, NEW j \in 0 .. Blocks - 1, Taken(j), WriteFlash,
         UNCHANGED <<tosend, pending>>,
         (at = "flashing" /\ Stored(j)) \/ (at = "programming" /\ Storing(j))
  PROVE  \/ at' = "programming" /\ Storing(j)' /\ Taken(j)'
         \/ Stored(j + 1)' /\ Listening(1)'
<1>1. NoReply /\ Sent /\ Holds(j)
  BY DEF Taken
<1>2. CASE ErasePage
  <2>1. at = "flashing" /\ at' = "programming" /\ UNCHANGED <<wire, back>>
    BY <1>2 DEF ErasePage
  <2>2. Storing(j)' /\ Holds(j)'
    BY <1>1, <1>2, <2>1, EraseBlock
  <2> QED BY <1>1, <2>1, <2>2 DEF Taken, NoReply, Sent
<1>3. CASE ProgramWord
  <2>1. at = "programming" /\ UNCHANGED <<at, wire, back>>
    BY <1>3 DEF ProgramWord
  <2>2. Storing(j)' /\ Holds(j)'
    BY <1>1, <1>3, <2>1, ProgramBlock
  <2> QED BY <1>1, <2>1, <2>2 DEF Taken, NoReply, Sent
<1>4. CASE ProgramOdd
  BY <1>1, <1>4, HoldsFacts DEF ProgramOdd
<1>5. CASE WriteDone
  <2>1. /\ at = "programming" /\ prog = BlockWords /\ at' = "cmd" /\ args' = <<>> /\ Put(<<ACK>>)
        /\ UNCHANGED <<wire, flash>>
    BY <1>5 DEF WriteDone, Goto
  <2>2. Stored(j + 1)'
    BY <1>1, <2>1, EndBlock
  <2> QED BY <1>1, <2>1, <2>2, EndReply
<1> QED BY <1>2, <1>3, <1>4, <1>5 DEF WriteFlash

LEMMA LockKept ==
  ASSUME Locked, UNCHANGED <<at, args, prog, flash, tool, step, left, pending, back>>,
         Stream' = Stream, Sent => Sent'
  PROVE  Locked'
<1>1. Script' = Script /\ Wants' = Wants /\ (Script[step].bytes)' = Script[step].bytes
  BY SameEntry
<1>2. Replied' = Replied /\ (NoReply => NoReply') /\ (Acked => Acked')
  BY DEF Replied, NoReply, Acked
<1>3. ASSUME NEW c, CmdOpen(c) PROVE CmdOpen(c)'
  BY <1>2, <1>3 DEF CmdOpen
<1>4. ASSUME NEW n, Listening(n) PROVE Listening(n)'
  BY <1>1, <1>2, <1>4 DEF Listening
<1>5. ASSUME NEW h, Accepted(h) PROVE Accepted(h)'
  BY <1>2, <1>5 DEF Accepted
<1>6. ASSUME NEW h, NEW j, AddrOpen(h, j) PROVE AddrOpen(h, j)'
  BY <1>2, <1>6 DEF AddrOpen
<1>7. ASSUME NEW h, NEW j, AddrDone(h, j) PROVE AddrDone(h, j)'
  BY <1>2, <1>7 DEF AddrDone
<1>8. ASSUME NEW j, DataOpen(j) PROVE DataOpen(j)'
  BY <1>2, <1>8 DEF DataOpen
<1>9. CountOpen => CountOpen'
  BY <1>2 DEF CountOpen
<1>10. Started => Started'
  BY <1>2 DEF Started
<1>11. ASSUME NEW j, Taken(j) PROVE Taken(j)'
  BY <1>2, <1>11 DEF Taken, Holds, Address, Count
<1>12. ASSUME NEW j, Stored(j) PROVE Stored(j)'
  BY <1>12 DEF Stored, Written, BlankFrom
<1>13. ASSUME NEW j, Storing(j) PROVE Storing(j)'
  BY <1>13 DEF Storing, Written, BlankFrom
<1>14. Off => Off'
  BY <1>1 DEF Off, Resting
<1>15. Refused => Refused'
  BY <1>1 DEF Refused
<1>16. FlashLock => FlashLock'
  <2>1. ASSUME NEW j \in 0 .. Blocks - 1, Writing(j) PROVE Writing(j)'
    BY <1>3, <1>4, <1>5, <1>6, <1>7, <1>8, <1>11, <1>12, <1>13, <2>1 DEF Writing
  <2>2. Reading => Reading'
    BY <1>3, <1>4, <1>5, <1>6, <1>7, <1>9 DEF Reading
  <2>3. Starting => Starting'
    BY <1>3, <1>5, <1>6, <1>10 DEF Starting
  <2> QED BY <1>12, <2>1, <2>2, <2>3 DEF FlashLock
<1>17. FolieLock => FolieLock'
  <2>1. ASSUME FolieLock PROVE FolieLock'
    BY <1>2, <1>3, <1>4, <2>1 DEF FolieLock
  <2> QED BY <2>1
<1> QED BY <1>14, <1>15, <1>16, <1>17 DEF Locked

(* The next command always starts with nothing pending.                    *)
LEMMA Quiet ==
  ASSUME Locked, Script[step].bytes # <<>>
  PROVE  pending = <<>>
<1>1. \A n : Listening(n) => pending = <<>>
  BY DEF Listening
<1>2. NoReply \/ Acked => pending = <<>>
  BY DEF NoReply, Acked
<1>3. \A c : CmdOpen(c) => pending = <<>>
  BY <1>2 DEF CmdOpen
<1>4. FlashLock => pending = <<>>
  <2>1. ASSUME NEW j, Writing(j) PROVE pending = <<>>
    BY <1>1, <1>2, <1>3, <2>1 DEF Writing, Accepted, AddrOpen, AddrDone, DataOpen, Taken
  <2>2. Reading \/ Starting => pending = <<>>
    BY <1>1, <1>2, <1>3 DEF Reading, Starting, Accepted, AddrOpen, AddrDone, CountOpen, Started
  <2> QED BY <2>1, <2>2 DEF FlashLock
<1>5. FolieLock => pending = <<>>
  BY <1>1, <1>3 DEF FolieLock
<1> QED BY <1>4, <1>5 DEF Locked, Off, Refused

LEMMA CutFacts ==
  ASSUME PowerCut
  PROVE  /\ at' \in {"sync", "lost"} /\ args' = <<>> /\ wire' = <<>> /\ back' = <<>>
         /\ at # "programming" => UNCHANGED flash
         /\ UNCHANGED <<tool, step, tosend, left, pending>>
         /\ stale' = stale /\ astray' = astray
BY DEF PowerCut, Reset, Torn, Goto, hostVars

LEMMA LockCut ==
  ASSUME Locked, PowerCut
  PROVE  Locked'
<1>1. /\ at' \in {"sync", "lost"} /\ back' = <<>> /\ UNCHANGED <<tool, step, pending>>
  BY CutFacts
<1>2. (Script[step].bytes)' = Script[step].bytes
  BY <1>1, SameEntry
<1>3. Script[step].bytes # <<>> => pending = <<>>
  BY Quiet
<1>4. Off'
  BY <1>1, <1>2, <1>3 DEF Off, Resting
<1> QED BY <1>4 DEF Locked

-----------------------------------------------------------------------------
(* The host looks at a reply. *)

LEMMA CmdFacts ==
  ASSUME NEW c
  PROVE  /\ Cmd(c).bytes = <<c, 255 - c>> /\ Cmd(c).wants = "ack" /\ Cmd(c).n = 0
         /\ Len(Cmd(c).bytes) = 2 /\ Cmd(c).bytes # <<>>
<1>1. Cmd(c).bytes = <<c, 255 - c>> /\ Cmd(c).wants = "ack" /\ Cmd(c).n = 0
  BY EntryFacts DEF Cmd
<1>2. \A x, y : Len(<<x, y>>) = 2 /\ <<x, y>> # <<>>
  OBVIOUS
<1> QED BY <1>1, <1>2

LEMMA CmdWants ==
  ASSUME NEW c, Script[step] = Cmd(c)
  PROVE  Wants = "ack" /\ Script[step].bytes = <<c, 255 - c>> /\ Script[step].bytes # <<>>
BY CmdFacts DEF Wants

LEMMA EntryWants ==
  ASSUME NEW d, NEW r, NEW n, Script[step] = Entry(d, r, n)
  PROVE  Wants = r /\ Script[step].bytes = d
BY EntryFacts DEF Wants

LEMMA RestFacts ==
  /\ \A n : Take(n).bytes = <<>> /\ Take(n).wants = "bytes" /\ Take(n).n = n
  /\ WantAck.bytes = <<>> /\ WantAck.wants = "ack"
  /\ Connect.bytes = <<127>> /\ Connect.wants = "any"
BY EntryFacts DEF Take, WantAck, Connect

LEMMA AckLooks ==
  ASSUME NEW r, NEW rest, Looks(r, rest), Wants = "ack"
  PROVE  (r = ACK /\ Proceed(rest)) \/ step' = -step
BY DEF Looks, connectToTarget, wantAck, wantSlowAck, TakeReply, Exit, Enter

LEMMA BytesLooks ==
  ASSUME NEW r, NEW rest, Looks(r, rest), Wants = "bytes"
  PROVE  \/ left > 1 /\ left' = left - 1 /\ pending' = rest /\ UNCHANGED <<step, tosend>>
         \/ left <= 1 /\ Proceed(rest)
BY DEF Looks, connectToTarget, wantAck, wantSlowAck, TakeReply

LEMMA CountLooks ==
  ASSUME NEW r, NEW rest, Looks(r, rest), Wants = "count"
  PROVE  step' = step + 1 /\ left' = r + 1 /\ pending' = rest /\ UNCHANGED tosend
BY DEF Looks, connectToTarget, wantAck, wantSlowAck, TakeReply

LEMMA NoReplyEnds ==
  ASSUME Orderly, Receive, NoReply, Wants = "ack"
  PROVE  step' = -step
<1>1. PICK r, rest : ReplyOf(r, rest, back') /\ Looks(r, rest)
  BY ReceiveFacts
<1>2. r = 0
  BY <1>1 DEF ReplyOf, NoReply
<1>3. r # ACK
  BY <1>2, Codes
<1> QED BY <1>1, <1>3, AckLooks

(* An entry is entered.                                                    *)
LEMMA ProceedFacts ==
  ASSUME NEW rest, Proceed(rest), step + 1 \in 1 .. Len(Script)
  PROVE  /\ step' = step + 1 /\ tosend' = Script[step + 1].bytes /\ left' = Script[step + 1].n
         /\ pending' \in {<<>>, rest}
         /\ Script[step + 1].bytes = <<>> => pending' = rest
         /\ Len(Script[step + 1].bytes) = 2 /\ Script[step + 1].wants = "ack" => pending' = <<>>
<1>1. /\ step' = step + 1 /\ tosend' = Script[step + 1].bytes /\ left' = Script[step + 1].n
      /\ pending' = IF Forgets(step + 1) THEN <<>> ELSE rest
  BY DEF Proceed, Enter
<1>2. Script[step + 1].bytes = <<>> => ~Forgets(step + 1)
  <2>1. Len(<<>>) # 2
    OBVIOUS
  <2> QED BY <2>1 DEF Forgets
<1>3. Len(Script[step + 1].bytes) = 2 /\ Script[step + 1].wants = "ack" => Forgets(step + 1)
  BY DEF Forgets
<1> QED BY <1>1, <1>2, <1>3

LEMMA AckedGoes ==
  ASSUME Orderly, Receive, Acked, Wants = "ack", step' >= 1, step >= 1
  PROVE  /\ step' = step + 1 /\ NoReply' /\ UNCHANGED <<wire, at, args, flash, tool>>
         /\ step + 1 \in 1 .. Len(Script) => tosend' = Script[step + 1].bytes
<1>1. PICK r, rest : ReplyOf(r, rest, back') /\ Looks(r, rest)
  BY ReceiveFacts
<1>2. step \in Int /\ Queues /\ UNCHANGED <<wire, at, args, flash, tool>>
  BY ReceiveFacts DEF Orderly
<1>3. Proceed(rest)
  BY <1>1, <1>2, AckLooks
<1>4. PICK a : a = <<ACK>>
  OBVIOUS
<1>5. Len(a) = 1 /\ a # <<>>
  BY <1>4
<1>6. pending = <<>> /\ back = a
  BY <1>4 DEF Acked
<1>7. rest = <<>> /\ back' = <<>>
  <2>1. Replied = a
    <3>1. <<>> \o a = a
      BY <1>4
    <3> QED BY <1>6, <3>1 DEF Replied
  <2>2. IsSeq(rest) /\ IsSeq(back') /\ Len(rest \o back') = 0
    <3>1. /\ IsSeq(rest) /\ IsSeq(back')
          /\ Len(rest \o back') = IF Replied = <<>> THEN 0 ELSE Len(Replied) - 1
      BY <1>1, <1>2, ReplyFacts
    <3> QED BY <1>5, <2>1, <3>1
  <2>3. Len(rest) + Len(back') = 0 /\ Len(rest) \in Nat /\ Len(back') \in Nat
    BY <2>2, JoinFacts, SeqFacts
  <2>4. Len(rest) = 0 /\ Len(back') = 0
    BY <2>3
  <2> QED BY <2>2, <2>4, SeqFacts
<1>8. step' = step + 1 /\ pending' = <<>>
  BY <1>3, <1>7 DEF Proceed, Enter
<1> QED BY <1>2, <1>3, <1>7, <1>8, ProceedFacts DEF NoReply

(* So many replies may be anything, and the others are NAKs.               *)
Later(m, s) == Len(s) >= m /\ \A i \in m + 1 .. Len(s) : s[i] = NAK

LEMMA ListenGoes ==
  ASSUME Orderly, Receive, NEW n \in Nat, n >= 1, Listening(n)
  PROVE  \E r, rest :
            /\ Looks(r, rest) /\ r = Replied[1] /\ IsSeq(rest) /\ IsSeq(back')
            /\ Later(n - 1, rest \o back')
            /\ n >= 2 => (rest \o back')[1] = Replied[2]
<1>1. PICK r, rest : ReplyOf(r, rest, back') /\ Looks(r, rest)
  BY ReceiveFacts
<1>2. Queues
  BY DEF Orderly
<1>3. /\ IsSeq(rest) /\ IsSeq(back') /\ IsSeq(Replied)
      /\ Len(rest \o back') = IF Replied = <<>> THEN 0 ELSE Len(Replied) - 1
      /\ Replied # <<>> => r = Replied[1]
      /\ \A i \in 1 .. Len(Replied) - 1 : (rest \o back')[i] = Replied[i + 1]
  BY <1>1, <1>2, ReplyFacts
<1>4. PICK s, t : s = Replied /\ t = rest \o back'
  OBVIOUS
<1>5. IsSeq(s) /\ Len(s) \in Nat /\ (s = <<>> <=> Len(s) = 0)
  BY <1>3, <1>4, SeqFacts
<1>6. Len(s) >= n /\ \A i \in n + 1 .. Len(s) : s[i] = NAK
  BY <1>4 DEF Listening
<1>7. s # <<>>
  BY <1>5, <1>6
<1>8. Len(t) = Len(s) - 1 /\ r = s[1] /\ \A i \in 1 .. Len(s) - 1 : t[i] = s[i + 1]
  BY <1>3, <1>4, <1>7, Zenon
<1>9. Len(t) >= n - 1
  BY <1>5, <1>6, <1>8
<1>10. ASSUME NEW i \in (n - 1) + 1 .. Len(t) PROVE t[i] = NAK
  <2>1. i \in 1 .. Len(s) - 1 /\ i + 1 \in n + 1 .. Len(s)
    BY <1>5, <1>6, <1>8
  <2> QED BY <1>6, <1>8, <2>1
<1>11. n >= 2 => t[1] = s[2]
  <2>1. n >= 2 => 1 \in 1 .. Len(s) - 1 /\ 1 + 1 = 2
    BY <1>5, <1>6
  <2> QED BY <1>8, <2>1
<1>12. Later(n - 1, t)
  BY <1>9, <1>10 DEF Later
<1> QED BY <1>1, <1>3, <1>4, <1>8, <1>11, <1>12

(* Replies are left to be read.                                            *)
LEMMA ListenOn ==
  ASSUME Orderly, NEW m, NEW rest, Later(m, rest \o back'),
         at = "cmd", Len(args) <= 1, Idle(Stream), tosend = <<>>, tosend' = <<>>, pending' = rest,
         UNCHANGED <<wire, at, args, tool>>, Script[step'].bytes = <<>>
  PROVE  Listening(m)' /\ Replied' = rest \o back'
<1>1. Replied' = rest \o back'
  BY DEF Replied
<1>2. Stream' = Stream
  BY DEF Stream
<1>3. (Script[step].bytes)' = <<>>
  BY DEF Script
<1> QED BY <1>1, <1>2, <1>3 DEF Listening, Later

(* A command is sent.                                                      *)
LEMMA ListenCommand ==
  ASSUME Orderly, NEW c \in 0 .. 255, NEW rest, IsSeq(rest), IsSeq(back'), Later(0, rest \o back'),
         at = "cmd", Len(args) <= 1, Idle(Stream), tosend = <<>>, tosend' = <<c, 255 - c>>,
         pending' = <<>>, UNCHANGED <<wire, at, args, tool>>, Script[step'].wants = "ack"
  PROVE  CmdOpen(c)' \/ Refused'
<1>1. CASE back' # <<>>
  <2>1. PICK b : b = back'
    OBVIOUS
  <2>2. IsSeq(b) /\ IsSeq(rest) /\ b # <<>>
    BY <1>1, <2>1
  <2>3. PICK n, k : n = Len(rest) /\ k = Len(b)
    OBVIOUS
  <2>4. n \in Nat /\ k \in Nat /\ k >= 1
    BY <2>2, <2>3, SeqFacts
  <2>5. PICK t : t = rest \o b
    OBVIOUS
  <2>6. Len(t) = n + k /\ \A i \in 1 .. k : t[n + i] = b[i]
    <3>1. IsSeq(rest) /\ IsSeq(b)
      BY <2>2
    <3>2. /\ Len(rest \o b) = Len(rest) + Len(b)
          /\ \A i \in 1 .. Len(b) : (rest \o b)[Len(rest) + i] = b[i]
      BY <3>1, JoinFacts
    <3> QED BY <2>3, <2>5, <3>2, Zenon
  <2>7. n + 1 \in 0 + 1 .. Len(t)
    BY <2>4, <2>6
  <2>8. t[n + 1] = NAK
    BY <2>1, <2>5, <2>7 DEF Later
  <2>9. 1 \in 1 .. k
    BY <2>4
  <2>10. b[1] = NAK
    BY <2>6, <2>8, <2>9
  <2>11. Wants' = "ack"
    BY DEF Wants, Script
  <2> QED BY <1>1, <2>1, <2>10, <2>11 DEF Refused
<1>2. CASE back' = <<>>
  <2>1. PICK u : u = <<c, 255 - c>>
    OBVIOUS
  <2>2. IsSeq(u) /\ Len(u) = 2 /\ u[1] = c /\ u[2] = 255 - c
    BY <2>1, TwoOf
  <2>3. IsSeq(args) /\ IsSeq(wire) /\ IsSeq(u) /\ Stream = Three(args, wire, <<>>)
    BY <2>2, StreamFacts
  <2>4. PICK s : s = args \o wire
    OBVIOUS
  <2>5. IsSeq(s) /\ Len(s) \in Nat
    BY <2>3, <2>4, JoinFacts, SeqFacts
  <2>6. Stream = s
    <3>1. s \o <<>> = s
      BY <2>5, SeqFacts
    <3> QED BY <2>3, <2>4, <3>1 DEF Three
  <2>7. PICK t : t = s \o u
    OBVIOUS
  <2>8. Stream' = t
    BY <2>1, <2>4, <2>7 DEF Stream
  <2>9. /\ Len(t) = Len(s) + 2
        /\ \A i \in 1 .. Len(s) : t[i] = s[i]
        /\ \A i \in 1 .. 2 : t[Len(s) + i] = u[i]
    <3>1. IsSeq(s) /\ IsSeq(u)
      BY <2>3, <2>5
    <3>2. /\ Len(s \o u) = Len(s) + Len(u)
          /\ \A i \in 1 .. Len(s) : (s \o u)[i] = s[i]
          /\ \A i \in 1 .. Len(u) : (s \o u)[Len(s) + i] = u[i]
      BY <3>1, JoinFacts
    <3> QED BY <2>2, <2>7, <3>2, Zenon
  <2>10. t[Len(t) - 1] = c /\ t[Len(t)] = 255 - c /\ Len(t) >= 2
    <3>1. Len(t) - 1 = Len(s) + 1 /\ Len(t) = Len(s) + 2 /\ 1 \in 1 .. 2 /\ 2 \in 1 .. 2
      BY <2>5, <2>9
    <3>2. t[Len(s) + 1] = c /\ t[Len(s) + 2] = 255 - c
      BY <2>2, <2>9, <3>1
    <3> QED BY <2>5, <3>1, <3>2
  <2>11. ASSUME NEW i \in 1 .. Len(t) - 2 PROVE t[i] = 255
    <3>1. i \in 1 .. Len(s)
      BY <2>5, <2>9
    <3> QED BY <2>6, <2>9, <3>1 DEF Idle
  <2>12. NoReply'
    BY <1>2 DEF NoReply
  <2> QED BY <2>8, <2>10, <2>11, <2>12 DEF CmdOpen
<1> QED BY <1>1, <1>2

-----------------------------------------------------------------------------
(* The host goes on, entry by entry. *)

LEMMA NotNothing ==
  /\ \A j : AddressOf(j) # <<>>
  /\ \A j \in 0 .. Blocks - 1 : DataOf(j) # <<>>
  /\ \A c : Cmd(c).bytes # <<>>
  /\ <<3, 252>> # <<>>
<1>1. ASSUME NEW j PROVE AddressOf(j) # <<>>
  <2>1. Len(AddressOf(j)) = 5 /\ Len(<<>>) = 0
    BY AddressFacts, NothingSeq
  <2> QED BY <2>1
<1>2. ASSUME NEW j \in 0 .. Blocks - 1 PROVE DataOf(j) # <<>>
  <2>1. Len(DataOf(j)) = 2 + BlockLen /\ BlockLen \in Nat /\ Len(<<>>) = 0
    BY DataFacts, ImageSize, NothingSeq
  <2>2. Len(DataOf(j)) # 0
    BY <2>1
  <2> QED BY <2>1, <2>2
<1>3. <<3, 252>> # <<>>
  OBVIOUS
<1> QED BY <1>1, <1>2, <1>3, CmdFacts

(* What an entry asks for, and what comes after it.                        *)
Asks ==
  \/ Wants = "ack" /\ Script[step].bytes # <<>>
  \/ /\ Script[step].bytes = <<>> /\ Wants \in {"ack", "bytes", "count"}
     /\ step + 1 \in 2 .. LastStep /\ step + 1 \in 1 .. Len(Script)
     /\ \/ Script[step + 1].bytes = <<>>
        \/ Wants # "count" /\ \E c : Script[step + 1] = Cmd(c)

LEMMA FlashSteps ==
  ASSUME NEW k \in 2 .. 7 + After
  PROVE  \/ \E j \in 0 .. Blocks - 1 : k = 2 + 3 * j \/ k = 3 + 3 * j \/ k = 4 + 3 * j
         \/ k \in {2 + After, 3 + After, 4 + After, 5 + After, 6 + After, 7 + After}
<1>1. PICK n \in Nat : n = Blocks /\ After = 3 * n
  BY ImageSize DEF After
<1>2. CASE k <= 1 + After
  <2>1. (k - 2) \div 3 \in 0 .. n - 1
    BY <1>1, <1>2
  <2>2. PICK j \in 0 .. n - 1 : k - 2 = 3 * j \/ k - 2 = 3 * j + 1 \/ k - 2 = 3 * j + 2
    <3>1. /\ k - 2 = 3 * ((k - 2) \div 3) \/ k - 2 = 3 * ((k - 2) \div 3) + 1
             \/ k - 2 = 3 * ((k - 2) \div 3) + 2
      BY <1>1
    <3> QED BY <2>1, <3>1
  <2>3. k = 2 + 3 * j \/ k = 3 + 3 * j \/ k = 4 + 3 * j
    BY <1>1, <2>2
  <2> QED BY <1>1, <2>3
<1>3. CASE k > 1 + After
  BY <1>1, <1>3
<1> QED BY <1>1, <1>2, <1>3

LEMMA StepAsks ==
  ASSUME tool \in {"flash", "folie"}, step \in 2 .. LastStep
  PROVE  Asks
<1>1. CASE tool = "flash"
  <2>1. FlashEntries
    BY <1>1, FlashScript
  <2>2. /\ Len(Script) = 7 + After /\ After \in Nat /\ LastStep = 7 + After
    BY <1>1, <2>1, ImageSize DEF FlashEntries, After, LastStep
  <2>3. step \in 2 .. 7 + After
    BY <2>2
  <2>4. ASSUME NEW j \in 0 .. Blocks - 1, step = 2 + 3 * j \/ step = 3 + 3 * j \/ step = 4 + 3 * j
        PROVE  Wants = "ack" /\ Script[step].bytes # <<>>
    <3>1. CASE step = 2 + 3 * j
      <4>1. Script[step] = Cmd(WRITE)
        BY <2>1, <3>1 DEF FlashEntries
      <4> QED BY <4>1, CmdFacts, NotNothing DEF Wants
    <3>2. CASE step = 3 + 3 * j
      <4>1. Script[step] = Entry(AddressOf(j), "ack", 0)
        BY <2>1, <3>2 DEF FlashEntries
      <4> QED BY <4>1, EntryFacts, NotNothing DEF Wants
    <3>3. CASE step = 4 + 3 * j
      <4>1. Script[step] = Entry(DataOf(j), "ack", 0)
        BY <2>1, <3>3 DEF FlashEntries
      <4> QED BY <4>1, EntryFacts, NotNothing DEF Wants
    <3> QED BY <2>4, <3>1, <3>2, <3>3
  <2>5. ASSUME step \in {2 + After, 3 + After, 4 + After, 6 + After, 7 + After}
        PROVE  Wants = "ack" /\ Script[step].bytes # <<>>
    <3>1. CASE step = 2 + After
      <4>1. Script[step] = Cmd(READ)
        BY <2>1, <3>1 DEF FlashEntries
      <4> QED BY <4>1, CmdWants
    <3>2. CASE step = 3 + After \/ step = 7 + After
      <4>1. Script[step] = Entry(AddressOf(0), "ack", 0)
        BY <2>1, <3>2 DEF FlashEntries
      <4> QED BY <4>1, EntryWants, NotNothing
    <3>3. CASE step = 4 + After
      <4>1. PICK d : d = <<3, 252>>
        OBVIOUS
      <4>2. Script[step] = Entry(d, "ack", 0)
        BY <2>1, <3>3, <4>1 DEF FlashEntries
      <4>3. Wants = "ack" /\ Script[step].bytes = d
        BY <4>2, EntryWants
      <4> QED BY <4>1, <4>3, NotNothing, Zenon
    <3>4. CASE step = 6 + After
      <4>1. Script[step] = Cmd(GO)
        BY <2>1, <3>4 DEF FlashEntries
      <4> QED BY <4>1, CmdWants
    <3> QED BY <2>5, <3>1, <3>2, <3>3, <3>4
  <2>6. ASSUME step = 5 + After
        PROVE  /\ Script[step].bytes = <<>> /\ Wants = "bytes"
               /\ step + 1 \in 2 .. LastStep /\ step + 1 \in 1 .. Len(Script)
               /\ Script[step + 1] = Cmd(GO)
    <3>1. step + 1 = 6 + After /\ step + 1 \in 2 .. LastStep /\ step + 1 \in 1 .. Len(Script)
      BY <2>2, <2>6
    <3> QED BY <2>1, <2>6, <3>1, RestFacts DEF FlashEntries, Wants
  <2> QED BY <2>3, <2>4, <2>5, <2>6, FlashSteps DEF Asks
<1>2. CASE tool = "folie"
  <2>1. FolieEntries
    BY <1>2, FolieScript
  <2>2. Len(Script) \in Nat /\ Len(Script) > 9 /\ LastStep = 9
    BY <1>2, <2>1 DEF FolieEntries, LastStep
  <2>3. step \in 2 .. 9
    BY <2>2
  <2>4. step \in {2, 6, 9} => Wants = "ack" /\ Script[step].bytes # <<>>
    BY <2>1, CmdFacts DEF FolieEntries, Wants
  <2>5. step \notin {2, 6, 9} =>
          /\ step + 1 \in 2 .. LastStep /\ step + 1 \in 1 .. Len(Script)
          /\ step \in {3, 4, 5, 7, 8}
    BY <2>2, <2>3
  <2>6. step \in {3, 4, 5, 7, 8} => Script[step].bytes = <<>> /\ Wants \in {"ack", "bytes", "count"}
    BY <2>1, RestFacts, EntryFacts DEF FolieEntries, Wants
  <2>7. step = 3 => Script[step + 1].bytes = <<>>
    BY <2>1, RestFacts DEF FolieEntries
  <2>8. step \in {4, 5, 7, 8} =>
          Wants # "count" /\ (Script[step + 1].bytes = <<>> \/ \E c : Script[step + 1] = Cmd(c))
    BY <2>1, RestFacts DEF FolieEntries, Wants
  <2> QED BY <2>4, <2>5, <2>6, <2>7, <2>8 DEF Asks
<1> QED BY <1>1, <1>2

LEMMA OffReceive ==
  ASSUME Orderly, tool \in {"flash", "folie"}, step \in 2 .. LastStep, Off, Receive, step' >= 1
  PROVE  Off' /\ step' \in 2 .. LastStep
<1>1. Asks
  BY StepAsks
<1>2. Resting /\ back = <<>> /\ (Script[step].bytes # <<>> => pending = <<>>)
  BY DEF Off
<1>3. PICK r, rest : ReplyOf(r, rest, back') /\ Looks(r, rest)
  BY ReceiveFacts
<1>4. UNCHANGED <<at, tool>> /\ tosend = <<>>
  BY ReceiveFacts
<1>5. back' = <<>>
  BY <1>2, <1>3 DEF ReplyOf
<1>6. step' # -step
  <2>1. \A n \in Nat : n >= 2 => ~(-n >= 1)
    OBVIOUS
  <2>2. step \in Nat /\ step >= 2
    OBVIOUS
  <2> QED BY <2>1, <2>2, Zenon
<1>7. Script[step].bytes = <<>> /\ Asks
  <2>1. ASSUME Script[step].bytes # <<>> PROVE FALSE
    <3>1. Wants = "ack" /\ NoReply
      BY <1>1, <1>2, <2>1 DEF Asks, NoReply
    <3> QED BY <1>6, <3>1, NoReplyEnds
  <2> QED BY <1>1, <2>1
<1>8. (step' = step \/ step' = step + 1) /\ (Script[step'].bytes # <<>> => pending' = <<>>)
  <2>1. CASE Proceed(rest)
    <3>1. /\ step' = step + 1
          /\ Len(Script[step + 1].bytes) = 2 /\ Script[step + 1].wants = "ack" => pending' = <<>>
      BY <1>7, <2>1, ProceedFacts DEF Asks
    <3>2. Script[step + 1].bytes = <<>> \/ \E c : Script[step + 1] = Cmd(c)
      BY <1>7 DEF Asks
    <3> QED BY <3>1, <3>2, CmdFacts
  <2>2. CASE Wants = "ack"
    BY <1>3, <1>6, <2>1, <2>2, AckLooks
  <2>3. CASE Wants = "bytes"
    <3>1. \/ UNCHANGED step
          \/ Proceed(rest)
      BY <1>3, <2>3, BytesLooks
    <3> QED BY <1>7, <2>1, <3>1
  <2>4. CASE Wants = "count"
    <3>1. step' = step + 1
      BY <1>3, <2>4, CountLooks
    <3> QED BY <1>7, <2>4, <3>1 DEF Asks
  <2> QED BY <1>7, <2>2, <2>3, <2>4 DEF Asks
<1>9. step' \in 2 .. LastStep
  BY <1>7, <1>8 DEF Asks
<1>10. (Script[step].bytes)' = Script[step'].bytes
  BY <1>4 DEF Script
<1> QED BY <1>2, <1>4, <1>5, <1>8, <1>9, <1>10 DEF Off, Resting

LEMMA RefusedReceive ==
  ASSUME Orderly, Refused, Receive
  PROVE  step' = -step
<1>1. PICK r, rest : ReplyOf(r, rest, back') /\ Looks(r, rest)
  BY ReceiveFacts
<1>2. pending = <<>> /\ back # <<>> /\ back[1] = NAK /\ Wants = "ack"
  BY DEF Refused
<1>3. r = NAK
  <2>1. IsSeq(back)
    BY StreamFacts
  <2>2. Head(back) = back[1]
    BY <1>2, <2>1, SeqFacts
  <2> QED BY <1>1, <1>2, <2>2 DEF ReplyOf
<1>4. r # ACK
  BY <1>3, Codes
<1> QED BY <1>1, <1>2, <1>4, AckLooks

(* After the answer to a command, its address.                             *)
LEMMA GoAddress ==
  ASSUME Orderly, Receive, NEW h, Accepted(h), Wants = "ack", step' >= 1, step >= 1,
         step + 1 \in 1 .. Len(Script), NEW j, Script[step + 1] = Entry(AddressOf(j), "ack", 0)
  PROVE  step' = step + 1 /\ AddrOpen(h, j)' /\ UNCHANGED <<flash, tool>>
<1>1. at = h /\ args = <<>> /\ wire = <<>> /\ Acked
  BY DEF Accepted, Sent
<1>2. /\ step' = step + 1 /\ NoReply' /\ UNCHANGED <<wire, at, args, flash, tool>>
      /\ tosend' = Script[step + 1].bytes
  BY <1>1, AckedGoes
<1>3. PICK a : a = AddressOf(j)
  OBVIOUS
<1>4. tosend' = a /\ IsSeq(a)
  BY <1>2, <1>3, AddressFacts, EntryFacts
<1>5. Stream' = a
  <2>1. <<>> \o a = a /\ <<>> \o <<>> = <<>>
    BY <1>4, NothingSeq, SeqFacts
  <2> QED BY <1>1, <1>2, <1>4, <2>1 DEF Stream
<1>6. Len(args') < 5
  BY <1>1, <1>2
<1> QED BY <1>1, <1>2, <1>3, <1>5, <1>6 DEF AddrOpen

(* After the answer to an address, so many bytes.                          *)
LEMMA GoData ==
  ASSUME Orderly, Receive, NEW h, NEW j, AddrDone(h, j), Wants = "ack", step' >= 1, step >= 1,
         step + 1 \in 1 .. Len(Script), NEW d, Script[step + 1] = Entry(d, "ack", 0)
  PROVE  /\ step' = step + 1 /\ NoReply' /\ at' = h /\ Len(args') >= 5
         /\ Stream' = AddressOf(j) \o d /\ UNCHANGED <<flash, tool>>
<1>1. at = h /\ args = AddressOf(j) /\ wire = <<>> /\ Acked
  BY DEF AddrDone, Sent
<1>2. /\ step' = step + 1 /\ NoReply' /\ UNCHANGED <<wire, at, args, flash, tool>>
      /\ tosend' = Script[step + 1].bytes
  BY <1>1, AckedGoes
<1>3. PICK a : a = AddressOf(j)
  OBVIOUS
<1>4. IsSeq(a) /\ Len(a) = 5
  BY <1>3, AddressFacts
<1>5. tosend' = d
  BY <1>2, EntryFacts
<1>6. Stream' = a \o d
  <2>1. a \o <<>> = a
    BY <1>4, SeqFacts
  <2> QED BY <1>1, <1>2, <1>3, <1>5, <2>1 DEF Stream
<1>7. Len(args') >= 5
  BY <1>1, <1>2, <1>3, <1>4
<1> QED BY <1>1, <1>2, <1>3, <1>6, <1>7

(* Out of a reply into the next entry: a command, or more replies.         *)
LEMMA ProceedCommand ==
  ASSUME Orderly, Receive, NEW rest, Proceed(rest), IsSeq(rest), IsSeq(back'),
         Later(0, rest \o back'), NEW n, Listening(n),
         step + 1 \in 1 .. Len(Script), NEW c \in 0 .. 255, Script[step + 1] = Cmd(c)
  PROVE  step' = step + 1 /\ (CmdOpen(c)' \/ Refused') /\ UNCHANGED <<flash, tool>>
<1>1. UNCHANGED <<wire, at, args, flash, tool>> /\ tosend = <<>>
  BY ReceiveFacts
<1>2. at = "cmd" /\ Len(args) <= 1 /\ Idle(Stream)
  BY DEF Listening
<1>3. /\ Script[step + 1].bytes = <<c, 255 - c>> /\ Script[step + 1].wants = "ack"
      /\ Len(Script[step + 1].bytes) = 2
  BY CmdFacts
<1>4. step' = step + 1 /\ tosend' = <<c, 255 - c>> /\ pending' = <<>>
  BY <1>3, ProceedFacts
<1>5. Script[step'].wants = "ack"
  BY <1>3, <1>4
<1> QED BY <1>1, <1>2, <1>4, <1>5, ListenCommand

LEMMA ProceedListen ==
  ASSUME Orderly, Receive, NEW rest, Proceed(rest), NEW m, Later(m, rest \o back'),
         NEW n, Listening(n), step + 1 \in 1 .. Len(Script), Script[step + 1].bytes = <<>>
  PROVE  /\ step' = step + 1 /\ Listening(m)' /\ Replied' = rest \o back'
         /\ left' = Script[step + 1].n /\ UNCHANGED <<flash, tool>>
<1>1. UNCHANGED <<wire, at, args, flash, tool>> /\ tosend = <<>>
  BY ReceiveFacts
<1>2. at = "cmd" /\ Len(args) <= 1 /\ Idle(Stream)
  BY DEF Listening
<1>3. step' = step + 1 /\ tosend' = <<>> /\ pending' = rest /\ left' = Script[step + 1].n
  BY ProceedFacts
<1>4. Script[step'].bytes = <<>>
  BY <1>3
<1> QED BY <1>1, <1>2, <1>3, <1>4, ListenOn

(* "flash" receives. *)

LEMMA GoesOn ==
  ASSUME Orderly, Receive, Listening(1), Wants = "ack", step >= 1, step' >= 1,
         step + 1 \in 1 .. Len(Script), NEW c \in 0 .. 255, Script[step + 1] = Cmd(c)
  PROVE  step' = step + 1 /\ (CmdOpen(c)' \/ Refused') /\ UNCHANGED <<flash, tool>>
<1>1. PICK r, rest : Looks(r, rest) /\ IsSeq(rest) /\ IsSeq(back') /\ Later(0, rest \o back')
  <2>1. \E r, rest : /\ Looks(r, rest) /\ r = Replied[1] /\ IsSeq(rest) /\ IsSeq(back')
                     /\ Later(1 - 1, rest \o back')
    BY ListenGoes
  <2> QED BY <2>1
<1>2. step' # -step
  BY DEF Orderly
<1>3. Proceed(rest)
  BY <1>1, <1>2, AckLooks
<1> QED BY <1>1, <1>3, ProceedCommand

LEMMA StoredKept ==
  ASSUME UNCHANGED flash, NEW j, Stored(j)
  PROVE  Stored(j)'
BY DEF Stored, Written, BlankFrom

LEMMA SilentEnds ==
  ASSUME Orderly, Receive, NoReply, Wants = "ack", step >= 1, step' >= 1
  PROVE  FALSE
BY NoReplyEnds DEF Orderly

LEMMA FlashEntry ==
  ASSUME tool = "flash", NEW j \in 0 .. Blocks - 1
  PROVE  /\ Script[2 + 3 * j] = Cmd(WRITE)
         /\ Script[3 + 3 * j] = Entry(AddressOf(j), "ack", 0)
         /\ Script[4 + 3 * j] = Entry(DataOf(j), "ack", 0)
         /\ j + 1 < Blocks => Script[5 + 3 * j] = Cmd(WRITE)
         /\ j + 1 = Blocks => Script[5 + 3 * j] = Cmd(READ) /\ 5 + 3 * j = 2 + After
         /\ Len(Script) = 7 + After /\ LastStep = 7 + After /\ After \in Nat
         /\ j \in Nat /\ 5 + 3 * j <= 2 + After
<1>1. FlashEntries
  BY FlashScript
<1>2. Blocks \in Nat /\ After = 3 * Blocks
  BY ImageSize DEF After
<1>3. 5 + 3 * j = 2 + 3 * (j + 1)
  OBVIOUS
<1>4. j + 1 < Blocks => j + 1 \in 0 .. Blocks - 1
  BY <1>2
<1>5. Len(Script) = 7 + After /\ LastStep = 7 + After
  BY <1>1 DEF FlashEntries, LastStep
<1>6. j + 1 = Blocks => 5 + 3 * j = 2 + After
  BY <1>2
<1>7. 5 + 3 * j <= 2 + After
  BY <1>2
<1>8. /\ Script[2 + 3 * j] = Cmd(WRITE)
      /\ Script[3 + 3 * j] = Entry(AddressOf(j), "ack", 0)
      /\ Script[4 + 3 * j] = Entry(DataOf(j), "ack", 0)
  BY <1>1 DEF FlashEntries
<1>9. j + 1 < Blocks => Script[5 + 3 * j] = Cmd(WRITE)
  BY <1>1, <1>3, <1>4 DEF FlashEntries
<1>10. j + 1 = Blocks => Script[5 + 3 * j] = Cmd(READ)
  BY <1>1, <1>6 DEF FlashEntries
<1>11. After \in Nat /\ j \in Nat
  BY <1>2
<1> QED BY <1>5, <1>6, <1>7, <1>8, <1>9, <1>10, <1>11

LEMMA WritingReceive ==
  ASSUME Orderly, tool = "flash", NEW j \in 0 .. Blocks - 1, Writing(j), Receive, step' >= 1
  PROVE  step' = step + 1 /\ step' \in 2 .. LastStep /\ UNCHANGED tool /\ (FlashLock' \/ Refused')
<1>1. /\ Script[2 + 3 * j] = Cmd(WRITE)
      /\ Script[3 + 3 * j] = Entry(AddressOf(j), "ack", 0)
      /\ Script[4 + 3 * j] = Entry(DataOf(j), "ack", 0)
      /\ j + 1 < Blocks => Script[5 + 3 * j] = Cmd(WRITE)
      /\ j + 1 = Blocks => Script[5 + 3 * j] = Cmd(READ) /\ 5 + 3 * j = 2 + After
      /\ Len(Script) = 7 + After /\ LastStep = 7 + After /\ After \in Nat
      /\ j \in Nat /\ 5 + 3 * j <= 2 + After
  BY FlashEntry
<1>2. /\ step \in {2 + 3 * j, 3 + 3 * j, 4 + 3 * j}
  BY DEF Writing
<1>3. /\ Wants = "ack" /\ step >= 1 /\ step + 1 \in 1 .. Len(Script) /\ step + 1 \in 2 .. LastStep
  <2>1. Wants = "ack"
    <3>1. CASE step = 2 + 3 * j
      <4>1. Script[step] = Cmd(WRITE)
        BY <1>1, <3>1
      <4> QED BY <4>1, CmdWants
    <3>2. CASE step = 3 + 3 * j
      <4>1. Script[step] = Entry(AddressOf(j), "ack", 0)
        BY <1>1, <3>2
      <4> QED BY <4>1, EntryWants
    <3>3. CASE step = 4 + 3 * j
      <4>1. Script[step] = Entry(DataOf(j), "ack", 0)
        BY <1>1, <3>3
      <4> QED BY <4>1, EntryWants
    <3> QED BY <1>2, <3>1, <3>2, <3>3
  <2> QED BY <1>1, <1>2, <2>1
<1>4. ~NoReply
  BY <1>3, SilentEnds
<1>5. CASE step = 2 + 3 * j
  <2>1. Stored(j) /\ Accepted("write")
    BY <1>1, <1>4, <1>5 DEF Writing, CmdOpen
  <2>2. Script[step + 1] = Entry(AddressOf(j), "ack", 0)
    <3>1. step + 1 = 3 + 3 * j
      BY <1>5
    <3> QED BY <1>1, <3>1
  <2>3. step' = step + 1 /\ AddrOpen("write", j)' /\ UNCHANGED <<flash, tool>>
    BY <1>3, <2>1, <2>2, GoAddress
  <2>4. Stored(j)'
    BY <2>1, <2>3, StoredKept
  <2>5. step' = 3 + 3 * j
    BY <1>5, <2>3
  <2>6. Writing(j)'
    BY <2>3, <2>4, <2>5 DEF Writing
  <2> QED BY <1>3, <2>3, <2>6 DEF FlashLock
<1>6. CASE step = 3 + 3 * j
  <2>1. Stored(j) /\ AddrDone("write", j)
    BY <1>1, <1>4, <1>6 DEF Writing, AddrOpen
  <2>2. Script[step + 1] = Entry(DataOf(j), "ack", 0)
    <3>1. step + 1 = 4 + 3 * j
      BY <1>6
    <3> QED BY <1>1, <3>1
  <2>3. /\ step' = step + 1 /\ NoReply' /\ at' = "write" /\ Len(args') >= 5
        /\ Stream' = AddressOf(j) \o DataOf(j) /\ UNCHANGED <<flash, tool>>
    BY <1>3, <2>1, <2>2, GoData
  <2>4. Stored(j)' /\ DataOpen(j)'
    BY <2>1, <2>3, StoredKept DEF DataOpen
  <2>5. step' = 4 + 3 * j
    BY <1>6, <2>3
  <2>6. Writing(j)'
    BY <2>4, <2>5 DEF Writing
  <2> QED BY <1>3, <2>3, <2>6 DEF FlashLock
<1>7. CASE step = 4 + 3 * j
  <2>1. Stored(j + 1) /\ Listening(1)
    BY <1>1, <1>4, <1>7 DEF Writing, DataOpen, Taken
  <2>2. step + 1 = 5 + 3 * j
    BY <1>7
  <2>3. CASE j + 1 < Blocks
    <3>1. step' = step + 1 /\ (CmdOpen(WRITE)' \/ Refused') /\ UNCHANGED <<flash, tool>>
      BY <1>1, <1>3, <2>1, <2>2, <2>3, GoesOn, Codes
    <3>2. Stored(j + 1)' /\ step' = 2 + 3 * (j + 1) /\ j + 1 \in 0 .. Blocks - 1
      BY <2>1, <2>2, <2>3, <3>1, StoredKept, ImageSize
    <3>3. CmdOpen(WRITE)' => Writing(j + 1)'
      BY <3>2 DEF Writing
    <3> QED BY <1>3, <3>1, <3>2, <3>3 DEF FlashLock
  <2>4. CASE j + 1 = Blocks
    <3>1. step' = step + 1 /\ (CmdOpen(READ)' \/ Refused') /\ UNCHANGED <<flash, tool>>
      BY <1>1, <1>3, <2>1, <2>2, <2>4, GoesOn, Codes
    <3>2. Stored(Blocks)' /\ step' = 2 + After
      BY <1>1, <2>1, <2>2, <2>4, <3>1, StoredKept
    <3>3. CmdOpen(READ)' => Reading'
      BY <3>2 DEF Reading
    <3> QED BY <1>3, <3>1, <3>2, <3>3 DEF FlashLock
  <2> QED BY <2>3, <2>4, ImageSize
<1> QED BY <1>2, <1>5, <1>6, <1>7

LEMMA FlashLast ==
  ASSUME tool = "flash"
  PROVE  /\ Script[2 + After] = Cmd(READ)
         /\ Script[3 + After] = Entry(AddressOf(0), "ack", 0)
         /\ Script[4 + After] = Entry(<<3, 252>>, "ack", 0)
         /\ Script[5 + After] = Take(4)
         /\ Script[6 + After] = Cmd(GO)
         /\ Script[7 + After] = Entry(AddressOf(0), "ack", 0)
         /\ Len(Script) = 7 + After /\ LastStep = 7 + After /\ After \in Nat
<1>1. FlashEntries
  BY FlashScript
<1>2. After \in Nat
  BY ImageSize DEF After
<1>3. Len(Script) = 7 + After /\ LastStep = 7 + After
  BY <1>1 DEF FlashEntries, LastStep
<1> QED BY <1>1, <1>2, <1>3 DEF FlashEntries

(* The rest of a reply that nobody looks at.                               *)
LEMMA BytesReceive ==
  ASSUME Orderly, Receive, NEW n \in Nat, n >= 2, Listening(n), Wants = "bytes", left \in Int, left > 1,
         Script[step].bytes = <<>>
  PROVE  Listening(n - 1)' /\ left' = left - 1 /\ UNCHANGED <<flash, tool, step>>
<1>1. PICK r, rest : Looks(r, rest) /\ IsSeq(rest) /\ IsSeq(back') /\ Later(n - 1, rest \o back')
  BY ListenGoes
<1>2. UNCHANGED <<wire, at, args, flash, tool>> /\ tosend = <<>>
  BY ReceiveFacts
<1>3. left' = left - 1 /\ pending' = rest /\ UNCHANGED <<step, tosend>>
  <2>1. ~(left <= 1)
    OBVIOUS
  <2> QED BY <1>1, <2>1, BytesLooks
<1>4. at = "cmd" /\ Len(args) <= 1 /\ Idle(Stream)
  BY DEF Listening
<1>5. PICK m : m = n - 1
  OBVIOUS
<1>6. Later(m, rest \o back') /\ Script[step'].bytes = <<>> /\ tosend' = <<>>
  BY <1>1, <1>2, <1>3, <1>5
<1>7. Listening(m)'
  BY <1>1, <1>2, <1>3, <1>4, <1>6, ListenOn
<1> QED BY <1>2, <1>3, <1>5, <1>7

LEMMA ReadingReceive ==
  ASSUME Orderly, tool = "flash", Stored(Blocks), Reading, Receive, step' >= 1
  PROVE  step' \in 2 .. LastStep /\ UNCHANGED tool /\ (FlashLock' \/ Refused')
<1>1. /\ Script[2 + After] = Cmd(READ)
      /\ Script[3 + After] = Entry(AddressOf(0), "ack", 0)
      /\ Script[4 + After] = Entry(<<3, 252>>, "ack", 0)
      /\ Script[5 + After] = Take(4)
      /\ Script[6 + After] = Cmd(GO)
      /\ Len(Script) = 7 + After /\ LastStep = 7 + After /\ After \in Nat
  BY FlashLast
<1>2. step \in {2 + After, 3 + After, 4 + After, 5 + After}
  BY DEF Reading
<1>3. /\ step >= 1 /\ step + 1 \in 1 .. Len(Script) /\ step + 1 \in 2 .. LastStep
      /\ step \in 2 .. LastStep /\ step # 0
  BY <1>1, <1>2
<1>4. UNCHANGED <<flash, tool>> /\ Stored(Blocks)'
  BY ReceiveFacts, StoredKept
<1>5. CASE step = 2 + After
  <2>1. Wants = "ack"
    BY <1>1, <1>5, CmdFacts DEF Wants
  <2>2. ~NoReply
    BY <1>3, <2>1, SilentEnds
  <2>3. Accepted("read")
    BY <1>1, <1>5, <2>2 DEF Reading, CmdOpen
  <2>4. Script[step + 1] = Entry(AddressOf(0), "ack", 0) /\ step + 1 = 3 + After
    BY <1>1, <1>5
  <2>5. step' = step + 1 /\ AddrOpen("read", 0)'
    BY <1>3, <2>1, <2>3, <2>4, GoAddress
  <2>6. Reading'
    BY <2>4, <2>5 DEF Reading
  <2> QED BY <1>3, <1>4, <2>5, <2>6 DEF FlashLock
<1>6. CASE step = 3 + After
  <2>1. Wants = "ack"
    BY <1>1, <1>6, EntryFacts DEF Wants
  <2>2. ~NoReply
    BY <1>3, <2>1, SilentEnds
  <2>3. AddrDone("read", 0)
    BY <1>1, <1>6, <2>2 DEF Reading, AddrOpen
  <2>4. Script[step + 1] = Entry(<<3, 252>>, "ack", 0) /\ step + 1 = 4 + After
    BY <1>1, <1>6
  <2>5. /\ step' = step + 1 /\ NoReply' /\ at' = "read" /\ Len(args') >= 5
        /\ Stream' = AddressOf(0) \o <<3, 252>>
    <3>1. PICK d : d = <<3, 252>>
      OBVIOUS
    <3>2. Script[step + 1] = Entry(d, "ack", 0) /\ step >= 1 /\ step + 1 \in 1 .. Len(Script)
      BY <1>3, <2>4, <3>1
    <3>3. /\ step' = step + 1 /\ NoReply' /\ at' = "read" /\ Len(args') >= 5
          /\ Stream' = AddressOf(0) \o d
      BY <1>3, <2>1, <2>3, <3>2, GoData
    <3> QED BY <3>1, <3>3, Zenon
  <2>6. CountOpen'
    BY <2>5 DEF CountOpen
  <2>7. Reading'
    BY <2>4, <2>5, <2>6 DEF Reading
  <2> QED BY <1>3, <1>4, <2>5, <2>7 DEF FlashLock
<1>7. CASE step = 4 + After
  <2>1. Wants = "ack"
    <3>1. PICK d : d = <<3, 252>>
      OBVIOUS
    <3>2. Script[step] = Entry(d, "ack", 0)
      BY <1>1, <1>7, <3>1, Zenon
    <3>3. Entry(d, "ack", 0).wants = "ack"
      BY EntryFacts
    <3> QED BY <3>2, <3>3, Zenon DEF Wants
  <2>2. ~NoReply
    BY <1>3, <2>1, SilentEnds
  <2>3. Listening(5)
    BY <1>1, <1>7, <2>2 DEF Reading, CountOpen
  <2>4. Script[step + 1] = Take(4) /\ step + 1 = 5 + After
    BY <1>1, <1>7
  <2>5. PICK r, rest : Looks(r, rest) /\ IsSeq(rest) /\ IsSeq(back') /\ Later(4, rest \o back')
    <3>1. \E r, rest : /\ Looks(r, rest) /\ r = Replied[1] /\ IsSeq(rest) /\ IsSeq(back')
                       /\ Later(5 - 1, rest \o back')
      BY <2>3, ListenGoes
    <3> QED BY <3>1
  <2>6. Proceed(rest)
    <3>1. step' # -step
      BY <1>3
    <3> QED BY <2>1, <2>5, <3>1, AckLooks
  <2>7. step' = step + 1 /\ Listening(4)' /\ left' = Script[step + 1].n
    BY <1>3, <2>3, <2>4, <2>5, <2>6, RestFacts, ProceedListen
  <2>8. left' = 4
    BY <2>4, <2>7, RestFacts
  <2>9. Reading'
    BY <2>4, <2>7, <2>8 DEF Reading, Listening
  <2> QED BY <1>3, <1>4, <2>7, <2>9 DEF FlashLock
<1>8. CASE step = 5 + After
  <2>1. Wants = "bytes" /\ Script[step].bytes = <<>>
    BY <1>1, <1>8, RestFacts DEF Wants
  <2>2. left \in 1 .. 4 /\ Listening(left)
    BY <1>1, <1>8 DEF Reading
  <2>3. PICK n \in 1 .. 4 : n = left
    BY <2>2
  <2>4. Listening(n)
    BY <2>2, <2>3
  <2>5. CASE n >= 2
    <3>1. Listening(n - 1)' /\ left' = left - 1 /\ UNCHANGED step
      BY <2>1, <2>3, <2>4, <2>5, BytesReceive
    <3>2. Reading'
      <4>1. left' = n - 1 /\ left' \in 1 .. 4 /\ step' = 5 + After
        BY <1>8, <2>3, <2>5, <3>1
      <4> QED BY <3>1, <4>1 DEF Reading, Listening
    <3> QED BY <1>3, <1>4, <3>1, <3>2 DEF FlashLock
  <2>6. CASE n = 1
    <3>1. Script[step + 1] = Cmd(GO) /\ step + 1 = 6 + After
      BY <1>1, <1>8
    <3>2. PICK r, rest : Looks(r, rest) /\ IsSeq(rest) /\ IsSeq(back') /\ Later(0, rest \o back')
      <4>1. \E r, rest : /\ Looks(r, rest) /\ r = Replied[1] /\ IsSeq(rest) /\ IsSeq(back')
                         /\ Later(1 - 1, rest \o back')
        BY <2>4, <2>6, ListenGoes
      <4> QED BY <4>1
    <3>3. Proceed(rest)
      BY <2>1, <2>3, <2>6, <3>2, BytesLooks
    <3>4. step' = step + 1 /\ (CmdOpen(GO)' \/ Refused')
      <4>1. GO \in 0 .. 255
        BY Codes
      <4> QED BY <1>3, <2>4, <3>1, <3>2, <3>3, <4>1, ProceedCommand
    <3>5. CmdOpen(GO)' => Starting'
      BY <3>1, <3>4 DEF Starting
    <3> QED BY <1>3, <1>4, <3>4, <3>5 DEF FlashLock
  <2> QED BY <2>3, <2>5, <2>6
<1> QED BY <1>2, <1>5, <1>6, <1>7, <1>8

LEMMA StartingReceive ==
  ASSUME Orderly, tool = "flash", Stored(Blocks), Starting, Receive, step' >= 1
  PROVE  /\ UNCHANGED tool
         /\ \/ step' \in 2 .. LastStep /\ FlashLock'
            \/ /\ step' = LastStep + 1 /\ LastStep = Len(Script)
               /\ wire' = <<>> /\ at' = "user" /\ Written(Blocks * BlockSize)'
<1>1. /\ Script[6 + After] = Cmd(GO)
      /\ Script[7 + After] = Entry(AddressOf(0), "ack", 0)
      /\ Len(Script) = 7 + After /\ LastStep = 7 + After /\ After \in Nat
  BY FlashLast
<1>2. step \in {6 + After, 7 + After}
  BY DEF Starting
<1>3. step >= 1 /\ step \in 2 .. LastStep /\ Wants = "ack"
  <2>1. Wants = "ack"
    BY <1>1, <1>2, CmdFacts, EntryFacts DEF Wants
  <2> QED BY <1>1, <1>2, <2>1
<1>4. UNCHANGED <<flash, tool>> /\ Stored(Blocks)'
  BY ReceiveFacts, StoredKept
<1>5. ~NoReply
  BY <1>3, SilentEnds
<1>6. CASE step = 6 + After
  <2>1. Accepted("go")
    BY <1>1, <1>5, <1>6 DEF Starting, CmdOpen
  <2>2. /\ Script[step + 1] = Entry(AddressOf(0), "ack", 0) /\ step + 1 = 7 + After
        /\ step + 1 \in 1 .. Len(Script) /\ step + 1 \in 2 .. LastStep
    BY <1>1, <1>6
  <2>3. step' = step + 1 /\ AddrOpen("go", 0)'
    BY <1>3, <2>1, <2>2, GoAddress
  <2>4. Starting'
    BY <2>2, <2>3 DEF Starting
  <2> QED BY <1>4, <2>2, <2>3, <2>4 DEF FlashLock
<1>7. CASE step = 7 + After
  <2>1. Started
    BY <1>1, <1>5, <1>7 DEF Starting, AddrOpen
  <2>2. at = "user" /\ wire = <<>> /\ Acked
    BY <2>1 DEF Started, Sent
  <2>3. step' = step + 1 /\ UNCHANGED <<wire, at>>
    BY <1>3, <2>2, AckedGoes
  <2>4. Written(Blocks * BlockSize)'
    BY <1>4 DEF Stored, Written
  <2> QED BY <1>1, <1>4, <1>7, <2>2, <2>3, <2>4
<1> QED BY <1>2, <1>6, <1>7

LEMMA SameTool ==
  ASSUME UNCHANGED tool
  PROVE  Script' = Script /\ LastStep' = LastStep /\ Done' = Done
BY DEF Script, LastStep, Done

LEMMA FlashReceive ==
  ASSUME Orderly, tool = "flash", step \in 2 .. LastStep, FlashLock, Receive, step' >= 1
  PROVE  InStep'
<1>1. UNCHANGED tool
  BY ReceiveFacts
<1>2. Script' = Script /\ LastStep' = LastStep /\ Done' = Done /\ tool' = "flash"
  BY <1>1, SameTool
<1>3. CASE \E j \in 0 .. Blocks - 1 : Writing(j)
  <2>1. PICK j \in 0 .. Blocks - 1 : Writing(j)
    BY <1>3
  <2>2. step' \in 2 .. LastStep /\ (FlashLock' \/ Refused')
    BY <2>1, WritingReceive
  <2> QED BY <1>2, <2>2 DEF InStep, Locked
<1>4. CASE Stored(Blocks) /\ Reading
  <2>1. step' \in 2 .. LastStep /\ (FlashLock' \/ Refused')
    BY <1>4, ReadingReceive
  <2> QED BY <1>2, <2>1 DEF InStep, Locked
<1>5. CASE Stored(Blocks) /\ Starting
  <2>1. \/ step' \in 2 .. LastStep /\ FlashLock'
        \/ /\ step' = LastStep + 1 /\ LastStep = Len(Script)
           /\ wire' = <<>> /\ at' = "user" /\ Written(Blocks * BlockSize)'
    BY <1>5, StartingReceive
  <2>2. CASE step' \in 2 .. LastStep /\ FlashLock'
    BY <1>2, <2>2 DEF InStep, Locked
  <2>3. CASE /\ step' = LastStep + 1 /\ LastStep = Len(Script)
             /\ wire' = <<>> /\ at' = "user" /\ Written(Blocks * BlockSize)'
    <3>1. step' = Done' /\ Resting'
      BY <1>2, <2>3 DEF Done, Resting
    <3> QED BY <1>2, <2>3, <3>1 DEF InStep
  <2> QED BY <2>1, <2>2, <2>3
<1> QED BY <1>3, <1>4, <1>5 DEF FlashLock

(* "folie" receives. *)

(* A reply of which nothing but its first byte matters.                    *)
LEMMA AckListens ==
  ASSUME Orderly, Receive, NEW n \in Nat, n >= 1, Listening(n), Wants = "ack", step >= 1,
         step' >= 1, step + 1 \in 1 .. Len(Script), Script[step + 1].bytes = <<>>
  PROVE  /\ step' = step + 1 /\ Listening(n - 1)' /\ left' = Script[step + 1].n
         /\ n >= 2 => Replied'[1] = Replied[2]
<1>1. PICK r, rest : /\ Looks(r, rest) /\ IsSeq(rest) /\ IsSeq(back') /\ Later(n - 1, rest \o back')
                     /\ n >= 2 => (rest \o back')[1] = Replied[2]
  BY ListenGoes
<1>2. Proceed(rest)
  <2>1. step' # -step
    BY DEF Orderly
  <2> QED BY <1>1, <2>1, AckLooks
<1>3. PICK m : m = n - 1
  OBVIOUS
<1>4. Later(m, rest \o back')
  BY <1>1, <1>3
<1>5. /\ step' = step + 1 /\ Listening(m)' /\ Replied' = rest \o back'
      /\ left' = Script[step + 1].n
  BY <1>2, <1>4, ProceedListen
<1> QED BY <1>1, <1>3, <1>5

LEMMA LastListens ==
  ASSUME Orderly, Receive, Listening(2), Wants = "bytes", left = 1,
         step + 1 \in 1 .. Len(Script), Script[step + 1].bytes = <<>>
  PROVE  step' = step + 1 /\ Listening(1)'
<1>1. PICK r, rest : Looks(r, rest) /\ Later(1, rest \o back')
  <2>1. \E r, rest : /\ Looks(r, rest) /\ r = Replied[1] /\ IsSeq(rest) /\ IsSeq(back')
                     /\ Later(2 - 1, rest \o back')
    BY ListenGoes
  <2> QED BY <2>1
<1>2. Proceed(rest)
  BY <1>1, BytesLooks
<1> QED BY <1>1, <1>2, ProceedListen

LEMMA CountReceive ==
  ASSUME Orderly, Receive, Listening(10), Replied[1] = 7, Wants = "count",
         Script[step + 1].bytes = <<>>
  PROVE  step' = step + 1 /\ Listening(9)' /\ left' = 8
<1>1. PICK r, rest : Looks(r, rest) /\ r = 7 /\ Later(9, rest \o back')
  <2>1. \E r, rest : /\ Looks(r, rest) /\ r = Replied[1] /\ IsSeq(rest) /\ IsSeq(back')
                     /\ Later(10 - 1, rest \o back')
    BY ListenGoes
  <2> QED BY <2>1
<1>2. UNCHANGED <<wire, at, args, flash, tool>> /\ tosend = <<>>
  BY ReceiveFacts
<1>3. step' = step + 1 /\ left' = r + 1 /\ pending' = rest /\ tosend' = <<>>
  BY <1>1, <1>2, CountLooks
<1>4. at = "cmd" /\ Len(args) <= 1 /\ Idle(Stream)
  BY DEF Listening
<1>5. Script[step'].bytes = <<>>
  BY <1>3
<1>6. Listening(9)'
  BY <1>1, <1>2, <1>3, <1>4, <1>5, ListenOn
<1> QED BY <1>1, <1>3, <1>6

LEMMA FolieReceive ==
  ASSUME Orderly, tool = "folie", step \in 2 .. LastStep, FolieLock, Receive, step' >= 1
  PROVE  InStep'
<1>1. /\ Len(Script) \in Nat /\ Len(Script) > 9 /\ LastStep = 9
      /\ Script[2] = Cmd(GET) /\ Script[3] = Entry(<<>>, "count", 0) /\ Script[4] = Take(0)
      /\ Script[5] = WantAck /\ Script[6] = Cmd(GETID) /\ Script[7] = Take(3)
      /\ Script[8] = WantAck /\ Script[9] = Cmd(RDUNP)
  BY FolieScript DEF FolieEntries, LastStep
<1>2. LastStep' = 9 /\ tool' = "folie"
  BY <1>1, ReceiveFacts, SameTool
<1>3. step \in 2 .. 9 /\ step >= 1
  BY <1>1
<1>4. SUFFICES step' \in 2 .. 9 /\ (FolieLock' \/ Refused')
  BY <1>2, <1>4 DEF InStep, Locked
<1>5. step \in {2, 6, 9} => Wants = "ack"
  BY <1>1, CmdFacts DEF Wants
<1>6. step \in {5, 8} => Wants = "ack"
  BY <1>1, RestFacts DEF Wants
<1>7. step \in {4, 7} => Wants = "bytes" /\ Script[step].bytes = <<>>
  BY <1>1, RestFacts DEF Wants
<1>8. step \in {2, 6, 9} => ~NoReply
  BY <1>3, <1>5, SilentEnds
<1>9. CASE step = 2
  <2>1. Listening(11) /\ Replied[2] = 7
    BY <1>8, <1>9 DEF FolieLock, CmdOpen
  <2>2. step + 1 = 3 /\ step + 1 \in 1 .. Len(Script) /\ Script[step + 1].bytes = <<>>
    BY <1>1, <1>9, EntryFacts
  <2>3. step' = 3 /\ Listening(10)' /\ Replied'[1] = 7
    <3>1. step' = step + 1 /\ Listening(11 - 1)' /\ (11 >= 2 => Replied'[1] = Replied[2])
      BY <1>3, <1>5, <1>9, <2>1, <2>2, AckListens
    <3> QED BY <2>1, <2>2, <3>1
  <2> QED BY <2>3 DEF FolieLock
<1>10. CASE step = 3
  <2>1. Listening(10) /\ Replied[1] = 7
    BY <1>10 DEF FolieLock
  <2>2. Wants = "count" /\ Script[step + 1].bytes = <<>>
    BY <1>1, <1>10, EntryFacts, RestFacts DEF Wants
  <2>3. step' = 4 /\ Listening(9)' /\ left' = 8
    BY <1>10, <2>1, <2>2, CountReceive
  <2> QED BY <2>3 DEF FolieLock, Listening
<1>11. ASSUME NEW k \in {4, 7}, step = k, NEW most \in 1 .. 8, left \in 1 .. most,
              Listening(left + 1)
       PROVE  \/ step' = k /\ left' \in 1 .. most /\ Listening(left + 1)'
              \/ step' = k + 1 /\ Listening(1)'
  <2>1. PICK n \in 1 .. most : n = left
    BY <1>11
  <2>2. Listening(n + 1)
    BY <1>11, <2>1
  <2>3. CASE n >= 2
    <3>1. Listening((n + 1) - 1)' /\ left' = left - 1 /\ UNCHANGED step
      BY <1>7, <1>11, <2>1, <2>2, <2>3, BytesReceive
    <3>2. left' = n - 1 /\ left' \in 1 .. most /\ (n + 1) - 1 = left' + 1
      BY <2>1, <2>3, <3>1
    <3> QED BY <1>11, <3>1, <3>2 DEF Listening
  <2>4. CASE n = 1
    <3>1. step + 1 \in 1 .. Len(Script) /\ Script[step + 1].bytes = <<>>
      BY <1>1, <1>11, RestFacts
    <3>2. Listening(2)
      BY <2>2, <2>4
    <3> QED BY <1>7, <1>11, <2>1, <2>4, <3>1, <3>2, LastListens
  <2> QED BY <2>1, <2>3, <2>4
<1>12. CASE step = 4
  <2>1. left \in 1 .. 8 /\ Listening(left + 1)
    BY <1>12 DEF FolieLock
  <2>2. \/ step' = 4 /\ left' \in 1 .. 8 /\ Listening(left + 1)'
        \/ step' = 5 /\ Listening(1)'
    BY <1>11, <1>12, <2>1
  <2> QED BY <2>2 DEF FolieLock
<1>13. CASE step = 5
  <2>1. Listening(1) /\ Script[step + 1] = Cmd(GETID) /\ step + 1 = 6 /\ step + 1 \in 1 .. Len(Script)
    BY <1>1, <1>13 DEF FolieLock
  <2>2. GETID \in 0 .. 255
    BY Codes
  <2>3. step' = 6 /\ (CmdOpen(GETID)' \/ Refused')
    BY <1>3, <1>6, <1>13, <2>1, <2>2, GoesOn
  <2> QED BY <2>3 DEF FolieLock
<1>14. CASE step = 6
  <2>1. Listening(5)
    BY <1>8, <1>14 DEF FolieLock, CmdOpen
  <2>2. step + 1 = 7 /\ step + 1 \in 1 .. Len(Script) /\ Script[step + 1].bytes = <<>>
        /\ Script[step + 1].n = 3
    BY <1>1, <1>14, RestFacts
  <2>3. step' = 7 /\ Listening(4)' /\ left' = 3
    <3>1. step' = step + 1 /\ Listening(5 - 1)' /\ left' = Script[step + 1].n
      BY <1>3, <1>5, <1>14, <2>1, <2>2, AckListens
    <3> QED BY <2>2, <3>1
  <2> QED BY <2>3 DEF FolieLock, Listening
<1>15. CASE step = 7
  <2>1. left \in 1 .. 3 /\ Listening(left + 1)
    BY <1>15 DEF FolieLock
  <2>2. \/ step' = 7 /\ left' \in 1 .. 3 /\ Listening(left + 1)'
        \/ step' = 8 /\ Listening(1)'
    BY <1>11, <1>15, <2>1
  <2> QED BY <2>2 DEF FolieLock
<1>16. CASE step = 8
  <2>1. Listening(1) /\ Script[step + 1] = Cmd(RDUNP) /\ step + 1 = 9 /\ step + 1 \in 1 .. Len(Script)
    BY <1>1, <1>16 DEF FolieLock
  <2>2. RDUNP \in 0 .. 255
    BY Codes
  <2>3. step' = 9 /\ (CmdOpen(RDUNP)' \/ Refused')
    BY <1>3, <1>6, <1>16, <2>1, <2>2, GoesOn
  <2> QED BY <2>3 DEF FolieLock
<1>17. CASE step = 9
  BY <1>8, <1>17 DEF FolieLock, CmdOpen
<1> QED BY <1>3, <1>9, <1>10, <1>12, <1>13, <1>14, <1>15, <1>16, <1>17

(* The host greets, and goes on when it is answered. *)

LEMMA AnyLooks ==
  ASSUME NEW r, NEW rest, Looks(r, rest), Wants = "any"
  PROVE  \/ r \in {ACK, NAK} /\ Proceed(rest)
         \/ r \notin {ACK, NAK} /\ step' = -step
         \/ r \notin {ACK, NAK} /\ tosend' = <<127>> /\ pending' = rest /\ UNCHANGED step
BY DEF Looks, connectToTarget, wantAck, wantSlowAck, TakeReply, Exit, Enter

LEMMA StoredNone ==
  ASSUME Fits
  PROVE  Stored(0)
<1>1. PerPage \in Nat /\ PerPage >= 1 /\ BlockSize \in Nat
  BY Pages, ImageSize
<1>2. 0 * BlockSize = 0 /\ 0 % PerPage = 0
  BY <1>1
<1> QED BY <1>2 DEF Stored, Written

LEMMA GreetScript ==
  ASSUME tool \in {"flash", "folie"}, step = 1
  PROVE  /\ Script[step].bytes # <<>> /\ Wants = "any"
         /\ 2 \in 1 .. Len(Script) /\ 2 \in 2 .. LastStep
         /\ tool = "folie" => Script[2] = Cmd(GET)
         /\ tool = "flash" => IF Blocks = 0 THEN Script[2] = Cmd(READ) /\ 2 = 2 + After
                                            ELSE Script[2] = Cmd(WRITE) /\ 0 \in 0 .. Blocks - 1
<1>1. CASE tool = "flash"
  <2>1. FlashEntries /\ LastStep = Len(Script)
    BY <1>1, FlashScript DEF LastStep
  <2>2. Len(Script) = 7 + After /\ After = 3 * Blocks /\ Blocks \in Nat /\ Script[1] = Connect
    BY <2>1, ImageSize DEF FlashEntries, After
  <2>3. Script[1].bytes # <<>> /\ Script[1].wants = "any"
    BY <2>2, RestFacts
  <2>4. CASE Blocks = 0
    <3>1. After = 0 /\ 2 + After = 2
      BY <2>2, <2>4
    <3> QED BY <1>1, <2>1, <2>2, <2>3, <2>4, <3>1 DEF FlashEntries, Wants
  <2>5. CASE Blocks # 0
    <3>1. 0 \in 0 .. Blocks - 1 /\ 2 + 3 * 0 = 2
      BY <2>2, <2>5
    <3>2. Script[2] = Cmd(WRITE)
      BY <2>1, <3>1 DEF FlashEntries
    <3> QED BY <1>1, <2>1, <2>2, <2>3, <2>5, <3>1, <3>2 DEF Wants
  <2> QED BY <2>4, <2>5
<1>2. CASE tool = "folie"
  <2>1. Len(Script) \in Nat /\ Len(Script) > 9 /\ Script[1] = Connect /\ Script[2] = Cmd(GET)
    BY <1>2, FolieScript DEF FolieEntries
  <2>2. LastStep = 9
    BY <1>2 DEF LastStep
  <2>3. Script[1].bytes # <<>> /\ Script[1].wants = "any"
    BY <2>1, RestFacts
  <2>4. 2 \in 1 .. Len(Script) /\ 2 \in 2 .. LastStep
    BY <2>1, <2>2
  <2> QED BY <1>2, <2>1, <2>3, <2>4 DEF Wants
<1> QED BY <1>1, <1>2

LEMMA GreetReceive ==
  ASSUME Fits, Orderly, tool \in {"flash", "folie"}, step = 1, Greeting, Receive, step' >= 1
  PROVE  InStep'
<1>1. UNCHANGED <<wire, at, args, flash, tool>> /\ tosend = <<>>
  BY ReceiveFacts
<1>2. /\ Script[step].bytes # <<>> /\ Wants = "any"
      /\ 2 \in 1 .. Len(Script) /\ 2 \in 2 .. LastStep
  BY GreetScript
<1>3. LastStep' = LastStep
  BY <1>1, SameTool
<1>4. pending = <<>>
  BY DEF Greeting
<1>5. CASE back = <<>>
  <2>1. PICK r, rest : ReplyOf(r, rest, back') /\ Looks(r, rest)
    BY ReceiveFacts
  <2>2. r = 0 /\ rest = <<>> /\ back' = <<>> /\ Silent
    BY <1>4, <1>5, <2>1 DEF ReplyOf
  <2>3. r \notin {ACK, NAK}
    BY <2>2, Codes
  <2>4. tosend' = <<127>> /\ pending' = rest /\ step' = 1
    <3>1. step' # -step
      OBVIOUS
    <3> QED BY <1>2, <2>1, <2>3, <3>1, AnyLooks
  <2>5. wire' = <<>> \/ Gone'
    BY <1>1, <2>2 DEF Silent, Gone
  <2> QED BY <2>2, <2>4, <2>5 DEF InStep, Greeting
<1>6. CASE back # <<>>
  <2>1. /\ at = "cmd" /\ wire = <<>> /\ args \in {<<>>, <<255>>} /\ back[1] \in {ACK, NAK}
        /\ \A i \in 2 .. Len(back) : back[i] = NAK
    <3>1. tosend # <<127>>
      BY <1>1
    <3> QED BY <1>6, <3>1, <1>1 DEF Greeting
  <2>2. Listening(1) /\ Replied[1] \in {ACK, NAK}
    <3>1. Stream = args
      <4>1. IsSeq(args)
        BY StreamFacts
      <4>2. args \o <<>> = args
        BY <4>1, SeqFacts
      <4> QED BY <1>1, <2>1, <4>2 DEF Stream
    <3>2. Len(args) <= 1 /\ Idle(args)
      <4>1. CASE args = <<>>
        BY <4>1, NothingSeq DEF Idle
      <4>2. CASE args = <<255>>
        <5>1. Len(<<255>>) = 1 /\ <<255>>[1] = 255
          BY Singleton
        <5> QED BY <4>2, <5>1 DEF Idle
      <4> QED BY <2>1, <4>1, <4>2
    <3>3. Replied = back /\ Len(back) >= 1
      <4>1. IsSeq(back)
        BY StreamFacts
      <4>2. <<>> \o back = back
        BY <4>1, SeqFacts
      <4>3. Len(back) >= 1
        BY <1>6, <4>1, SeqFacts
      <4> QED BY <1>4, <4>2, <4>3 DEF Replied
    <3>4. \A i \in 1 + 1 .. Len(back) : back[i] = NAK
      BY <2>1
    <3> QED BY <1>4, <2>1, <3>1, <3>2, <3>3, <3>4 DEF Listening
  <2>3. PICK r, rest : /\ Looks(r, rest) /\ r = Replied[1] /\ IsSeq(rest) /\ IsSeq(back')
                       /\ Later(0, rest \o back')
    <3>1. \E r, rest : /\ Looks(r, rest) /\ r = Replied[1] /\ IsSeq(rest) /\ IsSeq(back')
                       /\ Later(1 - 1, rest \o back')
      BY <2>2, ListenGoes
    <3> QED BY <3>1
  <2>4. Proceed(rest)
    BY <1>2, <2>2, <2>3, AnyLooks
  <2>5. ASSUME NEW c \in 0 .. 255, Script[2] = Cmd(c)
        PROVE  step' = 2 /\ (CmdOpen(c)' \/ Refused')
    <3>1. step + 1 = 2
      OBVIOUS
    <3> QED BY <1>2, <2>2, <2>3, <2>4, <2>5, <3>1, ProceedCommand
  <2>6. GET \in 0 .. 255 /\ READ \in 0 .. 255 /\ WRITE \in 0 .. 255
    BY Codes
  <2>7. CASE tool = "folie"
    <3>1. step' = 2 /\ (CmdOpen(GET)' \/ Refused')
      BY <2>5, <2>6, <2>7, GreetScript
    <3> QED BY <1>1, <1>2, <1>3, <2>7, <3>1 DEF InStep, Locked, FolieLock
  <2>8. CASE tool = "flash" /\ Blocks = 0
    <3>1. Script[2] = Cmd(READ) /\ 2 = 2 + After
      BY <2>8, GreetScript
    <3>2. step' = 2 /\ (CmdOpen(READ)' \/ Refused')
      BY <2>5, <2>6, <3>1
    <3>3. Stored(Blocks)'
      BY <1>1, <2>8, StoredNone, StoredKept
    <3> QED BY <1>1, <1>2, <1>3, <2>8, <3>1, <3>2, <3>3 DEF InStep, Locked, FlashLock, Reading
  <2>9. CASE tool = "flash" /\ Blocks # 0
    <3>1. Script[2] = Cmd(WRITE) /\ 0 \in 0 .. Blocks - 1 /\ 2 = 2 + 3 * 0
      BY <2>9, GreetScript
    <3>2. step' = 2 /\ (CmdOpen(WRITE)' \/ Refused')
      BY <2>5, <2>6, <3>1
    <3>3. Stored(0)'
      BY <1>1, StoredNone, StoredKept
    <3>4. CmdOpen(WRITE)' => Writing(0)'
      BY <3>1, <3>2, <3>3 DEF Writing
    <3> QED BY <1>1, <1>2, <1>3, <2>9, <3>1, <3>2, <3>4 DEF InStep, Locked, FlashLock
  <2> QED BY <2>7, <2>8, <2>9
<1> QED BY <1>5, <1>6

(* The loader takes a byte. *)

LEMMA TakeFacts ==
  ASSUME NEW b, TakeByte(b)
  PROVE  UNCHANGED flash /\ at \in {"sync", "cmd", "erase", "write", "read", "go"}
BY DEF TakeByte, initialSync, uploadHandler, erase, getAddrCheck, writeData, readData

LEMMA AnswerListens ==
  ASSUME NEW a, IsSeq(a), at' = "cmd", args' = <<>>, Idle(Stream'), pending' = <<>>, back' = a
  PROVE  Listening(Len(a))' /\ Replied' = a
<1>1. Replied' = a
  <2>1. <<>> \o a = a
    BY SeqFacts
  <2> QED BY <2>1 DEF Replied
<1>2. Len(args') = 0 /\ Len(a) \in Nat
  BY NothingSeq, SeqFacts
<1>3. \A i \in Len(a) + 1 .. Len(a) : Replied'[i] = NAK
  BY <1>2
<1> QED BY <1>1, <1>2, <1>3 DEF Listening

LEMMA NakRefuses ==
  ASSUME pending' = <<>>, back' = <<NAK>>, UNCHANGED <<tool, step>>, Wants = "ack"
  PROVE  Refused'
<1>1. <<NAK>> # <<>> /\ <<NAK>>[1] = NAK
  OBVIOUS
<1>2. Wants' = Wants
  BY SameEntry
<1> QED BY <1>1, <1>2 DEF Refused

(* A step of the loader while the tool that is running is not greeting.    *)
Moves ==
  /\ Orderly /\ (\E b \in Byte : TakeByte(b)) /\ UNCHANGED <<tool, step, tosend, left, pending>>
  /\ wire = <<>> => at \in {"sync", "cmd"}

LEMMA HandlerSteps ==
  ASSUME Moves, NEW h \in {"write", "read", "go"}, NEW c, c \in {WRITE, READ, GO}, Handlers[c] = h,
         Wants = "ack", CmdOpen(c) \/ Accepted(h)
  PROVE  CmdOpen(c)' \/ Accepted(h)' \/ Refused'
<1>1. Orderly /\ UNCHANGED <<tool, step, tosend, pending>> /\ (wire = <<>> => at \in {"sync", "cmd"})
  BY DEF Moves
<1>2. PICK b \in Byte : TakeByte(b)
  BY DEF Moves
<1>3. c \in 0 .. 254 /\ c \notin DOMAIN Answers
  BY Codes
<1>4. ~Accepted(h)
  BY <1>1 DEF Accepted, Sent
<1>5. CmdOpen(c)
  BY <1>4
<1>6. \/ CmdOpen(c)'
      \/ pending' = <<>> /\ back' = <<NAK>>
      \/ Accepted(h)'
  BY <1>1, <1>2, <1>3, <1>5, CmdLoader
<1> QED BY <1>1, <1>6, NakRefuses

LEMMA AddrSteps ==
  ASSUME Moves, NEW h \in {"write", "read", "go"}, NEW j, AddrOpen(h, j)
  PROVE  AddrOpen(h, j)' \/ (h # "go" /\ AddrDone(h, j)') \/ (h = "go" /\ Started')
<1>1. Orderly /\ UNCHANGED <<tosend, pending>> /\ (wire = <<>> => at \in {"sync", "cmd"})
  BY DEF Moves
<1>2. PICK b \in Byte : TakeByte(b)
  BY DEF Moves
<1>3. wire # <<>>
  BY <1>1 DEF AddrOpen
<1> QED BY <1>1, <1>2, <1>3, AddrLoader

LEMMA ListenSteps ==
  ASSUME Moves, NEW n \in Nat, Listening(n)
  PROVE  /\ Listening(n)' /\ Len(Replied) \in Nat
         /\ \A i \in 1 .. Len(Replied) : Replied'[i] = Replied[i]
<1>1. Orderly /\ UNCHANGED <<tosend, pending, tool, step>>
  BY DEF Moves
<1>2. PICK b \in Byte : TakeByte(b)
  BY DEF Moves
<1> QED BY <1>1, <1>2, ListenLoader

LEMMA WritingLoader ==
  ASSUME Fits, Moves, tool = "flash", NEW j \in 0 .. Blocks - 1, Writing(j)
  PROVE  Writing(j)' \/ Refused'
<1>1. Orderly /\ UNCHANGED <<tool, step, tosend, pending>> /\ (wire = <<>> => at \in {"sync", "cmd"})
  BY DEF Moves
<1>2. PICK b \in Byte : TakeByte(b)
  BY DEF Moves
<1>3. UNCHANGED flash /\ at \notin {"flashing", "programming"}
  BY <1>2, TakeFacts
<1>4. CASE step = 2 + 3 * j /\ Stored(j) /\ (CmdOpen(WRITE) \/ Accepted("write"))
  <2>1. Wants = "ack"
    <3>1. Script[step] = Cmd(WRITE)
      BY <1>4, FlashEntry
    <3> QED BY <3>1, CmdWants
  <2>2. CmdOpen(WRITE)' \/ Accepted("write")' \/ Refused'
    BY <1>4, <2>1, HandlerSteps, Codes
  <2>3. Stored(j)'
    BY <1>3, <1>4, StoredKept
  <2> QED BY <1>1, <1>4, <2>2, <2>3 DEF Writing
<1>5. CASE step = 3 + 3 * j /\ Stored(j) /\ (AddrOpen("write", j) \/ AddrDone("write", j))
  <2>1. AddrOpen("write", j)
    BY <1>1, <1>5 DEF AddrDone, Sent
  <2>2. AddrOpen("write", j)' \/ AddrDone("write", j)'
    BY <2>1, AddrSteps
  <2>3. Stored(j)'
    BY <1>3, <1>5, StoredKept
  <2> QED BY <1>1, <1>5, <2>2, <2>3 DEF Writing
<1>6. CASE step = 4 + 3 * j /\ Stored(j) /\ DataOpen(j)
  <2>1. wire # <<>>
    BY <1>1, <1>6 DEF DataOpen
  <2>2. DataOpen(j)' \/ (at' = "flashing" /\ Taken(j)')
    BY <1>1, <1>2, <1>6, <2>1, DataLoader
  <2>3. Stored(j)'
    BY <1>3, <1>6, StoredKept
  <2> QED BY <1>1, <1>6, <2>2, <2>3 DEF Writing
<1>7. CASE step = 4 + 3 * j /\ Stored(j + 1) /\ Listening(1)
  <2>1. Listening(1)'
    BY <1>7, ListenSteps
  <2>2. Stored(j + 1)'
    BY <1>3, <1>7, StoredKept
  <2> QED BY <1>1, <1>7, <2>1, <2>2 DEF Writing
<1> QED BY <1>3, <1>4, <1>5, <1>6, <1>7 DEF Writing

LEMMA ReadingLoader ==
  ASSUME Moves, tool = "flash", Reading
  PROVE  Reading' \/ Refused'
<1>1. Orderly /\ UNCHANGED <<tool, step, tosend, pending, left>> /\ (wire = <<>> => at \in {"sync", "cmd"})
  BY DEF Moves
<1>2. PICK b \in Byte : TakeByte(b)
  BY DEF Moves
<1>3. CASE step = 2 + After /\ (CmdOpen(READ) \/ Accepted("read"))
  <2>1. Wants = "ack"
    <3>1. Script[step] = Cmd(READ)
      BY <1>3, FlashLast
    <3> QED BY <3>1, CmdWants
  <2>2. CmdOpen(READ)' \/ Accepted("read")' \/ Refused'
    BY <1>3, <2>1, HandlerSteps, Codes
  <2> QED BY <1>1, <1>3, <2>2 DEF Reading
<1>4. CASE step = 3 + After /\ (AddrOpen("read", 0) \/ AddrDone("read", 0))
  <2>1. AddrOpen("read", 0)
    BY <1>1, <1>4 DEF AddrDone, Sent
  <2>2. AddrOpen("read", 0)' \/ AddrDone("read", 0)'
    BY <2>1, AddrSteps
  <2> QED BY <1>1, <1>4, <2>2 DEF Reading
<1>5. CASE step = 4 + After /\ CountOpen
  <2>1. wire # <<>>
    BY <1>1, <1>5 DEF CountOpen
  <2>2. CountOpen' \/ Listening(5)'
    BY <1>1, <1>2, <1>5, <2>1, CountLoader
  <2> QED BY <1>1, <1>5, <2>2 DEF Reading
<1>6. CASE step = 4 + After /\ Listening(5)
  <2>1. Listening(5)'
    BY <1>6, ListenSteps
  <2> QED BY <1>1, <1>6, <2>1 DEF Reading
<1>7. CASE step = 5 + After /\ left \in 1 .. 4 /\ Listening(left)
  <2>1. PICK n \in 1 .. 4 : n = left
    BY <1>7
  <2>2. Listening(n)'
    BY <1>7, <2>1, ListenSteps
  <2>3. left' = n /\ step' = 5 + After
    BY <1>1, <1>7, <2>1
  <2> QED BY <2>2, <2>3 DEF Reading, Listening
<1> QED BY <1>3, <1>4, <1>5, <1>6, <1>7 DEF Reading

LEMMA StartingLoader ==
  ASSUME Moves, tool = "flash", Starting
  PROVE  Starting' \/ Refused'
<1>1. Orderly /\ UNCHANGED <<tool, step, tosend, pending>> /\ (wire = <<>> => at \in {"sync", "cmd"})
  BY DEF Moves
<1>2. PICK b \in Byte : TakeByte(b)
  BY DEF Moves
<1>3. CASE step = 6 + After /\ (CmdOpen(GO) \/ Accepted("go"))
  <2>1. Wants = "ack"
    <3>1. Script[step] = Cmd(GO)
      BY <1>3, FlashLast
    <3> QED BY <3>1, CmdWants
  <2>2. CmdOpen(GO)' \/ Accepted("go")' \/ Refused'
    BY <1>3, <2>1, HandlerSteps, Codes
  <2> QED BY <1>1, <1>3, <2>2 DEF Starting
<1>4. CASE step = 7 + After /\ (AddrOpen("go", 0) \/ Started)
  <2>1. AddrOpen("go", 0)
    BY <1>2, <1>4, TakeFacts DEF Started
  <2>2. AddrOpen("go", 0)' \/ Started'
    BY <2>1, AddrSteps
  <2> QED BY <1>1, <1>4, <2>2 DEF Starting
<1> QED BY <1>3, <1>4 DEF Starting

LEMMA FolieLoader ==
  ASSUME Moves, tool = "folie", step \in 2 .. LastStep, FolieLock
  PROVE  FolieLock' \/ Refused'
<1>1. Orderly /\ UNCHANGED <<tool, step, tosend, pending, left>>
  BY DEF Moves
<1>2. PICK b \in Byte : TakeByte(b)
  BY DEF Moves
<1>3. /\ Script[2] = Cmd(GET) /\ Script[6] = Cmd(GETID) /\ Script[9] = Cmd(RDUNP)
  BY FolieScript DEF FolieEntries
<1>4. ASSUME NEW c \in {GET, GETID, RDUNP}, CmdOpen(c), Script[step] = Cmd(c)
      PROVE  \/ CmdOpen(c)'
             \/ Refused'
             \/ c = GET /\ Listening(11)' /\ Replied'[2] = 7
             \/ c = GETID /\ Listening(5)'
  <2>1. c \in 0 .. 254 /\ c \notin DOMAIN Handlers /\ (c \in DOMAIN Answers => c \in {GET, GETID})
    BY Codes
  <2>2. Wants = "ack"
    BY <1>4, CmdFacts DEF Wants
  <2>3. \/ CmdOpen(c)'
        \/ pending' = <<>> /\ back' = <<NAK>>
        \/ /\ c \in DOMAIN Answers /\ at' = "cmd" /\ args' = <<>> /\ Idle(Stream')
           /\ pending' = <<>> /\ back' = Answers[c]
    BY <1>1, <1>2, <1>4, <2>1, CmdLoader
  <2>4. CASE pending' = <<>> /\ back' = <<NAK>>
    BY <1>1, <2>2, <2>4, NakRefuses
  <2>5. CASE /\ c \in DOMAIN Answers /\ at' = "cmd" /\ args' = <<>> /\ Idle(Stream')
             /\ pending' = <<>> /\ back' = Answers[c]
    <3>1. PICK a : a = Answers[c]
      OBVIOUS
    <3>2. IsSeq(a)
      BY <2>5, <3>1, AnswerFacts
    <3>3. Listening(Len(a))' /\ Replied' = a
      BY <2>5, <3>1, <3>2, AnswerListens
    <3>4. c = GET => Len(a) = 11 /\ a[2] = 7
      BY <3>1, AnswerFacts
    <3>5. c = GETID => Len(a) = 5
      BY <3>1, AnswerFacts
    <3>6. c \in {GET, GETID}
      BY <2>1, <2>5
    <3> QED BY <3>3, <3>4, <3>5, <3>6 DEF Listening
  <2> QED BY <2>3, <2>4, <2>5
<1>5. ASSUME NEW n \in Nat, Listening(n)
      PROVE  Listening(n)' /\ \A i \in 1 .. 2 : n >= i => Replied'[i] = Replied[i]
  <2>1. /\ Listening(n)' /\ Len(Replied) \in Nat
        /\ \A i \in 1 .. Len(Replied) : Replied'[i] = Replied[i]
    BY <1>5, ListenSteps
  <2>2. Len(Replied) >= n
    BY <1>5 DEF Listening
  <2> QED BY <2>1, <2>2
<1>6. CASE step = 2 /\ CmdOpen(GET)
  BY <1>1, <1>3, <1>4, <1>6, Codes DEF FolieLock
<1>7. CASE step = 2 /\ Listening(11) /\ Replied[2] = 7
  BY <1>1, <1>5, <1>7 DEF FolieLock
<1>8. CASE step = 3 /\ Listening(10) /\ Replied[1] = 7
  BY <1>1, <1>5, <1>8 DEF FolieLock
<1>9. ASSUME left \in Nat, Listening(left + 1)
      PROVE  Listening(left + 1)'
  <2>1. PICK n \in Nat : n = left + 1
    BY <1>9
  <2>2. Listening(n)' /\ left' + 1 = n
    BY <1>1, <1>5, <1>9, <2>1
  <2> QED BY <2>2 DEF Listening
<1>10. CASE step = 4 /\ left \in 1 .. 8 /\ Listening(left + 1)
  <2>1. Listening(left + 1)'
    BY <1>9, <1>10
  <2> QED BY <1>1, <1>10, <2>1 DEF FolieLock
<1>11. CASE step = 5 /\ Listening(1)
  BY <1>1, <1>5, <1>11 DEF FolieLock
<1>12. CASE step = 6 /\ CmdOpen(GETID)
  BY <1>1, <1>3, <1>4, <1>12, Codes DEF FolieLock
<1>13. CASE step = 6 /\ Listening(5)
  BY <1>1, <1>5, <1>13 DEF FolieLock
<1>14. CASE step = 7 /\ left \in 1 .. 3 /\ Listening(left + 1)
  <2>1. Listening(left + 1)'
    BY <1>9, <1>14
  <2> QED BY <1>1, <1>14, <2>1 DEF FolieLock
<1>15. CASE step = 8 /\ Listening(1)
  BY <1>1, <1>5, <1>15 DEF FolieLock
<1>16. CASE step = 9 /\ CmdOpen(RDUNP)
  BY <1>1, <1>3, <1>4, <1>16, Codes DEF FolieLock
<1> QED BY <1>6, <1>7, <1>8, <1>10, <1>11, <1>12, <1>13, <1>14, <1>15, <1>16 DEF FolieLock

LEMMA LastStepIn ==
  ASSUME tool \in {"flash", "folie"}, step \in 2 .. LastStep
  PROVE  Running /\ step # 1 /\ step # Done /\ step >= 1
<1>1. Len(Script) \in Nat /\ LastStep \in Nat /\ LastStep <= Len(Script)
  <2>1. tool = "flash" => Len(Script) = 7 + After /\ After \in Nat /\ LastStep = 7 + After
    BY FlashLast
  <2>2. tool = "folie" => Len(Script) \in Nat /\ Len(Script) > 9 /\ LastStep = 9
    BY FolieScript DEF FolieEntries, LastStep
  <2> QED BY <2>1, <2>2
<1> QED BY <1>1 DEF Running, Done

LEMMA LoaderLock ==
  ASSUME Fits, Orderly, tool \in {"flash", "folie"}, step \in 2 .. LastStep, Locked, Loader, ~astray'
  PROVE  Locked'
<1>1. /\ \E b \in Byte : TakeByte(b)
      /\ UNCHANGED <<tool, step, tosend, left, pending>>
      /\ wire = <<>> => at \in {"sync", "cmd"}
  BY LoaderFacts
<1>2. Moves
  BY <1>1 DEF Moves
<1>3. CASE Off
  <2>1. Running
    BY LastStepIn
  <2>2. Wants # "any"
    BY StepAsks DEF Asks
  <2> QED BY <1>3, <2>1, <2>2, OffLoader DEF Locked
<1>4. CASE Refused
  BY <1>4, RefusedLoader DEF Locked
<1>5. CASE tool = "flash" /\ \E j \in 0 .. Blocks - 1 : Writing(j)
  <2>1. PICK j \in 0 .. Blocks - 1 : Writing(j)
    BY <1>5
  <2>2. Writing(j)' \/ Refused'
    BY <1>2, <1>5, <2>1, WritingLoader
  <2> QED BY <1>1, <1>5, <2>2 DEF Locked, FlashLock
<1>6. CASE tool = "flash" /\ Stored(Blocks) /\ (Reading \/ Starting)
  <2>1. UNCHANGED flash
    BY <1>1, TakeFacts
  <2>2. Stored(Blocks)'
    BY <1>6, <2>1, StoredKept
  <2>3. Reading' \/ Starting' \/ Refused'
    BY <1>2, <1>6, ReadingLoader, StartingLoader
  <2> QED BY <1>1, <1>6, <2>2, <2>3 DEF Locked, FlashLock
<1>7. CASE tool = "folie" /\ FolieLock
  BY <1>1, <1>2, <1>7, FolieLoader DEF Locked
<1> QED BY <1>3, <1>4, <1>5, <1>6, <1>7 DEF Locked, FlashLock

LEMMA LoaderInStep ==
  ASSUME Fits, Orderly, tool \in {"flash", "folie"}, InStep, Loader, ~astray'
  PROVE  InStep'
<1>1. UNCHANGED <<tool, step>>
  BY LoaderFacts
<1>2. LastStep' = LastStep /\ Done' = Done
  BY <1>1, SameTool
<1>3. CASE step = 1 /\ Greeting
  BY <1>1, <1>3, GreetLoader DEF InStep
<1>4. CASE step \in 2 .. LastStep /\ Locked
  BY <1>1, <1>2, <1>4, LoaderLock DEF InStep
<1>5. CASE tool = "flash" /\ step = Done /\ wire = <<>> /\ Resting /\ Written(Blocks * BlockSize)
  <2>1. wire' = <<>> /\ Resting' /\ UNCHANGED flash
    BY <1>5, DoneLoader
  <2>2. Written(Blocks * BlockSize)'
    BY <1>5, <2>1 DEF Written
  <2> QED BY <1>1, <1>2, <1>5, <2>1, <2>2 DEF InStep
<1> QED BY <1>3, <1>4, <1>5 DEF InStep

(* The end of a script is behind it.                                       *)
LEMMA ScriptLength ==
  ASSUME tool \in {"flash", "folie"}
  PROVE  Len(Script) \in Nat
BY FlashLast, FolieScript DEF FolieEntries

(* writeFlash goes on, and the host. *)

LEMMA FlashingFacts ==
  ASSUME Orderly, Flashing
  PROVE  /\ WriteFlash /\ at \in {"flashing", "programming"}
         /\ UNCHANGED <<wire, tool, step, tosend, left, pending, stale, astray>>
         /\ \E q : IsSeq(q) /\ back' = back \o q
<1>1. WriteFlash /\ UNCHANGED <<tool, step, tosend, left, pending, stale, astray>>
  BY DEF Flashing, hostVars
<1>2. at \in {"flashing", "programming"} /\ UNCHANGED wire /\ (UNCHANGED back \/ Put(<<ACK>>))
  BY <1>1 DEF WriteFlash, ErasePage, ProgramWord, ProgramOdd, WriteDone, Goto
<1>3. IsSeq(back) /\ IsSeq(<<>>) /\ IsSeq(<<ACK>>)
  BY StreamFacts, NothingSeq, Singleton
<1>4. back \o <<>> = back
  BY <1>3, SeqFacts
<1>5. \E q : IsSeq(q) /\ back' = back \o q
  <2>1. UNCHANGED back => back' = back \o <<>>
    BY <1>4
  <2>2. Put(<<ACK>>) => back' = back \o <<ACK>>
    BY DEF Put
  <2> QED BY <1>2, <1>3, <2>1, <2>2
<1> QED BY <1>1, <1>2, <1>5

LEMMA FlashingInStep ==
  ASSUME Fits, Orderly, LoaderStarts, tool \in {"flash", "folie"}, InStep, Flashing
  PROVE  InStep'
<1>1. /\ WriteFlash /\ at \in {"flashing", "programming"}
      /\ UNCHANGED <<wire, tool, step, tosend, left, pending>>
      /\ \E q : IsSeq(q) /\ back' = back \o q
  BY FlashingFacts
<1>2. LastStep' = LastStep /\ Done' = Done
  BY <1>1, SameTool
<1>3. CASE step = 1 /\ Greeting
  <2>1. pending = <<>> /\ tosend = <<127>> /\ wire = <<>>
    BY <1>1, <1>3 DEF Greeting, Gone
  <2> QED BY <1>1, <1>3, <2>1 DEF InStep, Greeting
<1>4. CASE step \in 2 .. LastStep /\ Locked
  <2>1. ~Off
    BY <1>1 DEF Off, Resting
  <2>2. CASE Refused
    <3>1. Refused'
      BY <1>1, <2>2, RefusedKept
    <3> QED BY <1>1, <1>2, <1>4, <3>1 DEF InStep, Locked
  <2>3. ASSUME tool = "flash", NEW j \in 0 .. Blocks - 1, Writing(j)
        PROVE  InStep'
    <3>1. /\ step = 4 + 3 * j /\ Taken(j)
          /\ (at = "flashing" /\ Stored(j)) \/ (at = "programming" /\ Storing(j))
      BY <1>1, <2>3 DEF Writing, CmdOpen, Accepted, AddrOpen, AddrDone, DataOpen, Listening
    <3>2. \/ at' = "programming" /\ Storing(j)' /\ Taken(j)'
          \/ Stored(j + 1)' /\ Listening(1)'
      BY <1>1, <3>1, FlashStep
    <3>3. Writing(j)'
      BY <1>1, <3>1, <3>2 DEF Writing
    <3> QED BY <1>1, <1>2, <1>4, <2>3, <3>3 DEF InStep, Locked, FlashLock
  <2>4. ~Reading
    BY <1>1 DEF Reading, CmdOpen, Accepted, AddrOpen, AddrDone, CountOpen, Listening
  <2>5. ~Starting
    BY <1>1 DEF Starting, CmdOpen, Accepted, AddrOpen, Started
  <2>6. ~FolieLock
    BY <1>1 DEF FolieLock, CmdOpen, Listening
  <2> QED BY <1>4, <2>1, <2>2, <2>3, <2>4, <2>5, <2>6 DEF Locked, FlashLock
<1>5. CASE Resting
  BY <1>1, <1>5 DEF Resting
<1> QED BY <1>3, <1>4, <1>5 DEF InStep

LEMMA SendInStep ==
  ASSUME Orderly, tool \in {"flash", "folie"}, InStep, Send, ~stale', ~astray'
  PROVE  InStep'
<1>1. /\ Stream' = Stream /\ tosend # <<>>
      /\ UNCHANGED <<back, at, args, prog, flash, tool, step, left, pending>>
  BY SendFacts
<1>2. Script' = Script /\ LastStep' = LastStep
  BY <1>1, SameTool
<1>3. CASE step = 1 /\ Greeting
  <2>1. pending = <<>> /\ tosend = <<127>> /\ (wire = <<>> \/ Gone)
    BY <1>1, <1>3 DEF Greeting
  <2>2. Wants = "any"
    BY <1>3, GreetScript
  <2>3. back = <<>> /\ (at \in {"sync", "cmd"} \/ Gone)
    BY <2>2 DEF Send
  <2>4. PICK n \in 0 .. Len(tosend) :
           wire' = wire \o SubSeq(tosend, 1, n) /\ tosend' = SubSeq(tosend, n + 1, Len(tosend))
    BY SendFacts
  <2>5. PICK u, w : u = tosend /\ w = wire
    OBVIOUS
  <2>6. IsSeq(u) /\ IsSeq(w) /\ u = <<127>> /\ Len(u) = 1
    BY <2>1, <2>5, StreamFacts, Singleton
  <2>7. /\ SubSeq(u, 1, 0) = <<>> /\ SubSeq(u, 1, Len(u)) = u
        /\ SubSeq(u, 0 + 1, Len(u)) = u /\ SubSeq(u, Len(u) + 1, Len(u)) = <<>>
    <3>1. /\ IsSeq(SubSeq(u, 1, 0)) /\ Len(SubSeq(u, 1, 0)) = 0
          /\ IsSeq(SubSeq(u, 0 + 1, Len(u)))
          /\ SubSeq(u, 1, 0) \o SubSeq(u, 0 + 1, Len(u)) = u
      <4>1. PICK m \in 0 .. Len(u) : m = 0
        BY <2>6
      <4>2. IsSeq(u)
        BY <2>6
      <4>3. /\ IsSeq(SubSeq(u, 1, m)) /\ Len(SubSeq(u, 1, m)) = m
            /\ IsSeq(SubSeq(u, m + 1, Len(u)))
            /\ SubSeq(u, 1, m) \o SubSeq(u, m + 1, Len(u)) = u
        BY <4>2, Cuts, Zenon
      <4> QED BY <4>1, <4>3, Zenon
    <3>2. /\ IsSeq(SubSeq(u, 1, Len(u))) /\ IsSeq(SubSeq(u, Len(u) + 1, Len(u)))
          /\ Len(SubSeq(u, Len(u) + 1, Len(u))) = Len(u) - Len(u)
          /\ SubSeq(u, 1, Len(u)) \o SubSeq(u, Len(u) + 1, Len(u)) = u
      <4>1. PICK m \in 0 .. Len(u) : m = Len(u)
        BY <2>6
      <4>2. IsSeq(u)
        BY <2>6
      <4>3. /\ IsSeq(SubSeq(u, 1, m)) /\ IsSeq(SubSeq(u, m + 1, Len(u)))
            /\ Len(SubSeq(u, m + 1, Len(u))) = Len(u) - m
            /\ SubSeq(u, 1, m) \o SubSeq(u, m + 1, Len(u)) = u
        BY <4>2, Cuts, Zenon
      <4> QED BY <4>1, <4>3, Zenon
    <3>3. Len(u) - Len(u) = 0
      BY <2>6
    <3>4. SubSeq(u, 1, 0) = <<>>
      BY <3>1, SeqFacts
    <3>5. SubSeq(u, Len(u) + 1, Len(u)) = <<>>
      BY <3>2, <3>3, SeqFacts
    <3>6. SubSeq(u, 0 + 1, Len(u)) = u
      <4>1. <<>> \o SubSeq(u, 0 + 1, Len(u)) = SubSeq(u, 0 + 1, Len(u))
        BY <3>1, SeqFacts
      <4> QED BY <3>1, <3>4, <4>1
    <3>7. SubSeq(u, 1, Len(u)) = u
      <4>1. SubSeq(u, 1, Len(u)) \o <<>> = SubSeq(u, 1, Len(u))
        BY <3>2, SeqFacts
      <4> QED BY <3>2, <3>5, <4>1
    <3> QED BY <3>4, <3>5, <3>6, <3>7
  <2>8. w \o <<>> = w /\ <<>> \o u = u
    BY <2>6, SeqFacts
  <2>9. n \in {0, 1}
    BY <2>4, <2>5, <2>6
  <2>10. \/ wire' = wire /\ tosend' = <<127>>
         \/ wire' = wire \o <<127>> /\ tosend' = <<>>
    <3>1. CASE n = 0
      BY <2>4, <2>5, <2>6, <2>7, <2>8, <3>1
    <3>2. CASE n = 1
      BY <2>4, <2>5, <2>6, <2>7, <3>2
    <3> QED BY <2>9, <3>1, <3>2
  <2>11. wire = <<>> => wire \o <<127>> = <<127>>
    BY <2>5, <2>6, <2>8
  <2> QED BY <1>1, <1>3, <2>1, <2>3, <2>10, <2>11 DEF InStep, Greeting, Gone
<1>4. CASE step \in 2 .. LastStep /\ Locked
  <2>1. Sent => Sent'
    BY <1>1 DEF Sent
  <2>2. Locked'
    BY <1>1, <1>4, <2>1, LockKept
  <2> QED BY <1>1, <1>2, <1>4, <2>2 DEF InStep
<1>5. CASE step = Done
  <2>1. Running
    BY DEF Send
  <2> QED BY <1>5, <2>1, ScriptLength DEF Running, Done
<1> QED BY <1>3, <1>4, <1>5 DEF InStep

LEMMA HoldInStep ==
  ASSUME InStep, UNCHANGED <<wire, back, at, args, prog, flash, tool, step, tosend, left, pending>>
  PROVE  InStep'
<1>1. LastStep' = LastStep /\ Done' = Done
  BY SameTool
<1>2. Stream' = Stream /\ (Sent => Sent')
  BY DEF Stream, Sent
<1>3. CASE step = 1 /\ Greeting
  BY <1>3 DEF InStep, Greeting, Gone
<1>4. CASE step \in 2 .. LastStep /\ Locked
  <2>1. Locked'
    BY <1>2, <1>4, LockKept
  <2> QED BY <1>1, <1>4, <2>1 DEF InStep
<1>5. CASE tool = "flash" /\ step = Done /\ wire = <<>> /\ Resting /\ Written(Blocks * BlockSize)
  BY <1>1, <1>5 DEF InStep, Resting, Written
<1> QED BY <1>3, <1>4, <1>5 DEF InStep

LEMMA StartInStep ==
  ASSUME Start
  PROVE  InStep'
<1>1. /\ step' = 1 /\ tosend' = Connect.bytes /\ pending' = <<>>
      /\ wire = <<>> \/ Gone
      /\ UNCHANGED <<wire, at>>
  BY DEF Start
<1>2. tosend' = <<127>>
  BY <1>1, RestFacts
<1> QED BY <1>1, <1>2 DEF InStep, Greeting, Gone

LEMMA CutInStep ==
  ASSUME InStep, PowerCut
  PROVE  InStep'
<1>1. /\ at' \in {"sync", "lost"} /\ args' = <<>> /\ wire' = <<>> /\ back' = <<>>
      /\ at # "programming" => UNCHANGED flash
      /\ UNCHANGED <<tool, step, tosend, left, pending>>
  BY CutFacts
<1>2. LastStep' = LastStep /\ Done' = Done
  BY <1>1, SameTool
<1>3. CASE step = 1 /\ Greeting
  BY <1>1, <1>3 DEF InStep, Greeting, Gone
<1>4. CASE step \in 2 .. LastStep /\ Locked
  <2>1. Locked'
    BY <1>4, LockCut
  <2> QED BY <1>1, <1>2, <1>4, <2>1 DEF InStep
<1>5. CASE tool = "flash" /\ step = Done /\ wire = <<>> /\ Resting /\ Written(Blocks * BlockSize)
  BY <1>1, <1>2, <1>5 DEF InStep, Resting, Written
<1> QED BY <1>3, <1>4, <1>5 DEF InStep

LEMMA ReceiveInStep ==
  ASSUME Fits, Orderly, tool \in {"flash", "folie"}, InStep, Receive, step' >= 1
  PROVE  InStep'
<1>1. UNCHANGED tool /\ Running
  BY ReceiveFacts
<1>2. LastStep' = LastStep
  BY <1>1, SameTool
<1>3. CASE step = 1 /\ Greeting
  BY <1>3, GreetReceive
<1>4. CASE step \in 2 .. LastStep /\ Locked
  <2>1. CASE Off
    BY <1>2, <1>4, <2>1, OffReceive DEF InStep, Locked
  <2>2. CASE Refused
    <3>1. step' = -step
      BY <2>2, RefusedReceive
    <3>2. step >= 1 /\ step \in Int
      BY <1>4, LastStepIn DEF Orderly
    <3> QED BY <3>1, <3>2
  <2>3. CASE tool = "flash" /\ FlashLock
    BY <1>4, <2>3, FlashReceive
  <2>4. CASE tool = "folie" /\ FolieLock
    BY <1>4, <2>4, FolieReceive
  <2> QED BY <1>4, <2>1, <2>2, <2>3, <2>4 DEF Locked
<1>5. CASE step = Done
  BY <1>1, <1>5, ScriptLength DEF Running, Done
<1> QED BY <1>3, <1>4, <1>5 DEF InStep

LEMMA NextInStep ==
  ASSUME Fits, Orderly, StepInv, [Next]_vars
  PROVE  StepInv'
<1>1. SUFFICES ASSUME step' >= 1, tool' # "wipe", ~stale', ~astray', LoaderStarts'
               PROVE  InStep'
  BY DEF StepInv
<1>10. LoaderStarts
  <2>1. userLimit \div 4 + 1 \in LoaderWords
    BY WordFacts
  <2>2. flash'[userLimit \div 4 + 1] = LoaderVec
    BY <1>1 DEF LoaderStarts
  <2> QED BY <2>1, <2>2, NoReturn DEF Orderly, LoaderStarts
<1>2. CASE Start
  BY <1>2, StartInStep
<1>3. ASSUME step >= 1, tool # "wipe", ~stale, ~astray
      PROVE  tool \in {"flash", "folie"} /\ InStep
  BY <1>3, <1>10 DEF Orderly, StepInv
<1>4. CASE Send
  <2>1. UNCHANGED <<tool, step>> /\ ~stale /\ ~astray
    BY <1>1, <1>4 DEF Send
  <2>2. tool \in {"flash", "folie"} /\ InStep
    BY <1>1, <1>3, <2>1
  <2> QED BY <1>1, <1>4, <2>2, SendInStep
<1>5. CASE Hold \/ UNCHANGED vars
  <2>1. UNCHANGED <<wire, back, at, args, prog, flash, tool, step, tosend, left, pending, stale, astray>>
    BY <1>5 DEF Hold, vars, hostVars, devVars
  <2>2. InStep
    BY <1>1, <1>3, <2>1
  <2> QED BY <2>1, <2>2, HoldInStep
<1>6. CASE Receive
  <2>1. UNCHANGED <<tool, stale, astray>> /\ Running
    BY <1>6, ReceiveFacts
  <2>2. step >= 1
    BY <2>1 DEF Running
  <2>3. tool \in {"flash", "folie"} /\ InStep
    BY <1>1, <1>3, <2>1, <2>2
  <2> QED BY <1>1, <1>6, <2>3, ReceiveInStep
<1>7. CASE Loader
  <2>1. UNCHANGED <<tool, step>> /\ stale' = stale /\ ~astray
    BY <1>1, <1>7, LoaderFacts
  <2>2. tool \in {"flash", "folie"} /\ InStep
    BY <1>1, <1>3, <2>1
  <2> QED BY <1>1, <1>7, <2>2, LoaderInStep
<1>8. CASE Flashing
  <2>1. UNCHANGED <<tool, step, stale, astray>>
    BY <1>8, FlashingFacts
  <2>2. tool \in {"flash", "folie"} /\ InStep
    BY <1>1, <1>3, <2>1
  <2> QED BY <1>8, <1>10, <2>2, FlashingInStep
<1>9. CASE PowerCut
  <2>1. UNCHANGED <<tool, step>> /\ stale' = stale /\ astray' = astray
    BY <1>9, CutFacts
  <2>2. InStep
    BY <1>1, <1>3, <2>1
  <2> QED BY <1>9, <2>2, CutInStep
<1> QED BY <1>2, <1>4, <1>5, <1>6, <1>7, <1>8, <1>9 DEF Next

LEMMA InStepExact ==
  ASSUME Fits, Orderly, StepInv
  PROVE  UploadExact
<1>1. SUFFICES ASSUME step = Done, tool # "wipe", ~astray, ~stale, LoaderStarts
               PROVE  \A w \in 0 .. Len(Image) \div 4 - 1 :
                        flash[w] = CASE w = 0 -> ImageWord(1) [] w = 1 -> LoaderVec [] OTHER -> ImageWord(w)
  BY DEF UploadExact
<1>2. tool \in {"flash", "folie"}
  BY <1>1 DEF Orderly
<1>3. Len(Script) \in Nat /\ step = Len(Script) + 1
  BY <1>1, <1>2, ScriptLength DEF Done
<1>4. InStep
  <2>1. step >= 1
    BY <1>3
  <2> QED BY <1>1, <2>1 DEF StepInv
<1>5. step # 1
  <2>1. tool = "flash" => Len(Script) = 7 + After /\ After \in Nat
    BY FlashLast
  <2>2. tool = "folie" => Len(Script) > 9
    BY FolieScript DEF FolieEntries
  <2> QED BY <1>2, <1>3, <2>1, <2>2
<1>6. step \notin 2 .. LastStep
  BY <1>1, <1>2, LastStepIn
<1>7. Written(Blocks * BlockSize)
  BY <1>4, <1>5, <1>6 DEF InStep
<1>8. Blocks * BlockSize = Len(Image) \div 4
  <2>1. PICK n \in Nat : n = Blocks
    BY ImageSize
  <2>2. PICK s \in Nat : s = BlockSize /\ BlockLen = 4 * s
    BY ImageSize
  <2>3. Len(Image) = n * BlockLen
    <3>1. Len(Image) = BlockLen * (Len(Image) \div BlockLen) + (Len(Image) % BlockLen)
      <4>1. Len(Image) \in Nat /\ BlockLen \in Nat /\ BlockLen >= 1
        BY ImageSize
      <4> QED BY <4>1, Quotient
    <3>2. Len(Image) % BlockLen = 0
      BY DEF Fits
    <3>3. Len(Image) = BlockLen * n + 0
      BY <2>1, <3>1, <3>2 DEF Blocks
    <3> QED BY <2>1, <2>2, <3>3
  <2>4. n * s \in Nat /\ Len(Image) = 4 * (n * s)
    BY <2>1, <2>2, <2>3
  <2>5. \A x \in Nat : (4 * x) \div 4 = x
    OBVIOUS
  <2>6. (4 * (n * s)) \div 4 = n * s
    BY <2>4, <2>5, Zenon
  <2> QED BY <2>1, <2>2, <2>4, <2>6
<1> QED BY <1>7, <1>8 DEF Written, Wanted

(* UploadExact, sendCmd, wantAck and writeFlash of stm32.go, uploadHandler  *)
(* of upload.h: a tool that saw an ACK for every command, address and       *)
(* block has left the whole image in flash memory, with the two patched     *)
(* words, whatever earlier tools, resets and delays did to the loader       *)
(* before.  Every reply such a tool waits for belongs to the very bytes it  *)
(* has sent, or is a NAK that stops it.  The image is taken to come in      *)
(* whole blocks and to end below the loader (Fits).                         *)
THEOREM ImageExact == Fits => (Spec => []UploadExact)
<1> SUFFICES ASSUME Fits
             PROVE  Spec => []UploadExact
  OBVIOUS
<1>1. Init => Orderly /\ StepInv
  <2>1. Init => step = 0
    BY DEF Init
  <2>2. Init => StepInv
    BY <2>1 DEF StepInv
  <2> QED BY <2>2, InitOrderly
<1>2. (Orderly /\ StepInv) /\ [Next]_vars => (Orderly /\ StepInv)'
  BY NextInStep, NextOrderly
<1>3. Orderly /\ StepInv => UploadExact
  BY InStepExact
<1> QED BY <1>1, <1>2, <1>3, PTL DEF Spec

-----------------------------------------------------------------------------
(***************************************************************************)
(* A tool that nothing holds up, and that found the loader between two     *)
(* commands and no reply on its way: each reply is the one it waits for.   *)
(***************************************************************************)

(* A part of a command is under way.                                        *)
Under(h, s) == at = h /\ NoReply /\ Stream = s /\ Unread
Order(c) == Under("cmd", <<c, 255 - c>>)

(* A greeting is to be sent, on its way, or answered.                      *)
Greets ==
  /\ pending = <<>>
  /\ \/ tosend = <<127>> /\ (Gone \/ (at \in {"sync", "cmd"} /\ wire = <<>>))
     \/ /\ tosend = <<>> /\ back = <<>>
        /\ Gone \/ (at \in {"sync", "cmd"} /\ wire = <<127>>)
                \/ (at = "cmd" /\ wire = <<>> /\ args = <<127>>)
     \/ tosend = <<>> /\ at = "cmd" /\ wire = <<>> /\ args = <<>> /\ back \in {<<ACK>>, <<NAK>>}

TalksBlock(j) ==
  \/ step = 2 + 3 * j /\ (Order(WRITE) \/ Accepted("write"))
  \/ step = 3 + 3 * j /\ (AddrOpen("write", j) \/ AddrDone("write", j))
  \/ /\ step = 4 + 3 * j
     /\ (DataOpen(j) /\ Unread) \/ (at \in {"flashing", "programming"} /\ Taken(j)) \/ Answer(1)
TalksRest ==
  \/ step = 2 + After /\ (Order(READ) \/ Accepted("read"))
  \/ step = 3 + After /\ (AddrOpen("read", 0) \/ AddrDone("read", 0))
  \/ step = 4 + After /\ ((CountOpen /\ Unread) \/ Answer(5))
  \/ step = 5 + After /\ left \in 1 .. 4 /\ Has(left)
  \/ step = 6 + After /\ (Order(GO) \/ Accepted("go"))
  \/ step = 7 + After /\ (AddrOpen("go", 0) \/ Started)
TalksFlash == TalksRest \/ \E j \in 0 .. Blocks - 1 : TalksBlock(j)

Pages01 == Checked(<<1, 0, 1>>)
TalksWipe ==
  \/ step = 2 /\ (Order(GETVER) \/ (Answer(5) /\ Replied[5] = ACK))
  \/ step = 3 /\ left \in 1 .. 3 /\ Has(left + 1) /\ Replied[left + 1] = ACK
  \/ step = 4 /\ Answer(1)
  \/ step = 5 /\ (Order(ERASE) \/ Accepted("erase"))
  \/ step = 6 /\ (Under("erase", Pages01) \/ Answer(1))
  \/ step = 7 /\ (Order(ERASE) \/ Accepted("erase"))
  \/ step = 8 /\ (Under("erase", <<255, 255>>) \/ Answer(1))

Talks ==
  \/ step = 1 /\ Greets
  \/ tool = "flash" /\ TalksFlash
  \/ tool = "wipe" /\ TalksWipe
  \/ step = Done
Undisturbed == faults = 0 /\ ~stale /\ ~midway /\ tool # "folie"
ReasonInv ==
  /\ faults \in Nat /\ (faults = 0 => ~held)
  /\ Undisturbed /\ step >= 1 => Talks
  /\ Undisturbed => step >= -1

(* Bytes are to come, there is an answer to read, or the loader programs.  *)
Waits == NoReply /\ Unread /\ ~Gone
Told == Sent /\ ~NoReply
Busy == Sent /\ NoReply /\ at \in {"flashing", "programming"}

LEMMA AckedTold ==
  ASSUME Sent, Acked
  PROVE  Told
<1>1. <<ACK>> # <<>>
  BY HeadOf
<1> QED BY <1>1 DEF Told, Acked, NoReply

LEMMA HasTold ==
  ASSUME NEW n \in Nat, n >= 1, Has(n)
  PROVE  Told
<1>1. ASSUME NoReply PROVE FALSE
  <2>1. Replied = <<>>
    <3>1. <<>> \o <<>> = <<>>
      BY NothingSeq, SeqFacts
    <3> QED BY <1>1, <3>1 DEF NoReply, Replied
  <2>2. Len(Replied) = 0
    BY <2>1, NothingSeq
  <2>3. Len(Replied) = n
    BY DEF Has
  <2> QED BY <2>2, <2>3
<1> QED BY <1>1 DEF Told, Has

LEMMA UnderWaits ==
  ASSUME NEW h \in {"cmd", "erase"}, NEW s, Under(h, s)
  PROVE  Waits
BY DEF Under, Waits, Gone

LEMMA AddrWaits ==
  ASSUME NEW h \in {"write", "read", "go"}, NEW j, AddrOpen(h, j)
  PROVE  Waits
<1>1. Len(AddressOf(j)) = 5
  BY AddressFacts
<1>2. Len(args) < 5 /\ Stream = AddressOf(j) /\ at = h /\ NoReply
  BY DEF AddrOpen
<1>3. Len(args) < Len(Stream)
  BY <1>1, <1>2
<1> QED BY <1>2, <1>3 DEF Waits, Unread, Gone

LEMMA FlashShape ==
  ASSUME TalksFlash
  PROVE  Waits \/ Told \/ Busy
<1>1. \A c : Order(c) => Waits
  BY UnderWaits DEF Order
<1>2. \A h : Accepted(h) => Told
  BY AckedTold DEF Accepted
<1>3. \A h, j : AddrDone(h, j) => Told
  BY AckedTold DEF AddrDone
<1>4. Started => Told
  BY AckedTold DEF Started
<1>5. \A h \in {"write", "read", "go"} : \A j : AddrOpen(h, j) => Waits
  BY AddrWaits
<1>6. \A n \in Nat : n >= 1 /\ Has(n) => Told
  BY HasTold
<1>7. \A j : TalksBlock(j) => Waits \/ Told \/ Busy
  <2>1. SUFFICES ASSUME NEW j, TalksBlock(j)
                 PROVE  Waits \/ Told \/ Busy
    OBVIOUS
  <2>2. CASE Order(WRITE) \/ Accepted("write") \/ AddrOpen("write", j) \/ AddrDone("write", j)
    BY <1>1, <1>2, <1>3, <1>5, <2>2
  <2>3. CASE DataOpen(j) /\ Unread
    BY <2>3 DEF DataOpen, Waits, Gone
  <2>4. CASE at \in {"flashing", "programming"} /\ Taken(j)
    BY <2>4 DEF Taken, Busy
  <2>5. CASE Answer(1)
    BY <1>6, <2>5 DEF Answer
  <2> QED BY <2>1, <2>2, <2>3, <2>4, <2>5 DEF TalksBlock
<1>8. ASSUME TalksRest PROVE Waits \/ Told \/ Busy
  <2>1. CASE Order(READ) \/ Accepted("read") \/ AddrOpen("read", 0) \/ AddrDone("read", 0)
    BY <1>1, <1>2, <1>3, <1>5, <2>1
  <2>2. CASE CountOpen /\ Unread
    BY <2>2 DEF CountOpen, Waits, Gone
  <2>3. CASE Answer(5) \/ (left \in 1 .. 4 /\ Has(left))
    BY <1>6, <2>3 DEF Answer
  <2>4. CASE Order(GO) \/ Accepted("go") \/ AddrOpen("go", 0) \/ Started
    BY <1>1, <1>2, <1>4, <1>5, <2>4
  <2> QED BY <1>8, <2>1, <2>2, <2>3, <2>4 DEF TalksRest
<1> QED BY <1>7, <1>8 DEF TalksFlash

LEMMA WipeShape ==
  ASSUME TalksWipe
  PROVE  Waits \/ Told \/ Busy
<1>1. \A c : Order(c) => Waits
  BY UnderWaits DEF Order
<1>2. \A s : Under("erase", s) => Waits
  BY UnderWaits
<1>3. Accepted("erase") => Told
  BY AckedTold DEF Accepted
<1>4. \A n \in Nat : n >= 1 /\ Has(n) => Told
  BY HasTold
<1>5. Answer(5) \/ Answer(1) => Told
  BY <1>4 DEF Answer
<1>6. left \in 1 .. 3 /\ Has(left + 1) => Told
  <2>1. left \in 1 .. 3 => left + 1 \in Nat /\ left + 1 >= 1
    OBVIOUS
  <2> QED BY <1>4, <2>1
<1> QED BY <1>1, <1>2, <1>3, <1>5, <1>6 DEF TalksWipe

(* A host that nothing holds up leaves no time to give up on a byte.       *)
LEMMA LoaderWaits ==
  ASSUME Orderly, Waits \/ Told \/ Busy, Loader, Running, ~held, Wants # "any"
  PROVE  /\ Waits /\ wire # <<>>
         /\ \E b \in Byte : TakeByte(b)
         /\ UNCHANGED <<tool, step, tosend, left, held, pending, faults, stale, midway>>
<1>1. /\ wire = <<>> => ~Prompt
      /\ UNCHANGED <<tool, step, tosend, left, held, pending, faults, stale, midway>>
  BY DEF Loader
<1>2. PICK b \in Byte : TakeByte(b)
  BY DEF Loader
<1>3. ~Busy
  BY <1>2, TakeFacts DEF Busy
<1>4. ~Told
  BY <1>1 DEF Told, Sent, NoReply, Prompt
<1>5. wire # <<>>
  <2>1. ASSUME wire = <<>>, tosend = <<>>
        PROVE  FALSE
    <3>1. Stream = args
      BY <2>1, StreamFacts, ThreeMore
    <3>2. Len(args) < Len(args) /\ Len(args) \in Nat
      BY <1>3, <1>4, <3>1, StreamFacts DEF Waits, Unread
    <3> QED BY <3>2
  <2> QED BY <1>1, <2>1 DEF Prompt
<1> QED BY <1>1, <1>2, <1>3, <1>4, <1>5

-----------------------------------------------------------------------------
(* What the loader makes of bytes that are under way. *)

LEMMA AnswerOne ==
  ASSUME NoReply, Put(<<ACK>>), Goto("cmd"), wire' = <<>>, tosend' = <<>>, UNCHANGED pending
  PROVE  Answer(1)'
<1>1. pending' = <<>> /\ back' = <<ACK>>
  BY OneAck DEF Acked
<1>2. PICK s : s = <<ACK>>
  OBVIOUS
<1>3. IsSeq(s) /\ Len(s) = 1 /\ s[1] = ACK
  BY <1>2, Singleton
<1>4. <<>> \o s = s
  BY <1>3, SeqFacts
<1>5. Replied' = s
  BY <1>1, <1>2, <1>4 DEF Replied
<1>6. Len(Replied') = 1 /\ Replied'[1] = ACK
  BY <1>3, <1>5
<1> QED BY <1>1, <1>6 DEF Answer, Has, Sent, Goto

LEMMA OrderLoader ==
  ASSUME Orderly, NEW c \in 0 .. 254, c \in DOMAIN Answers \cup DOMAIN Handlers, Order(c),
         wire # <<>>, NEW b \in Byte, TakeByte(b), UNCHANGED <<tosend, pending>>
  PROVE  \/ Order(c)'
         \/ c \in DOMAIN Handlers /\ Accepted(Handlers[c])'
         \/ /\ c \in DOMAIN Answers /\ at' = "cmd" /\ args' = <<>> /\ Sent'
            /\ pending' = <<>> /\ back' = Answers[c]
<1>1. at = "cmd" /\ NoReply /\ Stream = <<c, 255 - c>> /\ Len(args) < Len(Stream)
  BY DEF Order, Under, Unread
<1>2. Len(Stream) = 2 /\ Stream[1] = c /\ Stream[2] = 255 - c
  BY <1>1, TwoOf
<1>3. /\ Len(args) \in Nat /\ (args = <<>> <=> Len(args) = 0)
      /\ \A i \in 1 .. Len(args) : Stream[i] = args[i]
      /\ IsSeq(args) /\ IsSeq(wire) /\ IsSeq(tosend) /\ Stream = Three(args, wire, tosend)
  BY StreamFacts
<1>4. uploadHandler(b) /\ Arrived(b) /\ b = Head(wire) /\ wire' = Tail(wire)
  BY <1>1, AtCmd, ArrivedOnly
<1>5. CASE args = <<>>
  <2>1. Collect(b) /\ UNCHANGED <<at, back>>
    BY <1>4, <1>5 DEF uploadHandler, Collect
  <2>2. Stream' = Stream /\ Len(args') = Len(args) + 1
    BY <1>4, <2>1, CollectFacts
  <2>3. Len(args') < Len(Stream')
    <3>1. Len(args') = 0 + 1 /\ Len(Stream') = 2
      BY <1>2, <1>3, <1>5, <2>2, Zenon
    <3> QED BY <3>1
  <2>4. NoReply' /\ at' = "cmd"
    BY <1>1, <2>1 DEF NoReply
  <2> QED BY <1>1, <2>2, <2>3, <2>4 DEF Order, Under, Unread
<1>6. CASE args # <<>>
  <2>1. Len(args) = 1 /\ args[1] = c
    <3>1. \A n \in Nat : n < 2 /\ n # 0 => n = 1
      OBVIOUS
    <3>2. Len(args) < 2
      BY <1>1, <1>2
    <3>3. Len(args) = 1
      BY <1>3, <1>6, <3>1, <3>2, Zenon
    <3>4. 1 \in 1 .. Len(args)
      BY <3>3
    <3> QED BY <1>2, <1>3, <3>3, <3>4, Zenon
  <2>2. b = 255 - c
    <3>1. Three(args, wire, tosend)[Len(args) + 1] = Head(wire)
      BY <1>3, ThreeMore
    <3>2. Stream[1 + 1] = b
      BY <1>3, <1>4, <2>1, <3>1, Zenon
    <3> QED BY <1>2, <3>2
  <2>3. wire' = <<>> /\ tosend' = <<>>
    <3>1. Len(Stream) <= Len(args) + 1
      BY <1>2, <2>1
    <3> QED BY <1>4, <3>1, LastByte
  <2>4. Known(c, b)
    BY <2>2 DEF Known
  <2>5. Answered(c, b) /\ args' = <<>>
    BY <1>4, <1>6, <2>1 DEF uploadHandler, Answered, Known, Goto
  <2>6. CASE c \in DOMAIN Answers /\ at' = "cmd" /\ Put(Answers[c])
    <3>1. IsSeq(Answers[c])
      BY <2>6, AnswerFacts
    <3>2. <<>> \o Answers[c] = Answers[c]
      BY <3>1, SeqFacts
    <3>3. pending' = <<>> /\ back' = Answers[c]
      BY <1>1, <2>6, <3>2 DEF NoReply, Put
    <3> QED BY <2>3, <2>5, <2>6, <3>3 DEF Sent
  <2>7. CASE c \in DOMAIN Handlers /\ at' = Handlers[c] /\ Put(<<ACK>>)
    <3>1. Acked'
      BY <1>1, <2>7, OneAck
    <3> QED BY <2>3, <2>5, <2>7, <3>1 DEF Accepted, Sent
  <2> QED BY <2>4, <2>5, <2>6, <2>7 DEF Answered
<1> QED BY <1>5, <1>6

(* Pages of which a count comes first, or all of them, and a checksum.     *)
PagesEnd(s, n) == Len(s) = n + 1 /\ n = (IF s[1] = 255 THEN 1 ELSE 1 + Counted(s[1]))

LEMMA EraseLoader ==
  ASSUME Orderly, NEW s, Under("erase", s), NEW n \in Nat, n >= 1, PagesEnd(s, n),
         wire # <<>>, NEW b \in Byte, TakeByte(b), UNCHANGED <<tosend, pending>>
  PROVE  Under("erase", s)' \/ Answer(1)'
<1>1. at = "erase" /\ NoReply /\ Stream = s /\ Len(args) < Len(Stream)
  BY DEF Under, Unread
<1>2. /\ Len(args) \in Nat /\ (args = <<>> <=> Len(args) = 0)
      /\ \A i \in 1 .. Len(args) : Stream[i] = args[i]
  BY StreamFacts
<1>3. erase(b) /\ getByte(b)
  BY <1>1 DEF TakeByte, initialSync, uploadHandler, getAddrCheck, writeData, readData
<1>4. Arrived(b) /\ wire' = Tail(wire)
  BY <1>3, ArrivedOnly
<1>5. Len(s) = n + 1 /\ n = (IF s[1] = 255 THEN 1 ELSE 1 + Counted(s[1]))
  BY DEF PagesEnd
<1>6. args # <<>> => args[1] = s[1]
  <2>1. ASSUME args # <<>> PROVE 1 \in 1 .. Len(args)
    BY <1>2, <2>1
  <2> QED BY <1>1, <1>2, <2>1, Zenon
<1>7. Len(args) <= n
  BY <1>1, <1>2, <1>5
<1>8. CASE args # <<>> /\ Len(args) = n
  <2>1. Goto("cmd") /\ Put(<<ACK>>)
    BY <1>3, <1>5, <1>6, <1>8, Zenon DEF erase
  <2>2. wire' = <<>> /\ tosend' = <<>>
    <3>1. Len(Stream) <= Len(args) + 1
      BY <1>1, <1>5, <1>8
    <3> QED BY <1>4, <3>1, LastByte
  <2> QED BY <1>1, <2>1, <2>2, AnswerOne
<1>9. CASE ~(args # <<>> /\ Len(args) = n)
  <2>1. Collect(b) /\ UNCHANGED back
    BY <1>3, <1>5, <1>6, <1>9, Zenon DEF erase
  <2>2. Stream' = Stream /\ Len(args') = Len(args) + 1 /\ at' = at
    BY <1>4, <2>1, CollectFacts DEF Collect
  <2>3. Len(args) + 1 < n + 1
    BY <1>2, <1>7, <1>9
  <2>4. Len(args') < Len(Stream')
    BY <1>1, <1>5, <2>2, <2>3, Zenon
  <2>5. NoReply'
    BY <1>1, <2>1 DEF NoReply
  <2> QED BY <1>1, <2>2, <2>4, <2>5 DEF Under, Unread
<1> QED BY <1>8, <1>9

LEMMA PagesEnds ==
  /\ PagesEnd(Pages01, 3)
  /\ PagesEnd(<<255, 255>>, 1)
<1>1. PagesEnd(Pages01, 3)
  <2>1. PICK s : s = <<1, 0, 1>>
    OBVIOUS
  <2>2. IsSeq(s) /\ Len(s) = 3 /\ s[1] = 1
    BY <2>1, ThreeOf
  <2>3. Len(Checked(s)) = Len(s) + 1 /\ \A i \in 1 .. Len(s) : Checked(s)[i] = s[i]
    BY <2>2, CheckedFacts
  <2>4. PICK t : t = Checked(s)
    OBVIOUS
  <2>5. Len(t) = 4 /\ t[1] = 1
    BY <2>2, <2>3, <2>4
  <2>6. Counted(1) = 2
    <3>1. 1 < MaxBlock /\ 1 + 1 = 2
      BY Sizes
    <3> QED BY <3>1, Zenon DEF Counted
  <2>7. Pages01 = t
    BY <2>1, <2>4 DEF Pages01
  <2>8. PagesEnd(t, 3)
    BY <2>5, <2>6 DEF PagesEnd
  <2> QED BY <2>7, <2>8
<1>2. PagesEnd(<<255, 255>>, 1)
  <2>1. PICK s : s = <<255, 255>>
    OBVIOUS
  <2>2. Len(s) = 2 /\ s[1] = 255
    BY <2>1, TwoOf
  <2>3. 2 = 1 + 1
    OBVIOUS
  <2> QED BY <2>1, <2>2, <2>3, Zenon DEF PagesEnd
<1> QED BY <1>1, <1>2

-----------------------------------------------------------------------------
(* A step of the loader, while the tool is past its greeting. *)

LEMMA EraseCode == Handlers[ERASE] = "erase"
BY DEF Handlers, READ, GO, WRITE, ERASE

LEMMA OrderHandler ==
  ASSUME Orderly, NEW c \in {WRITE, READ, GO, ERASE}, NEW h, Handlers[c] = h, Order(c),
         wire # <<>>, NEW b \in Byte, TakeByte(b), UNCHANGED <<tosend, pending>>
  PROVE  Order(c)' \/ Accepted(h)'
<1>1. c \in 0 .. 254 /\ c \in DOMAIN Handlers /\ c \notin DOMAIN Answers
  BY Codes
<1>2. \/ Order(c)'
      \/ c \in DOMAIN Handlers /\ Accepted(Handlers[c])'
      \/ c \in DOMAIN Answers
  <2>1. c \in 0 .. 254 /\ c \in DOMAIN Answers \cup DOMAIN Handlers
    BY <1>1
  <2> QED BY <2>1, OrderLoader
<1> QED BY <1>1, <1>2

LEMMA VersionAnswer ==
  /\ GETVER \in 0 .. 254 /\ GETVER \in DOMAIN Answers /\ GETVER \notin DOMAIN Handlers
  /\ Len(Answers[GETVER]) = 5 /\ Answers[GETVER][1] = ACK /\ Answers[GETVER][5] = ACK
  /\ IsSeq(Answers[GETVER])
<1>1. GETVER \in 0 .. 254 /\ GETVER \in DOMAIN Answers /\ GETVER \notin DOMAIN Handlers /\ ACK = 121
  BY Codes
<1>2. Answers[GETVER] = <<ACK, 34, 0, 0, ACK>>
  BY DEF Answers, GET, GETVER, GETID
<1>3. PICK s : s = <<ACK, 34, 0, 0, ACK>>
  OBVIOUS
<1>4. Len(s) = 5 /\ s[1] = ACK /\ s[5] = ACK
  BY <1>3
<1>5. IsSeq(Answers[GETVER])
  BY <1>1, AnswerFacts
<1> QED BY <1>1, <1>2, <1>3, <1>4, <1>5

LEMMA VersionLoader ==
  ASSUME Orderly, Order(GETVER), wire # <<>>, NEW b \in Byte, TakeByte(b), UNCHANGED <<tosend, pending>>
  PROVE  Order(GETVER)' \/ (Answer(5)' /\ Replied'[5] = ACK)
<1>1. \/ Order(GETVER)'
      \/ GETVER \in DOMAIN Handlers
      \/ at' = "cmd" /\ args' = <<>> /\ Sent' /\ pending' = <<>> /\ back' = Answers[GETVER]
  <2>1. GETVER \in 0 .. 254 /\ GETVER \in DOMAIN Answers \cup DOMAIN Handlers
    BY VersionAnswer
  <2>2. PICK c : c = GETVER
    OBVIOUS
  <2>3. c \in 0 .. 254 /\ c \in DOMAIN Answers \cup DOMAIN Handlers /\ Order(c)
    BY <2>1, <2>2
  <2>4. \/ Order(c)'
        \/ c \in DOMAIN Handlers
        \/ at' = "cmd" /\ args' = <<>> /\ Sent' /\ pending' = <<>> /\ back' = Answers[c]
    BY <2>3, OrderLoader
  <2> QED BY <2>2, <2>4
<1>2. CASE at' = "cmd" /\ args' = <<>> /\ Sent' /\ pending' = <<>> /\ back' = Answers[GETVER]
  <2>1. <<>> \o Answers[GETVER] = Answers[GETVER]
    BY VersionAnswer, SeqFacts
  <2>2. Replied' = Answers[GETVER]
    BY <1>2, <2>1 DEF Replied
  <2>3. Len(Replied') = 5 /\ Replied'[1] = ACK /\ Replied'[5] = ACK
    BY <2>2, VersionAnswer
  <2> QED BY <1>2, <2>3 DEF Answer, Has
<1> QED BY <1>1, <1>2, VersionAnswer

LEMMA NotTold ==
  ASSUME Orderly, Waits
  PROVE  /\ \A h : ~Accepted(h) /\ \A j : ~AddrDone(h, j)
         /\ \A n \in Nat : n >= 1 => ~Has(n)
         /\ ~Started /\ ~Answer(1) /\ ~Answer(5)
         /\ \A j : ~(at \in {"flashing", "programming"} /\ Taken(j))
<1>1. ~Told
  BY DEF Waits, Told
<1>2. \A h : ~Accepted(h) /\ \A j : ~AddrDone(h, j)
  BY <1>1, AckedTold DEF Accepted, AddrDone
<1>3. ~Started
  BY <1>1, AckedTold DEF Started
<1>4. \A n \in Nat : n >= 1 => ~Has(n)
  BY <1>1, HasTold
<1>5. ~Answer(1) /\ ~Answer(5)
  BY <1>4 DEF Answer
<1>6. ~Sent
  <2>1. ASSUME Sent PROVE FALSE
    <3>1. Stream = args
      BY <2>1, StreamFacts, ThreeMore DEF Sent
    <3>2. Len(args) < Len(args) /\ Len(args) \in Nat
      BY <3>1, StreamFacts DEF Waits, Unread
    <3> QED BY <3>2
  <2> QED BY <2>1
<1> QED BY <1>2, <1>3, <1>4, <1>5, <1>6 DEF Taken

LEMMA FlashTalksLoader ==
  ASSUME Fits, Orderly, tool = "flash", TalksFlash, Loader, Running, ~held, Wants # "any"
  PROVE  TalksFlash'
<1>1. /\ Waits /\ wire # <<>> /\ \E b \in Byte : TakeByte(b)
      /\ UNCHANGED <<tool, step, tosend, left, pending>>
  BY FlashShape, LoaderWaits
<1>2. PICK b \in Byte : TakeByte(b)
  BY <1>1
<1>3. /\ \A h : ~Accepted(h) /\ \A j : ~AddrDone(h, j)
      /\ \A n \in Nat : n >= 1 => ~Has(n)
      /\ ~Started /\ ~Answer(1) /\ ~Answer(5)
      /\ \A j : ~(at \in {"flashing", "programming"} /\ Taken(j))
  BY <1>1, NotTold
<1>4. ASSUME NEW h \in {"write", "read", "go"}, NEW j, AddrOpen(h, j)
      PROVE  AddrOpen(h, j)' \/ (h # "go" /\ AddrDone(h, j)') \/ (h = "go" /\ Started')
  BY <1>1, <1>2, <1>4, AddrLoader
<1>5. ASSUME NEW c \in {WRITE, READ, GO, ERASE}, NEW h, Handlers[c] = h, Order(c)
      PROVE  Order(c)' \/ Accepted(h)'
  BY <1>1, <1>2, <1>5, OrderHandler
<1>6. ASSUME NEW j \in 0 .. Blocks - 1, TalksBlock(j) PROVE TalksBlock(j)'
  <2>1. CASE step = 2 + 3 * j /\ Order(WRITE)
    <3>1. Order(WRITE)' \/ Accepted("write")'
      BY <1>5, <2>1, Codes
    <3> QED BY <1>1, <2>1, <3>1 DEF TalksBlock
  <2>2. CASE step = 3 + 3 * j /\ AddrOpen("write", j)
    <3>1. AddrOpen("write", j)' \/ AddrDone("write", j)'
      BY <1>4, <2>2
    <3> QED BY <1>1, <2>2, <3>1 DEF TalksBlock
  <2>3. CASE step = 4 + 3 * j /\ DataOpen(j) /\ Unread
    <3>1. (DataOpen(j)' /\ Unread') \/ (at' = "flashing" /\ Taken(j)')
      BY <1>1, <1>2, <2>3, DataLoader
    <3> QED BY <1>1, <2>3, <3>1 DEF TalksBlock
  <2> QED BY <1>3, <1>6, <2>1, <2>2, <2>3 DEF TalksBlock
<1>7. ASSUME TalksRest PROVE TalksRest'
  <2>1. CASE step = 2 + After /\ Order(READ)
    <3>1. Order(READ)' \/ Accepted("read")'
      BY <1>5, <2>1, Codes
    <3> QED BY <1>1, <2>1, <3>1 DEF TalksRest
  <2>2. CASE step = 3 + After /\ AddrOpen("read", 0)
    <3>1. AddrOpen("read", 0)' \/ AddrDone("read", 0)'
      BY <1>4, <2>2
    <3> QED BY <1>1, <2>2, <3>1 DEF TalksRest
  <2>3. CASE step = 4 + After /\ CountOpen /\ Unread
    <3>1. (CountOpen' /\ Unread') \/ Answer(5)'
      BY <1>1, <1>2, <2>3, CountLoader
    <3> QED BY <1>1, <2>3, <3>1 DEF TalksRest
  <2>4. CASE step = 6 + After /\ Order(GO)
    <3>1. Order(GO)' \/ Accepted("go")'
      BY <1>5, <2>4, Codes
    <3> QED BY <1>1, <2>4, <3>1 DEF TalksRest
  <2>5. CASE step = 7 + After /\ AddrOpen("go", 0)
    <3>1. AddrOpen("go", 0)' \/ Started'
      BY <1>4, <2>5
    <3> QED BY <1>1, <2>5, <3>1 DEF TalksRest
  <2>6. ~(left \in 1 .. 4 /\ Has(left))
    BY <1>3
  <2> QED BY <1>3, <1>7, <2>1, <2>2, <2>3, <2>4, <2>5, <2>6 DEF TalksRest
<1> QED BY <1>6, <1>7 DEF TalksFlash

LEMMA WipeTalksLoader ==
  ASSUME Orderly, tool = "wipe", TalksWipe, Loader, Running, ~held, Wants # "any"
  PROVE  TalksWipe'
<1>1. /\ Waits /\ wire # <<>> /\ \E b \in Byte : TakeByte(b)
      /\ UNCHANGED <<tool, step, tosend, left, pending>>
  BY WipeShape, LoaderWaits
<1>2. PICK b \in Byte : TakeByte(b)
  BY <1>1
<1>3. /\ ~Accepted("erase") /\ ~Answer(1) /\ ~Answer(5)
      /\ \A n \in Nat : n >= 1 => ~Has(n)
  BY <1>1, NotTold
<1>4. ~(left \in 1 .. 3 /\ Has(left + 1))
  <2>1. left \in 1 .. 3 => left + 1 \in Nat /\ left + 1 >= 1
    OBVIOUS
  <2> QED BY <1>3, <2>1
<1>5. CASE step = 2 /\ Order(GETVER)
  <2>1. Order(GETVER)' \/ (Answer(5)' /\ Replied'[5] = ACK)
    BY <1>1, <1>2, <1>5, VersionLoader
  <2> QED BY <1>1, <1>5, <2>1 DEF TalksWipe
<1>6. CASE step \in {5, 7} /\ Order(ERASE)
  <2>1. Order(ERASE)' \/ Accepted("erase")'
    BY <1>1, <1>2, <1>6, OrderHandler, EraseCode
  <2> QED BY <1>1, <1>6, <2>1 DEF TalksWipe
<1>7. CASE step = 6 /\ Under("erase", Pages01)
  <2>1. PICK s : s = Pages01
    OBVIOUS
  <2>2. PagesEnd(s, 3) /\ Under("erase", s) /\ 3 \in Nat /\ 3 >= 1
    BY <1>7, <2>1, PagesEnds
  <2>3. Under("erase", s)' \/ Answer(1)'
    BY <1>1, <1>2, <2>2, EraseLoader
  <2> QED BY <1>1, <1>7, <2>1, <2>3 DEF TalksWipe
<1>8. CASE step = 8 /\ Under("erase", <<255, 255>>)
  <2>1. PICK s : s = <<255, 255>>
    OBVIOUS
  <2>2. PagesEnd(s, 1) /\ Under("erase", s) /\ 1 \in Nat /\ 1 >= 1
    BY <1>8, <2>1, PagesEnds
  <2>3. Under("erase", s)' \/ Answer(1)'
    BY <1>1, <1>2, <2>2, EraseLoader
  <2> QED BY <1>1, <1>8, <2>1, <2>3 DEF TalksWipe
<1> QED BY <1>3, <1>4, <1>5, <1>6, <1>7, <1>8 DEF TalksWipe

-----------------------------------------------------------------------------
(* Sending, and writing a block. *)

LEMMA TalksKept ==
  ASSUME UNCHANGED <<at, args, tool, step, left, pending, back>>, Stream' = Stream, Sent => Sent'
  PROVE  (TalksFlash => TalksFlash') /\ (TalksWipe => TalksWipe')
<1>1. Script' = Script /\ (Script[step].bytes)' = Script[step].bytes
  BY SameEntry
<1>2. Replied' = Replied /\ (NoReply => NoReply') /\ (Acked => Acked') /\ (Unread => Unread')
  BY DEF Replied, NoReply, Acked, Unread
<1>3. ASSUME NEW h, NEW s, Under(h, s) PROVE Under(h, s)'
  BY <1>2, <1>3 DEF Under
<1>4. ASSUME NEW c, Order(c) PROVE Order(c)'
  BY <1>3, <1>4 DEF Order
<1>5. ASSUME NEW n, Has(n) PROVE Has(n)'
  BY <1>1, <1>2, <1>5 DEF Has
<1>6. ASSUME NEW n, Answer(n) PROVE Answer(n)'
  BY <1>2, <1>5, <1>6 DEF Answer
<1>7. ASSUME NEW h, Accepted(h) PROVE Accepted(h)'
  BY <1>2, <1>7 DEF Accepted
<1>8. ASSUME NEW h, NEW j, AddrOpen(h, j) PROVE AddrOpen(h, j)'
  BY <1>2, <1>8 DEF AddrOpen
<1>9. ASSUME NEW h, NEW j, AddrDone(h, j) PROVE AddrDone(h, j)'
  BY <1>2, <1>9 DEF AddrDone
<1>10. ASSUME NEW j, DataOpen(j) /\ Unread PROVE DataOpen(j)' /\ Unread'
  BY <1>2, <1>10 DEF DataOpen
<1>11. CountOpen /\ Unread => CountOpen' /\ Unread'
  BY <1>2 DEF CountOpen
<1>12. Started => Started'
  BY <1>2 DEF Started
<1>13. ASSUME NEW j, Taken(j) PROVE Taken(j)'
  BY <1>2, <1>13 DEF Taken, Holds, Address, Count
<1>14. ASSUME NEW j \in 0 .. Blocks - 1, TalksBlock(j) PROVE TalksBlock(j)'
  BY <1>4, <1>6, <1>7, <1>8, <1>9, <1>10, <1>13, <1>14 DEF TalksBlock
<1>15. TalksRest => TalksRest'
  BY <1>4, <1>5, <1>6, <1>7, <1>8, <1>9, <1>11, <1>12 DEF TalksRest
<1>16. ASSUME TalksWipe PROVE TalksWipe'
  BY <1>2, <1>3, <1>4, <1>5, <1>6, <1>7, <1>16 DEF TalksWipe
<1> QED BY <1>14, <1>15, <1>16 DEF TalksFlash

LEMMA BlockFlashing ==
  ASSUME Fits, NEW j \in 0 .. Blocks - 1, Taken(j), WriteFlash, UNCHANGED <<tosend, pending>>
  PROVE  (at' = "programming" /\ Taken(j)') \/ Answer(1)'
<1>1. NoReply /\ Sent /\ Holds(j)
  BY DEF Taken
<1>2. CASE ErasePage \/ ProgramWord
  <2>1. at' = "programming" /\ UNCHANGED <<wire, back, args>>
    BY <1>2 DEF ErasePage, ProgramWord
  <2>2. Holds(j)'
    BY <1>1, <2>1 DEF Holds, Address, Count
  <2> QED BY <1>1, <2>1, <2>2 DEF Taken, NoReply, Sent
<1>3. CASE ProgramOdd
  BY <1>1, <1>3, HoldsFacts DEF ProgramOdd
<1>4. CASE WriteDone
  <2>1. Goto("cmd") /\ Put(<<ACK>>) /\ UNCHANGED wire
    BY <1>4 DEF WriteDone
  <2>2. wire' = <<>> /\ tosend' = <<>>
    BY <1>1, <2>1 DEF Sent
  <2> QED BY <1>1, <2>1, <2>2, AnswerOne
<1> QED BY <1>2, <1>3, <1>4 DEF WriteFlash

LEMMA TalksFlashing ==
  ASSUME Fits, Orderly, Flashing
  PROVE  (TalksFlash => TalksFlash') /\ ~TalksWipe
<1>1. /\ WriteFlash /\ at \in {"flashing", "programming"}
      /\ UNCHANGED <<wire, tool, step, tosend, left, pending>>
  BY FlashingFacts
<1>2. /\ \A h : Order(h) => at = "cmd"
      /\ \A n : Has(n) \/ Answer(n) => at = "cmd"
      /\ \A h : Accepted(h) => at = h
      /\ \A h, j : AddrOpen(h, j) \/ AddrDone(h, j) => at = h
      /\ \A h, s : Under(h, s) => at = h
      /\ CountOpen => at = "read"
      /\ Started => at = "user"
      /\ \A j : DataOpen(j) => at = "write"
  BY DEF Order, Under, Answer, Has, Accepted, AddrOpen, AddrDone, CountOpen, Started, DataOpen
<1>3. ~TalksRest
  BY <1>1, <1>2 DEF TalksRest
<1>4. ~TalksWipe
  BY <1>1, <1>2 DEF TalksWipe
<1>5. ASSUME NEW j \in 0 .. Blocks - 1, TalksBlock(j) PROVE TalksBlock(j)'
  <2>1. step = 4 + 3 * j /\ Taken(j)
    BY <1>1, <1>2, <1>5 DEF TalksBlock
  <2>2. (at' = "programming" /\ Taken(j)') \/ Answer(1)'
    BY <1>1, <2>1, BlockFlashing
  <2> QED BY <1>1, <2>1, <2>2 DEF TalksBlock
<1> QED BY <1>3, <1>4, <1>5 DEF TalksFlash

-----------------------------------------------------------------------------
(* The tool reads a reply, past its greeting. *)

LEMMA ReceiveTold ==
  ASSUME Orderly, Waits \/ Told \/ Busy, Receive
  PROVE  Told
<1>1. tosend = <<>> /\ \E r, rest : ReplyOf(r, rest, back')
  BY ReceiveFacts
<1>2. NoReply => Silent
  BY <1>1 DEF ReplyOf, NoReply
<1>3. ASSUME Busy PROVE FALSE
  BY <1>2, <1>3 DEF Busy, Silent, Gone
<1>4. ASSUME Waits PROVE FALSE
  <2>1. wire = <<>>
    BY <1>2, <1>4 DEF Waits, Silent
  <2>2. Stream = args
    BY <1>1, <2>1, StreamFacts, ThreeMore
  <2>3. Len(args) < Len(args) /\ Len(args) \in Nat
    BY <1>4, <2>2, StreamFacts DEF Waits, Unread
  <2> QED BY <2>3
<1> QED BY <1>3, <1>4

LEMMA ReceiveNotWaits ==
  ASSUME Orderly, Told
  PROVE  /\ \A c : ~Order(c)
         /\ \A h \in {"cmd", "erase"} : \A s : ~Under(h, s)
         /\ \A h \in {"write", "read", "go"} : \A j : ~AddrOpen(h, j)
         /\ \A j : ~DataOpen(j) /\ ~Taken(j)
         /\ ~CountOpen
<1>1. ~NoReply
  BY DEF Told
<1> QED BY <1>1 DEF Order, Under, AddrOpen, DataOpen, Taken, CountOpen

(* Nothing but an ACK lets a tool that waits for one go on.                *)
LEMMA AckedStep ==
  ASSUME Orderly, Receive, Acked, Wants = "ack", step >= 1
  PROVE  step' = step + 1 /\ step' >= 1
<1>1. PICK r, rest : ReplyOf(r, rest, back') /\ Looks(r, rest)
  BY ReceiveFacts
<1>2. r = ACK
  BY <1>1, HeadOf DEF ReplyOf, Acked
<1>3. Proceed(rest)
  BY <1>1, <1>2 DEF Looks, connectToTarget, wantAck, wantSlowAck, TakeReply
<1>4. step' = step + 1
  BY <1>3 DEF Proceed, Enter
<1> QED BY <1>4 DEF Orderly

LEMMA AckProceeds ==
  ASSUME NEW rest, Looks(ACK, rest), Wants \in {"ack", "slow"}
  PROVE  Proceed(rest)
<1>1. ACK # 0
  BY Codes
<1> QED BY <1>1 DEF Looks, connectToTarget, wantAck, wantSlowAck, TakeReply

(* One reply away, the others move up.                                     *)
LEMMA HasGoes ==
  ASSUME Orderly, Receive, NEW n \in Nat, n >= 1, Has(n)
  PROVE  \E r, rest :
            /\ Looks(r, rest) /\ r = Replied[1] /\ IsSeq(rest) /\ IsSeq(back')
            /\ Len(rest \o back') = n - 1
            /\ \A i \in 1 .. n - 1 : (rest \o back')[i] = Replied[i + 1]
<1>1. PICK r, rest : ReplyOf(r, rest, back') /\ Looks(r, rest)
  BY ReceiveFacts
<1>2. Queues
  BY DEF Orderly
<1>3. /\ IsSeq(rest) /\ IsSeq(back') /\ IsSeq(Replied)
      /\ Len(rest \o back') = IF Replied = <<>> THEN 0 ELSE Len(Replied) - 1
      /\ Replied # <<>> => r = Replied[1]
      /\ \A i \in 1 .. Len(Replied) - 1 : (rest \o back')[i] = Replied[i + 1]
  BY <1>1, <1>2, ReplyFacts
<1>4. PICK s, t : s = Replied /\ t = rest \o back'
  OBVIOUS
<1>5. Len(s) = n
  BY <1>4 DEF Has
<1>6. s # <<>>
  BY <1>5, NothingSeq
<1>7. Len(t) = n - 1 /\ r = s[1] /\ \A i \in 1 .. n - 1 : t[i] = s[i + 1]
  BY <1>3, <1>4, <1>5, <1>6, Zenon
<1> QED BY <1>1, <1>3, <1>4, <1>7

LEMMA HasOn ==
  ASSUME NEW m, NEW rest, Len(rest \o back') = m, at = "cmd", args = <<>>, Sent,
         tosend' = <<>>, pending' = rest, UNCHANGED <<wire, at, args>>
  PROVE  Has(m)' /\ Replied' = rest \o back'
<1>1. Replied' = rest \o back'
  BY DEF Replied
<1> QED BY <1>1 DEF Has, Sent

(* Out of the last reply into the next command.                            *)
LEMMA HasOrders ==
  ASSUME Orderly, Receive, at = "cmd", args = <<>>, Sent, NEW rest, Proceed(rest),
         IsSeq(rest), IsSeq(back'), Len(rest \o back') = 0,
         step + 1 \in 1 .. Len(Script), NEW c \in 0 .. 255, Script[step + 1] = Cmd(c)
  PROVE  step' = step + 1 /\ Order(c)'
<1>1. UNCHANGED <<wire, at, args>>
  BY ReceiveFacts
<1>2. /\ Script[step + 1].bytes = <<c, 255 - c>> /\ Script[step + 1].wants = "ack"
      /\ Len(Script[step + 1].bytes) = 2
  BY CmdFacts
<1>3. step' = step + 1 /\ tosend' = <<c, 255 - c>> /\ pending' = <<>>
  BY <1>2, ProceedFacts
<1>4. back' = <<>>
  <2>1. Len(rest) + Len(back') = 0 /\ Len(rest) \in Nat /\ Len(back') \in Nat
    BY JoinFacts, SeqFacts
  <2>2. Len(back') = 0
    BY <2>1
  <2> QED BY <2>2, SeqFacts
<1>5. PICK u : u = <<c, 255 - c>>
  OBVIOUS
<1>6. IsSeq(u) /\ Len(u) = 2
  BY <1>5, TwoOf
<1>7. Stream' = u
  <2>1. <<>> \o u = u /\ <<>> \o <<>> = <<>>
    BY <1>6, NothingSeq, SeqFacts
  <2> QED BY <1>1, <1>3, <1>5, <2>1 DEF Stream, Sent
<1>8. Len(args') = 0 /\ Len(Stream') = 2
  BY <1>1, <1>6, <1>7, NothingSeq
<1>9. Unread'
  BY <1>8 DEF Unread
<1> QED BY <1>1, <1>3, <1>4, <1>5, <1>7, <1>9 DEF Order, Under, NoReply

-----------------------------------------------------------------------------
(* A reply is read: the next one, or the next entry. *)

LEMMA AnswerOrders ==
  ASSUME Orderly, Receive, Answer(1), Wants = "ack", step + 1 \in 1 .. Len(Script),
         NEW c \in 0 .. 255, Script[step + 1] = Cmd(c)
  PROVE  step' = step + 1 /\ Order(c)'
<1>1. PICK r, rest : /\ Looks(r, rest) /\ r = Replied[1] /\ IsSeq(rest) /\ IsSeq(back')
                     /\ Len(rest \o back') = 1 - 1
  BY HasGoes DEF Answer
<1>2. Proceed(rest) /\ Len(rest \o back') = 0
  BY <1>1, AckProceeds DEF Answer
<1>3. at = "cmd" /\ args = <<>> /\ Sent
  BY DEF Answer, Has
<1> QED BY <1>1, <1>2, <1>3, HasOrders

LEMMA AnswerGoes ==
  ASSUME Orderly, Receive, NEW n \in Nat, n >= 1, Answer(n), Wants = "ack",
         step + 1 \in 1 .. Len(Script), Script[step + 1].bytes = <<>>
  PROVE  /\ step' = step + 1 /\ left' = Script[step + 1].n /\ Has(n - 1)'
         /\ \A i \in 1 .. n - 1 : Replied'[i] = Replied[i + 1]
<1>1. Has(n) /\ Replied[1] = ACK
  BY DEF Answer
<1>2. PICK r, rest : /\ Looks(r, rest) /\ r = Replied[1] /\ IsSeq(rest) /\ IsSeq(back')
                     /\ Len(rest \o back') = n - 1
                     /\ \A i \in 1 .. n - 1 : (rest \o back')[i] = Replied[i + 1]
  BY <1>1, HasGoes
<1>3. Proceed(rest)
  BY <1>1, <1>2, AckProceeds
<1>4. step' = step + 1 /\ left' = Script[step + 1].n /\ tosend' = <<>> /\ pending' = rest
  BY <1>3, ProceedFacts
<1>5. at = "cmd" /\ args = <<>> /\ Sent /\ UNCHANGED <<wire, at, args>>
  BY <1>1, ReceiveFacts DEF Has
<1>6. PICK m : m = n - 1
  OBVIOUS
<1>7. Has(m)' /\ Replied' = rest \o back'
  BY <1>2, <1>4, <1>5, <1>6, HasOn
<1> QED BY <1>2, <1>4, <1>6, <1>7

LEMMA BytesOn ==
  ASSUME Orderly, Receive, NEW n \in Nat, n >= 1, Has(n), Wants = "bytes", left \in Int, left > 1
  PROVE  /\ step' = step /\ left' = left - 1 /\ Has(n - 1)'
         /\ \A i \in 1 .. n - 1 : Replied'[i] = Replied[i + 1]
<1>1. PICK r, rest : /\ Looks(r, rest) /\ r = Replied[1] /\ IsSeq(rest) /\ IsSeq(back')
                     /\ Len(rest \o back') = n - 1
                     /\ \A i \in 1 .. n - 1 : (rest \o back')[i] = Replied[i + 1]
  BY HasGoes
<1>2. ~(left <= 1)
  OBVIOUS
<1>3. left' = left - 1 /\ pending' = rest /\ UNCHANGED <<step, tosend>>
  BY <1>1, <1>2, BytesLooks
<1>4. at = "cmd" /\ args = <<>> /\ Sent /\ UNCHANGED <<wire, at, args>> /\ tosend' = <<>>
  BY <1>3, ReceiveFacts DEF Has, Sent
<1>5. PICK m : m = n - 1
  OBVIOUS
<1>6. Has(m)' /\ Replied' = rest \o back'
  BY <1>1, <1>3, <1>4, <1>5, HasOn
<1> QED BY <1>1, <1>3, <1>5, <1>6

LEMMA BytesEnd ==
  ASSUME Orderly, Receive, NEW n \in Nat, n >= 1, Has(n), Wants = "bytes", left = 1,
         step + 1 \in 1 .. Len(Script), Script[step + 1].bytes = <<>>
  PROVE  /\ step' = step + 1 /\ Has(n - 1)'
         /\ \A i \in 1 .. n - 1 : Replied'[i] = Replied[i + 1]
<1>1. PICK r, rest : /\ Looks(r, rest) /\ r = Replied[1] /\ IsSeq(rest) /\ IsSeq(back')
                     /\ Len(rest \o back') = n - 1
                     /\ \A i \in 1 .. n - 1 : (rest \o back')[i] = Replied[i + 1]
  BY HasGoes
<1>2. ~(left > 1)
  OBVIOUS
<1>3. Proceed(rest)
  BY <1>1, <1>2, BytesLooks
<1>4. step' = step + 1 /\ tosend' = <<>> /\ pending' = rest
  BY <1>3, ProceedFacts
<1>5. at = "cmd" /\ args = <<>> /\ Sent /\ UNCHANGED <<wire, at, args>>
  BY ReceiveFacts DEF Has
<1>6. PICK m : m = n - 1
  OBVIOUS
<1>7. Has(m)' /\ Replied' = rest \o back'
  BY <1>1, <1>4, <1>5, <1>6, HasOn
<1> QED BY <1>1, <1>4, <1>6, <1>7

LEMMA BytesOrder ==
  ASSUME Orderly, Receive, Has(1), Wants = "bytes", left = 1,
         step + 1 \in 1 .. Len(Script), NEW c \in 0 .. 255, Script[step + 1] = Cmd(c)
  PROVE  step' = step + 1 /\ Order(c)'
<1>1. PICK r, rest : /\ Looks(r, rest) /\ IsSeq(rest) /\ IsSeq(back')
                     /\ Len(rest \o back') = 1 - 1
  BY HasGoes
<1>2. ~(left > 1)
  OBVIOUS
<1>3. Proceed(rest) /\ Len(rest \o back') = 0
  BY <1>1, <1>2, BytesLooks
<1>4. at = "cmd" /\ args = <<>> /\ Sent
  BY DEF Has
<1> QED BY <1>1, <1>3, <1>4, HasOrders

-----------------------------------------------------------------------------
(* "flash" receives. *)

LEMMA BlockReceive ==
  ASSUME Orderly, tool = "flash", NEW j \in 0 .. Blocks - 1, TalksBlock(j), Told, Receive
  PROVE  step' >= 1 /\ TalksFlash'
<1>1. /\ Script[2 + 3 * j] = Cmd(WRITE)
      /\ Script[3 + 3 * j] = Entry(AddressOf(j), "ack", 0)
      /\ Script[4 + 3 * j] = Entry(DataOf(j), "ack", 0)
      /\ j + 1 < Blocks => Script[5 + 3 * j] = Cmd(WRITE)
      /\ j + 1 = Blocks => Script[5 + 3 * j] = Cmd(READ) /\ 5 + 3 * j = 2 + After
      /\ Len(Script) = 7 + After /\ After \in Nat
      /\ j \in Nat /\ 5 + 3 * j <= 2 + After
  BY FlashEntry
<1>2. /\ ~Order(WRITE) /\ ~AddrOpen("write", j) /\ ~DataOpen(j) /\ ~Taken(j)
  BY ReceiveNotWaits
<1>3. step \in {2 + 3 * j, 3 + 3 * j, 4 + 3 * j}
  BY DEF TalksBlock
<1>4. step >= 1 /\ step + 1 \in 1 .. Len(Script)
  BY <1>1, <1>3
<1>5. Wants = "ack"
  <2>1. CASE step = 2 + 3 * j
    <3>1. Script[step] = Cmd(WRITE)
      BY <1>1, <2>1
    <3> QED BY <3>1, CmdWants
  <2>2. CASE step = 3 + 3 * j
    <3>1. Script[step] = Entry(AddressOf(j), "ack", 0)
      BY <1>1, <2>2
    <3> QED BY <3>1, EntryWants
  <2>3. CASE step = 4 + 3 * j
    <3>1. Script[step] = Entry(DataOf(j), "ack", 0)
      BY <1>1, <2>3
    <3> QED BY <3>1, EntryWants
  <2> QED BY <1>3, <2>1, <2>2, <2>3
<1>6. CASE step = 2 + 3 * j
  <2>1. Accepted("write")
    BY <1>1, <1>2, <1>6 DEF TalksBlock
  <2>2. step' >= 1
    BY <1>4, <1>5, <2>1, AckedStep DEF Accepted
  <2>3. step + 1 = 3 + 3 * j
    BY <1>6
  <2>4. Script[step + 1] = Entry(AddressOf(j), "ack", 0)
    BY <1>1, <2>3
  <2>5. step' = step + 1 /\ AddrOpen("write", j)'
    BY <1>4, <1>5, <2>1, <2>2, <2>4, GoAddress
  <2>6. TalksBlock(j)'
    BY <2>3, <2>5 DEF TalksBlock
  <2> QED BY <2>2, <2>6 DEF TalksFlash
<1>7. CASE step = 3 + 3 * j
  <2>1. AddrDone("write", j)
    BY <1>1, <1>2, <1>7 DEF TalksBlock
  <2>2. step' >= 1
    BY <1>4, <1>5, <2>1, AckedStep DEF AddrDone
  <2>3. step + 1 = 4 + 3 * j
    BY <1>7
  <2>4. Script[step + 1] = Entry(DataOf(j), "ack", 0)
    BY <1>1, <2>3
  <2>5. /\ step' = step + 1 /\ NoReply' /\ at' = "write" /\ Len(args') >= 5
        /\ Stream' = AddressOf(j) \o DataOf(j)
    BY <1>4, <1>5, <2>1, <2>2, <2>4, GoData
  <2>6. DataOpen(j)'
    BY <2>5 DEF DataOpen
  <2>7. Len(args') = 5 /\ Len(Stream') = 7 + BlockLen
    <3>1. args' = AddressOf(j)
      BY <2>1, ReceiveFacts DEF AddrDone
    <3>2. Len(args') = 5
      BY <3>1, AddressFacts
    <3>3. Len(AddressOf(j) \o DataOf(j)) = 7 + BlockLen
      BY WholeBlock DEF Whole
    <3> QED BY <2>5, <3>2, <3>3
  <2>8. Unread'
    BY <2>7, ImageSize DEF Unread
  <2>9. TalksBlock(j)'
    BY <2>3, <2>5, <2>6, <2>8 DEF TalksBlock
  <2> QED BY <2>2, <2>9 DEF TalksFlash
<1>8. CASE step = 4 + 3 * j
  <2>1. Answer(1)
    BY <1>1, <1>2, <1>8 DEF TalksBlock
  <2>2. step + 1 = 5 + 3 * j
    BY <1>8
  <2>3. CASE j + 1 < Blocks
    <3>1. step' = step + 1 /\ Order(WRITE)'
      <4>1. Script[step + 1] = Cmd(WRITE) /\ WRITE \in 0 .. 255
        BY <1>1, <2>2, <2>3, Codes
      <4> QED BY <1>4, <1>5, <2>1, <4>1, AnswerOrders
    <3>2. step' = 2 + 3 * (j + 1) /\ j + 1 \in 0 .. Blocks - 1
      BY <2>2, <2>3, <3>1, ImageSize
    <3>3. TalksBlock(j + 1)'
      BY <3>1, <3>2 DEF TalksBlock
    <3>4. step' >= 1
      BY <1>4, <3>1
    <3> QED BY <3>2, <3>3, <3>4 DEF TalksFlash
  <2>4. CASE j + 1 = Blocks
    <3>1. step' = step + 1 /\ Order(READ)'
      <4>1. Script[step + 1] = Cmd(READ) /\ READ \in 0 .. 255
        BY <1>1, <2>2, <2>4, Codes
      <4> QED BY <1>4, <1>5, <2>1, <4>1, AnswerOrders
    <3>2. step' = 2 + After
      BY <1>1, <2>2, <2>4, <3>1
    <3>3. TalksRest'
      BY <3>1, <3>2 DEF TalksRest
    <3>4. step' >= 1
      BY <1>4, <3>1
    <3> QED BY <3>3, <3>4 DEF TalksFlash
  <2>5. j + 1 < Blocks \/ j + 1 = Blocks
    BY ImageSize
  <2> QED BY <2>3, <2>4, <2>5
<1> QED BY <1>3, <1>6, <1>7, <1>8

LEMMA RestReceive ==
  ASSUME Orderly, tool = "flash", TalksRest, Told, Receive
  PROVE  step' >= 1 /\ (TalksRest' \/ step' = Len(Script) + 1)
<1>1. /\ Script[2 + After] = Cmd(READ)
      /\ Script[3 + After] = Entry(AddressOf(0), "ack", 0)
      /\ Script[4 + After] = Entry(<<3, 252>>, "ack", 0)
      /\ Script[5 + After] = Take(4)
      /\ Script[6 + After] = Cmd(GO)
      /\ Script[7 + After] = Entry(AddressOf(0), "ack", 0)
      /\ Len(Script) = 7 + After /\ After \in Nat
  BY FlashLast
<1>2. /\ ~Order(READ) /\ ~Order(GO) /\ ~AddrOpen("read", 0) /\ ~AddrOpen("go", 0) /\ ~CountOpen
  BY ReceiveNotWaits
<1>3. step \in {2 + After, 3 + After, 4 + After, 5 + After, 6 + After, 7 + After}
  BY DEF TalksRest
<1>4. step >= 1 /\ step \in Int
  BY <1>1, <1>3
<1>5. CASE step = 2 + After
  <2>1. Wants = "ack"
    BY <1>1, <1>5, CmdWants
  <2>2. Accepted("read")
    BY <1>1, <1>2, <1>5 DEF TalksRest
  <2>3. step' >= 1
    BY <1>4, <2>1, <2>2, AckedStep DEF Accepted
  <2>4. step + 1 = 3 + After /\ step + 1 \in 1 .. Len(Script)
    BY <1>1, <1>5
  <2>5. step' = step + 1 /\ AddrOpen("read", 0)'
    BY <1>1, <1>4, <2>1, <2>2, <2>3, <2>4, GoAddress
  <2> QED BY <2>3, <2>4, <2>5 DEF TalksRest
<1>6. CASE step = 3 + After
  <2>1. Wants = "ack"
    BY <1>1, <1>6, EntryWants
  <2>2. AddrDone("read", 0)
    BY <1>1, <1>2, <1>6 DEF TalksRest
  <2>3. step' >= 1
    BY <1>4, <2>1, <2>2, AckedStep DEF AddrDone
  <2>4. step + 1 = 4 + After /\ step + 1 \in 1 .. Len(Script)
    BY <1>1, <1>6
  <2>5. PICK d : d = <<3, 252>>
    OBVIOUS
  <2>6. Script[step + 1] = Entry(d, "ack", 0)
    BY <1>1, <2>4, <2>5
  <2>7. /\ step' = step + 1 /\ NoReply' /\ at' = "read" /\ Len(args') >= 5
        /\ Stream' = AddressOf(0) \o d
    BY <1>4, <2>1, <2>2, <2>3, <2>4, <2>6, GoData
  <2>8. CountOpen'
    <3>1. Stream' = AddressOf(0) \o <<3, 252>>
      BY <2>5, <2>7, Zenon
    <3> QED BY <2>7, <3>1 DEF CountOpen
  <2>9. Unread'
    <3>1. Len(args') = 5
      BY <2>2, ReceiveFacts, AddressFacts DEF AddrDone
    <3>2. Len(Stream') = 7
      <4>1. IsSeq(d) /\ Len(d) = 2
        BY <2>5, TwoOf
      <4>2. PICK a : a = AddressOf(0)
        OBVIOUS
      <4>3. IsSeq(a) /\ Len(a) = 5
        BY <4>2, AddressFacts
      <4>4. IsSeq(a) /\ IsSeq(d)
        BY <4>1, <4>3
      <4>5. Len(a \o d) = Len(a) + Len(d)
        BY <4>4, JoinFacts
      <4>6. Len(a \o d) = 7
        BY <4>1, <4>3, <4>5
      <4> QED BY <2>7, <4>2, <4>6
    <3> QED BY <3>1, <3>2 DEF Unread
  <2> QED BY <2>3, <2>4, <2>7, <2>8, <2>9 DEF TalksRest
<1>7. CASE step = 4 + After
  <2>1. Wants = "ack"
    BY <1>1, <1>7, EntryWants
  <2>2. Answer(5)
    BY <1>1, <1>2, <1>7 DEF TalksRest
  <2>3. step + 1 = 5 + After /\ step + 1 \in 1 .. Len(Script)
    BY <1>1, <1>7
  <2>4. Script[step + 1].bytes = <<>> /\ Script[step + 1].n = 4
    BY <1>1, <2>3, RestFacts
  <2>5. step' = step + 1 /\ left' = Script[step + 1].n /\ Has(5 - 1)'
    BY <2>1, <2>2, <2>3, <2>4, AnswerGoes
  <2>6. left' = 4 /\ Has(4)' /\ step' = 5 + After
    BY <2>3, <2>4, <2>5
  <2>7. left' \in 1 .. 4
    BY <2>6
  <2> QED BY <1>1, <2>6, <2>7 DEF TalksRest, Has
<1>8. CASE step = 5 + After
  <2>1. Wants = "bytes"
    BY <1>1, <1>8, RestFacts DEF Wants
  <2>2. left \in 1 .. 4 /\ Has(left)
    BY <1>1, <1>8 DEF TalksRest
  <2>3. PICK n \in 1 .. 4 : n = left /\ Has(n)
    BY <2>2
  <2>4. CASE n > 1
    <3>1. step' = step /\ left' = left - 1 /\ Has(n - 1)'
      BY <2>1, <2>3, <2>4, BytesOn
    <3>2. left' = n - 1 /\ left' \in 1 .. 4 /\ step' = 5 + After
      BY <1>8, <2>3, <2>4, <3>1
    <3> QED BY <1>1, <3>1, <3>2 DEF TalksRest, Has
  <2>5. CASE n = 1
    <3>1. step + 1 = 6 + After /\ step + 1 \in 1 .. Len(Script) /\ GO \in 0 .. 255
      BY <1>1, <1>8, Codes
    <3>2. step' = step + 1 /\ Order(GO)'
      BY <1>1, <2>1, <2>3, <2>5, <3>1, BytesOrder
    <3> QED BY <1>4, <3>1, <3>2 DEF TalksRest
  <2> QED BY <2>3, <2>4, <2>5
<1>9. CASE step = 6 + After
  <2>1. Wants = "ack"
    BY <1>1, <1>9, CmdWants
  <2>2. Accepted("go")
    BY <1>1, <1>2, <1>9 DEF TalksRest
  <2>3. step' >= 1
    BY <1>4, <2>1, <2>2, AckedStep DEF Accepted
  <2>4. step + 1 = 7 + After /\ step + 1 \in 1 .. Len(Script)
    BY <1>1, <1>9
  <2>5. step' = step + 1 /\ AddrOpen("go", 0)'
    BY <1>1, <1>4, <2>1, <2>2, <2>3, <2>4, GoAddress
  <2> QED BY <2>3, <2>4, <2>5 DEF TalksRest
<1>10. CASE step = 7 + After
  <2>1. Wants = "ack"
    BY <1>1, <1>10, EntryWants
  <2>2. Acked
    BY <1>1, <1>2, <1>10 DEF TalksRest, Started
  <2>3. step' >= 1 /\ step' = step + 1
    BY <1>4, <2>1, <2>2, AckedStep
  <2> QED BY <1>1, <1>10, <2>3
<1> QED BY <1>3, <1>5, <1>6, <1>7, <1>8, <1>9, <1>10

(* "wipe" receives. *)

WipeEntries ==
  /\ Len(Script) = 8 /\ Script[1] = Connect
  /\ Script[2] = Cmd(GETVER) /\ Script[3] = Take(3) /\ Script[4] = WantAck
  /\ Script[5] = Cmd(ERASE) /\ Script[6] = Entry(Pages01, "ack", 0)
  /\ Script[7] = Cmd(ERASE) /\ Script[8] = Entry(<<255, 255>>, "slow", 0)

LEMMA WipeScript == tool = "wipe" => WipeEntries
<1> SUFFICES ASSUME tool = "wipe" PROVE WipeEntries
  OBVIOUS
<1>1. Script = (<<Connect>> \o ErasePages) \o massErase
  BY DEF Script, Scripts
<1>2. PICK c, e, m : c = <<Connect>> /\ e = ErasePages /\ m = massErase
  OBVIOUS
<1>3. IsSeq(c) /\ Len(c) = 1 /\ c[1] = Connect
  BY <1>2, Singleton
<1>4. /\ IsSeq(e) /\ Len(e) = 5 /\ e[1] = Cmd(GETVER) /\ e[2] = Take(3) /\ e[3] = WantAck
      /\ e[4] = Cmd(ERASE) /\ e[5] = Entry(Pages01, "ack", 0)
  <2>1. PICK a1, a2, a3, a4, a5 :
          /\ a1 = Cmd(GETVER) /\ a2 = Take(3) /\ a3 = WantAck /\ a4 = Cmd(ERASE)
          /\ a5 = Entry(Pages01, "ack", 0)
    OBVIOUS
  <2>2. e = <<a1, a2, a3, a4, a5>>
    BY <1>2, <2>1, Zenon DEF ErasePages, Pages01
  <2>3. e \in Seq({a1, a2, a3, a4, a5}) /\ Len(e) = 5
        /\ e[1] = a1 /\ e[2] = a2 /\ e[3] = a3 /\ e[4] = a4 /\ e[5] = a5
    BY <2>2
  <2>4. IsSeq(e)
    BY <2>3, SeqIn
  <2> QED BY <2>1, <2>3, <2>4
<1>5. IsSeq(m) /\ Len(m) = 2 /\ m[1] = Cmd(ERASE) /\ m[2] = Entry(<<255, 255>>, "slow", 0)
  BY <1>2, TwoOf DEF massErase
<1>6. PICK a : a = c \o e
  OBVIOUS
<1>7. IsSeq(a) /\ Len(a) = 6 /\ PartAt(a, 0, c) /\ PartAt(a, 1, e)
  <2>1. IsSeq(a) /\ Len(a) = 1 + 5 /\ PartAt(a, 0, c) /\ PartAt(a, 1, e)
    BY <1>3, <1>4, <1>6, JoinParts, Zenon
  <2> QED BY <2>1
<1>8. PICK b : b = a \o m
  OBVIOUS
<1>9. Len(b) = 8 /\ PartAt(b, 0, a) /\ PartAt(b, 6, m)
  <2>1. IsSeq(a) /\ IsSeq(m) /\ Len(a) = 6 /\ Len(m) = 2
    BY <1>5, <1>7
  <2>2. /\ Len(a \o m) = Len(a) + Len(m)
        /\ PartAt(a \o m, 0, a) /\ PartAt(a \o m, Len(a), m)
    BY <2>1, JoinParts, Zenon
  <2>3. Len(b) = 6 + 2 /\ PartAt(b, 0, a) /\ PartAt(b, 6, m)
    BY <1>8, <2>1, <2>2, Zenon
  <2> QED BY <2>3
<1>10. Script = b
  BY <1>1, <1>2, <1>6, <1>8, Zenon
<1>11. a[0 + 1] = c[1]
  BY <1>3, <1>7 DEF PartAt
<1>12. a[1 + 1] = e[1] /\ a[1 + 2] = e[2] /\ a[1 + 3] = e[3] /\ a[1 + 4] = e[4] /\ a[1 + 5] = e[5]
  BY <1>4, <1>7 DEF PartAt
<1>13. /\ b[0 + 1] = a[1] /\ b[0 + 2] = a[2] /\ b[0 + 3] = a[3] /\ b[0 + 4] = a[4]
       /\ b[0 + 5] = a[5] /\ b[0 + 6] = a[6]
  BY <1>7, <1>9 DEF PartAt
<1>14. b[6 + 1] = m[1] /\ b[6 + 2] = m[2]
  BY <1>5, <1>9 DEF PartAt
<1>15. /\ b[1] = c[1] /\ b[2] = e[1] /\ b[3] = e[2] /\ b[4] = e[3] /\ b[5] = e[4] /\ b[6] = e[5]
       /\ b[7] = m[1] /\ b[8] = m[2]
  BY <1>11, <1>12, <1>13, <1>14
<1> QED BY <1>3, <1>4, <1>5, <1>9, <1>10, <1>15, Zenon DEF WipeEntries

LEMMA GoErase ==
  ASSUME Orderly, Receive, Accepted("erase"), Wants = "ack", step >= 1,
         step + 1 \in 1 .. Len(Script), NEW s, Script[step + 1].bytes = s, IsSeq(s), Len(s) >= 1
  PROVE  step' = step + 1 /\ Under("erase", s)'
<1>1. at = "erase" /\ args = <<>> /\ wire = <<>> /\ Acked
  BY DEF Accepted, Sent
<1>2. step' >= 1
  BY <1>1, AckedStep
<1>3. /\ step' = step + 1 /\ NoReply' /\ UNCHANGED <<wire, at, args>>
      /\ tosend' = s
  BY <1>1, <1>2, AckedGoes
<1>4. Stream' = s
  <2>1. <<>> \o s = s /\ <<>> \o <<>> = <<>>
    BY NothingSeq, SeqFacts
  <2> QED BY <1>1, <1>3, <2>1 DEF Stream
<1>5. Len(args') = 0
  BY <1>1, <1>3, NothingSeq
<1>6. Unread'
  BY <1>4, <1>5, SeqFacts DEF Unread
<1> QED BY <1>1, <1>3, <1>4, <1>6 DEF Under

LEMMA PagesSeq == IsSeq(Pages01) /\ Len(Pages01) >= 1
<1>1. IsSeq(Pages01)
  <2>1. IsSeq(<<1, 0, 1>>)
    BY ThreeOf
  <2> QED BY <2>1, CheckedFacts DEF Pages01
<1>2. PICK n : n = Len(Pages01)
  OBVIOUS
<1>3. n = 3 + 1
  BY <1>2, PagesEnds DEF PagesEnd
<1> QED BY <1>1, <1>2, <1>3

LEMMA WipeReceive ==
  ASSUME Orderly, tool = "wipe", TalksWipe, Told, Receive
  PROVE  step' >= 1 /\ (TalksWipe' \/ step' = Len(Script) + 1)
<1>1. /\ Len(Script) = 8
      /\ Script[2] = Cmd(GETVER) /\ Script[3] = Take(3) /\ Script[4] = WantAck
      /\ Script[5] = Cmd(ERASE) /\ Script[6] = Entry(Pages01, "ack", 0)
      /\ Script[7] = Cmd(ERASE) /\ Script[8] = Entry(<<255, 255>>, "slow", 0)
  BY WipeScript DEF WipeEntries
<1>2. /\ ~Order(GETVER) /\ ~Order(ERASE)
      /\ ~Under("erase", Pages01) /\ ~Under("erase", <<255, 255>>)
  BY ReceiveNotWaits
<1>3. step \in {2, 3, 4, 5, 6, 7, 8} /\ ERASE \in 0 .. 255
  BY Codes DEF TalksWipe
<1>4. CASE step = 2
  <2>1. Wants = "ack"
    BY <1>1, <1>4, CmdWants
  <2>2. Answer(5) /\ Replied[5] = ACK
    BY <1>2, <1>4 DEF TalksWipe
  <2>3. step + 1 = 3 /\ step + 1 \in 1 .. Len(Script)
    BY <1>1, <1>4
  <2>4. Script[step + 1].bytes = <<>> /\ Script[step + 1].n = 3
    BY <1>1, <2>3, RestFacts
  <2>5. /\ step' = step + 1 /\ left' = Script[step + 1].n /\ Has(5 - 1)'
        /\ \A i \in 1 .. 5 - 1 : Replied'[i] = Replied[i + 1]
    BY <2>1, <2>2, <2>3, <2>4, AnswerGoes
  <2>6. left' = 3 /\ step' = 3 /\ Has(4)' /\ Replied'[4] = Replied[4 + 1]
    BY <2>3, <2>4, <2>5
  <2>7. left' \in 1 .. 3 /\ Replied'[4] = ACK /\ left' + 1 = 4
    BY <2>2, <2>6
  <2> QED BY <2>6, <2>7 DEF TalksWipe, Has
<1>5. CASE step = 3
  <2>1. Wants = "bytes"
    BY <1>1, <1>5, RestFacts DEF Wants
  <2>2. PICK n \in 1 .. 3 : n = left /\ Has(n + 1) /\ Replied[n + 1] = ACK
    BY <1>5 DEF TalksWipe
  <2>3. PICK m \in Nat : m = n + 1 /\ Has(m) /\ m >= 1
    BY <2>2
  <2>4. CASE n > 1
    <3>1. /\ step' = step /\ left' = left - 1 /\ Has(m - 1)'
          /\ \A i \in 1 .. m - 1 : Replied'[i] = Replied[i + 1]
      BY <2>1, <2>2, <2>3, <2>4, BytesOn
    <3>2. left' + 1 = n /\ m - 1 = n /\ left' \in 1 .. 3 /\ n \in 1 .. m - 1
      BY <2>2, <2>3, <2>4, <3>1
    <3>3. Has(n)' /\ Replied'[n] = ACK
      BY <2>2, <3>1, <3>2
    <3> QED BY <1>5, <3>1, <3>2, <3>3 DEF TalksWipe, Has
  <2>5. CASE n = 1
    <3>1. step + 1 = 4 /\ step + 1 \in 1 .. Len(Script)
      BY <1>1, <1>5
    <3>2. Script[step + 1].bytes = <<>>
      BY <1>1, <3>1, RestFacts
    <3>3. /\ step' = step + 1 /\ Has(m - 1)'
          /\ \A i \in 1 .. m - 1 : Replied'[i] = Replied[i + 1]
      BY <2>1, <2>2, <2>3, <2>5, <3>1, <3>2, BytesEnd
    <3>4. m - 1 = 1 /\ 1 \in 1 .. m - 1 /\ 1 + 1 = n + 1
      BY <2>3, <2>5
    <3>5. Has(1)' /\ Replied'[1] = ACK
      BY <2>2, <3>3, <3>4
    <3>6. Answer(1)'
      BY <3>5 DEF Answer
    <3> QED BY <3>1, <3>3, <3>6 DEF TalksWipe
  <2> QED BY <2>2, <2>4, <2>5
<1>6. CASE step \in {4, 6}
  <2>1. Wants = "ack"
    BY <1>1, <1>6, RestFacts, EntryFacts DEF Wants
  <2>2. Answer(1)
    BY <1>2, <1>6 DEF TalksWipe
  <2>3. step + 1 \in {5, 7} /\ step + 1 \in 1 .. Len(Script)
    BY <1>1, <1>6
  <2>4. step' = step + 1 /\ Order(ERASE)'
    BY <1>1, <1>3, <2>1, <2>2, <2>3, AnswerOrders
  <2> QED BY <2>3, <2>4 DEF TalksWipe
<1>7. CASE step = 5
  <2>1. Wants = "ack"
    BY <1>1, <1>7, CmdWants
  <2>2. Accepted("erase")
    BY <1>2, <1>7 DEF TalksWipe
  <2>3. step + 1 = 6 /\ step + 1 \in 1 .. Len(Script)
    BY <1>1, <1>7
  <2>4. Script[step + 1].bytes = Pages01
    BY <1>1, <2>3, EntryFacts
  <2>5. step' = step + 1 /\ Under("erase", Pages01)'
    BY <1>7, <2>1, <2>2, <2>3, <2>4, PagesSeq, GoErase
  <2> QED BY <2>3, <2>5 DEF TalksWipe
<1>8. CASE step = 7
  <2>1. Wants = "ack"
    BY <1>1, <1>8, CmdWants
  <2>2. Accepted("erase")
    BY <1>2, <1>8 DEF TalksWipe
  <2>3. step + 1 = 8 /\ step + 1 \in 1 .. Len(Script)
    BY <1>1, <1>8
  <2>4. PICK s : s = <<255, 255>>
    OBVIOUS
  <2>5. Script[step + 1].bytes = s
    BY <1>1, <2>3, <2>4, EntryFacts
  <2>6. IsSeq(s) /\ Len(s) >= 1
    BY <2>4, TwoOf
  <2>7. step' = step + 1 /\ Under("erase", s)'
    BY <1>8, <2>1, <2>2, <2>3, <2>5, <2>6, GoErase
  <2>8. Under("erase", <<255, 255>>)'
    BY <2>4, <2>7, Zenon
  <2> QED BY <2>3, <2>7, <2>8 DEF TalksWipe
<1>9. CASE step = 8
  <2>1. Wants = "slow"
    BY <1>1, <1>9, EntryWants
  <2>2. Answer(1)
    BY <1>2, <1>9 DEF TalksWipe
  <2>3. PICK r, rest : /\ Looks(r, rest) /\ r = Replied[1] /\ IsSeq(rest) /\ IsSeq(back')
                       /\ Len(rest \o back') = 1 - 1
    BY <2>2, HasGoes DEF Answer
  <2>4. Proceed(rest)
    BY <2>1, <2>2, <2>3, AckProceeds DEF Answer
  <2>5. step' = step + 1
    BY <2>4 DEF Proceed, Enter
  <2> QED BY <1>1, <1>9, <2>5
<1> QED BY <1>3, <1>4, <1>5, <1>6, <1>7, <1>8, <1>9

-----------------------------------------------------------------------------
(* What a tool past its greeting waits for. *)

LEMMA FlashWants ==
  ASSUME tool = "flash", TalksFlash
  PROVE  step >= 2 /\ Running /\ step # Done /\ Wants # "any"
<1>1. CASE TalksRest
  <2>1. /\ Script[2 + After] = Cmd(READ)
        /\ Script[3 + After] = Entry(AddressOf(0), "ack", 0)
        /\ Script[4 + After] = Entry(<<3, 252>>, "ack", 0)
        /\ Script[5 + After] = Take(4)
        /\ Script[6 + After] = Cmd(GO)
        /\ Script[7 + After] = Entry(AddressOf(0), "ack", 0)
        /\ Len(Script) = 7 + After /\ After \in Nat
    BY FlashLast
  <2>2. step \in {2 + After, 3 + After, 4 + After, 5 + After, 6 + After, 7 + After}
    BY <1>1 DEF TalksRest
  <2>3. Wants \in {"ack", "bytes"}
    <3>1. CASE step \in {2 + After, 6 + After}
      <4>1. \E c : Script[step] = Cmd(c)
        BY <2>1, <3>1
      <4> QED BY <4>1, CmdWants
    <3>2. CASE step \in {3 + After, 4 + After, 7 + After}
      <4>1. \E d : Script[step] = Entry(d, "ack", 0)
        BY <2>1, <3>2
      <4> QED BY <4>1, EntryWants
    <3>3. CASE step = 5 + After
      BY <2>1, <3>3, RestFacts DEF Wants
    <3> QED BY <2>2, <3>1, <3>2, <3>3
  <2> QED BY <2>1, <2>2, <2>3 DEF Running, Done
<1>2. ASSUME NEW j \in 0 .. Blocks - 1, TalksBlock(j)
      PROVE  step >= 2 /\ Running /\ step # Done /\ Wants # "any"
  <2>1. /\ Script[2 + 3 * j] = Cmd(WRITE)
        /\ Script[3 + 3 * j] = Entry(AddressOf(j), "ack", 0)
        /\ Script[4 + 3 * j] = Entry(DataOf(j), "ack", 0)
        /\ Len(Script) = 7 + After /\ After \in Nat
        /\ j \in Nat /\ 5 + 3 * j <= 2 + After
    BY FlashEntry
  <2>2. step \in {2 + 3 * j, 3 + 3 * j, 4 + 3 * j}
    BY <1>2 DEF TalksBlock
  <2>3. Wants = "ack"
    <3>1. CASE step = 2 + 3 * j
      <4>1. Script[step] = Cmd(WRITE)
        BY <2>1, <3>1
      <4> QED BY <4>1, CmdWants
    <3>2. CASE step \in {3 + 3 * j, 4 + 3 * j}
      <4>1. \E d : Script[step] = Entry(d, "ack", 0)
        BY <2>1, <3>2
      <4> QED BY <4>1, EntryWants
    <3> QED BY <2>2, <3>1, <3>2
  <2> QED BY <2>1, <2>2, <2>3 DEF Running, Done
<1> QED BY <1>1, <1>2 DEF TalksFlash

LEMMA WipeWants ==
  ASSUME tool = "wipe", TalksWipe
  PROVE  step >= 2 /\ Running /\ step # Done /\ Wants # "any"
<1>1. /\ Len(Script) = 8
      /\ Script[2] = Cmd(GETVER) /\ Script[3] = Take(3) /\ Script[4] = WantAck
      /\ Script[5] = Cmd(ERASE) /\ Script[6] = Entry(Pages01, "ack", 0)
      /\ Script[7] = Cmd(ERASE) /\ Script[8] = Entry(<<255, 255>>, "slow", 0)
  BY WipeScript DEF WipeEntries
<1>2. step \in {2, 3, 4, 5, 6, 7, 8}
  BY DEF TalksWipe
<1>3. Wants \in {"ack", "bytes", "slow"}
  <2>1. CASE step \in {2, 5, 7}
    <3>1. \E c : Script[step] = Cmd(c)
      BY <1>1, <2>1
    <3> QED BY <3>1, CmdWants
  <2>2. CASE step \in {6, 8}
    <3>1. \E d : Script[step] = Entry(d, "ack", 0) \/ Script[step] = Entry(d, "slow", 0)
      BY <1>1, <2>2
    <3> QED BY <3>1, EntryWants
  <2>3. CASE step \in {3, 4}
    BY <1>1, <2>3, RestFacts DEF Wants
  <2> QED BY <1>2, <2>1, <2>2, <2>3
<1> QED BY <1>1, <1>2, <1>3 DEF Running, Done

(* The first entry, and the first command after it.                        *)
LEMMA FirstEntries ==
  ASSUME tool \in {"flash", "wipe"}, step = 1
  PROVE  /\ Wants = "any" /\ Running /\ step # Done /\ step + 1 \in 1 .. Len(Script)
         /\ tool = "flash" => IF Blocks = 0 THEN Script[step + 1] = Cmd(READ) /\ 2 = 2 + After
                                            ELSE Script[step + 1] = Cmd(WRITE) /\ 0 \in 0 .. Blocks - 1
         /\ tool = "wipe" => Script[step + 1] = Cmd(GETVER)
<1>1. step + 1 = 2
  OBVIOUS
<1>2. CASE tool = "flash"
  <2>1. Len(Script) = 7 + After /\ After \in Nat
    BY <1>2, FlashLast
  <2>2. /\ Wants = "any"
        /\ IF Blocks = 0 THEN Script[2] = Cmd(READ) /\ 2 = 2 + After
                         ELSE Script[2] = Cmd(WRITE) /\ 0 \in 0 .. Blocks - 1
    BY <1>2, GreetScript
  <2> QED BY <1>1, <1>2, <2>1, <2>2 DEF Running, Done
<1>3. CASE tool = "wipe"
  <2>1. Len(Script) = 8 /\ Script[1] = Connect /\ Script[2] = Cmd(GETVER)
    BY <1>3, WipeScript DEF WipeEntries
  <2>2. Wants = "any"
    BY <2>1, RestFacts DEF Wants
  <2> QED BY <1>1, <1>3, <2>1, <2>2 DEF Running, Done
<1> QED BY <1>2, <1>3

-----------------------------------------------------------------------------
(* The greeting of a tool that found the loader between two commands. *)

LEMMA GreetsLoader ==
  ASSUME Orderly, Greets, Loader, Running, ~held
  PROVE  Greets'
<1>1. /\ pending = <<>> /\ UNCHANGED <<tosend, pending>>
      /\ wire = <<>> => ~Prompt
  BY DEF Loader, Greets
<1>2. PICK b \in Byte : TakeByte(b)
  BY DEF Loader
<1>3. getByte(b) /\ ~Gone
  BY <1>2, TakeFacts DEF TakeByte, Gone
<1>4. wire = <<>> => b = 255 /\ wire' = <<>>
  BY <1>3 DEF getByte, Arrived, GaveUp
<1>5. wire = <<127>> => b = 127 /\ wire' = <<>>
  <2>1. wire = <<127>> => wire # <<>> /\ Head(wire) = 127 /\ Tail(wire) = <<>>
    BY HeadOf
  <2> QED BY <1>3, <2>1 DEF getByte, Arrived, GaveUp
<1>6. /\ back = <<>> /\ Put(<<ACK>>) => back' = <<ACK>>
      /\ back = <<>> /\ Put(<<NAK>>) => back' = <<NAK>>
  <2>1. <<>> \o <<NAK>> = <<NAK>> /\ <<>> \o <<ACK>> = <<ACK>>
    BY Singleton, SeqFacts
  <2> QED BY <2>1 DEF Put
<1>7. CASE tosend = <<127>> /\ at \in {"sync", "cmd"} /\ wire = <<>>
  <2>1. b = 255 /\ wire' = <<>>
    BY <1>4, <1>7
  <2>2. CASE at = "sync"
    <3>1. at' \in {"sync", "user"}
      BY <1>2, <2>1, <2>2, SyncStep DEF Resting
    <3> QED BY <1>1, <1>7, <2>1, <3>1 DEF Greets, Gone
  <2>3. CASE at = "cmd"
    <3>1. uploadHandler(b)
      BY <1>2, <2>3, AtCmd
    <3>2. \A c \in DOMAIN Handlers : b # 255 - c
      BY <2>1, Codes
    <3>3. at' = "cmd"
      BY <2>3, <3>1, <3>2 DEF uploadHandler, Collect, Goto
    <3> QED BY <1>1, <1>7, <2>1, <3>3 DEF Greets
  <2> QED BY <1>7, <2>2, <2>3
<1>8. CASE tosend = <<>> /\ back = <<>> /\ at \in {"sync", "cmd"} /\ wire = <<127>>
  <2>1. b = 127 /\ wire' = <<>>
    BY <1>5, <1>8
  <2>2. CASE at = "sync"
    <3>1. at' = "cmd" /\ args' = <<>> /\ Put(<<ACK>>)
      BY <1>2, <2>1, <2>2, SyncStep DEF Resting
    <3> QED BY <1>1, <1>6, <1>8, <2>1, <3>1 DEF Greets
  <2>3. CASE at = "cmd" /\ args = <<>>
    <3>1. uploadHandler(b)
      BY <1>2, <2>3, AtCmd
    <3>2. args' = <<127>> /\ at' = "cmd" /\ UNCHANGED back
      BY <2>1, <2>3, <3>1, HeadOf DEF uploadHandler, Collect
    <3> QED BY <1>1, <1>8, <2>1, <3>2 DEF Greets
  <2>4. CASE at = "cmd" /\ args # <<>>
    <3>1. at' = "cmd" /\ args' = <<>> /\ Put(<<NAK>>)
      BY <1>2, <2>1, <2>4, NoCommand
    <3> QED BY <1>1, <1>6, <1>8, <2>1, <3>1 DEF Greets
  <2> QED BY <1>8, <2>2, <2>3, <2>4
<1>9. CASE tosend = <<>> /\ back = <<>> /\ at = "cmd" /\ wire = <<>> /\ args = <<127>>
  <2>1. b = 255 /\ wire' = <<>>
    BY <1>4, <1>9
  <2>2. args # <<>> /\ args[1] = 127
    BY <1>9, HeadOf, Singleton
  <2>3. at' = "cmd" /\ args' = <<>> /\ Put(<<NAK>>)
    BY <1>2, <1>9, <2>1, <2>2, NoCommand
  <2> QED BY <1>1, <1>6, <1>9, <2>1, <2>3 DEF Greets
<1>10. ~(tosend = <<>> /\ wire = <<>> /\ back \in {<<ACK>>, <<NAK>>})
  BY <1>1, HeadOf DEF Prompt
<1> QED BY <1>3, <1>7, <1>8, <1>9, <1>10 DEF Greets

LEMMA GreetsSend ==
  ASSUME Orderly, Greets, Send, Wants = "any", faults \in Nat, faults' = 0, ~stale'
  PROVE  Greets'
<1>1. tosend # <<>> /\ UNCHANGED <<back, at, args, pending>>
  BY DEF Send
<1>2. pending = <<>> /\ tosend = <<127>> /\ (Gone \/ (at \in {"sync", "cmd"} /\ wire = <<>>))
  BY <1>1 DEF Greets
<1>3. back = <<>>
  <2>1. stale' = (stale \/ (Wants = "any" /\ back # <<>>))
    BY DEF Send
  <2> QED BY <2>1, Zenon
<1>4. wire' = wire \o tosend /\ tosend' = <<>>
  <2>1. faults + 1 # 0
    OBVIOUS
  <2> QED BY <2>1 DEF Send
<1>5. wire = <<>> => wire' = <<127>>
  <2>1. <<>> \o <<127>> = <<127>>
    BY Singleton, SeqFacts
  <2> QED BY <1>2, <1>4, <2>1
<1> QED BY <1>1, <1>2, <1>3, <1>4, <1>5 DEF Greets, Gone

LEMMA GreetsReceive ==
  ASSUME Orderly, tool \in {"flash", "wipe"}, step = 1, Greets, Receive
  PROVE  \/ step' = 1 /\ Greets'
         \/ step' = -1
         \/ tool = "flash" /\ step' = 2 /\ TalksFlash'
         \/ tool = "wipe" /\ step' = 2 /\ TalksWipe'
<1>1. UNCHANGED <<wire, at, args, tool>> /\ tosend = <<>>
  BY ReceiveFacts
<1>2. Wants = "any" /\ step + 1 \in 1 .. Len(Script)
  BY FirstEntries
<1>3. pending = <<>> /\ tosend # <<127>>
  BY <1>1, HeadOf DEF Greets
<1>4. CASE back = <<>>
  <2>1. PICK r, rest : ReplyOf(r, rest, back') /\ Looks(r, rest)
    BY ReceiveFacts
  <2>2. r = 0 /\ rest = <<>> /\ back' = <<>> /\ Silent
    BY <1>3, <1>4, <2>1 DEF ReplyOf
  <2>3. r \notin {ACK, NAK}
    BY <2>2, Codes
  <2>4. step' = -step \/ (tosend' = <<127>> /\ pending' = rest /\ step' = step)
    BY <1>2, <2>1, <2>3, AnyLooks
  <2>5. CASE tosend' = <<127>> /\ pending' = rest /\ step' = step
    <3>1. Gone \/ (at \in {"sync", "cmd"} /\ wire = <<>>)
      <4>1. <<ACK>> # <<>> /\ <<NAK>> # <<>> /\ <<127>> # <<>>
        BY HeadOf
      <4> QED BY <1>3, <1>4, <2>2, <4>1 DEF Greets, Silent
    <3> QED BY <1>1, <2>2, <2>5, <3>1 DEF Greets, Gone
  <2> QED BY <2>4, <2>5
<1>5. CASE back # <<>>
  <2>1. at = "cmd" /\ wire = <<>> /\ args = <<>> /\ back \in {<<ACK>>, <<NAK>>}
    BY <1>3, <1>5 DEF Greets
  <2>2. Has(1) /\ Replied[1] \in {ACK, NAK}
    <3>1. PICK s : s = back
      OBVIOUS
    <3>2. IsSeq(s) /\ Len(s) = 1 /\ s[1] \in {ACK, NAK}
      BY <2>1, <3>1, Singleton
    <3>3. <<>> \o s = s
      BY <3>2, SeqFacts
    <3>4. Replied = s
      BY <1>3, <3>1, <3>3 DEF Replied
    <3> QED BY <1>1, <2>1, <3>2, <3>4 DEF Has, Sent
  <2>3. PICK r, rest : /\ Looks(r, rest) /\ r = Replied[1] /\ IsSeq(rest) /\ IsSeq(back')
                       /\ Len(rest \o back') = 1 - 1
    BY <2>2, HasGoes
  <2>4. Proceed(rest) /\ Len(rest \o back') = 0
    BY <1>2, <2>2, <2>3, AnyLooks
  <2>5. ASSUME NEW c \in 0 .. 255, Script[step + 1] = Cmd(c)
        PROVE  step' = 2 /\ Order(c)'
    <3>1. step' = step + 1 /\ Order(c)'
      BY <1>1, <1>2, <2>1, <2>3, <2>4, <2>5, HasOrders DEF Sent
    <3> QED BY <3>1
  <2>6. GETVER \in 0 .. 255 /\ READ \in 0 .. 255 /\ WRITE \in 0 .. 255
    BY Codes
  <2>7. CASE tool = "wipe"
    <3>1. step' = 2 /\ Order(GETVER)'
      BY <2>5, <2>6, <2>7, FirstEntries
    <3> QED BY <2>7, <3>1 DEF TalksWipe
  <2>8. CASE tool = "flash" /\ Blocks = 0
    <3>1. 2 = 2 + After /\ step' = 2 /\ Order(READ)'
      BY <2>5, <2>6, <2>8, FirstEntries
    <3>2. TalksRest'
      BY <3>1 DEF TalksRest
    <3> QED BY <2>8, <3>1, <3>2 DEF TalksFlash
  <2>9. CASE tool = "flash" /\ Blocks # 0
    <3>1. 0 \in 0 .. Blocks - 1 /\ step' = 2 /\ Order(WRITE)'
      BY <2>5, <2>6, <2>9, FirstEntries
    <3>2. 2 + 3 * 0 = 2
      OBVIOUS
    <3>3. TalksBlock(0)'
      BY <3>1, <3>2 DEF TalksBlock
    <3> QED BY <2>9, <3>1, <3>3 DEF TalksFlash
  <2> QED BY <2>7, <2>8, <2>9
<1> QED BY <1>4, <1>5

-----------------------------------------------------------------------------
(* Nothing fails of itself. *)

FaultsInv == faults \in Nat /\ (faults = 0 => ~held)

(* Where an undisturbed tool is; what it was before an action that leaves   *)
(* the counters and the histories as they are.                             *)
TalkInv == Undisturbed => (step >= 1 => Talks) /\ step >= -1

LEMMA ReasonParts ==
  /\ ReasonInv => FaultsInv /\ TalkInv
  /\ FaultsInv /\ TalkInv => ReasonInv
<1>1. ReasonInv => FaultsInv /\ TalkInv
  BY Zenon DEF ReasonInv, FaultsInv, TalkInv
<1>2. FaultsInv /\ TalkInv => ReasonInv
  BY Zenon DEF ReasonInv, FaultsInv, TalkInv
<1> QED BY <1>1, <1>2

LEMMA NextFaults ==
  ASSUME FaultsInv, [Next]_vars
  PROVE  FaultsInv'
<1>1. faults \in Nat /\ (faults = 0 => ~held)
  BY DEF FaultsInv
<1>2. \A n \in Nat : n + 1 \in Nat /\ n + 1 # 0
  OBVIOUS
<1>3. CASE faults' = faults + 1
  <2>1. faults' \in Nat /\ faults' # 0
    BY <1>1, <1>2, <1>3
  <2> QED BY <2>1 DEF FaultsInv
<1>4. CASE faults' = faults /\ (held' = held \/ held' = FALSE)
  <2>1. CASE held' = held
    BY <1>1, <1>4, <2>1, Zenon DEF FaultsInv
  <2>2. CASE held' = FALSE
    BY <1>1, <1>4, <2>2, Zenon DEF FaultsInv
  <2> QED BY <1>4, <2>1, <2>2
<1>5. Start => faults' = faults /\ held' = FALSE
  BY DEF Start
<1>6. Send => (faults' = faults /\ held' = FALSE) \/ faults' = faults + 1
  BY DEF Send
<1>7. Hold \/ PowerCut => faults' = faults + 1
  BY DEF Hold, PowerCut
<1>8. Receive => faults' = faults /\ held' = FALSE
  BY DEF Receive
<1>9. Loader \/ Flashing \/ UNCHANGED vars => faults' = faults /\ held' = held
  BY DEF Loader, Flashing, hostVars, vars
<1> QED BY <1>3, <1>4, <1>5, <1>6, <1>7, <1>8, <1>9 DEF Next

(* What makes a tool undisturbed is there from its start.                  *)
LEMMA BeforeUndisturbed ==
  ASSUME FaultsInv, [Next]_vars, ~Start, Undisturbed'
  PROVE  /\ Undisturbed /\ UNCHANGED tool /\ ~held
         /\ ~Hold /\ ~PowerCut
<1>1. faults \in Nat /\ faults' = 0 /\ (faults = 0 => ~held)
  BY DEF FaultsInv, Undisturbed
<1>2. \A n \in Nat : n + 1 # 0
  OBVIOUS
<1>3. faults' # faults + 1
  BY <1>1, <1>2
<1>4. ~Hold /\ ~PowerCut
  BY <1>3 DEF Hold, PowerCut
<1>5. UNCHANGED <<tool, midway, faults>> /\ (stale => stale')
  <2>1. Send => UNCHANGED <<tool, midway>> /\ faults' = faults
    BY <1>3 DEF Send
  <2>2. Send => stale' = (stale \/ (Wants = "any" /\ back # <<>>))
    BY DEF Send
  <2>3. Send => (stale => stale')
    BY <2>2, Zenon
  <2>4. Receive \/ Loader \/ Flashing \/ UNCHANGED vars => UNCHANGED <<tool, midway, faults, stale>>
    BY DEF Receive, Loader, Flashing, hostVars, vars
  <2>5. Receive \/ Loader \/ Flashing \/ UNCHANGED vars => (stale => stale')
    BY <2>4, Zenon
  <2> QED BY <1>4, <2>1, <2>3, <2>4, <2>5 DEF Next
<1>6. faults' = 0 /\ ~stale' /\ ~midway' /\ tool' # "folie"
  BY DEF Undisturbed
<1>7. Undisturbed
  BY <1>5, <1>6, Zenon DEF Undisturbed
<1>8. faults = 0
  BY <1>5, <1>6
<1> QED BY <1>1, <1>4, <1>5, <1>7, <1>8

LEMMA StartTalks ==
  ASSUME Start, ~midway'
  PROVE  step' = 1 /\ Greets'
<1>1. /\ step' = 1 /\ tosend' = Connect.bytes /\ pending' = <<>>
      /\ wire = <<>> \/ Gone
      /\ UNCHANGED <<wire, at>>
      /\ midway' = (at \notin {"sync", "cmd"} /\ ~Gone)
  BY DEF Start
<1>2. tosend' = <<127>>
  BY <1>1, RestFacts
<1>3. at \in {"sync", "cmd"} \/ Gone
  BY <1>1, Zenon
<1> QED BY <1>1, <1>2, <1>3 DEF Greets, Gone

(* The end of a script is not running.                                     *)
LEMMA EndFacts ==
  ASSUME tool \in {"flash", "wipe"}
  PROVE  Done \in Int /\ Done >= 2 /\ (step = Done => ~Running)
<1>1. Len(Script) \in Nat /\ Len(Script) >= 1
  <2>1. tool = "flash" => Len(Script) = 7 + After /\ After \in Nat
    BY FlashLast
  <2>2. tool = "wipe" => Len(Script) = 8
    BY WipeScript DEF WipeEntries
  <2> QED BY <2>1, <2>2
<1> QED BY <1>1 DEF Running, Done

LEMMA TalkCases ==
  ASSUME Talks, tool \in {"flash", "wipe"}
  PROVE  \/ step = 1 /\ Greets
         \/ tool = "flash" /\ TalksFlash
         \/ tool = "wipe" /\ TalksWipe
         \/ step = Done
BY DEF Talks

LEMMA SendTalks ==
  ASSUME Orderly, tool \in {"flash", "wipe"}, Talks, Send, faults \in Nat, faults' = 0, ~stale'
  PROVE  step' = step /\ Talks'
<1>1. /\ Stream' = Stream /\ tosend # <<>>
      /\ UNCHANGED <<back, at, args, tool, step, left, pending>>
  BY SendFacts
<1>2. Sent => Sent'
  BY <1>1 DEF Sent
<1>3. (TalksFlash => TalksFlash') /\ (TalksWipe => TalksWipe')
  BY <1>1, <1>2, TalksKept
<1>4. step # Done
  <2>1. Running
    BY DEF Send
  <2> QED BY <2>1, EndFacts
<1>5. step = 1 /\ Greets => Greets'
  <2>1. step = 1 => Wants = "any"
    BY FirstEntries
  <2> QED BY <2>1, GreetsSend
<1> QED BY <1>1, <1>3, <1>4, <1>5, TalkCases DEF Talks

LEMMA ReceiveTalks ==
  ASSUME Orderly, tool \in {"flash", "wipe"}, Talks, Receive
  PROVE  step' >= -1 /\ (step' >= 1 => Talks')
<1>1. UNCHANGED tool /\ Running
  BY ReceiveFacts
<1>2. Done' = Done /\ Done = Len(Script) + 1
  BY <1>1, SameTool DEF Done
<1>3. step' \in Int
  BY NextOrderly DEF Orderly, Next
<1>4. step # Done
  BY <1>1, EndFacts
<1>5. CASE step = 1 /\ Greets
  <2>1. \/ step' = 1 /\ Greets'
        \/ step' = -1
        \/ tool = "flash" /\ step' = 2 /\ TalksFlash'
        \/ tool = "wipe" /\ step' = 2 /\ TalksWipe'
    BY <1>5, GreetsReceive
  <2> QED BY <1>1, <2>1 DEF Talks
<1>6. CASE tool = "flash" /\ TalksFlash
  <2>1. Told
    BY <1>6, FlashShape, ReceiveTold
  <2>2. ASSUME TalksRest
        PROVE  step' >= 1 /\ (TalksFlash' \/ step' = Done')
    BY <1>2, <1>6, <2>1, <2>2, RestReceive DEF TalksFlash
  <2>3. ASSUME NEW j \in 0 .. Blocks - 1, TalksBlock(j)
        PROVE  step' >= 1 /\ TalksFlash'
    BY <1>6, <2>1, <2>3, BlockReceive
  <2>4. step' >= 1 /\ (TalksFlash' \/ step' = Done')
    BY <1>6, <2>2, <2>3 DEF TalksFlash
  <2> QED BY <1>1, <1>3, <1>6, <2>4 DEF Talks
<1>7. CASE tool = "wipe" /\ TalksWipe
  <2>1. Told
    BY <1>7, WipeShape, ReceiveTold
  <2>2. step' >= 1 /\ (TalksWipe' \/ step' = Done')
    BY <1>2, <1>7, <2>1, WipeReceive
  <2> QED BY <1>1, <1>3, <1>7, <2>2 DEF Talks
<1> QED BY <1>4, <1>5, <1>6, <1>7, TalkCases

LEMMA LoaderTalks ==
  ASSUME Fits, Orderly, tool \in {"flash", "wipe"}, Talks, Loader, ~held
  PROVE  step' = step /\ Talks'
<1>1. UNCHANGED <<tool, step>>
  BY DEF Loader
<1>2. Done' = Done
  BY <1>1, SameTool
<1>3. step = 1 /\ Greets => Greets'
  <2>1. step = 1 => Running
    BY FirstEntries
  <2> QED BY <2>1, GreetsLoader
<1>4. tool = "flash" /\ TalksFlash => TalksFlash'
  BY FlashWants, FlashTalksLoader
<1>5. tool = "wipe" /\ TalksWipe => TalksWipe'
  BY WipeWants, WipeTalksLoader
<1> QED BY <1>1, <1>2, <1>3, <1>4, <1>5, TalkCases DEF Talks

LEMMA FlashingTalks ==
  ASSUME Fits, Orderly, tool \in {"flash", "wipe"}, Talks, Flashing
  PROVE  step' = step /\ Talks'
<1>1. UNCHANGED <<wire, tool, step, tosend, left, pending>> /\ at \in {"flashing", "programming"}
  BY FlashingFacts
<1>2. Done' = Done
  BY <1>1, SameTool
<1>3. ~Greets
  BY <1>1 DEF Greets, Gone
<1>4. (TalksFlash => TalksFlash') /\ ~TalksWipe
  BY TalksFlashing
<1> QED BY <1>1, <1>2, <1>3, <1>4, TalkCases DEF Talks

LEMMA StillTalks ==
  ASSUME tool \in {"flash", "wipe"}, Talks, UNCHANGED vars
  PROVE  step' = step /\ Talks'
<1>1. UNCHANGED <<wire, back, at, args, tool, step, tosend, left, pending>>
  BY DEF vars, devVars, hostVars
<1>2. Done' = Done
  BY <1>1, SameTool
<1>3. Stream' = Stream /\ (Sent => Sent')
  BY <1>1 DEF Stream, Sent
<1>4. (TalksFlash => TalksFlash') /\ (TalksWipe => TalksWipe')
  BY <1>1, <1>3, TalksKept
<1>5. Greets => Greets'
  BY <1>1 DEF Greets, Gone
<1> QED BY <1>1, <1>2, <1>4, <1>5, TalkCases DEF Talks

(* A tool that is not running does not begin to but by Start.              *)
LEMMA NotRunning ==
  ASSUME ~(step >= 1), [Next]_vars, ~Start
  PROVE  UNCHANGED step
<1>1. ~Running
  BY DEF Running
<1>2. ~Send /\ ~Receive
  BY <1>1 DEF Send, Receive
<1>3. Hold \/ Loader \/ Flashing \/ PowerCut \/ UNCHANGED vars => UNCHANGED step
  BY DEF Hold, Loader, Flashing, PowerCut, hostVars, vars
<1> QED BY <1>2, <1>3 DEF Next

LEMMA NextReason ==
  ASSUME Fits, Orderly, ReasonInv, [Next]_vars
  PROVE  ReasonInv'
<1>1. FaultsInv /\ TalkInv
  BY ReasonParts
<1>2. FaultsInv'
  BY <1>1, NextFaults
<1>3. ASSUME Undisturbed'
      PROVE  (step' >= 1 => Talks') /\ step' >= -1
  <2>1. CASE Start
    <3>1. ~midway'
      BY <1>3 DEF Undisturbed
    <3>2. step' = 1 /\ Greets'
      BY <2>1, <3>1, StartTalks
    <3> QED BY <3>2 DEF Talks
  <2>2. ASSUME ~Start
        PROVE  (step' >= 1 => Talks') /\ step' >= -1
    <3>1. Undisturbed /\ UNCHANGED tool /\ ~held /\ ~Hold /\ ~PowerCut
      BY <1>1, <1>3, <2>2, BeforeUndisturbed
    <3>2. (step >= 1 => Talks) /\ step >= -1
      BY <1>1, <3>1 DEF TalkInv
    <3>3. CASE ~(step >= 1)
      BY <2>2, <3>2, <3>3, NotRunning
    <3>4. CASE step >= 1
      <4>1. Talks
        BY <3>2, <3>4
      <4>2. tool \in {"flash", "wipe"}
        BY <3>1 DEF Orderly, Undisturbed
      <4>3. faults \in Nat /\ faults' = 0 /\ ~stale'
        BY <1>1, <1>3 DEF FaultsInv, Undisturbed
      <4>4. CASE step' = step /\ Talks'
        BY <3>2, <4>4
      <4>5. CASE Send
        BY <4>1, <4>2, <4>3, <4>4, <4>5, SendTalks
      <4>6. CASE Receive
        BY <4>1, <4>2, <4>6, ReceiveTalks
      <4>7. CASE Loader
        BY <3>1, <4>1, <4>2, <4>4, <4>7, LoaderTalks
      <4>8. CASE Flashing
        BY <4>1, <4>2, <4>4, <4>8, FlashingTalks
      <4>9. CASE UNCHANGED vars
        BY <4>1, <4>2, <4>4, <4>9, StillTalks
      <4> QED BY <2>2, <3>1, <4>5, <4>6, <4>7, <4>8, <4>9 DEF Next
    <3> QED BY <3>3, <3>4
  <2> QED BY <2>1, <2>2
<1>4. TalkInv'
  BY <1>3 DEF TalkInv
<1>5. (FaultsInv /\ TalkInv => ReasonInv)'
  BY Zenon DEF ReasonInv, FaultsInv, TalkInv
<1> QED BY <1>2, <1>4, <1>5

(* FailsForAReason, getReply, wantAck and connectToTarget of stm32.go,      *)
(* getByte and uploadHandler of upload.h: once it got an answer to its      *)
(* greeting, a tool whose commands the loader knows gives up only if it was *)
(* held up, the board was reset, it had greeted the loader with a reply     *)
(* still unread, or it was started in the middle of a command.  An          *)
(* undisturbed tool gets the one reply it waits for, to every command,      *)
(* address and block: no NAK of a loader that gave up before it, and no     *)
(* silence, comes between.  Fits as before.                                 *)
THEOREM FailsNotOfItself == Fits => (Spec => []FailsForAReason)
<1> SUFFICES ASSUME Fits
             PROVE  Spec => []FailsForAReason
  OBVIOUS
<1>1. Init => Orderly /\ ReasonInv
  <2>1. Init => step = 0 /\ faults = 0 /\ held = FALSE
    BY DEF Init
  <2>2. Init => FaultsInv
    BY <2>1 DEF FaultsInv
  <2>3. Init => TalkInv
    BY <2>1 DEF TalkInv
  <2> QED BY <2>2, <2>3, InitOrderly, ReasonParts
<1>2. (Orderly /\ ReasonInv) /\ [Next]_vars => (Orderly /\ ReasonInv)'
  BY NextReason, NextOrderly
<1>3. Orderly /\ ReasonInv => FailsForAReason
  <2> SUFFICES ASSUME Orderly, ReasonInv, step < -1, tool # "folie"
               PROVE  faults > 0 \/ stale \/ midway
    BY DEF FailsForAReason
  <2>1. step \in Int /\ ~(step >= -1)
    BY DEF Orderly
  <2>2. ~Undisturbed
    BY <2>1 DEF ReasonInv
  <2>3. faults = 0 => stale \/ midway
    BY <2>2, Zenon DEF Undisturbed
  <2>4. faults \in Nat
    BY DEF ReasonInv
  <2>5. faults = 0 \/ faults > 0
    BY <2>4
  <2> QED BY <2>3, <2>5, Zenon
<1> QED BY <1>1, <1>2, <1>3, PTL DEF Spec
=================================================================================
