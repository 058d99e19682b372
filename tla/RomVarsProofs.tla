----------------------------- MODULE RomVarsProofs -----------------------------
(***************************************************************************)
(* Proofs about RomVars, for all sizes of pages and words: the variables   *)
(* in flash are those in RAM through every set(), flip and power failure,  *)
(* up to a flip that programs a page which is not erased, and the whole    *)
(* implements VarStore.                                                    *)
(***************************************************************************)
EXTENDS RomVars, WellFoundedInduction, TLAPS

(* A page whose log ends before tuple f.                                    *)
Logged(page, f) ==
  /\ f \in Half .. NumVars
  /\ \A t \in Half .. f - 1 : page.key[t] \in Vars
  /\ \A t \in f .. NumVars - 1 : page.key[t] = Empty /\ page.val[t] = Empty

(* n is the last tuple of variable i in it, or 0 if there is none.          *)
LastHit(page, f, i, n) ==
  \/ n = 0 /\ \A t \in Half .. f - 1 : page.key[t] # i
  \/ /\ n \in Half .. f - 1 /\ page.key[n] = i
     /\ \A t \in n + 1 .. f - 1 : page.key[t] # i

(* RAM holds a page, or nothing yet, and map and fill describe its log.     *)
RamInv ==
  /\ ram.values[0] \in Pages \union {Empty}
  /\ Logged(ram, fill)
  /\ \A i \in Index : LastHit(ram, fill, i, map[i])

Fresh == map = NoMap /\ fill = Half

(* Nothing was ever set.                                                    *)
Blank == ram = Erased /\ Fresh /\ FirstReusable = {}

(* The very first set() is under way.                                       *)
FirstSet ==
  /\ pc = "store" /\ Fresh
  /\ ram = [Erased EXCEPT !.values[0] = BasePage]
  /\ flash = EraseBoth

(* RAM is the page that init would take over.                               *)
InStep ==
  /\ ram.values[0] \in Pages
  /\ flash[ram.values[0]] = ram
  /\ FirstReusable = {ram.values[0]}

(* Within flipAndSave: the old page holds the variables as they were, RAM   *)
(* as they are to be.                                                       *)
OldPage == OtherPage(ram.values[0])
Flipping ==
  /\ ram.values[0] \in Pages
  /\ Fresh
  /\ Reusable(OldPage)
  /\ ram.values[busy.index] = busy.val
  /\ \A i \in Vars \ {busy.index} :
       At(flash[OldPage], MapOf(flash[OldPage]), i) = ram.values[i]

Marked == [ram EXCEPT !.values[0] = Empty]

(* All of this holds until a flip has programmed old contents.              *)
SoundInv ==
  ~spoilt =>
    /\ \A page \in Pages : Reusable(page) => \E f \in Half .. NumVars : Logged(flash[page], f)
    /\ pc # "off" => RamInv
    /\ pc = "idle" => Blank \/ InStep
    /\ pc = "store" => FirstSet \/ InStep
    /\ pc = "mark" => Flipping /\ flash[ram.values[0]] = Marked
    /\ pc = "erase" => Flipping /\ flash[ram.values[0]] = ram
    /\ pc \in {"store", "mark", "erase"} => busy.index \in Vars

(* Without power failures there is nothing beside the page in use.          *)
CleanInv ==
  failures = 0 =>
    /\ ~spoilt
    /\ pc \in {"off", "idle"} =>
         \A page \in Pages : Reusable(page) => flash[OtherPage(page)] = Erased
    /\ pc = "store" => flash[OldPage] = Erased

IInv == TypeOK /\ SoundInv /\ CleanInv

-----------------------------------------------------------------------------
(* Numbers. *)

LEMMA Sizes ==
  /\ NumVars \in Nat /\ Half \in Nat /\ Half >= 1 /\ Half < NumVars
  /\ Empty \in Nat /\ NumVars <= Empty
  /\ 0 \in Index /\ 0 \notin Vars /\ 0 \notin Log /\ Vars \subseteq Index
  /\ Index \subseteq Word /\ Index \subseteq Nat /\ Empty \in Word /\ 0 \in Word
  /\ Empty \notin Index
BY RomVarsAssumption DEF Half, Index, Vars, Log, Word

LEMMA Ands ==
  /\ \A v, w \in Word : And(v, w) \in Word
  /\ \A w \in Word : And(Empty, w) = w /\ And(w, w) = w
BY RomVarsAssumption

LEMMA PageFacts ==
  /\ BasePage \in Pages /\ BasePage + 1 \in Pages /\ Pages \subseteq Word
  /\ \A page : OtherPage(page) \in Pages
  /\ \A page \in Pages : /\ page # Empty /\ page # 0 /\ OtherPage(page) # page
                         /\ OtherPage(OtherPage(page)) = page
                         /\ Pages = {page, OtherPage(page)}
<1>1. BasePage \in Nat /\ BasePage # 0 /\ BasePage + 1 < Empty /\ Empty \in Nat
  BY RomVarsAssumption
<1>2. BasePage # BasePage + 1 /\ BasePage \in Word /\ BasePage + 1 \in Word
      /\ BasePage # Empty /\ BasePage + 1 # Empty /\ BasePage + 1 # 0
  BY <1>1 DEF Word
<1> QED BY <1>1, <1>2, Zenon DEF Pages, OtherPage

LEMMA ErasedPage ==
  /\ Erased \in Page
  /\ Erased.values = [i \in Index |-> Empty]
  /\ Erased.key = [t \in Log |-> Empty] /\ Erased.val = [t \in Log |-> Empty]
BY Sizes DEF Erased, Page

(* A set of numbers that is not empty has a least one, ...                  *)
LEMMA LeastExists ==
  ASSUME NEW S, S \subseteq Nat, S # {}
  PROVE  \E n \in S : \A m \in S : n <= m
<1> DEFINE Less == {ss \in Nat \X Nat : ss[1] < ss[2]}
<1>1. IsWellFoundedOn(Less, Nat)
  BY NatLessThanWellFounded, Zenon DEF OpToRel
<1>2. PICK n \in S : \A m \in S : ~(<<m, n>> \in Less)
  <2> HIDE DEF Less
  <2> QED BY <1>1, WFMin
<1>3. ASSUME NEW m \in S PROVE n <= m
  <2>1. m \in Nat /\ n \in Nat
    OBVIOUS
  <2>2. ~(m < n)
    BY <1>2, <2>1
  <2> QED BY <2>1, <2>2
<1> QED BY <1>3

(* ... and a greatest one if it has a bound.                                *)
LEMMA GreatestExists ==
  ASSUME NEW b \in Nat, NEW S, S \subseteq 0 .. b, S # {}
  PROVE  \E n \in S : \A m \in S : m <= n
<1> DEFINE D == {d \in 0 .. b : b - d \in S}
<1>1. D \subseteq Nat
  OBVIOUS
<1>2. ASSUME NEW m \in S PROVE b - m \in D
  <2>1. m \in 0 .. b
    OBVIOUS
  <2>2. b - m \in 0 .. b /\ b - (b - m) = m
    BY <2>1
  <2> QED BY <2>2
<1>3. D # {}
  BY <1>2
<1> HIDE DEF D
<1>4. PICK d \in D : \A e \in D : d <= e
  BY <1>1, <1>3, LeastExists
<1>5. d \in 0 .. b /\ b - d \in S
  BY DEF D
<1>6. ASSUME NEW m \in S PROVE m <= b - d
  <2>1. d <= b - m /\ m \in 0 .. b
    BY <1>2, <1>4
  <2> QED BY <1>5, <2>1
<1> QED BY <1>5, <1>6

-----------------------------------------------------------------------------
(* reusePage finds in a page what is in it. *)

Ends(page, f) ==
  /\ \A t \in Half .. f - 1 : page.key[t] < NumVars
  /\ f < NumVars => page.key[f] >= NumVars

LEMMA FillType ==
  ASSUME NEW page \in Page
  PROVE  FillOf(page) \in Half .. NumVars
<1> DEFINE S == {f \in Half .. NumVars : f < NumVars => page.key[f] >= NumVars}
<1>1. S \subseteq Nat /\ NumVars \in S
  BY Sizes
<1>2. PICK f \in S : \A g \in S : f <= g
  <2> HIDE DEF S
  <2> QED BY <1>1, LeastExists
<1>3. \A t \in Log : page.key[t] \in Nat
  BY Sizes DEF Page, Word
<1>4. ASSUME NEW t \in Half .. f - 1 PROVE page.key[t] < NumVars
  <2>1. t \in Log /\ t < f /\ t \in Half .. NumVars /\ t < NumVars
    BY Sizes DEF Log
  <2>2. t \notin S
    BY <1>1, <1>2, <2>1
  <2> QED BY <1>3, <2>1, <2>2, Sizes
<1>5. Ends(page, f) /\ f \in Half .. NumVars
  BY <1>4 DEF Ends
<1> QED BY <1>5 DEF FillOf, Ends

LEMMA FillFound ==
  ASSUME NEW page, NEW f, Logged(page, f)
  PROVE  FillOf(page) = f
<1>1. f \in Half .. NumVars
  BY DEF Logged
<1>2. \A t \in Half .. f - 1 : page.key[t] \in Nat /\ page.key[t] < NumVars
  BY Sizes DEF Logged, Vars, Index
<1>3. f < NumVars => page.key[f] = Empty
  BY <1>1, Sizes DEF Logged
<1>4. Ends(page, f)
  BY <1>2, <1>3, Sizes DEF Ends
<1>5. ASSUME NEW g \in Half .. NumVars, Ends(page, g) PROVE g = f
  <2>1. ~(g < f)
    <3> SUFFICES ASSUME g < f PROVE FALSE
      OBVIOUS
    <3>1. g \in Half .. f - 1 /\ g < NumVars
      BY <1>1, Sizes
    <3> QED BY <1>2, <1>5, <3>1, Sizes DEF Ends
  <2>2. ~(f < g)
    <3> SUFFICES ASSUME f < g PROVE FALSE
      OBVIOUS
    <3>1. f \in Half .. g - 1 /\ f < NumVars
      BY <1>1, Sizes
    <3> QED BY <1>3, <1>5, <3>1, Sizes DEF Ends
  <2> QED BY <1>1, <2>1, <2>2, Sizes
<1> QED BY <1>1, <1>4, <1>5 DEF FillOf, Ends

Hits(page, i) == {t \in Half .. FillOf(page) - 1 : page.key[t] = i}

LEMMA MapByHits ==
  ASSUME NEW page
  PROVE  MapOf(page) =
           [i \in Index |->
              IF Hits(page, i) = {} THEN 0
              ELSE CHOOSE t \in Hits(page, i) : \A u \in Hits(page, i) : u <= t]
BY DEF MapOf, Hits

LEMMA MapHit ==
  ASSUME NEW page, FillOf(page) \in Half .. NumVars, NEW i \in Index
  PROVE  /\ LastHit(page, FillOf(page), i, MapOf(page)[i])
         /\ MapOf(page)[i] \in {0} \union Log
<1> DEFINE f == FillOf(page)
           n == MapOf(page)[i]
           H == Hits(page, i)
<1>1. n = IF H = {} THEN 0 ELSE CHOOSE t \in H : \A u \in H : u <= t
  BY MapByHits
<1>2. H = {t \in Half .. f - 1 : page.key[t] = i}
  BY DEF Hits
<1>3. f \in Half .. NumVars
  OBVIOUS
<1> HIDE DEF f, n, H
<1>4. CASE H = {}
  BY <1>1, <1>2, <1>4 DEF LastHit, f, n
<1>5. CASE H # {}
  <2>1. H \subseteq 0 .. NumVars
    BY <1>2, <1>3, Sizes
  <2>2. \E t \in H : \A u \in H : u <= t
    BY <1>5, <2>1, GreatestExists, Sizes
  <2>3. n \in H /\ \A u \in H : u <= n
    BY <1>1, <1>5, <2>2
  <2>4. n \in Half .. f - 1 /\ page.key[n] = i
    BY <1>2, <2>3
  <2>5. ASSUME NEW t \in n + 1 .. f - 1 PROVE page.key[t] # i
    <3>1. t \in Half .. f - 1 /\ ~(t <= n)
      BY <1>3, <2>4, Sizes
    <3> QED BY <1>2, <2>3, <3>1
  <2>6. n \in Log
    BY <1>3, <2>4, Sizes DEF Log
  <2> QED BY <2>4, <2>5, <2>6 DEF LastHit, f, n
<1> QED BY <1>4, <1>5

LEMMA HitUnique ==
  ASSUME NEW page, NEW f \in Half .. NumVars, NEW i, NEW m, NEW n,
         LastHit(page, f, i, m), LastHit(page, f, i, n)
  PROVE  m = n
<1>1. CASE m = 0 \/ n = 0
  BY <1>1, Sizes DEF LastHit
<1>2. CASE m # 0 /\ n # 0
  <2>1. /\ m \in Half .. f - 1 /\ page.key[m] = i
        /\ n \in Half .. f - 1 /\ page.key[n] = i
        /\ \A t \in m + 1 .. f - 1 : page.key[t] # i
        /\ \A t \in n + 1 .. f - 1 : page.key[t] # i
    BY <1>2 DEF LastHit
  <2>2. n \notin m + 1 .. f - 1 /\ m \notin n + 1 .. f - 1
    BY <2>1
  <2>3. m \in Nat /\ n \in Nat /\ m <= f - 1 /\ n <= f - 1 /\ f \in Nat
    BY <2>1, Sizes
  <2> QED BY <2>2, <2>3
<1> QED BY <1>1, <1>2

(* The map of a page.                                                       *)
LEMMA MapFound ==
  ASSUME NEW page, NEW f, Logged(page, f),
         NEW m \in [Index -> {0} \union Log], \A i \in Index : LastHit(page, f, i, m[i])
  PROVE  MapOf(page) = m
<1>1. FillOf(page) = f /\ f \in Half .. NumVars
  BY FillFound DEF Logged
<1>2. \A i \in Index : MapOf(page)[i] = m[i]
  BY <1>1, MapHit, HitUnique
<1>3. MapOf(page) = [i \in Index |-> MapOf(page)[i]]
  BY MapByHits
<1> QED BY <1>2, <1>3

LEMMA MapType ==
  ASSUME NEW page \in Page
  PROVE  MapOf(page) \in [Index -> {0} \union Log]
<1>1. \A i \in Index : MapOf(page)[i] \in {0} \union Log
  BY FillType, MapHit
<1> QED BY <1>1, MapByHits

-----------------------------------------------------------------------------
(* Pages, changed and programmed. *)

LEMMA PageParts ==
  ASSUME NEW page \in Page
  PROVE  /\ page = [values |-> page.values, key |-> page.key, val |-> page.val]
         /\ page.values \in [Index -> Word]
         /\ page.key \in [Log -> Word] /\ page.val \in [Log -> Word]
BY DEF Page

LEMMA WithValue ==
  ASSUME NEW page \in Page, NEW i \in Index, NEW w \in Word
  PROVE  /\ [page EXCEPT !.values[i] = w] \in Page
         /\ [page EXCEPT !.values[i] = w] =
              [values |-> [page.values EXCEPT ![i] = w], key |-> page.key, val |-> page.val]
<1>1. [page EXCEPT !.values[i] = w] =
        [values |-> [page.values EXCEPT ![i] = w], key |-> page.key, val |-> page.val]
  BY PageParts
<1>2. [page.values EXCEPT ![i] = w] \in [Index -> Word]
  BY PageParts
<1> QED BY <1>1, <1>2, PageParts DEF Page

LEMMA WithNumber ==
  ASSUME NEW page \in Page, NEW w \in Word
  PROVE  /\ [page EXCEPT !.values[0] = w] \in Page
         /\ [page EXCEPT !.values[0] = w] =
              [values |-> [page.values EXCEPT ![0] = w], key |-> page.key, val |-> page.val]
<1>1. 0 \in Index
  BY Sizes
<1> QED BY <1>1, WithValue

LEMMA WithVal ==
  ASSUME NEW page \in Page, NEW t \in Log, NEW w \in Word
  PROVE  /\ [page EXCEPT !.val[t] = w] \in Page
         /\ [page EXCEPT !.val[t] = w] =
              [values |-> page.values, key |-> page.key, val |-> [page.val EXCEPT ![t] = w]]
<1>1. [page EXCEPT !.val[t] = w] =
        [values |-> page.values, key |-> page.key, val |-> [page.val EXCEPT ![t] = w]]
  BY PageParts
<1>2. [page.val EXCEPT ![t] = w] \in [Log -> Word]
  BY PageParts
<1> QED BY <1>1, <1>2, PageParts DEF Page

LEMMA WithTuple ==
  ASSUME NEW page \in Page, NEW t \in Log, NEW k \in Word, NEW w \in Word
  PROVE  /\ [page EXCEPT !.key[t] = k, !.val[t] = w] \in Page
         /\ [page EXCEPT !.key[t] = k, !.val[t] = w] =
              [values |-> page.values, key |-> [page.key EXCEPT ![t] = k],
               val |-> [page.val EXCEPT ![t] = w]]
<1>1. [page EXCEPT !.key[t] = k, !.val[t] = w] =
        [values |-> page.values, key |-> [page.key EXCEPT ![t] = k],
         val |-> [page.val EXCEPT ![t] = w]]
  <2> DEFINE a == page.values
             b == page.key
             c == page.val
             p == [values |-> a, key |-> b, val |-> c]
  <2>1. page = p
    BY PageParts
  <2>2. [p EXCEPT !.key[t] = k, !.val[t] = w] =
          [values |-> a, key |-> [b EXCEPT ![t] = k], val |-> [c EXCEPT ![t] = w]]
    <3> HIDE DEF a, b, c
    <3>1. [p EXCEPT !.key[t] = k, !.val[t] = w] =
            [[p EXCEPT !.key[t] = k] EXCEPT !.val[t] = w]
      OBVIOUS
    <3>2. [p EXCEPT !.key[t] = k] =
            [values |-> a, key |-> [b EXCEPT ![t] = k], val |-> c]
      OBVIOUS
    <3>3. [[values |-> a, key |-> [b EXCEPT ![t] = k], val |-> c] EXCEPT !.val[t] = w] =
            [values |-> a, key |-> [b EXCEPT ![t] = k], val |-> [c EXCEPT ![t] = w]]
      OBVIOUS
    <3> HIDE DEF p
    <3> QED BY <3>1, <3>2, <3>3, Zenon
  <2> QED BY <2>1, <2>2
<1>2. /\ [page.key EXCEPT ![t] = k] \in [Log -> Word]
      /\ [page.val EXCEPT ![t] = w] \in [Log -> Word]
  BY PageParts
<1> QED BY <1>1, <1>2, PageParts DEF Page

LEMMA AtType ==
  ASSUME NEW page \in Page, NEW m \in [Index -> {0} \union Log], NEW i \in Index
  PROVE  At(page, m, i) \in Word
BY PageParts, Sizes DEF At

LEMMA ProgrammedType ==
  ASSUME NEW old \in Page, NEW new \in Page
  PROVE  Programmed(old, new) \in Page
<1>1. /\ \A i \in Index : old.values[i] \in Word /\ new.values[i] \in Word
      /\ \A t \in Log : /\ old.key[t] \in Word /\ new.key[t] \in Word
                        /\ old.val[t] \in Word /\ new.val[t] \in Word
  BY PageParts
<1>2. /\ \A i \in Index : And(old.values[i], new.values[i]) \in Word
      /\ \A t \in Log : /\ And(old.key[t], new.key[t]) \in Word
                        /\ And(old.val[t], new.val[t]) \in Word
  BY <1>1, Ands
<1> QED BY <1>2 DEF Programmed, Page

(* What is programmed over words that are blank or the same comes out as it *)
(* is.                                                                      *)
LEMMA ProgrammedOver ==
  ASSUME NEW old \in Page, NEW new \in Page,
         \A i \in Index : old.values[i] \in {Empty, new.values[i]},
         \A t \in Log : /\ old.key[t] \in {Empty, new.key[t]}
                        /\ old.val[t] \in {Empty, new.val[t]}
  PROVE  Programmed(old, new) = new
<1>1. /\ \A i \in Index : new.values[i] \in Word
      /\ \A t \in Log : new.key[t] \in Word /\ new.val[t] \in Word
  BY PageParts
<1>2. /\ \A i \in Index : And(old.values[i], new.values[i]) = new.values[i]
      /\ \A t \in Log : /\ And(old.key[t], new.key[t]) = new.key[t]
                        /\ And(old.val[t], new.val[t]) = new.val[t]
  BY <1>1, Ands
<1>3. Programmed(old, new) =
        [values |-> [i \in Index |-> new.values[i]], key |-> [t \in Log |-> new.key[t]],
         val |-> [t \in Log |-> new.val[t]]]
  BY <1>2 DEF Programmed
<1>4. /\ [i \in Index |-> new.values[i]] = new.values
      /\ [t \in Log |-> new.key[t]] = new.key
      /\ [t \in Log |-> new.val[t]] = new.val
  BY PageParts
<1> QED BY <1>3, <1>4, PageParts

LEMMA SaveFacts ==
  ASSUME flash \in [Pages -> Page], NEW page, NEW content \in Page,
         SavePage(page, content)
  PROVE  /\ flash' \in [Pages -> Page]
         /\ page \in Pages => flash'[page] = Programmed(flash[page], content)
         /\ \A p \in Pages : p # page => flash'[p] = flash[p]
<1>1. page \in Pages => Programmed(flash[page], content) \in Page
  BY ProgrammedType
<1> QED BY <1>1 DEF SavePage

-----------------------------------------------------------------------------
(* Types. *)

LEMMA CombinedType ==
  ASSUME TypeOK
  PROVE  Combined \in Page
<1>1. \A i \in Index : At(ram, map, i) \in Word
  BY AtType DEF TypeOK
<1>2. [i \in Index |-> At(ram, map, i)] \in [Index -> Word]
  BY <1>1
<1>3. Erased.key \in [Log -> Word] /\ Erased.val \in [Log -> Word]
  BY ErasedPage, Sizes
<1> QED BY <1>2, <1>3 DEF Combined, Page

LEMMA NoMapType == NoMap \in [Index -> {0} \union Log] /\ Half \in Half .. NumVars
BY Sizes DEF NoMap

LEMMA InitType == Init => TypeOK
<1> SUFFICES ASSUME Init PROVE TypeOK
  OBVIOUS
<1>1. [values |-> [i \in Index |-> 0], key |-> [t \in Log |-> 0], val |-> [t \in Log |-> 0]]
        \in Page
  BY Sizes DEF Page
<1>2. flash \in [Pages -> Page]
  BY <1>1, ErasedPage DEF Init
<1>3. busy \in [index : Index, val : Word]
  BY Sizes DEF Init
<1>4. failures \in 0 .. MaxFailures
  BY RomVarsAssumption DEF Init
<1> QED BY <1>2, <1>3, <1>4, ErasedPage, NoMapType DEF Init, TypeOK

(* set() up to its first access to the flash.                               *)
Sets == \E i \in Vars, w \in NewValues : Set(i, w)

LEMMA NextType == TypeOK /\ [Next]_vars => TypeOK'
<1> SUFFICES ASSUME TypeOK, [Next]_vars PROVE TypeOK'
  OBVIOUS
<1>1. /\ flash \in [Pages -> Page] /\ ram \in Page
      /\ map \in [Index -> {0} \union Log] /\ fill \in Half .. NumVars
      /\ busy.index \in Index /\ busy.val \in Word /\ busy \in [index : Index, val : Word]
      /\ failures \in 0 .. MaxFailures /\ MaxFailures \in Nat /\ spoilt \in BOOLEAN
  BY RomVarsAssumption DEF TypeOK
<1>2. CASE PowerUp
  <2>1. \A page \in Pages : /\ flash[page] \in Page
                            /\ MapOf(flash[page]) \in [Index -> {0} \union Log]
                            /\ FillOf(flash[page]) \in Half .. NumVars
    BY <1>1, FillType, MapType
  <2>2. FirstReusable \subseteq Pages
    BY PageFacts DEF FirstReusable
  <2>3. ram' \in Page /\ map' \in [Index -> {0} \union Log] /\ fill' \in Half .. NumVars
    BY <1>2, <2>1, <2>2, ErasedPage, NoMapType DEF PowerUp
  <2> QED BY <1>1, <1>2, <2>3 DEF PowerUp, TypeOK
<1>3. CASE PowerDown
  <2>1. failures' \in 0 .. MaxFailures
    BY <1>1, <1>3 DEF PowerDown
  <2>2. busy' \in [index : Index, val : Word]
    BY <1>3, Sizes DEF PowerDown
  <2> QED BY <1>1, <1>3, <2>1, <2>2, ErasedPage, NoMapType DEF PowerDown, TypeOK
<1>4. CASE Sets
  <2>1. PICK i \in Vars, w \in NewValues : Set(i, w)
    BY <1>4 DEF Sets
  <2>2. busy' \in [index : Index, val : Word]
    BY <2>1, Sizes, RomVarsAssumption DEF Set
  <2>3. ram' \in Page
    <3>1. [ram EXCEPT !.values[0] = BasePage] \in Page
      BY <1>1, WithValue, Sizes, PageFacts
    <3> QED BY <1>1, <2>1, <3>1 DEF Set
  <2>4. flash' \in [Pages -> Page]
    BY <1>1, <2>1, ErasedPage DEF Set, EraseBoth
  <2> QED BY <1>1, <2>1, <2>2, <2>3, <2>4 DEF Set, TypeOK
<1>5. CASE StoreInPlace
  <2> DEFINE page == IF map[busy.index] = 0 THEN [ram EXCEPT !.values[busy.index] = busy.val]
                     ELSE [ram EXCEPT !.val[map[busy.index]] = busy.val]
  <2>1. page \in Page
    BY <1>1, WithValue, WithVal
  <2>2. ram' = page /\ SavePage(ram.values[0], page)
    BY <1>5 DEF StoreInPlace
  <2> HIDE DEF page
  <2>3. flash' \in [Pages -> Page]
    BY <1>1, <2>1, <2>2, SaveFacts
  <2> QED BY <1>1, <1>5, <2>1, <2>2, <2>3 DEF StoreInPlace, TypeOK
<1>6. CASE AppendTuple
  <2> DEFINE page == [ram EXCEPT !.key[fill] = busy.index, !.val[fill] = busy.val]
  <2>1. fill \in Log /\ fill + 1 \in Half .. NumVars
    BY <1>1, <1>6, Sizes DEF AppendTuple, HasRoom, Log
  <2>2. page \in Page
    BY <1>1, <2>1, WithTuple, Sizes
  <2>3. ram' = page /\ SavePage(ram.values[0], page)
    BY <1>6 DEF AppendTuple
  <2> HIDE DEF page
  <2>4. flash' \in [Pages -> Page]
    BY <1>1, <2>2, <2>3, SaveFacts
  <2>5. map' \in [Index -> {0} \union Log]
    BY <1>1, <1>6, <2>1 DEF AppendTuple
  <2> QED BY <1>1, <1>6, <2>1, <2>2, <2>3, <2>4, <2>5 DEF AppendTuple, TypeOK
<1>7. CASE Combine
  <2> DEFINE page == [Combined EXCEPT !.values[busy.index] = busy.val]
             other == OtherPage(page.values[0])
  <2>1. page \in Page
    BY <1>1, CombinedType, WithValue
  <2>2. /\ ram' = [page EXCEPT !.values[0] = other]
        /\ SavePage(other, [page EXCEPT !.values[0] = Empty])
        /\ spoilt' = (spoilt \/ flash[other] # Erased)
    BY <1>7 DEF Combine
  <2>3. other \in Pages /\ other \in Word
    BY PageFacts
  <2> HIDE DEF page, other
  <2>4. /\ [page EXCEPT !.values[0] = other] \in Page
        /\ [page EXCEPT !.values[0] = Empty] \in Page
    BY <2>1, <2>3, WithValue, Sizes
  <2>5. flash' \in [Pages -> Page]
    BY <1>1, <2>2, <2>4, SaveFacts
  <2> QED BY <1>1, <1>7, <2>2, <2>4, <2>5, NoMapType DEF Combine, TypeOK
<1>8. CASE MarkPage
  <2>1. flash' \in [Pages -> Page]
    BY <1>1, <1>8, SaveFacts DEF MarkPage
  <2> QED BY <1>1, <1>8, <2>1 DEF MarkPage, TypeOK
<1>9. CASE EraseOld
  <2>1. flash' \in [Pages -> Page]
    BY <1>1, <1>9, ErasedPage DEF EraseOld
  <2> QED BY <1>1, <1>9, <2>1 DEF EraseOld, TypeOK
<1>10. CASE UNCHANGED vars
  BY <1>10 DEF vars, TypeOK
<1> QED BY <1>2, <1>3, <1>4, <1>5, <1>6, <1>7, <1>8, <1>9, <1>10 DEF Next, Sets

-----------------------------------------------------------------------------
(* What the steps do to the log of a page. *)

LEMMA SameLog ==
  ASSUME NEW page, NEW old, NEW f, Logged(old, f), page.key = old.key, page.val = old.val
  PROVE  Logged(page, f)
BY DEF Logged

LEMMA SameHits ==
  ASSUME NEW page, NEW old, NEW f, NEW i, NEW n, LastHit(old, f, i, n), page.key = old.key
  PROVE  LastHit(page, f, i, n)
BY DEF LastHit

LEMMA EmptyLog ==
  ASSUME NEW page, page.key = Erased.key, page.val = Erased.val
  PROVE  /\ Logged(page, Half)
         /\ \A i \in Index : LastHit(page, Half, i, NoMap[i])
<1>1. \A t \in Half .. NumVars - 1 : page.key[t] = Empty /\ page.val[t] = Empty
  BY ErasedPage DEF Log
<1>2. Half .. Half - 1 = {} /\ Half \in Half .. NumVars
  BY Sizes
<1> QED BY <1>1, <1>2 DEF Logged, LastHit, NoMap

(* A value changes in a tuple that is there.                                *)
LEMMA ValChanged ==
  ASSUME NEW page, NEW old \in Page, NEW f, Logged(old, f), NEW n \in Half .. f - 1, NEW w,
         page.key = old.key, page.val = [old.val EXCEPT ![n] = w]
  PROVE  Logged(page, f)
<1>1. f \in Nat /\ f <= NumVars /\ Half \in Nat
  BY Sizes DEF Logged
<1>2. ASSUME NEW t \in f .. NumVars - 1
      PROVE  page.key[t] = Empty /\ page.val[t] = Empty
  <2>1. t # n /\ t \in Log
    BY <1>1, Sizes DEF Log
  <2>2. page.val[t] = old.val[t]
    BY <2>1, PageParts
  <2> QED BY <2>2 DEF Logged
<1> QED BY <1>2 DEF Logged

(* A tuple is added.                                                        *)
LEMMA TupleAdded ==
  ASSUME NEW page, NEW old \in Page, NEW f \in Log, Logged(old, f),
         NEW m \in [Index -> {0} \union Log], \A j \in Index : LastHit(old, f, j, m[j]),
         NEW i \in Vars, NEW w,
         page.key = [old.key EXCEPT ![f] = i], page.val = [old.val EXCEPT ![f] = w]
  PROVE  /\ Logged(page, f + 1)
         /\ \A j \in Index : LastHit(page, f + 1, j, [m EXCEPT ![i] = f][j])
<1>1. f \in Nat /\ f < NumVars /\ Half <= f /\ f + 1 \in Half .. NumVars
  BY Sizes DEF Log
<1>2. ASSUME NEW t \in Log, t # f
      PROVE  page.key[t] = old.key[t] /\ page.val[t] = old.val[t]
  BY <1>2, PageParts
<1>3. page.key[f] = i /\ f \in Half .. (f + 1) - 1 /\ f + 1 .. (f + 1) - 1 = {}
  BY <1>1, PageParts
<1>4. ASSUME NEW t \in Half .. (f + 1) - 1, t # f
      PROVE  t \in Half .. f - 1 /\ t \in Log
  BY <1>1, <1>4, Sizes DEF Log
<1>5. ASSUME NEW t \in f + 1 .. NumVars - 1
      PROVE  page.key[t] = Empty /\ page.val[t] = Empty
  <2>1. t # f /\ t \in Log /\ t \in f .. NumVars - 1
    BY <1>1, Sizes DEF Log
  <2> QED BY <1>2, <2>1 DEF Logged
<1>6. Logged(page, f + 1)
  <2>1. ASSUME NEW t \in Half .. (f + 1) - 1
        PROVE  page.key[t] \in Vars
    BY <1>2, <1>3, <1>4 DEF Logged
  <2> QED BY <1>1, <1>5, <2>1 DEF Logged
<1>7. ASSUME NEW j \in Index
      PROVE  LastHit(page, f + 1, j, [m EXCEPT ![i] = f][j])
  <2>1. CASE j = i
    BY <1>3, <2>1 DEF LastHit
  <2>2. CASE j # i
    <3>1. [m EXCEPT ![i] = f][j] = m[j] /\ LastHit(old, f, j, m[j])
      BY <2>2
    <3>2. CASE m[j] = 0 /\ \A t \in Half .. f - 1 : old.key[t] # j
      <4>1. \A t \in Half .. (f + 1) - 1 : page.key[t] # j
        BY <1>2, <1>3, <1>4, <2>2, <3>2
      <4>2. LastHit(page, f + 1, j, m[j])
        BY <3>2, <4>1, Zenon DEF LastHit
      <4> QED BY <3>1, <4>2, Zenon
    <3>3. CASE /\ m[j] \in Half .. f - 1 /\ old.key[m[j]] = j
               /\ \A t \in m[j] + 1 .. f - 1 : old.key[t] # j
      <4>1. m[j] \in Half .. (f + 1) - 1 /\ m[j] # f /\ m[j] \in Nat
        BY <1>1, <3>3, Sizes
      <4>2. page.key[m[j]] = j
        BY <1>2, <1>4, <3>3, <4>1
      <4>3. ASSUME NEW t \in m[j] + 1 .. (f + 1) - 1
            PROVE  page.key[t] # j
        <5>1. t \in Half .. (f + 1) - 1
          BY <1>1, <4>1, Sizes
        <5>2. CASE t = f
          BY <1>3, <2>2, <5>2
        <5>3. CASE t # f
          <6>1. t \in m[j] + 1 .. f - 1
            BY <1>1, <4>1, <5>3
          <6> QED BY <1>2, <1>4, <3>3, <5>1, <5>3, <6>1
        <5> QED BY <5>2, <5>3
      <4>4. LastHit(page, f + 1, j, m[j])
        BY <4>1, <4>2, <4>3, Zenon DEF LastHit
      <4> QED BY <3>1, <4>4, Zenon
    <3> QED BY <3>1, <3>2, <3>3 DEF LastHit
  <2> QED BY <2>1, <2>2
<1> QED BY <1>6, <1>7

(* Variable 0, the number of the page, has no tuple.                        *)
LEMMA NumberInPlace ==
  ASSUME RamInv
  PROVE  map[0] = 0
BY Sizes DEF RamInv, Logged, LastHit

-----------------------------------------------------------------------------
(* The page that init takes over, and what it finds there. *)

TakesOver(content, page) ==
  /\ content[page].values[0] = page
  /\ page = BasePage \/ content[BasePage].values[0] # BasePage

Found(content, page) ==
  [i \in Vars |-> At(content[page], MapOf(content[page]), i)]

LEMMA Takeover ==
  ASSUME NEW page \in Pages
  PROVE  /\ FirstReusable = {page} <=> TakesOver(flash, page)
         /\ FirstReusable' = {page} <=> TakesOver(flash', page)
<1>1. BasePage # BasePage + 1
  BY RomVarsAssumption
<1>2. FirstReusable = {page} <=> TakesOver(flash, page)
  BY <1>1 DEF Pages, FirstReusable, Reusable, TakesOver
<1>3. FirstReusable' = {page} <=> TakesOver(flash', page)
  BY <1>1 DEF Pages, FirstReusable, Reusable, TakesOver
<1> QED BY <1>2, <1>3

LEMMA NothingReusable ==
  /\ FirstReusable = {} <=> \A page \in Pages : flash[page].values[0] # page
  /\ FirstReusable' = {} <=> \A page \in Pages : flash'[page].values[0] # page
BY DEF FirstReusable, Pages, Reusable

LEMMA SomethingReusable ==
  FirstReusable = {} \/ \E page \in Pages : FirstReusable = {page}
BY PageFacts DEF FirstReusable

LEMMA StoredAt ==
  /\ FirstReusable = {} => Stored = [i \in Vars |-> Empty]
  /\ \A page \in Pages : FirstReusable = {page} => Stored = Found(flash, page)
  /\ FirstReusable' = {} => Stored' = [i \in Vars |-> Empty]
  /\ \A page \in Pages : FirstReusable' = {page} => Stored' = Found(flash', page)
<1>1. ASSUME FirstReusable = {} PROVE Stored = [i \in Vars |-> Empty]
  BY <1>1 DEF Stored
<1>2. ASSUME NEW page \in Pages, FirstReusable = {page}
      PROVE  Stored = Found(flash, page)
  <2>1. FirstReusable # {} /\ (CHOOSE p \in FirstReusable : TRUE) = page
    BY <1>2
  <2> QED BY <2>1, Zenon DEF Stored, Found
<1>3. ASSUME FirstReusable' = {} PROVE Stored' = [i \in Vars |-> Empty]
  BY <1>3 DEF Stored
<1>4. ASSUME NEW page \in Pages, FirstReusable' = {page}
      PROVE  Stored' = Found(flash', page)
  <2>1. FirstReusable' # {} /\ (CHOOSE p \in FirstReusable' : TRUE) = page
    BY <1>4
  <2> QED BY <2>1, Zenon DEF Stored, Found, At
<1> QED BY <1>1, <1>2, <1>3, <1>4

-----------------------------------------------------------------------------
(* The steps. *)

LEMMA InitSound == Init => SoundInv /\ CleanInv
<1> SUFFICES ASSUME Init PROVE SoundInv /\ CleanInv
  OBVIOUS
<1>1. ASSUME NEW page \in Pages PROVE flash[page].values[0] # page
  <2>1. flash[page].values[0] \in {0, Empty}
    BY Sizes, ErasedPage DEF Init
  <2> QED BY <2>1, PageFacts
<1>2. pc = "off" /\ ~spoilt
  BY DEF Init
<1> QED BY <1>1, <1>2 DEF SoundInv, CleanInv, Reusable

(* What init takes over.                                                    *)
LEMMA PowerUpSound ==
  ASSUME TypeOK, SoundInv, PowerUp, ~spoilt
  PROVE  SoundInv'
<1>1. /\ pc' = "idle" /\ UNCHANGED <<flash, spoilt>>
      /\ flash \in [Pages -> Page]
      /\ \A page \in Pages : flash[page].values[0] = page =>
           \E f \in Half .. NumVars : Logged(flash[page], f)
  BY DEF TypeOK, SoundInv, PowerUp, Reusable
<1>2. CASE FirstReusable = {}
  <2>1. ram' = Erased /\ map' = NoMap /\ fill' = Half /\ FirstReusable' = {}
    BY <1>1, <1>2, NothingReusable DEF PowerUp
  <2>2. Erased.values[0] = Empty
    BY ErasedPage, Sizes
  <2>3. RamInv'
    BY <2>1, <2>2, EmptyLog DEF RamInv
  <2>4. Blank'
    BY <2>1 DEF Blank, Fresh
  <2> QED BY <1>1, <2>3, <2>4 DEF SoundInv, Reusable
<1>3. CASE \E page \in Pages : FirstReusable = {page}
  <2>1. PICK page \in Pages : FirstReusable = {page}
    BY <1>3
  <2>2. ram' = flash[page] /\ map' = MapOf(flash[page]) /\ fill' = FillOf(flash[page])
    BY <2>1 DEF PowerUp
  <2>3. TakesOver(flash, page) /\ flash' = flash
    BY <1>1, <2>1, Takeover
  <2>4. ram'.values[0] = page /\ FirstReusable' = {page}
    BY <2>2, <2>3, Takeover DEF TakesOver
  <2>5. PICK f \in Half .. NumVars : Logged(flash[page], f)
    BY <1>1, <2>3 DEF TakesOver
  <2>6. fill' = f
    BY <2>2, <2>5, FillFound
  <2>7. \A i \in Index : LastHit(ram', fill', i, map'[i])
    BY <2>2, <2>5, <2>6, MapHit
  <2>8. RamInv'
    BY <2>2, <2>4, <2>5, <2>6, <2>7 DEF RamInv
  <2>9. InStep'
    BY <2>2, <2>3, <2>4 DEF InStep
  <2> QED BY <1>1, <2>8, <2>9 DEF SoundInv, Reusable
<1> QED BY <1>2, <1>3, SomethingReusable

(* Whatever the moment, the page that init will take over has a whole log.  *)
LEMMA PowerDownSound ==
  ASSUME SoundInv, PowerDown, ~spoilt
  PROVE  SoundInv'
BY DEF SoundInv, PowerDown, Reusable

LEMMA BlankFacts ==
  ASSUME TypeOK, SoundInv, ~spoilt
  PROVE  /\ pc = "idle" /\ ram.values[0] = Empty => Blank
         /\ pc = "idle" /\ ram.values[0] # Empty => InStep
<1>1. Blank => ram.values[0] = Empty
  BY ErasedPage, Sizes DEF Blank
<1>2. InStep => ram.values[0] # Empty
  BY PageFacts DEF InStep
<1> QED BY <1>1, <1>2 DEF SoundInv

LEMMA SetSound ==
  ASSUME TypeOK, SoundInv, Sets, ~spoilt
  PROVE  SoundInv'
<1>1. PICK i \in Vars, w \in NewValues : Set(i, w)
  BY DEF Sets
<1>2. pc = "idle" /\ pc' = "store" /\ UNCHANGED <<map, fill, spoilt>> /\ busy'.index \in Vars
  BY <1>1 DEF Set
<1>3. CASE ram.values[0] = Empty
  <2>1. Blank
    BY <1>2, <1>3, BlankFacts
  <2>2. ram' = [Erased EXCEPT !.values[0] = BasePage] /\ flash' = EraseBoth
    BY <1>1, <1>3, <2>1 DEF Set, Blank
  <2>3. /\ ram'.key = Erased.key /\ ram'.val = Erased.val
        /\ ram'.values[0] = BasePage
    BY <2>2, ErasedPage, WithValue, PageFacts, Sizes
  <2>4. map' = NoMap /\ fill' = Half
    BY <1>2, <2>1 DEF Blank, Fresh
  <2>5. RamInv'
    BY <2>3, <2>4, EmptyLog, PageFacts DEF RamInv
  <2>6. FirstSet'
    BY <1>2, <2>2, <2>4 DEF FirstSet, Fresh, EraseBoth
  <2>7. ASSUME NEW page \in Pages PROVE ~Reusable(page)'
    <3>1. flash'[page].values[0] = Empty
      BY <2>2, ErasedPage, Sizes DEF EraseBoth
    <3> QED BY <3>1, PageFacts DEF Reusable
  <2> QED BY <1>2, <2>5, <2>6, <2>7 DEF SoundInv
<1>4. CASE ram.values[0] # Empty
  <2>1. UNCHANGED <<ram, flash>>
    BY <1>1, <1>4 DEF Set
  <2>2. InStep /\ RamInv
    BY <1>2, <1>4, BlankFacts DEF SoundInv
  <2>3. InStep'
    BY <2>1, <2>2 DEF InStep, FirstReusable, Reusable
  <2>4. RamInv'
    BY <1>2, <2>1, <2>2 DEF RamInv
  <2> QED BY <1>2, <2>1, <2>3, <2>4 DEF SoundInv, Reusable
<1> QED BY <1>3, <1>4

(* What init would find is what there is, whenever no flip is under way.    *)
LEMMA StoredCurrent ==
  ASSUME TypeOK, SoundInv, ~spoilt, pc \in {"idle", "store"}
  PROVE  /\ Stored = Current
         /\ RamInv /\ (InStep \/ \A i \in Vars : At(ram, map, i) = Empty)
<1>1. RamInv /\ (Blank \/ FirstSet \/ InStep)
  BY DEF SoundInv
<1>2. CASE InStep
  <2>1. ram.values[0] \in Pages /\ Stored = Found(flash, ram.values[0])
    BY <1>2, StoredAt DEF InStep
  <2>2. MapOf(ram) = map
    BY <1>1, MapFound DEF RamInv, TypeOK
  <2> QED BY <1>1, <1>2, <2>1, <2>2 DEF InStep, Found, Current
<1>3. CASE Blank \/ FirstSet
  <2>1. map = NoMap /\ FirstReusable = {}
    <3>1. CASE FirstSet
      <4>1. \A page \in Pages : flash[page].values[0] # page
        BY <3>1, PageFacts, ErasedPage, Sizes DEF FirstSet, EraseBoth
      <4> QED BY <3>1, <4>1, NothingReusable DEF FirstSet, Fresh
    <3> QED BY <1>3, <3>1 DEF Blank, Fresh
  <2>2. \A i \in Vars : ram.values[i] = Empty
    <3>1. CASE FirstSet
      <4>1. ram.values = [Erased.values EXCEPT ![0] = BasePage]
        BY <3>1, WithValue, ErasedPage, PageFacts, Sizes DEF FirstSet
      <4> QED BY <4>1, ErasedPage, Sizes
    <3>2. CASE Blank
      BY <3>2, ErasedPage, Sizes DEF Blank
    <3> QED BY <1>3, <3>1, <3>2
  <2>3. \A i \in Vars : At(ram, map, i) = Empty
    BY <2>1, <2>2, Sizes DEF At, NoMap
  <2>4. Current = [i \in Vars |-> Empty]
    BY <2>3 DEF Current
  <2> QED BY <1>1, <2>1, <2>3, <2>4, StoredAt
<1> QED BY <1>1, <1>2, <1>3

(* A page with the log of another one and one more value in it.             *)
LEMMA Saved ==
  ASSUME TypeOK, SoundInv, ~spoilt, pc = "store",
         NEW page \in Page, page.values[0] = ram.values[0],
         SavePage(ram.values[0], page), ram' = page,
         \A i \in Index : page.values[i] = ram.values[i] \/ ram.values[i] = Empty,
         \A t \in Log : /\ page.key[t] = ram.key[t] \/ ram.key[t] = Empty
                        /\ page.val[t] = ram.val[t] \/ ram.val[t] = Empty,
         InStep \/ FirstSet, Logged(page, fill'),
         map' \in [Index -> {0} \union Log],
         \A i \in Index : LastHit(page, fill', i, map'[i]),
         pc' = "idle", UNCHANGED spoilt
  PROVE  /\ SoundInv'
         /\ Stored' = [i \in Vars |-> At(page, map', i)]
<1> DEFINE P == ram.values[0]
<1>1. /\ flash \in [Pages -> Page] /\ ram \in Page /\ P \in Pages
      /\ \A p \in Pages : Reusable(p) => \E f \in Half .. NumVars : Logged(flash[p], f)
  <2>1. FirstSet => P = BasePage
    BY ErasedPage, PageFacts, WithValue, Sizes DEF FirstSet
  <2> QED BY <2>1, PageFacts DEF InStep, TypeOK, SoundInv
<1>2. flash'[P] = Programmed(flash[P], page) /\ \A p \in Pages : p # P => flash'[p] = flash[p]
  BY <1>1, SaveFacts
<1>3. /\ \A i \in Index : flash[P].values[i] \in {Empty, page.values[i]}
      /\ \A t \in Log : /\ flash[P].key[t] \in {Empty, page.key[t]}
                        /\ flash[P].val[t] \in {Empty, page.val[t]}
  <2>1. CASE InStep
    BY <2>1 DEF InStep
  <2>2. CASE FirstSet
    <3>1. flash[P] = Erased
      BY <1>1, <2>2 DEF FirstSet, EraseBoth
    <3> QED BY <3>1, ErasedPage
  <2> QED BY <2>1, <2>2
<1>4. flash[P] \in Page
  BY <1>1
<1>5. flash'[P] = page
  BY <1>2, <1>3, <1>4, ProgrammedOver
<1>6. TakesOver(flash', P)
  <2>1. P = BasePage \/ flash[BasePage].values[0] # BasePage
    <3>1. CASE InStep
      BY <1>1, <3>1, Takeover DEF InStep, TakesOver
    <3>2. CASE FirstSet
      BY <3>2, ErasedPage, PageFacts, WithValue, Sizes DEF FirstSet
    <3> QED BY <3>1, <3>2
  <2> QED BY <1>2, <1>5, <2>1, PageFacts DEF TakesOver
<1>7. FirstReusable' = {P} /\ P \in Pages
  BY <1>1, <1>6, Takeover
<1>8. InStep'
  BY <1>5, <1>7 DEF InStep
<1>9. RamInv'
  BY <1>1 DEF RamInv
<1>10. \A p \in Pages : Reusable(p)' => \E f \in Half .. NumVars : Logged(flash'[p], f)
  <2> TAKE p \in Pages
  <2>1. CASE p = P
    <3>1. fill' \in Half .. NumVars
      BY DEF Logged
    <3> QED BY <1>5, <2>1, <3>1
  <2>2. CASE p # P
    BY <1>1, <1>2, <2>2 DEF Reusable
  <2> QED BY <2>1, <2>2
<1>11. SoundInv'
  BY <1>8, <1>9, <1>10 DEF SoundInv
<1>12. MapOf(page) = map'
  BY MapFound
<1> QED BY <1>5, <1>7, <1>11, <1>12, StoredAt DEF Found

(* What a step of set() does to the variables in flash.                     *)
SetsStored == /\ busy.index \in Vars
              /\ Stored' = [Stored EXCEPT ![busy.index] = busy.val]

LEMMA StoreInPlaceSound ==
  ASSUME TypeOK, SoundInv, StoreInPlace, ~spoilt
  PROVE  SoundInv' /\ SetsStored
<1> DEFINE i == busy.index
           w == busy.val
           page == IF map[i] = 0 THEN [ram EXCEPT !.values[i] = w]
                                 ELSE [ram EXCEPT !.val[map[i]] = w]
<1>1. /\ pc = "store" /\ pc' = "idle" /\ UNCHANGED <<map, fill, spoilt>>
      /\ At(ram, map, i) = Empty
      /\ ram' = page /\ SavePage(ram.values[0], page)
  BY DEF StoreInPlace
<1>2. /\ ram \in Page /\ map \in [Index -> {0} \union Log] /\ i \in Vars /\ i \in Index
      /\ i # 0 /\ w \in Word
  BY <1>1, Sizes DEF TypeOK, SoundInv
<1>3. /\ Stored = Current /\ Logged(ram, fill)
      /\ \A j \in Index : LastHit(ram, fill, j, map[j])
      /\ InStep \/ FirstSet
  BY <1>1, StoredCurrent DEF SoundInv, RamInv
<1>4. page \in Page /\ page.key = ram.key
  <2> HIDE DEF i, w
  <2>1. CASE map[i] = 0
    <3>1. LET p == [ram EXCEPT !.values[i] = w]
          IN  p \in Page /\ p = [values |-> [ram.values EXCEPT ![i] = w],
                                key |-> ram.key, val |-> ram.val]
      BY <1>2, WithValue
    <3> QED BY <2>1, <3>1
  <2>2. CASE map[i] # 0
    <3>1. LET p == [ram EXCEPT !.val[map[i]] = w]
          IN  p \in Page /\ p = [values |-> ram.values, key |-> ram.key,
                                val |-> [ram.val EXCEPT ![map[i]] = w]]
      <4>1. map[i] \in Log
        BY <1>2, <2>2
      <4> QED BY <1>2, <4>1, WithVal
    <3> QED BY <2>2, <3>1
  <2> QED BY <2>1, <2>2
<1>5. CASE map[i] = 0
  <2>1. page.values = [ram.values EXCEPT ![i] = w] /\ page.val = ram.val
    BY <1>2, <1>5, WithValue
  <2>2. ram.values[i] = Empty
    BY <1>1, <1>5 DEF At
  <2> HIDE DEF page
  <2>3. Logged(page, fill')
    BY <1>1, <1>3, <1>4, <2>1, SameLog
  <2>4. page.values[0] = ram.values[0] /\ page.values[i] = w
    BY <1>2, <2>1, PageParts, Sizes
  <2>5. \A j \in Index : j # i => page.values[j] = ram.values[j]
    BY <1>2, <2>1, PageParts
  <2>6. \A j \in Index : LastHit(page, fill', j, map'[j])
    BY <1>1, <1>3, <1>4, SameHits
  <2>7. SoundInv' /\ Stored' = [j \in Vars |-> At(page, map', j)]
    BY <1>1, <1>2, <1>3, <1>4, <2>1, <2>2, <2>3, <2>4, <2>5, <2>6, Saved
  <2>8. \A j \in Vars : At(page, map', j) = IF j = i THEN w ELSE At(ram, map, j)
    BY <1>1, <1>5, <2>1, <2>4, <2>5, Sizes DEF At
  <2> QED BY <1>2, <1>3, <2>7, <2>8 DEF SetsStored, Current
<1>6. CASE map[i] # 0
  <2> DEFINE n == map[i]
  <2>1. n \in Half .. fill - 1 /\ n \in Log /\ ram.key[n] = i
    BY <1>2, <1>3, <1>6 DEF LastHit
  <2>2. page.values = ram.values /\ page.val = [ram.val EXCEPT ![n] = w]
    BY <1>2, <1>6, <2>1, WithVal
  <2>3. ram.val[n] = Empty
    BY <1>1, <1>6 DEF At
  <2>4. \A j \in Index : j # i => map[j] # n
    BY <1>3, <2>1, <1>6 DEF LastHit
  <2> HIDE DEF page, n
  <2>5. Logged(page, fill')
    BY <1>1, <1>2, <1>3, <1>4, <2>1, <2>2, ValChanged
  <2>6. \A t \in Log : page.val[t] = IF t = n THEN w ELSE ram.val[t]
    BY <1>2, <2>2, PageParts
  <2>7. \A j \in Index : LastHit(page, fill', j, map'[j])
    BY <1>1, <1>3, <1>4, SameHits
  <2>8. SoundInv' /\ Stored' = [j \in Vars |-> At(page, map', j)]
    BY <1>1, <1>2, <1>3, <1>4, <2>2, <2>3, <2>5, <2>6, <2>7, Saved
  <2>9. \A j \in Vars : At(page, map', j) = IF j = i THEN w ELSE At(ram, map, j)
    <3> TAKE j \in Vars
    <3>1. CASE j = i
      BY <1>1, <1>6, <2>1, <2>6, <3>1 DEF At, n
    <3>2. CASE j # i
      <4>1. map[j] # n /\ map[j] \in {0} \union Log
        BY <1>2, <2>4, <3>2, Sizes
      <4> QED BY <1>1, <2>2, <2>6, <3>2, <4>1, Sizes DEF At
    <3> QED BY <3>1, <3>2
  <2> QED BY <1>2, <1>3, <2>8, <2>9 DEF SetsStored, Current
<1> QED BY <1>5, <1>6

LEMMA AppendTupleSound ==
  ASSUME TypeOK, SoundInv, AppendTuple, ~spoilt
  PROVE  SoundInv' /\ SetsStored
<1> DEFINE i == busy.index
           w == busy.val
           page == [ram EXCEPT !.key[fill] = i, !.val[fill] = w]
<1>1. /\ pc = "store" /\ pc' = "idle" /\ UNCHANGED spoilt
      /\ At(ram, map, i) # Empty /\ fill < NumVars
      /\ ram' = page /\ SavePage(ram.values[0], page)
      /\ map' = [map EXCEPT ![i] = fill] /\ fill' = fill + 1
  BY DEF AppendTuple, HasRoom
<1>2. /\ ram \in Page /\ map \in [Index -> {0} \union Log] /\ i \in Vars /\ i \in Index
      /\ i # 0 /\ i \in Word /\ w \in Word /\ fill \in Log
  BY <1>1, Sizes DEF TypeOK, SoundInv, Log
<1>3. /\ Stored = Current /\ Logged(ram, fill)
      /\ \A j \in Index : LastHit(ram, fill, j, map[j])
      /\ InStep
  BY <1>1, <1>2, StoredCurrent DEF SoundInv, RamInv
<1>4. /\ page \in Page /\ page.values = ram.values
      /\ page.key = [ram.key EXCEPT ![fill] = i] /\ page.val = [ram.val EXCEPT ![fill] = w]
  <2> HIDE DEF i, w
  <2>1. /\ page \in Page
        /\ page = [values |-> ram.values, key |-> [ram.key EXCEPT ![fill] = i],
                   val |-> [ram.val EXCEPT ![fill] = w]]
    BY <1>2, WithTuple
  <2> HIDE DEF page
  <2> QED BY <2>1
<1> HIDE DEF page
<1>5. /\ Logged(page, fill')
      /\ \A j \in Index : LastHit(page, fill', j, map'[j])
  <2> HIDE DEF i, w
  <2>1. /\ Logged(page, fill + 1)
        /\ \A j \in Index : LastHit(page, fill + 1, j, [map EXCEPT ![i] = fill][j])
    BY <1>2, <1>3, <1>4, TupleAdded
  <2> QED BY <1>1, <2>1, Zenon
<1>6. /\ map' \in [Index -> {0} \union Log]
      /\ \A j \in Index : map'[j] = IF j = i THEN fill ELSE map[j]
  BY <1>1, <1>2
<1>7. /\ \A t \in Log : t # fill => page.key[t] = ram.key[t] /\ page.val[t] = ram.val[t]
      /\ page.val[fill] = w
  BY <1>2, <1>4, PageParts
<1>8. ram.key[fill] = Empty /\ ram.val[fill] = Empty
  BY <1>2, <1>3, Sizes DEF Logged, Log
<1>9. SoundInv' /\ Stored' = [j \in Vars |-> At(page, map', j)]
  <2>1. \A t \in Log : /\ page.key[t] = ram.key[t] \/ ram.key[t] = Empty
                       /\ page.val[t] = ram.val[t] \/ ram.val[t] = Empty
    BY <1>7, <1>8
  <2> QED BY <1>1, <1>2, <1>3, <1>4, <1>5, <1>6, <2>1, Saved
<1>10. \A j \in Vars : At(page, map', j) = IF j = i THEN w ELSE At(ram, map, j)
  <2> TAKE j \in Vars
  <2>1. CASE j = i
    BY <1>2, <1>6, <1>7, <2>1, Sizes DEF At
  <2>2. CASE j # i
    <3>1. map[j] # fill /\ map[j] \in {0} \union Log /\ map'[j] = map[j]
      <4>1. map[j] = 0 \/ map[j] \in Half .. fill - 1
        BY <1>3, Sizes DEF LastHit
      <4>2. fill \in Nat /\ fill # 0 /\ fill \notin Half .. fill - 1
        BY <1>2, Sizes DEF Log
      <4> QED BY <1>2, <1>6, <2>2, <4>1, <4>2, Sizes
    <3> QED BY <1>4, <1>7, <2>2, <3>1 DEF At
  <2> QED BY <2>1, <2>2
<1> QED BY <1>2, <1>3, <1>9, <1>10 DEF SetsStored, Current

(* The flip starts: the other page gets everything but its number, and what *)
(* init would find is still the old page.                                   *)
LEMMA CombineSound ==
  ASSUME TypeOK, SoundInv, Combine, ~spoilt, ~spoilt'
  PROVE  SoundInv' /\ Stored' = Stored
<1> DEFINE i == busy.index
           w == busy.val
           page == [Combined EXCEPT !.values[i] = w]
<1>1. /\ pc = "store" /\ pc' = "mark" /\ UNCHANGED busy
      /\ At(ram, map, i) # Empty
      /\ map' = NoMap /\ fill' = Half
      /\ ram' = [page EXCEPT !.values[0] = OtherPage(page.values[0])]
      /\ SavePage(OtherPage(page.values[0]), [page EXCEPT !.values[0] = Empty])
      /\ flash[OtherPage(page.values[0])] = Erased
  BY DEF Combine
<1>2. /\ ram \in Page /\ map \in [Index -> {0} \union Log] /\ i \in Vars /\ i \in Index
      /\ i # 0 /\ w \in Word /\ flash \in [Pages -> Page]
      /\ \A p \in Pages : Reusable(p) => \E f \in Half .. NumVars : Logged(flash[p], f)
  BY <1>1, Sizes DEF TypeOK, SoundInv
<1>3. InStep /\ Stored = Current /\ map[0] = 0
  BY <1>1, <1>2, StoredCurrent, NumberInPlace
<1>4. PICK P \in Pages : /\ P = ram.values[0] /\ flash[P] = ram
                         /\ Stored = Found(flash, P) /\ TakesOver(flash, P)
  BY <1>3, StoredAt, Takeover DEF InStep
<1>5. /\ page \in Page
      /\ page.key = Erased.key /\ page.val = Erased.val
      /\ page.values = [[j \in Index |-> At(ram, map, j)] EXCEPT ![i] = w]
  <2>1. Combined \in Page /\ Combined.values = [j \in Index |-> At(ram, map, j)]
        /\ Combined.key = Erased.key /\ Combined.val = Erased.val
    BY CombinedType DEF Combined
  <2> HIDE DEF i, w
  <2>2. LET p == [Combined EXCEPT !.values[i] = w]
        IN  p \in Page /\ p = [values |-> [Combined.values EXCEPT ![i] = w],
                              key |-> Combined.key, val |-> Combined.val]
    BY <1>2, <2>1, WithValue
  <2> QED BY <2>1, <2>2
<1>6. page.values[0] = P
  BY <1>2, <1>3, <1>4, <1>5, Sizes DEF At
<1>7. PICK other \in Pages :
        /\ other = OtherPage(P) /\ other # P /\ OtherPage(other) = P
        /\ other # Empty /\ other \in Word
  BY <1>4, PageFacts
<1> HIDE DEF page
<1> DEFINE unmarked == [page EXCEPT !.values[0] = Empty]
<1>8. /\ ram' \in Page /\ ram'.key = Erased.key /\ ram'.val = Erased.val
      /\ ram'.values = [page.values EXCEPT ![0] = other]
  <2>1. LET q == [page EXCEPT !.values[0] = other]
        IN  q \in Page /\ q = [values |-> [page.values EXCEPT ![0] = other],
                              key |-> page.key, val |-> page.val]
    <3>1. page \in Page /\ other \in Word
      BY <1>5, <1>7
    <3> QED BY <3>1, WithNumber
  <2>2. ram' = [page EXCEPT !.values[0] = other]
    BY <1>1, <1>6, <1>7
  <2> QED BY <1>5, <2>1, <2>2
<1>9. /\ unmarked \in Page
      /\ unmarked = [values |-> [page.values EXCEPT ![0] = Empty], key |-> page.key,
                     val |-> page.val]
  <2>1. LET q == [page EXCEPT !.values[0] = Empty]
        IN  q \in Page /\ q = [values |-> [page.values EXCEPT ![0] = Empty],
                              key |-> page.key, val |-> page.val]
    <3>1. page \in Page /\ Empty \in Word
      BY <1>5, Sizes
    <3> QED BY <3>1, WithNumber
  <2> QED BY <2>1
<1>10. unmarked = [ram' EXCEPT !.values[0] = Empty]
  <2>1. [ram' EXCEPT !.values[0] = Empty] =
          [values |-> [ram'.values EXCEPT ![0] = Empty], key |-> ram'.key, val |-> ram'.val]
    BY <1>8, WithValue, Sizes
  <2>2. [[page.values EXCEPT ![0] = other] EXCEPT ![0] = Empty] =
          [page.values EXCEPT ![0] = Empty]
    BY <1>5, PageParts
  <2> HIDE DEF unmarked
  <2> QED BY <1>5, <1>8, <1>9, <2>1, <2>2
<1> HIDE DEF unmarked
<1>11. /\ flash'[other] = unmarked
       /\ flash'[P] = ram
  <2>1. SavePage(other, unmarked) /\ flash[other] = Erased
    BY <1>1, <1>6, <1>7 DEF unmarked
  <2>2. /\ flash'[other] = Programmed(flash[other], unmarked)
        /\ flash'[P] = flash[P]
    BY <1>2, <1>4, <1>7, <1>9, <2>1, SaveFacts
  <2>3. Programmed(Erased, unmarked) = unmarked
    BY <1>9, ErasedPage, ProgrammedOver
  <2> QED BY <1>4, <2>1, <2>2, <2>3
<1>12. ram'.values[0] = other /\ \A j \in Vars : ram'.values[j] = IF j = i THEN w ELSE At(ram, map, j)
  <2>1. \A j \in Index : page.values[j] = IF j = i THEN w ELSE At(ram, map, j)
    BY <1>5
  <2>2. page.values \in [Index -> Word]
    BY <1>5, PageParts
  <2> QED BY <1>8, <2>1, <2>2, Sizes
<1>13. MapOf(ram) = map
  BY <1>1, <1>2, StoredCurrent, MapFound DEF RamInv
<1>14. Flipping'
  <2>1. OldPage' = P
    BY <1>7, <1>12 DEF OldPage, OtherPage
  <2>2. Reusable(P)'
    BY <1>4, <1>11 DEF Reusable
  <2>3. ram'.values[busy'.index] = busy'.val
    BY <1>1, <1>2, <1>12
  <2>4. \A j \in Vars \ {busy'.index} : At(flash'[P], MapOf(flash'[P]), j) = ram'.values[j]
    BY <1>1, <1>11, <1>12, <1>13
  <2>5. ram'.values[0] \in Pages /\ Fresh'
    BY <1>1, <1>7, <1>12 DEF Fresh
  <2>6. Reusable(OldPage)'
    BY <2>1, <2>2 DEF Reusable
  <2>7. \A j \in Vars \ {busy'.index} :
          At(flash'[OldPage'], MapOf(flash'[OldPage']), j) = ram'.values[j]
    BY <2>1, <2>4
  <2> QED BY <2>3, <2>5, <2>6, <2>7 DEF Flipping, At
<1>15. flash'[ram'.values[0]] = Marked'
  BY <1>10, <1>11, <1>12 DEF Marked
<1>16. ~Reusable(other)'
  <2>1. unmarked.values[0] = Empty
    BY <1>5, <1>9, PageParts, Sizes
  <2> QED BY <1>7, <1>11, <2>1 DEF Reusable
<1>17. \A p \in Pages : Reusable(p)' => \E f \in Half .. NumVars : Logged(flash'[p], f)
  <2> TAKE p \in Pages
  <2>1. CASE p = other
    BY <1>16, <2>1
  <2>2. CASE p = P
    BY <1>2, <1>4, <1>11, <2>2 DEF Reusable, TakesOver
  <2> QED BY <1>4, <1>7, <2>1, <2>2, PageFacts
<1>18. RamInv'
  <2>1. ram'.values[0] \in Pages \union {Empty} /\ Logged(ram', Half)
        /\ \A j \in Index : LastHit(ram', Half, j, NoMap[j])
    BY <1>7, <1>8, <1>12, EmptyLog
  <2> QED BY <1>1, <2>1 DEF RamInv
<1>19. SoundInv'
  BY <1>1, <1>2, <1>14, <1>15, <1>17, <1>18 DEF SoundInv
<1>20. TakesOver(flash', P)
  <2>1. BasePage # P => BasePage = other
    BY <1>4, <1>7, PageFacts
  <2> QED BY <1>4, <1>7, <1>11, <1>16, <2>1 DEF TakesOver, Reusable
<1>21. Stored' = Found(flash', P)
  BY <1>4, <1>20, StoredAt, Takeover
<1> QED BY <1>4, <1>11, <1>19, <1>21 DEF Found

(* The new page has the variables of the old one, the one being set apart.  *)
LEMMA NewPage ==
  ASSUME TypeOK, RamInv, Flipping, busy.index \in Vars,
         NEW content, NEW page, content[page] = ram
  PROVE  Found(content, page) = [Found(flash, OldPage) EXCEPT ![busy.index] = busy.val]
<1>1. map = NoMap /\ MapOf(ram) = map
  BY MapFound DEF Flipping, Fresh, RamInv, TypeOK
<1>2. Found(content, page) = [i \in Vars |-> ram.values[i]]
  BY <1>1, Sizes DEF Found, At, NoMap
<1>3. Found(flash, OldPage) = [i \in Vars |-> At(flash[OldPage], MapOf(flash[OldPage]), i)]
  BY DEF Found
<1> QED BY <1>2, <1>3 DEF Flipping

(* The two pages within flipAndSave.                                        *)
LEMMA FlipPages ==
  ASSUME Flipping
  PROVE  /\ ram.values[0] \in Pages /\ OldPage \in Pages /\ ram.values[0] # OldPage
         /\ Pages = {ram.values[0], OldPage}
         /\ flash[OldPage].values[0] = OldPage
         /\ OldPage # BasePage => ram.values[0] = BasePage
<1>1. ram.values[0] \in Pages
  BY DEF Flipping
<1>2. BasePage \in Pages
  BY PageFacts
<1> QED BY <1>1, <1>2, PageFacts DEF OldPage, Flipping, Reusable

(* The new page gets its number: it takes over at once if it is the first   *)
(* of the two, and when the old one is erased otherwise.                    *)
LEMMA MarkPageSound ==
  ASSUME TypeOK, SoundInv, MarkPage, ~spoilt
  PROVE  SoundInv' /\ (Stored' = Stored \/ SetsStored)
<1>1. /\ pc = "mark" /\ pc' = "erase" /\ UNCHANGED <<ram, map, fill, busy, spoilt>>
      /\ SavePage(ram.values[0], ram)
  BY DEF MarkPage
<1>2. /\ Flipping /\ RamInv /\ busy.index \in Vars
      /\ flash[ram.values[0]] = Marked
      /\ ram \in Page /\ flash \in [Pages -> Page]
      /\ \A p \in Pages : Reusable(p) => \E f \in Half .. NumVars : Logged(flash[p], f)
  BY <1>1 DEF SoundInv, TypeOK
<1>3. PICK P \in Pages, new \in Pages :
        /\ P = OldPage /\ new = ram.values[0] /\ new # P /\ Pages = {new, P}
        /\ flash[P].values[0] = P /\ (P # BasePage => new = BasePage)
  BY <1>2, FlipPages
<1>4. /\ Marked \in Page /\ Marked.values = [ram.values EXCEPT ![0] = Empty]
      /\ Marked.key = ram.key /\ Marked.val = ram.val
  <2>1. Empty \in Word
    BY Sizes
  <2>2. LET q == [ram EXCEPT !.values[0] = Empty]
        IN  q \in Page /\ q = [values |-> [ram.values EXCEPT ![0] = Empty],
                              key |-> ram.key, val |-> ram.val]
    BY <1>2, <2>1, WithNumber
  <2> QED BY <2>2 DEF Marked
<1>5. flash'[new] = ram /\ flash'[P] = flash[P]
  <2>1. flash'[new] = Programmed(Marked, ram) /\ flash'[P] = flash[P]
    BY <1>1, <1>2, <1>3, SaveFacts
  <2>2. \A i \in Index : Marked.values[i] \in {Empty, ram.values[i]}
    BY <1>2, <1>4, PageParts
  <2>3. Programmed(Marked, ram) = ram
    BY <1>2, <1>4, <2>2, ProgrammedOver
  <2> QED BY <2>1, <2>3
<1>6. Flipping'
  <2>1. OldPage' = P
    BY <1>1, <1>3 DEF OldPage, OtherPage
  <2> QED BY <1>1, <1>2, <1>3, <1>5, <2>1 DEF Flipping, Reusable, Fresh, At
<1>7. RamInv'
  BY <1>1, <1>2 DEF RamInv
<1>8. \A p \in Pages : Reusable(p)' => \E f \in Half .. NumVars : Logged(flash'[p], f)
  <2> TAKE p \in Pages
  <2>1. CASE p = new
    <3>1. fill \in Half .. NumVars /\ Logged(ram, fill)
      BY <1>2 DEF RamInv, TypeOK
    <3> QED BY <1>5, <2>1, <3>1
  <2>2. CASE p = P
    BY <1>2, <1>3, <1>5, <2>2 DEF Reusable
  <2> QED BY <1>3, <2>1, <2>2
<1>9. SoundInv'
  BY <1>1, <1>2, <1>3, <1>5, <1>6, <1>7, <1>8 DEF SoundInv
<1>10. Stored = Found(flash, P)
  <2>1. flash[new].values[0] # new
    BY <1>2, <1>3, <1>4, PageParts, PageFacts, Sizes
  <2>2. TakesOver(flash, P)
    BY <1>3, <2>1 DEF TakesOver
  <2> QED BY <2>2, Takeover, StoredAt
<1>11. CASE P = BasePage
  <2>1. TakesOver(flash', P)
    BY <1>3, <1>5, <1>11 DEF TakesOver
  <2>2. Stored' = Found(flash', P)
    BY <2>1, Takeover, StoredAt
  <2> QED BY <1>5, <1>9, <1>10, <2>2 DEF Found
<1>12. CASE P # BasePage
  <2>1. TakesOver(flash', new)
    BY <1>3, <1>5, <1>12 DEF TakesOver
  <2>2. Stored' = Found(flash', new)
    BY <2>1, Takeover, StoredAt
  <2>3. Stored' = [Found(flash, OldPage) EXCEPT ![busy.index] = busy.val]
    BY <1>2, <1>5, <2>2, NewPage
  <2> QED BY <1>2, <1>3, <1>9, <1>10, <2>3 DEF SetsStored
<1> QED BY <1>11, <1>12

(* The old page goes, and the new one is the only one.                      *)
LEMMA EraseOldSound ==
  ASSUME TypeOK, SoundInv, EraseOld, ~spoilt
  PROVE  /\ SoundInv' /\ (Stored' = Stored \/ SetsStored)
         /\ flash'[ram.values[0]] = ram /\ flash'[OldPage] = Erased
         /\ ram.values[0] \in Pages /\ Pages = {ram.values[0], OldPage}
<1>1. /\ pc = "erase" /\ pc' = "idle" /\ UNCHANGED <<ram, map, fill, busy, spoilt>>
      /\ flash' = [flash EXCEPT ![OldPage] = Erased]
  BY DEF EraseOld, OldPage
<1>2. /\ Flipping /\ RamInv /\ busy.index \in Vars
      /\ flash[ram.values[0]] = ram
      /\ ram \in Page /\ flash \in [Pages -> Page]
      /\ \A p \in Pages : Reusable(p) => \E f \in Half .. NumVars : Logged(flash[p], f)
  BY <1>1 DEF SoundInv, TypeOK
<1>3. PICK P \in Pages, new \in Pages :
        /\ P = OldPage /\ new = ram.values[0] /\ new # P /\ Pages = {new, P}
        /\ flash[P].values[0] = P /\ (P # BasePage => new = BasePage)
  BY <1>2, FlipPages
<1>4. flash'[new] = ram /\ flash'[P] = Erased
  BY <1>1, <1>2, <1>3
<1>5. ~Reusable(P)'
  <2>1. Erased.values[0] = Empty
    BY ErasedPage, Sizes
  <2> QED BY <1>3, <1>4, <2>1, PageFacts DEF Reusable
<1>6. TakesOver(flash', new)
  <2>1. BasePage # new => BasePage = P
    BY <1>3, PageFacts
  <2> QED BY <1>3, <1>4, <1>5, <2>1 DEF TakesOver, Reusable
<1>7. FirstReusable' = {new}
  BY <1>6, Takeover
<1>8. InStep' /\ RamInv'
  BY <1>1, <1>2, <1>3, <1>4, <1>7 DEF InStep, RamInv
<1>9. \A p \in Pages : Reusable(p)' => \E f \in Half .. NumVars : Logged(flash'[p], f)
  <2> TAKE p \in Pages
  <2>1. CASE p = new
    <3>1. fill \in Half .. NumVars /\ Logged(ram, fill)
      BY <1>2 DEF RamInv, TypeOK
    <3> QED BY <1>4, <2>1, <3>1
  <2>2. CASE p = P
    BY <1>5, <2>2
  <2> QED BY <1>3, <2>1, <2>2
<1>10. SoundInv'
  BY <1>1, <1>8, <1>9 DEF SoundInv
<1>11. Stored' = Found(flash', new)
  BY <1>7, StoredAt
<1>12. Stored' = [Found(flash, P) EXCEPT ![busy.index] = busy.val]
  BY <1>2, <1>3, <1>4, <1>11, NewPage
<1>13. CASE P = BasePage
  <2>1. TakesOver(flash, P)
    BY <1>3, <1>13 DEF TakesOver
  <2>2. Stored = Found(flash, P)
    BY <2>1, Takeover, StoredAt
  <2> QED BY <1>2, <1>3, <1>4, <1>10, <1>12, <2>2 DEF SetsStored
<1>14. CASE P # BasePage
  <2>1. TakesOver(flash, new)
    BY <1>2, <1>3, <1>14 DEF TakesOver
  <2>2. Stored = Found(flash, new)
    BY <2>1, Takeover, StoredAt
  <2> QED BY <1>2, <1>3, <1>4, <1>10, <1>11, <2>2 DEF Found
<1> QED BY <1>13, <1>14

(* A first set() erases pages that init would not have taken over anyway.   *)
LEMMA SetKeeps ==
  ASSUME TypeOK, SoundInv, Sets, ~spoilt
  PROVE  Stored' = Stored
<1>1. PICK i \in Vars, w \in NewValues : Set(i, w)
  BY DEF Sets
<1>2. CASE ram.values[0] = Empty
  <2>1. Blank /\ flash' = EraseBoth
    BY <1>1, <1>2, BlankFacts DEF Set
  <2>2. \A page \in Pages : flash'[page].values[0] # page
    BY <2>1, ErasedPage, PageFacts, Sizes DEF EraseBoth
  <2> QED BY <2>1, <2>2, NothingReusable, StoredAt DEF Blank
<1>3. CASE ram.values[0] # Empty
  <2>1. flash' = flash
    BY <1>1, <1>3 DEF Set
  <2> QED BY <2>1 DEF Stored, FirstReusable, Reusable, At
<1> QED BY <1>2, <1>3

LEMMA SpoiltStays ==
  ASSUME TypeOK, [Next]_vars, ~spoilt'
  PROVE  ~spoilt
BY DEF TypeOK, Next, vars, PowerUp, PowerDown, Set, StoreInPlace, AppendTuple, Combine,
       MarkPage, EraseOld

LEMMA NextSound ==
  ASSUME TypeOK, SoundInv, [Next]_vars, ~spoilt, ~spoilt'
  PROVE  SoundInv' /\ (Stored' = Stored \/ SetsStored)
<1>1. ASSUME flash' = flash PROVE Stored' = Stored
  BY <1>1 DEF Stored, FirstReusable, Reusable, At
<1>2. CASE PowerUp
  BY <1>1, <1>2, PowerUpSound DEF PowerUp
<1>3. CASE PowerDown
  BY <1>1, <1>3, PowerDownSound DEF PowerDown
<1>4. CASE Sets
  BY <1>4, SetSound, SetKeeps
<1>5. CASE StoreInPlace
  BY <1>5, StoreInPlaceSound
<1>6. CASE AppendTuple
  BY <1>6, AppendTupleSound
<1>7. CASE Combine
  BY <1>7, CombineSound
<1>8. CASE MarkPage
  BY <1>8, MarkPageSound
<1>9. CASE EraseOld
  BY <1>9, EraseOldSound
<1>10. CASE UNCHANGED vars
  <2>1. SoundInv'
    BY <1>10 DEF vars, SoundInv, Reusable, RamInv, Fresh, Blank, FirstReusable, FirstSet,
                 EraseBoth, InStep, OldPage, Flipping, At, Marked
  <2> QED BY <1>1, <1>10, <2>1 DEF vars
<1> QED BY <1>2, <1>3, <1>4, <1>5, <1>6, <1>7, <1>8, <1>9, <1>10 DEF Next, Sets

-----------------------------------------------------------------------------
(* Without power failures. *)

(* The page that is saved to, and the other one.                            *)
LEMMA StorePage ==
  ASSUME TypeOK, SoundInv, ~spoilt, pc = "store"
  PROVE  ram.values[0] \in Pages
<1>1. FirstSet => ram.values[0] = BasePage
  <2>1. LET q == [Erased EXCEPT !.values[0] = BasePage]
        IN  q = [values |-> [Erased.values EXCEPT ![0] = BasePage], key |-> Erased.key,
                 val |-> Erased.val]
    BY ErasedPage, PageFacts, WithNumber
  <2>2. [Erased.values EXCEPT ![0] = BasePage][0] = BasePage
    BY ErasedPage, Sizes
  <2> QED BY <2>1, <2>2 DEF FirstSet
<1> QED BY <1>1, PageFacts DEF SoundInv, InStep

LEMMA SaveClean ==
  ASSUME TypeOK, SoundInv, ~spoilt, pc = "store", flash[OldPage] = Erased,
         NEW content \in Page, SavePage(ram.values[0], content)
  PROVE  \A page \in Pages : Reusable(page)' => flash'[OtherPage(page)] = Erased
<1>1. PICK P \in Pages, other \in Pages :
        P = ram.values[0] /\ other = OldPage /\ OtherPage(P) = other /\ other # P
        /\ Pages = {P, other}
  BY StorePage, PageFacts DEF OldPage
<1>2. flash'[other] = Erased
  BY <1>1, SaveFacts DEF TypeOK
<1>3. ~Reusable(other)'
  <2>1. Erased.values[0] = Empty
    BY ErasedPage, Sizes
  <2> QED BY <1>1, <1>2, <2>1, PageFacts DEF Reusable
<1> QED BY <1>1, <1>2, <1>3

LEMMA CombineNumber ==
  ASSUME TypeOK, SoundInv, ~spoilt, pc = "store"
  PROVE  [Combined EXCEPT !.values[busy.index] = busy.val].values[0] = ram.values[0]
<1> DEFINE i == busy.index
           w == busy.val
<1>1. /\ map[0] = 0 /\ i \in Vars /\ i \in Index /\ i # 0 /\ w \in Word
  BY NumberInPlace, Sizes DEF SoundInv, TypeOK
<1>2. Combined \in Page /\ Combined.values = [j \in Index |-> At(ram, map, j)]
  BY CombinedType DEF Combined
<1> HIDE DEF i, w
<1>3. LET p == [Combined EXCEPT !.values[i] = w]
      IN  p = [values |-> [Combined.values EXCEPT ![i] = w], key |-> Combined.key,
               val |-> Combined.val]
  BY <1>1, <1>2, WithValue
<1>4. [Combined EXCEPT !.values[i] = w].values[0] = At(ram, map, 0)
  BY <1>1, <1>2, <1>3, Sizes
<1> QED BY <1>1, <1>4 DEF At, i, w

LEMMA NextClean ==
  ASSUME TypeOK, TypeOK', SoundInv, CleanInv, [Next]_vars
  PROVE  CleanInv'
<1> SUFFICES ASSUME failures' = 0
             PROVE  /\ ~spoilt'
                    /\ pc' \in {"off", "idle"} =>
                         \A page \in Pages :
                           Reusable(page)' => flash'[OtherPage(page)] = Erased
                    /\ pc' = "store" => flash'[OtherPage(ram'.values[0])] = Erased
  BY DEF CleanInv, OldPage, OtherPage
<1>1. failures \in Nat /\ (failures' = failures \/ failures' = failures + 1)
  BY RomVarsAssumption
     DEF TypeOK, Next, vars, PowerUp, PowerDown, Set, StoreInPlace, AppendTuple, Combine,
         MarkPage, EraseOld
<1>2. /\ failures = 0 /\ ~spoilt
      /\ pc \in {"off", "idle"} =>
           \A page \in Pages : Reusable(page) => flash[OtherPage(page)] = Erased
      /\ pc = "store" => flash[OldPage] = Erased
  <2>1. failures = 0
    BY <1>1
  <2> QED BY <2>1 DEF CleanInv
<1>3. CASE PowerUp
  BY <1>2, <1>3 DEF PowerUp, Reusable
<1>4. CASE PowerDown
  <2>1. pc = "idle"
    BY <1>1, <1>2, <1>4 DEF PowerDown
  <2> QED BY <1>2, <1>4, <2>1 DEF PowerDown, Reusable
<1>5. CASE Sets
  <2>1. PICK i \in Vars, w \in NewValues : Set(i, w)
    BY <1>5 DEF Sets
  <2>2. pc = "idle" /\ pc' = "store" /\ UNCHANGED spoilt
    BY <2>1 DEF Set
  <2>3. CASE ram.values[0] = Empty
    <3>1. flash' = EraseBoth
      BY <2>1, <2>3 DEF Set
    <3>2. OtherPage(ram'.values[0]) \in Pages
      BY PageFacts
    <3> QED BY <1>2, <2>2, <3>1, <3>2 DEF EraseBoth
  <2>4. CASE ram.values[0] # Empty
    <3>1. UNCHANGED <<ram, flash>> /\ InStep
      BY <1>2, <2>1, <2>2, <2>4, BlankFacts DEF Set
    <3>2. ram.values[0] \in Pages /\ Reusable(ram.values[0])
      BY <3>1 DEF InStep, Reusable
    <3> QED BY <1>2, <2>2, <3>1, <3>2
  <2> QED BY <2>3, <2>4
<1>6. CASE StoreInPlace
  <2>1. pc = "store" /\ pc' = "idle" /\ UNCHANGED spoilt /\ SavePage(ram.values[0], ram')
    BY <1>6 DEF StoreInPlace
  <2> QED BY <1>2, <2>1, SaveClean DEF TypeOK
<1>7. CASE AppendTuple
  <2>1. pc = "store" /\ pc' = "idle" /\ UNCHANGED spoilt /\ SavePage(ram.values[0], ram')
    BY <1>7 DEF AppendTuple
  <2> QED BY <1>2, <2>1, SaveClean DEF TypeOK
<1>8. CASE Combine
  <2>1. pc = "store" /\ pc' = "mark"
        /\ spoilt' = (spoilt \/ flash[OtherPage(
              [Combined EXCEPT !.values[busy.index] = busy.val].values[0])] # Erased)
    BY <1>8 DEF Combine
  <2>2. spoilt' = (spoilt \/ flash[OldPage] # Erased)
    BY <1>2, <2>1, CombineNumber DEF OldPage
  <2> QED BY <1>2, <2>1, <2>2
<1>9. CASE MarkPage
  BY <1>2, <1>9 DEF MarkPage
<1>10. CASE EraseOld
  <2>1. /\ pc' = "idle" /\ UNCHANGED spoilt
        /\ flash'[OldPage] = Erased
        /\ ram.values[0] \in Pages /\ Pages = {ram.values[0], OldPage}
    BY <1>2, <1>10, EraseOldSound DEF EraseOld
  <2>2. PICK other \in Pages : other = OldPage
    BY <2>1
  <2>3. ~Reusable(other)'
    <3>1. Erased.values[0] = Empty
      BY ErasedPage, Sizes
    <3> QED BY <2>1, <2>2, <3>1, PageFacts DEF Reusable
  <2> QED BY <1>2, <2>1, <2>2, <2>3 DEF OldPage
<1>11. CASE UNCHANGED vars
  BY <1>2, <1>11 DEF vars, Reusable, OldPage
<1> QED BY <1>3, <1>4, <1>5, <1>6, <1>7, <1>8, <1>9, <1>10, <1>11 DEF Next, Sets

-----------------------------------------------------------------------------
(* The theorems. *)

LEMMA NextInv == IInv /\ [Next]_vars => IInv'
<1> SUFFICES ASSUME TypeOK, SoundInv, CleanInv, [Next]_vars
             PROVE  IInv'
  BY DEF IInv
<1>1. TypeOK'
  BY NextType
<1>2. SoundInv'
  <2>1. CASE spoilt'
    BY <2>1 DEF SoundInv
  <2>2. CASE ~spoilt'
    BY <2>2, SpoiltStays, NextSound
  <2> QED BY <2>1, <2>2
<1>3. CleanInv'
  BY <1>1, NextClean
<1> QED BY <1>1, <1>2, <1>3 DEF IInv

(* The inductive invariant: what the two pages, the RAM and the log hold    *)
(* between any two flash operations.                                        *)
THEOREM Invariance == Spec => []IInv
<1>1. Init => IInv
  BY InitType, InitSound DEF IInv
<1> QED BY <1>1, NextInv, PTL DEF Spec

(* The log never grows past the page, and what is programmed is a page.     *)
THEOREM TypeCorrect == Spec => []TypeOK
<1>1. IInv => TypeOK
  BY DEF IInv
<1> QED BY <1>1, Invariance, PTL

(* Whenever no set() is under way, init would read back exactly the         *)
(* variables as they are, up to a flip that programs a page that a power    *)
(* failure left unerased.                                                   *)
THEOREM AlwaysSaved == Spec => []SavedAcrossPowerCycles
<1>1. IInv => SavedAcrossPowerCycles
  <2> SUFFICES ASSUME TypeOK, SoundInv, pc = "idle", ~spoilt
               PROVE  Stored = Current
    BY DEF IInv, SavedAcrossPowerCycles
  <2> QED BY StoredCurrent
<1> QED BY <1>1, Invariance, PTL

(* Without power failures no flip programs old contents and at most one     *)
(* page is marked as current; the page in use is what RAM holds.            *)
THEOREM AlwaysClean == Spec => []NothingLeftOver
<1>1. IInv => NothingLeftOver
  <2> SUFFICES ASSUME TypeOK, SoundInv, CleanInv
               PROVE  NothingLeftOver
    BY DEF IInv
  <2>1. failures = 0 => ~spoilt
    BY DEF CleanInv
  <2>2. ASSUME pc = "idle", ram.values[0] # Empty, ~spoilt
        PROVE  flash[ram.values[0]] = ram
    BY <2>2, BlankFacts DEF InStep
  <2>3. ASSUME pc = "idle", failures = 0, Reusable(BasePage), Reusable(BasePage + 1)
        PROVE  FALSE
    <3>1. flash[BasePage + 1] = Erased
      BY <2>3, PageFacts DEF CleanInv, OtherPage
    <3>2. Erased.values[0] = Empty
      BY ErasedPage, Sizes
    <3> QED BY <2>3, <3>1, <3>2, PageFacts DEF Reusable
  <2> QED BY <2>1, <2>2, <2>3 DEF NothingLeftOver
<1> QED BY <1>1, Invariance, PTL

LEMMA StoredType == TypeOK => Stored \in [Vars -> Word]
<1> SUFFICES ASSUME TypeOK PROVE Stored \in [Vars -> Word]
  OBVIOUS
<1>1. CASE FirstReusable = {}
  BY <1>1, StoredAt, Sizes
<1>2. CASE \E page \in Pages : FirstReusable = {page}
  <2>1. PICK page \in Pages : FirstReusable = {page}
    BY <1>2
  <2>2. flash[page] \in Page
    BY DEF TypeOK
  <2>3. \A i \in Vars : At(flash[page], MapOf(flash[page]), i) \in Word
    BY <2>2, MapType, AtType, Sizes
  <2> QED BY <2>1, <2>3, StoredAt DEF Found
<1> QED BY <1>1, <1>2, SomethingReusable

(* A set() is under way, or none is.                                        *)
LEMMA RequestFacts ==
  ASSUME TypeOK
  PROVE  /\ pc \in {"store", "mark", "erase"} => Request = busy /\ Power = "on"
         /\ pc \in {"idle", "off"} => Request = NoRequest
         /\ pc = "idle" => Power = "on"
         /\ pc = "off" => Power = "off"
         /\ Power \in {"on", "off"}
BY DEF Request, Power, TypeOK

(* While a set() is under way there is one, for a variable that can be set. *)
LEMMA RequestType ==
  ASSUME TypeOK, SoundInv, ~spoilt, pc \in {"store", "mark", "erase"}
  PROVE  /\ busy \in Store!Requests /\ busy.index \in Vars /\ busy # NoRequest
<1>1. busy.index \in Vars
  BY DEF SoundInv
<1>2. busy \in [index : Index, val : Word]
  BY DEF TypeOK
<1>3. busy = [index |-> busy.index, val |-> busy.val] /\ busy.val \in Word
  BY <1>2
<1> QED BY <1>1, <1>3, Sizes DEF Store!Requests, NoRequest

(* When flipAndSave ends, the variable has its new value.                   *)
LEMMA FlipStores ==
  ASSUME TypeOK, TypeOK', SoundInv, EraseOld, ~spoilt
  PROVE  Stored'[busy.index] = busy.val
<1>1. /\ pc = "erase" /\ pc' = "idle" /\ UNCHANGED <<ram, map, fill, busy, spoilt>>
  BY DEF EraseOld
<1>2. SoundInv' /\ ~spoilt'
  BY <1>1, EraseOldSound
<1>3. Flipping /\ busy.index \in Vars
  BY <1>1 DEF SoundInv
<1>4. Stored' = Current'
  <2>1. (TypeOK /\ SoundInv /\ ~spoilt /\ pc \in {"idle", "store"} => Stored = Current)'
    BY StoredCurrent, PTL
  <2> QED BY <1>1, <1>2, <2>1
<1>5. Current' = Current
  BY <1>1 DEF Current, At
<1>6. Current[busy.index] = ram.values[busy.index]
  BY <1>3, Sizes DEF Current, At, Flipping, Fresh, NoMap
<1> QED BY <1>3, <1>4, <1>5, <1>6 DEF Flipping

(* The last step of a set(), and one in the middle of it.                   *)
LEMMA Committed ==
  ASSUME TypeOK, TypeOK', SoundInv, ~spoilt, spoilt' = spoilt,
         pc \in {"store", "mark", "erase"}, SetsStored,
         \/ pc' = "idle"
         \/ pc' \in {"store", "mark", "erase"} /\ busy' = busy
  PROVE  Store!Commit
<1>1. Request = busy /\ Power = "on" /\ Request # NoRequest
  BY RequestFacts, RequestType
<1>2. Power' = "on" /\ Request' \in {Request, NoRequest}
  <2>1. CASE pc' = "idle"
    BY <2>1 DEF Request, Power
  <2>2. CASE pc' \in {"store", "mark", "erase"} /\ busy' = busy
    BY <1>1, <2>2 DEF Request, Power
  <2> QED BY <2>1, <2>2
<1>3. Stored' = [Stored EXCEPT ![Request.index] = Request.val]
  BY <1>1 DEF SetsStored
<1>4. (~spoilt') = (~spoilt)
  OBVIOUS
<1> QED BY <1>1, <1>2, <1>3, <1>4, Zenon DEF Store!Commit

(* What any step does to the variables in flash and to the set() under way. *)
LEMMA SoundStep ==
  ASSUME TypeOK, TypeOK', SoundInv, [Next]_vars, ~spoilt, ~spoilt'
  PROVE  [Store!Next]_(Store!vars)
<1>0. (~spoilt') = (~spoilt)
  OBVIOUS
<1>1. ASSUME flash' = flash PROVE Stored' = Stored
  BY <1>1 DEF Stored, FirstReusable, Reusable, At
<1>2. CASE PowerUp
  <2>1. pc = "off" /\ pc' = "idle" /\ Stored' = Stored
    BY <1>1, <1>2 DEF PowerUp
  <2>2. Power = "off" /\ Power' = "on" /\ Request' = Request
    BY <2>1 DEF Power, Request
  <2> QED BY <1>0, <2>1, <2>2, Zenon DEF Store!PowerUp, Store!Next
<1>3. CASE PowerDown
  <2>1. pc # "off" /\ pc' = "off" /\ Stored' = Stored
    BY <1>1, <1>3 DEF PowerDown
  <2>2. Power = "on" /\ Power' = "off" /\ Request' = NoRequest
    BY <2>1 DEF Power, Request
  <2> QED BY <1>0, <2>1, <2>2, Zenon DEF Store!PowerDown, Store!Next
<1>4. CASE Sets
  <2>1. PICK i \in Vars, w \in NewValues : Set(i, w)
    BY <1>4 DEF Sets
  <2>2. pc = "idle" /\ pc' = "store" /\ busy' = [index |-> i, val |-> w]
    BY <2>1 DEF Set
  <2>3. Power = "on" /\ Power' = Power /\ Request = NoRequest
        /\ Request' = [index |-> i, val |-> w]
    BY <2>2 DEF Power, Request
  <2>4. Stored' = Stored
    BY <1>4, SetKeeps
  <2>5. Store!Set(i, w)
    BY <1>0, <2>3, <2>4, Zenon DEF Store!Set
  <2>6. i \in Vars /\ w \in Word
    BY RomVarsAssumption
  <2> QED BY <2>5, <2>6, Zenon DEF Store!Next
<1>5. CASE StoreInPlace
  <2>1. pc = "store" /\ pc' = "idle" /\ spoilt' = spoilt /\ SetsStored
    BY <1>5, StoreInPlaceSound DEF StoreInPlace
  <2> QED BY <2>1, Committed, Zenon DEF Store!Next
<1>6. CASE AppendTuple
  <2>1. pc = "store" /\ pc' = "idle" /\ spoilt' = spoilt /\ SetsStored
    BY <1>6, AppendTupleSound DEF AppendTuple
  <2> QED BY <2>1, Committed, Zenon DEF Store!Next
<1>7. CASE Combine
  <2>1. pc = "store" /\ pc' = "mark" /\ busy' = busy /\ Stored' = Stored
    BY <1>7, CombineSound DEF Combine
  <2>2. Power' = Power /\ Request' = Request
    BY <2>1 DEF Power, Request
  <2> QED BY <1>0, <2>1, <2>2, Zenon DEF Store!vars
<1>8. CASE MarkPage
  <2>1. pc = "mark" /\ pc' = "erase" /\ busy' = busy /\ spoilt' = spoilt
    BY <1>8 DEF MarkPage
  <2>2. CASE SetsStored
    BY <2>1, <2>2, Committed, Zenon DEF Store!Next
  <2>3. CASE Stored' = Stored
    <3>1. Power' = Power /\ Request' = Request
      BY <2>1 DEF Power, Request
    <3> QED BY <1>0, <2>3, <3>1, Zenon DEF Store!vars
  <2> QED BY <1>8, <2>2, <2>3, MarkPageSound
<1>9. CASE EraseOld
  <2>1. pc = "erase" /\ pc' = "idle" /\ busy' = busy /\ spoilt' = spoilt
    BY <1>9 DEF EraseOld
  <2>2. CASE SetsStored
    BY <2>1, <2>2, Committed, Zenon DEF Store!Next
  <2>3. CASE Stored' = Stored
    <3>1. Request = busy /\ Power = "on" /\ Request # NoRequest
      BY <2>1, RequestFacts, RequestType
    <3>2. Stored[Request.index] = Request.val
      BY <1>9, <2>3, <3>1, FlipStores
    <3>3. Power' = Power /\ Request' = NoRequest
      BY <2>1 DEF Power, Request
    <3>4. Store!Return
      BY <1>0, <2>3, <3>1, <3>2, <3>3, Zenon DEF Store!Return
    <3> QED BY <3>4, Zenon DEF Store!Next
  <2> QED BY <1>9, <2>2, <2>3, EraseOldSound
<1>10. CASE UNCHANGED vars
  <2>1. Stored' = Stored /\ Power' = Power /\ Request' = Request
    BY <1>1, <1>10 DEF vars, Power, Request
  <2> QED BY <1>0, <2>1, Zenon DEF Store!vars
<1> QED BY <1>2, <1>3, <1>4, <1>5, <1>6, <1>7, <1>8, <1>9, <1>10 DEF Next, Sets

LEMMA StepsToStore == IInv /\ IInv' /\ [Next]_vars => [Store!Next]_(Store!vars)
<1>0. TypeOK' => (Stored \in [Vars -> Word])'
  BY StoredType, PTL
<1> SUFFICES ASSUME TypeOK, TypeOK', SoundInv, [Next]_vars
             PROVE  [Store!Next]_(Store!vars)
  BY DEF IInv
<1>1. CASE spoilt'
  <2>1. (~spoilt') = FALSE
    BY <1>1
  <2> QED BY <1>0, <2>1, Zenon DEF Store!Next, Store!Spoil
<1>2. CASE ~spoilt'
  BY <1>2, SpoiltStays, SoundStep
<1> QED BY <1>1, <1>2

(* RomVars implements VarStore: at any moment, within flipAndSave too, the  *)
(* flash holds the variables with the set() under way either done or not    *)
(* done, with the value that it was called with, and all the others as they *)
(* were; it is done when the call returns, and a power failure changes      *)
(* nothing.                                                                 *)
THEOREM Refinement == Spec => ImplementsVarStore
<1>1. Init => Store!Init
  <2> SUFFICES ASSUME Init PROVE Store!Init
    OBVIOUS
  <2>1. \A page \in Pages : flash[page].values[0] # page
    <3>1. \A page \in Pages : flash[page].values[0] \in {0, Empty}
      BY Sizes, ErasedPage DEF Init
    <3> QED BY <3>1, PageFacts
  <2>2. Stored = [i \in Vars |-> Empty]
    BY <2>1, NothingReusable, StoredAt
  <2>3. (~spoilt) = TRUE
    BY DEF Init
  <2>4. Request = NoRequest /\ Power = "off"
    BY DEF Init, Request, Power
  <2> QED BY <2>2, <2>3, <2>4, Zenon DEF Store!Init
<1> QED BY <1>1, StepsToStore, Invariance, PTL DEF Spec, ImplementsVarStore, Store!Spec
=============================================================================
