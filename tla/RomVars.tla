-------------------------------- MODULE RomVars --------------------------------
(***************************************************************************)
(* Variables kept in flash, emulating an EEPROM: lib/driver/romvars.h on   *)
(* top of lib/arch-lpc8xx/flash.h.                                         *)
(*                                                                         *)
(* Two pages take turns.  The first half of a page holds the values as     *)
(* they were when the page was started, values[0] being the number of the  *)
(* page; the second half a log of (key, val) tuples.  A page is erased as  *)
(* a whole and can be programmed again before that, which only clears      *)
(* bits.  The power may fail between any two flash operations.             *)
(***************************************************************************)
EXTENDS Integers

CONSTANTS
  Empty,       \* the greatest word, all of its bits set (0xFFFF)
  And(_, _),   \* the bits that two words have in common
  NumVars,     \* words in half a page, and tuples in a page
  BasePage,    \* the first of the two pages, an even number
  NewValues,   \* values given to set()
  MaxFailures  \* bound: power failures in the middle of set()

Word   == 0 .. Empty
Half   == NumVars \div 2
Index  == 0 .. NumVars - 1
Vars   == Index \ {0}
Log    == Half .. NumVars - 1
Pages  == {BasePage, BasePage + 1}

ASSUME RomVarsAssumption ==
  /\ Empty \in Nat
  /\ \A v, w \in Word : And(v, w) \in Word
  /\ \A w \in Word : And(Empty, w) = w /\ And(w, w) = w
  /\ NumVars \in Nat /\ NumVars >= 2 /\ NumVars % 2 = 0
  /\ NumVars <= Empty
  /\ BasePage \in Nat \ {0} /\ BasePage % 2 = 0 /\ BasePage + 1 < Empty
  /\ NewValues \subseteq Word
  /\ MaxFailures \in Nat

(* The tuples below Half overlay the values, so a page is modelled as the   *)
(* values, and the keys and vals of the tuples above.                       *)
Page == [values : [Index -> Word], key : [Log -> Word], val : [Log -> Word]]

VARIABLES
  flash,      \* contents of the two pages
  ram,        \* the page in RAM: values / tuples
  map, fill,
  pc,         \* "idle", "off", or where set() is
  busy,       \* the variable being set and its new value
  failures,
  spoilt      \* history: a flip programmed a page that was not erased

vars == <<flash, ram, map, fill, pc, busy, failures, spoilt>>

-----------------------------------------------------------------------------
(* Flash *)

Erased ==
  [values |-> [i \in Index |-> Empty], key |-> [t \in Log |-> Empty],
   val |-> [t \in Log |-> Empty]]

(* Chip_IAP_CopyRamToFlash of a whole page: programming a word clears bits  *)
(* and sets none.                                                           *)
Programmed(old, new) ==
  [values |-> [i \in Index |-> And(old.values[i], new.values[i])],
   key    |-> [t \in Log |-> And(old.key[t], new.key[t])],
   val    |-> [t \in Log |-> And(old.val[t], new.val[t])]]

SavePage(page, content) ==
  flash' = [flash EXCEPT ![page] = Programmed(@, content)]

(* page ^ 1 *)
OtherPage(page) == IF page = BasePage THEN BasePage + 1 ELSE BasePage

-----------------------------------------------------------------------------
(* reusePage: the log of a page is read up to the first key that is none.   *)
FillOf(page) ==
  CHOOSE f \in Half .. NumVars :
    /\ \A t \in Half .. f - 1 : page.key[t] < NumVars
    /\ f < NumVars => page.key[f] >= NumVars

(* Mistake: the first tuple of a variable counts, not the last one.         *)
MapOfFirst(page) ==
  [i \in Index |->
     LET hits == {t \in Half .. FillOf(page) - 1 : page.key[t] = i}
     IN  IF hits = {} THEN 0 ELSE CHOOSE t \in hits : \A u \in hits : t <= u]

MapOf(page) ==
  [i \in Index |->
     LET hits == {t \in Half .. FillOf(page) - 1 : page.key[t] = i}
     IN  IF hits = {} THEN 0 ELSE CHOOSE t \in hits : \A u \in hits : u <= t]

NoMap == [i \in Index |-> 0]

Reusable(page) == flash[page].values[0] = page

(* init: the page it takes over, if any.                                    *)
FirstReusable ==
  IF Reusable(BasePage) THEN {BasePage}
  ELSE IF Reusable(BasePage + 1) THEN {BasePage + 1} ELSE {}

(* at(): a variable in a page that was read with a given map.               *)
At(page, m, i) == IF m[i] = 0 THEN page.values[i] ELSE page.val[m[i]]

(* The variables as they are now, and as init would find them.              *)
Current == [i \in Vars |-> At(ram, map, i)]
Stored  == [i \in Vars |->
              IF FirstReusable = {} THEN Empty
              ELSE LET page == flash[CHOOSE p \in FirstReusable : TRUE]
                   IN  At(page, MapOf(page), i)]

-----------------------------------------------------------------------------
(* The flash holds something else at first, or is erased.                   *)
Init ==
  /\ flash \in [Pages -> {Erased, [values |-> [i \in Index |-> 0],
                                   key |-> [t \in Log |-> 0],
                                   val |-> [t \in Log |-> 0]]}]
  /\ ram = Erased
  /\ map = NoMap
  /\ fill = Half
  /\ pc = "off"
  /\ busy = [index |-> 0, val |-> Empty]
  /\ failures = 0
  /\ spoilt = FALSE

(* init(), after power-up.                                                  *)
PowerUp ==
  /\ pc = "off"
  /\ pc' = "idle"
  /\ \/ /\ FirstReusable = {}
        /\ ram' = Erased /\ map' = NoMap /\ fill' = Half
     \/ \E page \in FirstReusable :
          /\ ram' = flash[page]
          /\ map' = MapOf(flash[page])
          /\ fill' = FillOf(flash[page])
  /\ UNCHANGED <<flash, busy, failures, spoilt>>

(* Power goes while nothing is being set, or in the middle of it.           *)
PowerDown ==
  /\ pc # "off"
  /\ IF pc = "idle" THEN failures' = failures
     ELSE failures < MaxFailures /\ failures' = failures + 1
  /\ pc' = "off"
  /\ busy' = [index |-> 0, val |-> Empty]
  /\ ram' = Erased /\ map' = NoMap /\ fill' = Half
  /\ UNCHANGED <<flash, spoilt>>

(* Mistake: only the first of the pages is erased.                          *)
EraseFirst == [flash EXCEPT ![BasePage] = Erased]

(* flash.erase(BasePage, 2)                                                 *)
EraseBoth == [page \in Pages |-> Erased]

(* set() with a new value; the first one ever erases both pages.            *)
Set(i, w) ==
  /\ pc = "idle"
  /\ w # At(ram, map, i)
  /\ busy' = [index |-> i, val |-> w]
  /\ IF ram.values[0] = Empty
     THEN /\ ram' = [ram EXCEPT !.values[0] = BasePage]
          /\ flash' = EraseBoth
     ELSE UNCHANGED <<ram, flash>>
  /\ pc' = "store"
  /\ UNCHANGED <<map, fill, failures, spoilt>>

(* A variable that is still Empty gets its value where it is.               *)
StoreInPlace ==
  LET i == busy.index
      page == IF map[i] = 0 THEN [ram EXCEPT !.values[i] = busy.val]
                            ELSE [ram EXCEPT !.val[map[i]] = busy.val]
  IN  /\ pc = "store"
      /\ At(ram, map, i) = Empty
      /\ ram' = page
      /\ SavePage(ram.values[0], page)
      /\ pc' = "idle"
      /\ UNCHANGED <<map, fill, busy, failures, spoilt>>

(* There is room in the log.                                                *)
HasRoom == fill < NumVars

(* Otherwise it gets a new tuple, as long as there is room.                 *)
AppendTuple ==
  LET i == busy.index
      page == [ram EXCEPT !.key[fill] = i, !.val[fill] = busy.val]
  IN  /\ pc = "store"
      /\ At(ram, map, i) # Empty
      /\ HasRoom
      /\ ram' = page
      /\ map' = [map EXCEPT ![i] = fill]
      /\ fill' = fill + 1
      /\ SavePage(ram.values[0], page)
      /\ pc' = "idle"
      /\ UNCHANGED <<busy, failures, spoilt>>

(* Mistake: the log is dropped.                                             *)
CombinedWithoutLog ==
  [values |-> ram.values, key |-> Erased.key, val |-> Erased.val]

(* combineChanges: the log is merged into the values.                       *)
Combined ==
  [values |-> [i \in Index |-> At(ram, map, i)],
   key |-> Erased.key, val |-> Erased.val]

(* The log is full: combineChanges, and flipAndSave up to its first save,   *)
(* which leaves the page unmarked.                                          *)
Combine ==
  LET page == [Combined EXCEPT !.values[busy.index] = busy.val]
  IN  /\ pc = "store"
      /\ At(ram, map, busy.index) # Empty
      /\ ~HasRoom
      /\ map' = NoMap
      /\ fill' = Half
      /\ ram' = [page EXCEPT !.values[0] = OtherPage(page.values[0])]
      /\ SavePage(OtherPage(page.values[0]), [page EXCEPT !.values[0] = Empty])
      /\ pc' = "mark"
      /\ spoilt' = (spoilt \/ flash[OtherPage(page.values[0])] # Erased)
      /\ UNCHANGED <<busy, failures>>

(* flipAndSave: the second save adds the page number ...                    *)
MarkPage ==
  /\ pc = "mark"
  /\ SavePage(ram.values[0], ram)
  /\ pc' = "erase"
  /\ UNCHANGED <<ram, map, fill, busy, failures, spoilt>>

(* ... and then the old page is erased.                                     *)
EraseOld ==
  /\ pc = "erase"
  /\ flash' = [flash EXCEPT ![OtherPage(ram.values[0])] = Erased]
  /\ pc' = "idle"
  /\ UNCHANGED <<ram, map, fill, busy, failures, spoilt>>

Next ==
  \/ PowerUp \/ PowerDown
  \/ \E i \in Vars, w \in NewValues : Set(i, w)
  \/ StoreInPlace \/ AppendTuple \/ Combine \/ MarkPage \/ EraseOld

Spec == Init /\ [][Next]_vars

-----------------------------------------------------------------------------
(* Properties *)

(* Type invariant: the log never grows past the page.                       *)
TypeOK ==
  /\ flash \in [Pages -> Page]
  /\ ram \in Page
  /\ map \in [Index -> {0} \union Log]
  /\ fill \in Half .. NumVars
  /\ pc \in {"off", "idle", "store", "mark", "erase"}
  /\ busy \in [index : Index, val : Word]
  /\ failures \in 0 .. MaxFailures
  /\ spoilt \in BOOLEAN

(* "saved across power cycles": whenever no set() is under way, init would  *)
(* read back exactly the variables as they are, the log and the choice of   *)
(* page included.  A power failure in flipAndSave leaves a page that is not *)
(* erased; that shows when the next flip programs it, and not before.       *)
SavedAcrossPowerCycles == pc = "idle" /\ ~spoilt => Stored = Current

(* set() never programs a bit of a page that it cannot rely on to be        *)
(* erased: the page ends up with what was meant, not with an AND of that    *)
(* and older data.  Without power failures no flip programs old contents,   *)
(* and at most one page is marked as current, so that init has no stale     *)
(* page to choose.                                                          *)
NothingLeftOver ==
  /\ failures = 0 => ~spoilt
  /\ pc = "idle" =>
       /\ ram.values[0] # Empty /\ ~spoilt => flash[ram.values[0]] = ram
       /\ failures = 0 => ~(Reusable(BasePage) /\ Reusable(BasePage + 1))

(* What init would find in the flash at any moment, within flipAndSave too, *)
(* behaves as VarStore: each step leaves it alone or gives the variable of  *)
(* the set() under way the value that is being set; set() does not return   *)
(* before that, and a power failure in the middle of it leaves the variable *)
(* as it was or as it was to be, and all the others alone.                  *)
NoRequest == [index |-> 0, val |-> Empty]
Request   == IF pc \in {"store", "mark", "erase"} THEN busy ELSE NoRequest
Power     == IF pc = "off" THEN "off" ELSE "on"
Store == INSTANCE VarStore WITH
  Index <- Vars, value <- Stored, request <- Request, power <- Power, sound <- ~spoilt

(* RomVars implements VarStore.                                             *)
ImplementsVarStore == Store!Spec
=============================================================================
