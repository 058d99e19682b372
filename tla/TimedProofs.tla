---------------------------- MODULE TimedProofs ----------------------------
(***************************************************************************)
(* The circular list of tasks is right for any set of tasks and any order  *)
(* of operations.  The tasks of an application keep to these operations,   *)
(* no wake of a worker is lost but one that was started again too early,   *)
(* and the processor sleeps only when nobody has anything to do: for any   *)
(* slots, intervals and callbacks.                                         *)
(***************************************************************************)
EXTENDS Timed, TLAPS

-----------------------------------------------------------------------------
(* The multitasker. *)

\* From a task on the list one meets the tasks on the list and no others.
LEMMA MetIsRing ==
    ASSUME MultiTypeOK, RingExact, up \in ring
    PROVE  Met = ring
<1>1. Met \subseteq ring
  BY DEF Met, MultiTypeOK, RingExact
<1>2. ring \subseteq Met
  <2> SUFFICES ASSUME NEW t \in ring, NEW S \in SUBSET Tasks, up \in S, Closed(S)
               PROVE  t \in S
    BY DEF Met, MultiTypeOK
  <2>1. Closed(S \cap ring)
    BY DEF Closed, RingExact
  <2>2. S \cap ring = ring
    BY <2>1 DEF RingExact
  <2> QED BY <2>2
<1> QED BY <1>1, <1>2

\* A task on the list has a task before it, which previous finds.
LEMMA PreviousPoints ==
    ASSUME MultiTypeOK, RingExact, up \in ring, NEW t \in ring
    PROVE  previous(t) \in ring /\ nxt[previous(t)] = t
<1>1. \E p \in ring : nxt[p] = t
  <2> SUFFICES ASSUME \A p \in ring : nxt[p] # t
               PROVE  FALSE
    OBVIOUS
  <2>1. Closed(ring \ {t})
    BY DEF Closed, RingExact
  <2>2. nxt[t] \in ring \ {t}
    BY DEF RingExact, Closed
  <2>3. ring \ {t} = ring
    BY <2>1, <2>2 DEF RingExact
  <2> QED BY <2>3
<1>2. Met = ring
  BY MetIsRing
<1> QED BY <1>1, <1>2 DEF previous

\* A task put after the current one is on the circle.
LEMMA InsertKeeps ==
    ASSUME MultiTypeOK, RingExact, NEW t \in Tasks, insert(t)
    PROVE  RingExact' /\ nxt' \in [Tasks -> Tasks] /\ ring' \subseteq Tasks
<1>0. up \in ring /\ Met = ring /\ up' = up /\ up \in Tasks
  BY MetIsRing DEF insert, Listed, MultiTypeOK
<1>1. CASE t \in ring
  <2>1. nxt' = nxt /\ ring' = ring
    BY <1>0, <1>1 DEF insert, taskInList
  <2> QED BY <2>1, <1>0 DEF RingExact, Closed, MultiTypeOK
<1>2. CASE t \notin ring
  <2>1. /\ nxt' = [nxt EXCEPT ![t] = nxt[up], ![up] = t]
        /\ ring' = ring \cup {t}
    BY <1>0, <1>2 DEF insert, taskInList
  <2>2. /\ nxt'[up] = t /\ nxt'[t] = nxt[up] /\ nxt[up] \in ring
        /\ \A p \in ring : p # up => nxt'[p] = nxt[p] /\ nxt[p] \in ring
    BY <2>1, <1>0, <1>2 DEF MultiTypeOK, RingExact, Closed
  <2>a. ring' = ring \cup {t}
    BY <2>1
  <2>3. Closed(ring)' /\ (nxt[up] \in ring)'
    <3>1. \A p \in ring' : nxt'[p] \in ring'
      BY <2>a, <2>2, <1>0
    <3> QED BY <3>1, <2>a, <1>0 DEF Closed
  <2>4. ASSUME NEW S \in SUBSET ring', S # {}, \A p \in S : nxt'[p] \in S
        PROVE  S = ring'
    <3>1. S \ {t} # {}
      BY <2>1, <2>2, <2>4, <1>2
    <3>2. Closed(S \ {t})
      <4> SUFFICES ASSUME NEW p \in S \ {t} PROVE nxt[p] \in S \ {t}
        BY DEF Closed
      <4>1. CASE p = up
        BY <4>1, <2>2, <2>4, <1>2
      <4>2. CASE p # up
        BY <4>2, <2>1, <2>2, <2>4, <1>2
      <4> QED BY <4>1, <4>2
    <3>3. S \ {t} = ring
      BY <3>1, <3>2, <2>1 DEF RingExact
    <3>4. t \in S
      BY <3>3, <2>2, <2>4, <1>0
    <3> QED BY <3>3, <3>4, <2>1
  <2>5. \A p, q \in ring' : nxt'[p] = nxt'[q] => p = q
    <3>1. \A p \in ring : p # up => nxt'[p] # nxt'[t] /\ nxt'[p] # nxt'[up]
      BY <2>2, <1>0, <1>2 DEF RingExact
    <3>2. nxt'[up] # nxt'[t]
      BY <2>2, <1>2
    <3>3. \A p, q \in ring : p # up /\ q # up => (nxt'[p] = nxt'[q] => p = q)
      BY <2>2 DEF RingExact
    <3> QED BY <2>a, <3>1, <3>2, <3>3, <1>0
  <2>6. nxt' \in [Tasks -> Tasks] /\ ring' \subseteq Tasks
    BY <2>1, <1>0 DEF MultiTypeOK
  <2> QED BY <2>3, <2>4, <2>5, <2>6 DEF RingExact, Closed
<1> QED BY <1>1, <1>2

\* Without a task that is removed, the others are still on one circle.
LEMMA RemoveKeeps ==
    ASSUME MultiTypeOK, RingExact, NEW t \in Tasks, remove(t)
    PROVE  RingExact' /\ nxt' \in [Tasks -> Tasks] /\ ring' \subseteq Tasks
<1>0. up \in ring /\ Met = ring /\ up' = up /\ up \in Tasks
  BY MetIsRing DEF remove, Listed, MultiTypeOK
<1>1. CASE t \notin ring
  <2>1. nxt' = nxt /\ ring' = ring
    BY <1>0, <1>1 DEF remove, taskInList
  <2> QED BY <2>1, <1>0 DEF RingExact, Closed, MultiTypeOK
<1>2. CASE t \in ring
  <2> DEFINE p == previous(t)
  <2>0. p \in ring /\ nxt[p] = t /\ p \in Tasks
    BY PreviousPoints, <1>0, <1>2 DEF MultiTypeOK
  <2>1. /\ nxt' = [nxt EXCEPT ![p] = nxt[t]]
        /\ ring' = IF ring = {t} THEN ring ELSE ring \ {t}
    BY <1>0, <1>2 DEF remove, taskInList
  <2> HIDE DEF p
  <2>2. /\ nxt'[p] = nxt[t] /\ nxt[t] \in ring
        /\ \A q \in Tasks : q # p => nxt'[q] = nxt[q]
        /\ \A q \in ring : q # p => nxt[q] # t /\ nxt[q] \in ring
    BY <2>0, <2>1, <1>2 DEF MultiTypeOK, RingExact, Closed
  <2>3. nxt' \in [Tasks -> Tasks] /\ ring' \subseteq Tasks
    BY <2>1, <2>0 DEF MultiTypeOK
  <2>4. CASE ring = {t}
    <3>1. nxt' = nxt /\ ring' = ring
      BY <2>4, <2>0, <2>1, <2>2 DEF MultiTypeOK
    <3> QED BY <3>1, <2>3, <1>0 DEF RingExact, Closed
  <2>5. CASE ring # {t}
    <3>0. ring' = ring \ {t}
      BY <2>5, <2>1
    <3>1. nxt[t] # t
      <4>1. nxt[t] = t => Closed({t})
        BY DEF Closed
      <4> QED BY <4>1, <2>5, <1>2 DEF RingExact
    <3>2. Closed(ring)' /\ (nxt[up] \in ring)'
      BY <3>0, <3>1, <2>0, <2>2, <1>0 DEF Closed, MultiTypeOK
    <3>3. ASSUME NEW S \in SUBSET ring', S # {}, \A q \in S : nxt'[q] \in S
          PROVE  S = ring'
      <4>1. CASE p \in S
        <5>1. Closed(S \cup {t})
          <6> SUFFICES ASSUME NEW q \in S \cup {t} PROVE nxt[q] \in S \cup {t}
            BY DEF Closed
          <6>1. CASE q = p
            BY <6>1, <2>0
          <6>2. CASE q = t /\ q # p
            BY <6>2, <4>1, <3>3, <2>2
          <6>3. CASE q # t /\ q # p
            BY <6>3, <3>0, <3>3, <2>2, <2>3 DEF MultiTypeOK
          <6> QED BY <6>1, <6>2, <6>3
        <5>2. S \cup {t} = ring
          BY <5>1, <3>0, <1>2 DEF RingExact
        <5> QED BY <5>2, <3>0
      <4>2. CASE p \notin S
        <5>1. Closed(S)
          BY <4>2, <3>0, <3>3, <2>2 DEF Closed, MultiTypeOK
        <5>2. S = ring
          BY <5>1, <3>0, <3>3 DEF RingExact
        <5> QED BY <5>2, <3>0, <1>2
      <4> QED BY <4>1, <4>2
    <3>4. \A q, r \in ring' : nxt'[q] = nxt'[r] => q = r
      <4> SUFFICES ASSUME NEW q \in ring', NEW r \in ring', nxt'[q] = nxt'[r]
                   PROVE  q = r
        OBVIOUS
      <4>1. q \in ring /\ r \in ring /\ q # t /\ r # t /\ q \in Tasks /\ r \in Tasks
        BY <3>0 DEF MultiTypeOK
      <4>2. CASE q = p /\ r # p
        BY <4>1, <4>2, <2>2, <1>2 DEF RingExact
      <4>3. CASE r = p /\ q # p
        BY <4>1, <4>3, <2>2, <1>2 DEF RingExact
      <4>4. CASE q # p /\ r # p
        BY <4>1, <4>4, <2>2 DEF RingExact
      <4> QED BY <4>2, <4>3, <4>4
    <3> QED BY <3>2, <3>3, <3>4, <2>3 DEF RingExact, Closed
  <2> QED BY <2>4, <2>5
<1> QED BY <1>1, <1>2

\* No step of a task, of (pause) or of an interrupt breaks the list.
LEMMA MultiStep ==
    ASSUME MultiTypeOK, RingExact, [MultiNext]_multiVars
    PROVE  MultiTypeOK' /\ RingExact'
<1>1. CASE pause
  BY <1>1 DEF pause, MultiTypeOK, RingExact, Closed
<1>2. CASE Hop
  <2>1. up' = nxt[up] /\ nxt' = nxt /\ ring' = ring /\ active' = active
    BY <1>2 DEF Hop
  <2>2. up' \in ring /\ nxt[up'] \in ring
    BY <2>1 DEF RingExact, Closed
  <2>3. hopping' \in BOOLEAN
    BY <1>2 DEF Hop
  <2> QED BY <2>1, <2>2, <2>3 DEF MultiTypeOK, RingExact, Closed
<1>3. ASSUME NEW t \in Tasks, remove(t)
      PROVE  MultiTypeOK' /\ RingExact'
  BY <1>3, RemoveKeeps DEF remove, MultiTypeOK
<1>4. ASSUME NEW t \in Tasks, activate(t) \/ background(t) \/ (insert(t) /\ UNCHANGED active)
      PROVE  MultiTypeOK' /\ RingExact'
  <2>1. insert(t)
    BY <1>4 DEF activate, background
  <2>2. active' \subseteq Tasks
    BY <1>4 DEF activate, background, MultiTypeOK
  <2> QED BY <2>1, <2>2, InsertKeeps DEF insert, MultiTypeOK
<1>5. ASSUME NEW t \in Tasks, wake(t) \/ idle(t), UNCHANGED <<up, nxt, hopping, ring>>
      PROVE  MultiTypeOK' /\ RingExact'
  BY <1>5 DEF wake, idle, MultiTypeOK, RingExact, Closed
<1>6. CASE UNCHANGED multiVars
  BY <1>6 DEF multiVars, MultiTypeOK, RingExact, Closed
<1> QED BY <1>1, <1>2, <1>3, <1>4, <1>5, <1>6 DEF MultiNext

\* Whatever is inserted, removed, activated and woken, by tasks and by interrupts,
\* for any number of tasks: the list is one circle through exactly the tasks that
\* belong there.
THEOREM RingAlwaysExact == MultiSpec => [](MultiTypeOK /\ RingExact)
<1>1. MultiInit => MultiTypeOK /\ RingExact
  BY BootAssumption DEF MultiInit, MultiTypeOK, RingExact, Closed
<1>2. MultiTypeOK /\ RingExact /\ [MultiNext]_multiVars => (MultiTypeOK /\ RingExact)'
  BY MultiStep
<1> QED BY <1>1, <1>2, PTL DEF MultiSpec

-----------------------------------------------------------------------------
(* The tasks of an application. *)

\* Where interrupts are off and where the processor sleeps.
Dint == {"dint", "eint"}
Elsewhere == {"start", "pause", "stop", "setup", "sleep", "executing"}
PlacesOK ==
    /\ pc \in [Tasks -> Dint \cup Elsewhere]
    /\ masked \in BOOLEAN /\ asleep \in BOOLEAN
    /\ up \in ring \/ up = Worker
    /\ \A t \in Tasks : pc[t] \in Dint => t = up /\ ~hopping /\ masked /\ t # Worker
    /\ masked => pc[up] \in Dint
    /\ asleep => pc[up] = "eint"
\* A worker that was not started again gets ready to stop with its interrupt not set
\* up, and with nothing to do.
WorkOK ==
    /\ ready \in BOOLEAN /\ armed \in BOOLEAN /\ revived \in BOOLEAN
    /\ up = Worker /\ ~hopping /\ pc[Worker] = "start" => Worker \in active
    /\ armed /\ Worker \in active => revived
    /\ pc[Worker] \in {"stop", "setup"} /\ (armed \/ ready) => revived
    /\ pc[Worker] = "setup" /\ Worker \in active => ready
    /\ "device" \in waiting => armed
    /\ ready => Worker \in active \/ revived
TInv == MultiTypeOK /\ RingExact /\ PlacesOK /\ WorkOK /\ SleepsAlone

LEMMA InitTInv == Init => TInv
<1> SUFFICES ASSUME Init PROVE TInv
  OBVIOUS
<1>1. MultiTypeOK /\ RingExact
  BY BootAssumption DEF Init, MultiInit, MultiTypeOK, RingExact, Closed
<1>2. PlacesOK
  BY DEF Init, MultiInit, PlacesOK, Dint, Elsewhere
<1>3. WorkOK /\ SleepsAlone
  BY TimedAssumption DEF Init, MultiInit, WorkOK, SleepsAlone
<1> QED BY <1>1, <1>2, <1>3 DEF TInv

\* Every step of Timed is a step of Multi, or leaves its variables alone.
LEMMA StepIsMulti ==
    ASSUME MultiTypeOK, [Next]_vars
    PROVE  [MultiNext]_multiVars
<1> USE TimedAssumption, BootAssumption
<1>1. CASE BootTask
  BY <1>1 DEF BootTask, BootRegisters, BootList, BootPauses, BootStops, PauseTo, willStop,
     MultiNext, MultiTypeOK
<1>2. CASE WorkerTask
  BY <1>2 DEF WorkerTask, WorkerLooks, WorkerWillStop, WorkerArms, WorkerPauses, WorkerLeaves,
     PauseTo, willStop, MultiNext, multiVars, MultiTypeOK
<1>3. ASSUME NEW t, NEW l, SleepIfAlone(t, l)
      PROVE  [MultiNext]_multiVars
  BY <1>3 DEF SleepIfAlone, eint, device, PauseTo, MultiNext, multiVars, MultiTypeOK
<1>4. CASE TimedTask
  BY <1>4, <1>3 DEF TimedTask, NextSlot, timed_exec, timed_exec_pauses, PauseTo, MultiNext,
     multiVars
<1>5. CASE Switch
  BY <1>5 DEF Switch, MultiNext
<1>6. ASSUME NEW source, Interrupt(source)
      PROVE  [MultiNext]_multiVars
  BY <1>6 DEF Interrupt, device, MultiNext, multiVars
<1>7. CASE UNCHANGED vars
  BY <1>7 DEF vars, multiVars
<1> QED BY <1>1, <1>2, <1>3, <1>4, <1>5, <1>6, <1>7 DEF Next, Processor, LowpowerTask

\* With interrupts on nobody sleeps.
LEMMA InterruptsOn ==
    ASSUME TInv, pc[up] \notin Dint
    PROVE  masked = FALSE /\ asleep = FALSE /\ \A t \in Tasks : pc[t] \notin Dint
BY DEF TInv, PlacesOK, MultiTypeOK, Dint

\* What a step with interrupts on has to keep to.
LEMMA QuietStep ==
    ASSUME TInv, pc[up] \notin Dint, UNCHANGED <<up, masked, asleep>>,
           ring \subseteq ring' \cup {Worker},
           NEW t \in Tasks, NEW u \in Tasks, NEW l \in Elsewhere, NEW m \in Elsewhere,
           pc' = pc \/ pc' = [pc EXCEPT ![t] = l] \/ pc' = [pc EXCEPT ![t] = l, ![u] = m]
    PROVE  PlacesOK' /\ SleepsAlone'
<1>1. masked' = FALSE /\ asleep' = FALSE /\ \A s \in Tasks : pc[s] \notin Dint
  BY InterruptsOn
<1>2. pc' \in [Tasks -> Dint \cup Elsewhere] /\ \A s \in Tasks : pc'[s] \notin Dint
  BY <1>1 DEF TInv, PlacesOK, Dint, Elsewhere
<1>3. up' \in ring' \/ up' = Worker
  BY DEF TInv, PlacesOK
<1> QED BY <1>1, <1>2, <1>3 DEF PlacesOK, SleepsAlone

\* The boot task and the worker run with interrupts on.
LEMMA BootStep ==
    ASSUME TInv, BootTask \/ WorkerTask
    PROVE  PlacesOK' /\ SleepsAlone'
<1>0. /\ {Boot, Worker, up} \subseteq Tasks /\ Boot # Worker
  BY TimedAssumption, BootAssumption DEF TInv, MultiTypeOK
<1> USE DEF Runs, Goto, PauseTo, pause, irqVars, workVars, Dint, Elsewhere
<1>1. CASE BootRegisters
  BY <1>0, <1>1, QuietStep DEF BootRegisters
<1>2. CASE BootList
  <2>1. CASE remove(Worker) /\ Goto("pause")
    BY <1>0, <1>2, <2>1, QuietStep DEF BootList, remove
  <2>2. ASSUME NEW t \in (Started \ ring) \cup {Worker}, activate(t),
               pc' = [pc EXCEPT ![Boot] = "pause", ![t] = "start"]
        PROVE  PlacesOK' /\ SleepsAlone'
    <3>1. t \in Tasks
      BY TimedAssumption
    <3> QED BY <1>0, <1>2, <2>2, <3>1, QuietStep DEF BootList, activate, insert
  <2> QED BY <1>2, <2>1, <2>2 DEF BootList
<1>3. CASE BootPauses
  BY <1>0, <1>3, QuietStep DEF BootPauses
<1>4. CASE BootStops
  BY <1>0, <1>4, QuietStep DEF BootStops, willStop, idle
<1>5. CASE WorkerLooks
  BY <1>0, <1>5, QuietStep DEF WorkerLooks, multiVars
<1>9. CASE WorkerWillStop
  BY <1>0, <1>9, QuietStep DEF WorkerWillStop, willStop, idle
<1>6. CASE WorkerArms
  BY <1>0, <1>6, QuietStep DEF WorkerArms, multiVars
<1>7. CASE WorkerPauses
  BY <1>0, <1>7, QuietStep DEF WorkerPauses
<1>8. CASE WorkerLeaves
  BY <1>0, <1>8, QuietStep DEF WorkerLeaves, remove
<1> QED BY <1>1, <1>2, <1>3, <1>4, <1>5, <1>6, <1>7, <1>8, <1>9 DEF BootTask, WorkerTask

\* dint, up-alone?, sleep, eint and pause of timedtask and lowpower-task.
LEMMA SleepStep ==
    ASSUME TInv, NEW t \in {Timer, Lowpower}, NEW l \in Elsewhere, SleepIfAlone(t, l)
    PROVE  PlacesOK' /\ SleepsAlone'
<1> USE TimedAssumption, BootAssumption
    DEF TInv, PlacesOK, Dint, Elsewhere, SleepsAlone, MultiTypeOK, Runs, Goto, PauseTo, pause
<1>1. CASE /\ Runs(t, l) /\ masked' = TRUE /\ Goto("dint")
           /\ UNCHANGED <<multiVars, slot, slotVars, asleep, waiting, workVars>>
  BY <1>1 DEF multiVars, workVars
<1>2. CASE /\ Runs(t, "dint")
           /\ asleep' = (up_alone /\ waiting = {})
           /\ Goto("eint")
           /\ UNCHANGED <<multiVars, slot, slotVars, masked, waiting, workVars>>
  <2>1. up \in ring /\ Met = ring
    BY <1>2, MetIsRing
  <2> QED BY <1>2, <2>1 DEF multiVars, workVars, up_alone
<1>3. CASE /\ Runs(t, "eint") /\ eint /\ Goto("pause")
           /\ UNCHANGED <<up, nxt, hopping, ring, slot, call, repeat, interval, owed, rearmed,
                          calls, asleep, revived>>
  BY <1>3 DEF eint, device, wake
<1>4. CASE /\ Runs(t, "pause") /\ PauseTo("start")
           /\ UNCHANGED <<slot, slotVars, irqVars, workVars>>
  BY <1>4 DEF irqVars, workVars
<1> QED BY <1>1, <1>2, <1>3, <1>4 DEF SleepIfAlone

\* The slots in turn, with interrupts on.
LEMMA SlotStep ==
    ASSUME TInv, TimedTask
    PROVE  PlacesOK' /\ SleepsAlone'
<1>0. {Timer, up} \subseteq Tasks
  BY TimedAssumption DEF TInv, MultiTypeOK
<1> USE DEF Runs, Goto, PauseTo, pause, irqVars, workVars, Dint, Elsewhere
<1>1. CASE NextSlot
  BY <1>0, <1>1, QuietStep DEF NextSlot, multiVars
<1>2. CASE timed_exec
  <2>1. /\ up = Timer /\ pc[Timer] = "start"
        /\ UNCHANGED <<up, ring, pc, masked, asleep>>
    BY <1>2 DEF timed_exec
  <2> QED BY <1>0, <2>1, QuietStep
<1>3. CASE timed_exec_pauses
  BY <1>0, <1>3, QuietStep DEF timed_exec_pauses, multiVars
<1>4. CASE /\ Runs(Timer, "start") /\ slot \notin Slots
           /\ slot' = 0 /\ Goto("sleep")
           /\ UNCHANGED <<multiVars, slotVars, irqVars, workVars>>
  BY <1>0, <1>4, QuietStep DEF multiVars
<1>5. CASE SleepIfAlone(Timer, "sleep")
  BY <1>0, <1>5, SleepStep
<1> QED BY <1>1, <1>2, <1>3, <1>4, <1>5 DEF TimedTask

\* The tasks other than the worker leave it where it is, or start it from the beginning.
LEMMA OthersWork ==
    ASSUME TInv, Worker \in Tasks, up' = up, up # Worker, UNCHANGED <<ready, armed, waiting>>,
           \/ pc'[Worker] = pc[Worker] /\ (Worker \in active' <=> Worker \in active) /\ revived' = revived
           \/ pc'[Worker] = "start" /\ revived' = (revived \/ armed) /\ Worker \in active'
    PROVE  WorkOK'
BY DEF TInv, WorkOK

\* The interrupt of the worker comes when it is set up, and wakes it.
LEMMA DeviceWork ==
    ASSUME TInv, Worker \in Tasks, up' = up, hopping' = hopping, revived' = revived,
           pc'[Worker] = pc[Worker],
           \/ UNCHANGED <<ready, armed, active>> /\ ("device" \in waiting' => armed)
           \/ armed /\ ready' = TRUE /\ armed' = FALSE /\ active' = active \cup {Worker}
              /\ "device" \notin waiting'
    PROVE  WorkOK'
<1>1. CASE UNCHANGED <<ready, armed, active>> /\ ("device" \in waiting' => armed)
  BY <1>1 DEF TInv, WorkOK
<1>2. CASE armed /\ ready' = TRUE /\ armed' = FALSE /\ active' = active \cup {Worker}
           /\ "device" \notin waiting'
  <2>1. pc'[Worker] \in {"stop", "setup"} => revived'
    BY <1>2 DEF TInv, WorkOK
  <2>2. Worker \in active' /\ ready' = TRUE /\ armed' = FALSE /\ revived' \in BOOLEAN
    BY <1>2 DEF TInv, WorkOK
  <2> QED BY <1>2, <2>1, <2>2 DEF WorkOK
<1> QED BY <1>1, <1>2

\* Whatever the boot task and the worker do, the worker's wake is not lost.
LEMMA BootWork ==
    ASSUME TInv, BootTask
    PROVE  WorkOK'
<1>0. /\ Worker \in Tasks /\ Boot # Worker /\ up = Boot
      /\ UNCHANGED <<up, ready, armed, waiting>> /\ pc \in [Tasks -> Dint \cup Elsewhere]
  BY TimedAssumption DEF TInv, PlacesOK, BootTask, BootRegisters, BootList, BootPauses, BootStops,
     Runs, PauseTo, pause, irqVars, workVars, remove, activate, insert
<1> USE DEF Runs, Goto, PauseTo, pause, irqVars, workVars
<1>1. CASE BootRegisters
  BY <1>0, <1>1, OthersWork DEF BootRegisters
<1>2. CASE BootList
  <2>1. CASE remove(Worker) /\ Goto("pause") /\ UNCHANGED revived
    BY <1>0, <2>1, OthersWork DEF remove
  <2>2. ASSUME NEW t \in (Started \ ring) \cup {Worker}, activate(t),
               pc' = [pc EXCEPT ![Boot] = "pause", ![t] = "start"],
               revived' = (revived \/ (t = Worker /\ armed))
        PROVE  WorkOK'
    <3>1. active' = active \cup {t}
      BY <2>2 DEF activate
    <3>2. CASE t = Worker
      <4>1. pc'[Worker] = "start" /\ Worker \in active'
        BY <1>0, <2>2, <3>1, <3>2
      <4>2. revived' = (revived \/ armed)
        BY <2>2, <3>2
      <4> QED BY <1>0, <4>1, <4>2, OthersWork
    <3>3. CASE t # Worker
      <4>1. pc'[Worker] = pc[Worker] /\ (Worker \in active' <=> Worker \in active)
        BY <1>0, <2>2, <3>1, <3>3
      <4>2. revived' = revived
        BY <2>2, <3>3 DEF TInv, WorkOK
      <4> QED BY <1>0, <4>1, <4>2, OthersWork
    <3> QED BY <3>2, <3>3
  <2> QED BY <1>2, <2>1, <2>2 DEF BootList
<1>3. CASE BootPauses
  BY <1>0, <1>3, OthersWork DEF BootPauses
<1>4. CASE BootStops
  BY <1>0, <1>4, OthersWork DEF BootStops, willStop, idle
<1> QED BY <1>1, <1>2, <1>3, <1>4 DEF BootTask

LEMMA WorkerWork ==
    ASSUME TInv, WorkerTask
    PROVE  WorkOK'
<1>0. Worker \in Tasks /\ pc \in [Tasks -> Dint \cup Elsewhere] /\ up = Worker /\ ~hopping
  BY TimedAssumption DEF TInv, PlacesOK, WorkerTask, WorkerLooks, WorkerWillStop, WorkerArms,
     WorkerPauses, WorkerLeaves, Runs
<1> USE DEF Runs, Goto, PauseTo, pause, irqVars, workVars
<1>1. CASE WorkerLooks
  <2>1. Worker \in active /\ (armed => revived)
    BY <1>0, <1>1 DEF WorkerLooks, TInv, WorkOK
  <2>2. CASE ~ready /\ Goto("stop") /\ UNCHANGED <<multiVars, ready, revived>>
    BY <1>0, <1>1, <2>1, <2>2 DEF WorkerLooks, multiVars, TInv, WorkOK
  <2>3. CASE ready /\ ready' = FALSE /\ PauseTo("start") /\ revived' = (revived /\ armed)
    BY <1>0, <1>1, <2>1, <2>3 DEF WorkerLooks, TInv, WorkOK
  <2> QED BY <1>1, <2>2, <2>3 DEF WorkerLooks
<1>2. CASE WorkerWillStop
  BY <1>0, <1>2 DEF WorkerWillStop, willStop, idle, TInv, WorkOK
<1>3. CASE WorkerArms
  BY <1>0, <1>3 DEF WorkerArms, multiVars, TInv, WorkOK
<1>4. CASE WorkerPauses
  BY <1>0, <1>4 DEF WorkerPauses, TInv, WorkOK
<1>5. CASE WorkerLeaves
  BY <1>0, <1>5 DEF WorkerLeaves, remove, TInv, WorkOK
<1> QED BY <1>1, <1>2, <1>3, <1>4, <1>5 DEF WorkerTask

LEMMA SleepWork ==
    ASSUME TInv, NEW t \in {Timer, Lowpower}, NEW l, SleepIfAlone(t, l)
    PROVE  WorkOK'
<1>0. Worker \in Tasks /\ t \in Tasks /\ t # Worker /\ up = t /\ up' = up /\ pc'[Worker] = pc[Worker]
  BY TimedAssumption DEF TInv, PlacesOK, SleepIfAlone, Runs, Goto, PauseTo, pause, multiVars
<1>1. CASE Runs(t, "eint") /\ eint /\ UNCHANGED <<hopping, revived>>
  BY <1>0, <1>1, DeviceWork DEF eint, device, wake, TInv, WorkOK
<1>2. CASE UNCHANGED <<waiting, workVars, active>>
  BY <1>0, <1>2, OthersWork DEF workVars
<1> QED BY <1>1, <1>2 DEF SleepIfAlone, PauseTo, pause, multiVars, irqVars

LEMMA SlotWork ==
    ASSUME TInv, TimedTask
    PROVE  WorkOK'
<1>0. Worker \in Tasks /\ Timer \in Tasks /\ Boot # Worker /\ Timer # Worker
  BY TimedAssumption
<1>1. CASE SleepIfAlone(Timer, "sleep")
  BY <1>1, SleepWork
<1>2. CASE ~SleepIfAlone(Timer, "sleep")
  <2>1. /\ up = Timer /\ up' = up /\ pc'[Worker] = pc[Worker] /\ UNCHANGED <<waiting, workVars>>
        /\ (Worker \in active' <=> Worker \in active)
    BY <1>0, <1>2 DEF TInv, PlacesOK, TimedTask, NextSlot, timed_exec, timed_exec_pauses, Runs,
       Goto, PauseTo, pause, multiVars, irqVars, wake
  <2> QED BY <1>0, <2>1, OthersWork DEF workVars
<1> QED BY <1>1, <1>2

LEMMA TStep ==
    ASSUME TInv, [Next]_vars
    PROVE  TInv'
<1> USE TimedAssumption, BootAssumption
<1>1. MultiTypeOK' /\ RingExact'
  BY StepIsMulti, MultiStep DEF TInv
<1>2. CASE BootTask \/ WorkerTask
  BY <1>1, <1>2, BootStep, BootWork, WorkerWork DEF TInv
<1>3. CASE LowpowerTask
  BY <1>1, <1>3, SleepStep, SleepWork DEF TInv, LowpowerTask, Elsewhere
<1>4. CASE TimedTask
  BY <1>1, <1>4, SlotStep, SlotWork DEF TInv
<1>5. CASE Switch
  <2>1. /\ UNCHANGED <<pc, masked, asleep, waiting, active, ring>> /\ hopping
        /\ up' \in ring /\ ~asleep
    BY <1>5 DEF Switch, Hop, taskVars, irqVars, TInv, RingExact
  <2>2. PlacesOK' /\ SleepsAlone'
    BY <2>1 DEF TInv, PlacesOK, Dint, SleepsAlone, MultiTypeOK
  <2>3. UNCHANGED <<pc, ready, armed, revived, waiting, active>> /\ hopping' = (up' \notin active)
    BY <1>5 DEF Switch, Hop, taskVars, irqVars, workVars
  <2>4. WorkOK'
    BY <2>3 DEF TInv, WorkOK
  <2> QED BY <1>1, <2>2, <2>4 DEF TInv
<1>6. ASSUME NEW source \in {"tick", "device"}, Interrupt(source)
      PROVE  TInv'
  <2>1. /\ UNCHANGED <<pc, masked, up, hopping, ring, revived>> /\ asleep' = FALSE
    BY <1>6 DEF Interrupt, taskVars
  <2>2. PlacesOK' /\ SleepsAlone'
    BY <2>1 DEF TInv, PlacesOK, SleepsAlone
  <2>3. \/ UNCHANGED <<ready, armed, active>> /\ ("device" \in waiting' => armed)
        \/ /\ armed /\ ready' = TRUE /\ armed' = FALSE /\ active' = active \cup {Worker}
           /\ "device" \notin waiting'
    <3>1. CASE masked
      BY <1>6, <3>1 DEF Interrupt, TInv, WorkOK
    <3>2. CASE ~masked
      BY <1>6, <3>2 DEF Interrupt, device, wake, TInv, WorkOK
    <3> QED BY <3>1, <3>2
  <2>4. WorkOK'
    BY <2>1, <2>3, DeviceWork
  <2> QED BY <1>1, <2>2, <2>4 DEF TInv
<1>7. CASE UNCHANGED vars
  BY <1>1, <1>7 DEF vars, multiVars, taskVars, irqVars, workVars, TInv, PlacesOK, WorkOK,
     SleepsAlone
<1> QED BY <1>2, <1>3, <1>4, <1>5, <1>6, <1>7 DEF Next, Processor

LEMMA TInvAlways == Spec => []TInv
BY InitTInv, TStep, PTL DEF Spec

\* The interrupt may come at any point of the worker's way to pause, between the
\* question and will-stop too, and finds it active or makes it so: unless the worker was
\* started again when the interrupt was still set up.
THEOREM WakeNeverLost == Spec => []NoWakeLost
<1>1. TInv => NoWakeLost
  BY DEF TInv, WorkOK, NoWakeLost
<1> QED BY <1>1, TInvAlways, PTL

\* No task that is active and no interrupt is slept through.
THEOREM AlwaysSleepsAlone == Spec => []SleepsAlone
<1>1. TInv => SleepsAlone
  BY DEF TInv
<1> QED BY <1>1, TInvAlways, PTL

\* The list stays one circle under the application.
THEOREM TimedRingExact == Spec => []RingExact
<1>1. TInv => RingExact
  BY DEF TInv
<1> QED BY <1>1, TInvAlways, PTL
=============================================================================
