------------------------------- MODULE Timed -------------------------------
(***************************************************************************)
(* Timers for Mecrisp Forth (timed.fs) on the multitasker (Multi), with    *)
(* the tasks of an application: the boot task, where the user registers    *)
(* and cancels calls, timedtask, lowpower-task, and a worker that waits    *)
(* for an interrupt as multi-irq.fs says it must.  A step of a task is     *)
(* what it does between two points where an interrupt makes a difference;  *)
(* only (pause) changes the task.                                          *)
(***************************************************************************)
EXTENDS Multi, Integers, FiniteSets

CONSTANTS
    Timer, Lowpower, Worker,    \* timedtask, lowpower-task and the worker
    Started,        \* which of them are started
    Slots,          \* 0 .. MAX-TIMED - 1
    Intervals,      \* in milliseconds
    Callbacks,      \* what the user registers, of "wake", "again", "never", "pauses"
    MaxCalls        \* bound: how often the user registers or cancels

VARIABLES
    pc,             \* where each task goes on
    call, repeat, interval, age,    \* of each slot; age is the time since the last run
    slot,           \* timed-run: loop index
    masked, asleep, \* dint; WFI
    waiting,        \* interrupts that wait for eint
    ready, armed,   \* the worker's state, and its interrupt set up
    revived,        \* history: the worker was started again with its interrupt set up
    owed,           \* history: the call that a slot was last registered for
    rearmed,        \* history: slots whose call was registered while their callback ran
    calls           \* counter for the bound

taskVars == <<pc, slot>>
slotVars == <<call, repeat, interval, age, owed, rearmed, calls>>
irqVars == <<masked, asleep, waiting>>
workVars == <<ready, armed, revived>>
vars == <<multiVars, taskVars, slotVars, irqVars, workVars>>

ASSUME TimedAssumption ==
    /\ {Timer, Lowpower, Worker} \subseteq Tasks /\ Started \subseteq {Timer, Lowpower, Worker}
    /\ Boot \notin {Timer, Lowpower, Worker} /\ Timer \notin {Lowpower, Worker}
    /\ Lowpower # Worker
    /\ Slots = 0 .. Cardinality(Slots) - 1 /\ Slots # {}
    /\ Intervals \subseteq Nat /\ MaxCalls \in Nat
    /\ Callbacks \subseteq {"wake", "again", "never", "pauses"}

MaxAge == 1 + CHOOSE i \in Intervals : \A j \in Intervals : j <= i

Init ==
    /\ MultiInit
    /\ pc = [t \in Tasks |-> "start"]
    /\ slot = 0
    /\ call = [s \in Slots |-> "none"] /\ repeat = [s \in Slots |-> FALSE]
    /\ interval = [s \in Slots |-> 0] /\ age = [s \in Slots |-> MaxAge]
    /\ masked = FALSE /\ asleep = FALSE /\ waiting = {}
    /\ ready = FALSE /\ armed = FALSE /\ revived = FALSE
    /\ owed = [s \in Slots |-> "none"] /\ rearmed = {} /\ calls = 0

-----------------------------------------------------------------------------
(* Interrupts. *)

\* millis goes up by one.
tick(times) ==
    age' = IF times THEN [s \in Slots |-> IF age[s] < MaxAge THEN age[s] + 1 ELSE MaxAge] ELSE age

\* The worker's interrupt handler.
device(comes) ==
    IF comes THEN ready' = TRUE /\ armed' = FALSE /\ wake(Worker)
    ELSE UNCHANGED <<ready, armed, active>>

Interrupt(source) ==
    /\ source = "device" => (armed /\ source \notin waiting)
    /\ asleep' = FALSE
    /\ IF masked THEN waiting' = waiting \cup {source} /\ UNCHANGED <<age, ready, armed, active>>
       ELSE tick(source = "tick") /\ device(source = "device") /\ UNCHANGED waiting
    /\ UNCHANGED <<up, nxt, hopping, ring, taskVars, call, repeat, interval, owed, rearmed, calls, masked, revived>>

\* eint: what waits is dealt with.
eint ==
    /\ masked' = FALSE /\ waiting' = {}
    /\ tick("tick" \in waiting) /\ device("device" \in waiting)

-----------------------------------------------------------------------------
(* The tasks. *)

Runs(t, l) == up = t /\ ~hopping /\ ~asleep /\ pc[t] = l
Goto(l) == pc' = [pc EXCEPT ![up] = l]
\* pause, to go on at l
PauseTo(l) == pause /\ Goto(l)

\* call-internal, and what it means for the slot.
call_internal(cb, i, again, s) ==
    /\ call' = [call EXCEPT ![s] = cb]
    /\ interval' = [interval EXCEPT ![s] = i]
    /\ repeat' = [repeat EXCEPT ![s] = again]
    /\ age' = [age EXCEPT ![s] = 0]
    /\ owed' = [owed EXCEPT ![s] = IF again THEN "every" ELSE "once"]
    /\ rearmed' = IF pc[Timer] = "executing" /\ slot = s /\ ~again THEN rearmed \cup {s}
                  ELSE rearmed \ {s}
call_never(s) ==
    /\ call' = [call EXCEPT ![s] = "none"]
    /\ owed' = [owed EXCEPT ![s] = "none"]
    /\ UNCHANGED <<interval, repeat, age, rearmed>>

\* The user's commands.
BootRegisters ==
    /\ Runs(Boot, "start") /\ Timer \in ring
    /\ calls < MaxCalls /\ calls' = calls + 1
    /\ \E s \in Slots :
        \/ call_never(s)
        \/ \E cb \in Callbacks, i \in Intervals, again \in BOOLEAN : call_internal(cb, i, again, s)
    /\ PauseTo("start")
    /\ UNCHANGED <<slot, irqVars, workVars>>
\* Tasks are started, in any order, and the worker is removed or started again.
BootList ==
    /\ Runs(Boot, "start")
    /\ \/ remove(Worker) /\ Goto("pause") /\ UNCHANGED revived
       \/ \E t \in (Started \ ring) \cup {Worker} :
            /\ activate(t) /\ pc' = [pc EXCEPT ![Boot] = "pause", ![t] = "start"]
            /\ revived' = (revived \/ (t = Worker /\ armed))
    /\ UNCHANGED <<slot, slotVars, irqVars, ready, armed>>
BootPauses ==
    /\ Runs(Boot, "start") \/ Runs(Boot, "pause")
    /\ PauseTo("start")
    /\ UNCHANGED <<slot, slotVars, irqVars, workVars>>
\* stop, with an interrupt possible between its two words
BootStops ==
    \/ /\ Runs(Boot, "start") /\ willStop /\ Goto("stop")
       /\ UNCHANGED <<up, nxt, hopping, ring, slot, slotVars, irqVars, workVars>>
    \/ /\ Runs(Boot, "stop") /\ PauseTo("start")
       /\ UNCHANGED <<slot, slotVars, irqVars, workVars>>

\* need-some-state? if will-stop setup-statechange-irq pause then
\* If the interrupt is still set up from before, as it is when the worker was started
\* again in between, it can come between the question and will-stop.
WorkerLooks ==
    /\ Runs(Worker, "start")
    /\ \/ ~ready /\ Goto("stop") /\ UNCHANGED <<multiVars, ready, revived>>
       \/ /\ ready /\ ready' = FALSE /\ PauseTo("start")
          /\ revived' = (revived /\ armed)
    /\ UNCHANGED <<slot, slotVars, irqVars, armed>>
WorkerWillStop ==
    /\ Runs(Worker, "stop")
    /\ willStop /\ Goto("setup")
    /\ UNCHANGED <<up, nxt, hopping, ring, slot, slotVars, irqVars, workVars>>
WorkerArms ==
    /\ Runs(Worker, "setup")
    /\ armed' = TRUE /\ revived' = (revived /\ ready)
    /\ Goto("pause")
    /\ UNCHANGED <<multiVars, slot, slotVars, irqVars, ready>>
WorkerStops ==      \* mutant: stop instead of pause
    /\ Runs(Worker, "pause")
    /\ hopping' = TRUE /\ idle(Worker) /\ Goto("start")
    /\ UNCHANGED <<up, nxt, ring, slot, slotVars, irqVars, workVars>>
WorkerPauses ==
    /\ Runs(Worker, "pause")
    /\ PauseTo("start")
    /\ UNCHANGED <<slot, slotVars, irqVars, workVars>>
\* A task that has nothing left to do takes itself off the list.
WorkerLeaves ==
    /\ Runs(Worker, "stop") /\ remove(Worker)
    /\ Goto("pause")
    /\ UNCHANGED <<slot, slotVars, irqVars, workVars>>

\* up-alone? with interrupts off, then sleep.
up_alone == active \cap Met \subseteq {up}
\* mutant: interrupts stay on
SleepUnmasked(t, l) ==
    \/ /\ Runs(t, l) /\ Goto(IF up_alone THEN "dint" ELSE "pause")
       /\ UNCHANGED <<multiVars, slot, slotVars, irqVars, workVars>>
    \/ /\ Runs(t, "dint") /\ asleep' = TRUE /\ Goto("pause")
       /\ UNCHANGED <<multiVars, slot, slotVars, masked, waiting, workVars>>
    \/ /\ Runs(t, "pause") /\ PauseTo("start")
       /\ UNCHANGED <<slot, slotVars, irqVars, workVars>>
SleepIfAlone(t, l) ==
    \/ /\ Runs(t, l) /\ masked' = TRUE /\ Goto("dint")
       /\ UNCHANGED <<multiVars, slot, slotVars, asleep, waiting, workVars>>
    \/ /\ Runs(t, "dint")
       /\ asleep' = (up_alone /\ waiting = {})
       /\ Goto("eint")
       /\ UNCHANGED <<multiVars, slot, slotVars, masked, waiting, workVars>>
    \/ /\ Runs(t, "eint") /\ eint /\ Goto("pause")
       /\ UNCHANGED <<up, nxt, hopping, ring, slot, call, repeat, interval, owed, rearmed,
                      calls, asleep, revived>>
    \/ /\ Runs(t, "pause") /\ PauseTo("start")
       /\ UNCHANGED <<slot, slotVars, irqVars, workVars>>

LowpowerTask == SleepIfAlone(Lowpower, "start")

\* timed-run: the slots in turn.
needs_run(s) == call[s] # "none" /\ age[s] > interval[s]
\* After the callback: last-run, and a call that is not repeated is cleared.
Finished(c, r, a) ==
    /\ age' = [a EXCEPT ![slot] = 0]
    /\ call' = IF r[slot] THEN c ELSE [c EXCEPT ![slot] = "none"]
    /\ slot' = slot + 1

NextSlot ==
    /\ Runs(Timer, "start") /\ slot \in Slots /\ ~needs_run(slot)
    /\ slot' = slot + 1
    /\ UNCHANGED <<multiVars, pc, slotVars, irqVars, workVars>>

\* A callback wakes the boot task, ends its own repetition, or registers itself once
\* more.
timed_exec ==
    /\ Runs(Timer, "start") /\ slot \in Slots /\ needs_run(slot)
    /\ LET s == slot
           served == IF repeat[s] THEN owed[s] ELSE "none"
       IN  \/ /\ call[s] = "wake" /\ wake(Boot)
              /\ Finished(call, repeat, age) /\ owed' = [owed EXCEPT ![s] = served]
              /\ UNCHANGED <<repeat, interval, rearmed>>
           \/ /\ call[s] = "never" /\ Finished([call EXCEPT ![s] = "none"], repeat, age)
              /\ owed' = [owed EXCEPT ![s] = "none"]
              /\ UNCHANGED <<repeat, interval, rearmed, active>>
           \/ /\ call[s] = "again"
              /\ repeat' = [repeat EXCEPT ![s] = FALSE]
              /\ Finished(call, repeat', age) /\ owed' = [owed EXCEPT ![s] = "once"]
              /\ rearmed' = rearmed \cup {s}
              /\ UNCHANGED <<interval, active>>
    /\ UNCHANGED <<up, nxt, hopping, ring, pc, calls, irqVars, workVars>>
\* A callback that pauses lets the other tasks run.
timed_exec_pauses ==
    \/ /\ Runs(Timer, "start") /\ slot \in Slots /\ needs_run(slot) /\ call[slot] = "pauses"
       /\ owed' = [owed EXCEPT ![slot] = IF repeat[slot] THEN @ ELSE "none"]
       /\ PauseTo("executing")
       /\ UNCHANGED <<slot, call, repeat, interval, age, rearmed, calls, irqVars, workVars>>
    \/ /\ Runs(Timer, "executing")
       /\ Finished(call, repeat, age) /\ Goto("start")
       /\ UNCHANGED <<multiVars, repeat, interval, owed, rearmed, calls, irqVars, workVars>>

\* mutant: the loop does not start again
TimedTaskOnce ==
    \/ NextSlot \/ timed_exec \/ timed_exec_pauses
    \/ /\ Runs(Timer, "start") /\ slot \notin Slots
       /\ Goto("sleep")
       /\ UNCHANGED <<multiVars, slot, slotVars, irqVars, workVars>>
    \/ SleepIfAlone(Timer, "sleep")

\* timed-run not if sleep-if-alone then pause
\* not inverts all bits of the number of callbacks executed, and what it gives is never
\* zero: the task goes to sleep-if-alone also when it has executed some.
TimedTask ==
    \/ NextSlot \/ timed_exec \/ timed_exec_pauses
    \/ /\ Runs(Timer, "start") /\ slot \notin Slots
       /\ slot' = 0 /\ Goto("sleep")
       /\ UNCHANGED <<multiVars, slotVars, irqVars, workVars>>
    \/ SleepIfAlone(Timer, "sleep")

Switch == ~asleep /\ Hop /\ UNCHANGED <<taskVars, slotVars, irqVars, workVars>>

BootTask == BootRegisters \/ BootList \/ BootPauses \/ BootStops
WorkerTask == WorkerLooks \/ WorkerWillStop \/ WorkerArms \/ WorkerPauses \/ WorkerLeaves
Processor == BootTask \/ WorkerTask \/ LowpowerTask \/ TimedTask \/ Switch
Next == Processor \/ Interrupt("tick") \/ Interrupt("device")
\* One processor runs the tasks, and millis goes up by and by.
Spec == Init /\ [][Next]_vars /\ WF_vars(Processor) /\ WF_vars(Interrupt("tick"))
-----------------------------------------------------------------------------
(* Properties. *)

\* Types, and where the tasks can be.
TypeOK ==
    /\ MultiTypeOK
    /\ pc[Boot] \in {"start", "pause", "stop"} /\ pc[Worker] \in {"start", "stop", "setup", "pause"}
    /\ pc[Lowpower] \in {"start", "dint", "eint", "pause"}
    /\ pc[Timer] \in {"start", "executing", "sleep", "dint", "eint", "pause"}
    /\ slot \in 0 .. Cardinality(Slots)
    /\ pc[Timer] = "executing" => slot \in Slots
    /\ masked => pc[up] \in {"dint", "eint"}

\* "The correct way to handle this": a worker whose interrupt has come is active, at
\* whatever point of its getting ready to stop that was, unless it was started again
\* when the interrupt was already set up: it is then lost if it comes after the
\* question and before will-stop.
NoWakeLost == ready => Worker \in active \/ revived

\* The processor sleeps only when no other task has anything to do, and no
\* interrupt has come since that was decided.
SleepsAlone == asleep => active \cap ring \subseteq {up} /\ waiting = {}

\* Every task that is active and on the list gets its turn.
ActiveRuns ==
    \A t \in Tasks :
        t \in active \cap ring ~> (t \notin active \cap ring \/ (up = t /\ ~hopping))

\* A call that was registered is executed, unless it was cancelled or its slot used
\* again, and one that is repeated again and again: but for one that was registered
\* for a slot while the callback of that slot was executed, by itself or by another
\* task in a pause of it.
CallsRun ==
    \A s \in Slots :
        /\ owed[s] = "once" /\ s \notin rearmed ~> (owed[s] # "once" \/ s \in rearmed)
        /\ <>[](owed[s] = "every") => []<>(age[s] = 0)
=============================================================================
