SPECIFICATION Spec
CONSTANTS
    Boot = boot
    Timer = timer
    Lowpower = lowpower
    Worker = worker
    Tasks = {boot, timer, lowpower, worker}
    Started = {timer, lowpower, worker}
    Slots <- MCSlots
    Intervals = {0}
    Callbacks = {"wake", "again", "never", "pauses"}
    MaxCalls = 2
INVARIANTS RingExact NoWakeLost SleepsAlone
PROPERTIES ActiveRuns CallsRun
CHECK_DEADLOCK FALSE
