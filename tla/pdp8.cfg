SPECIFICATION Spec
CONSTANTS
    Hosts = {"p8", "arm8"}
    Tape <- MCTape
    Typed <- MCTyped
    Period = 7
INVARIANTS KeysExact ResultsRight
PROPERTIES Halts
CHECK_DEADLOCK FALSE
