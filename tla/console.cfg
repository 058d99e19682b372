SPECIFICATION Spec
CONSTANTS
    Files <- MCFiles
    Typed <- MCTyped
    Output <- MCOutput
    Fails <- MCFails
    MaxFaults = 2
INVARIANTS ExecutedInOrder NothingHidden InputShown
PROPERTIES OwnPrompt Handled
CHECK_DEADLOCK FALSE
