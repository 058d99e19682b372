SPECIFICATION Spec
CONSTANTS
    PageSize = 16
    UserPages = 16
    BootPages = 1
    Old <- MCOld
    LoaderVec <- MCLoaderVec
    Image <- MCImage
    BlockLen = 8
    Tools = {"flash"}
    MaxBlock = 8
    MaxBack = 2
    MaxGreetings = 2
    MaxGap = 1
    MaxRuns = 1
    MaxFaults = 1
INVARIANTS LoaderIntact
CHECK_DEADLOCK FALSE
