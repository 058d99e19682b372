SPECIFICATION Spec
CONSTANTS
    PageSize = 16
    UserPages = 16
    BootPages = 1
    Old <- MCOld
    LoaderVec <- MCLoaderVec
    Image <- MCImage
    BlockLen = 8
    Tools = {"flash", "wipe", "folie"}
    MaxBlock = 8
    MaxBack = 2
    MaxGreetings = 2
    MaxGap = 1
    MaxRuns = 2
    MaxFaults = 1
INVARIANTS UploadExact VectorKept FailsForAReason
PROPERTIES LoaderKept Ends
CHECK_DEADLOCK FALSE
