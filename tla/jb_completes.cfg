\* Liveness: losses, but fewer than tries; the files stay.
SPECIFICATION FairSpec
CONSTANTS
  HwIds <- OneNode
  SwIds <- OneSwId
  Assign <- OneAssign
  Versions <- VersionsAB
  Unit <- MCUnit
  Junk = "junk"
  NoSwId = "none"
  DataMax = 3
  HdrLen = 1
  HelloLen = 3
  PageSize = 4
  FlashPages = 3
  LoadPage = 2
  ResetSlot = 1
  SpareSlot = 2
  SumSlot = 3
  LoaderVec = "ldr"
  Checksum = "sum"
  Zero = "0"
  Blank = "ff"
  LoaderUnit = "boot"
  MaxTries = 4
  MaxLoss = 3
  MaxOverheard = 0
  MaxLate = 0
  MaxResets = 0
  MaxPublish = 0
INVARIANTS StreamExact
PROPERTIES UpdateCompletes
CHECK_DEADLOCK FALSE
