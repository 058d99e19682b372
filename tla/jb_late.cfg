\* Late replies, as many losses as tries, power cycles and a file replaced together.
SPECIFICATION FairSpec
CONSTANTS
  HwIds <- OneNode
  SwIds <- OneSwId
  Assign <- OneAssign
  Versions <- VersionsAB
  Unit <- MCUnit
  Junk = "junk"
  NoSwId = "none"
  DataMax = 3
  HdrLen = 1
  HelloLen = 3
  PageSize = 4
  FlashPages = 5
  LoadPage = 4
  ResetSlot = 1
  SpareSlot = 2
  SumSlot = 3
  LoaderVec = "ldr"
  Checksum = "sum"
  Zero = "0"
  Blank = "ff"
  LoaderUnit = "boot"
  MaxTries = 2
  MaxLoss = 2
  MaxOverheard = 0
  MaxLate = 2
  MaxResets = 1
  MaxPublish = 1
INVARIANTS VerifiedJump
PROPERTIES AlwaysRuns
CHECK_DEADLOCK FALSE
