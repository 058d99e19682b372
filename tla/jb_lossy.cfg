\* One node, a lossy radio, power cycles, a file replaced; the server prompt.
SPECIFICATION Spec
CONSTANTS
  HwIds <- OneNode
  SwIds <- OneSwId
  Assign <- OneAssign
  Versions <- VersionsAB
  Unit <- MCUnit
  Junk = "junk"
  NoSwId = "none"
  DataMax = 3
  HdrLen = 1
  HelloLen = 3
  PageSize = 4
  FlashPages = 3
  LoadPage = 2
  ResetSlot = 1
  SpareSlot = 2
  SumSlot = 3
  LoaderVec = "ldr"
  Checksum = "sum"
  Zero = "0"
  Blank = "ff"
  LoaderUnit = "boot"
  MaxTries = 2
  MaxLoss = 1
  MaxOverheard = 0
  MaxLate = 0
  MaxResets = 1
  MaxPublish = 1
INVARIANTS TypeOK BufferInStep BootVectorKept LoaderIntact
PROPERTIES ImplementsFirmwareUpdate
CHECK_DEADLOCK FALSE
