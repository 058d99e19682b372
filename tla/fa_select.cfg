SPECIFICATION Spec
CONSTANTS
  HwIds <- MCHwIds
  SwIds <- MCSwIds
  Type = 99
  MapSize = 5
  MaxLines = 2
  MaxEdits = 2
PROPERTIES ListedNodesFollowIndex
CHECK_DEADLOCK FALSE
