SPECIFICATION FairSpec
CONSTANTS
  Size = 7
  Packet = 5
  Scripts <- MCScripts
  LineBytes <- MCLineBytes
  Start = 4
  MaxBurst = 2
  MaxArrive = 3
INVARIANTS PacketFits LineFollowsUnlessOvertaken InputExact
PROPERTIES AllDone
CHECK_DEADLOCK FALSE
