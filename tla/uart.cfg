SPECIFICATION FairSpec
CONSTANTS
  TxSize = 3
  RxSize = 3
  MaxTx = 5
  MaxRx = 5
  MaxWire = 6
INVARIANTS TxInOrder RxExact StuckOnlyWhenFull
PROPERTIES TxDrains
CHECK_DEADLOCK FALSE
