SPECIFICATION TxSpec
CONSTANTS
  TxSubjects = {"savepoint"}
  NDb = 2
  MjSetups <- TxMjSetups
  Pages = 3
  OrigSize = 2
  HeaderSz = 2
  SpSetups <- ShrinkSp
  TrunkCap = 1
  MaxPg = 14
  MaxFinal = 24
  NTable = 2
  AvSetups <- TxAvSetups
  BITVEC_NBIT = 4
  BITVEC_NINT = 4
  BITVEC_NPTR = 2
  BvSetups <- TxBvSetups
INVARIANTS
  Restorable
CHECK_DEADLOCK FALSE
