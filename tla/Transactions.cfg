SPECIFICATION TxSpec
CONSTANTS
  TxSubjects <- AllSubjects
  NDb = 2
  MjSetups <- TxMjSetups
  Pages = 3
  OrigSize = 2
  HeaderSz = 2
  SpSetups <- TxSpSetups
  TrunkCap = 1
  MaxPg = 14
  MaxFinal = 24
  NTable = 2
  AvSetups <- TxAvSetups
  BITVEC_NBIT = 4
  BITVEC_NINT = 4
  BITVEC_NPTR = 2
  BvSetups <- TxBvSetups
INVARIANTS
  AllOrNothing
  Restorable
  SyncedJournalRestores
  IntegrityCheck
  FinalSizeExact
  VacuumKeepsTrees
  BitvecIsSet
  
CHECK_DEADLOCK FALSE
