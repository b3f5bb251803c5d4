SPECIFICATION Spec
CONSTANTS
  Conn = {a, b}
  ProcOf <- OwnProc
  Setups <- AtomicitySetups
  LooseUnlock = FALSE
  HdrSz = 3
  MaxPage = 3
SYMMETRY Symmetry
INVARIANTS
  ReaderSeesCommitted
  NoLiveRollback
  WriterSeesOwn
  AnySubsetRollsBack
PROPERTIES
  RefinesAtomicStore
  RollbackRestoresCache
  OverwriteOnlyJournalled
  PersistCommitIsDurable
