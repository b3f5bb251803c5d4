SPECIFICATION Spec
CONSTANTS
  Conn = {a, b}
  ProcOf <- OneProc
  Setups <- SiblingSetups
  LooseUnlock = FALSE
  HdrSz = 1
  MaxPage = 2
SYMMETRY Symmetry
INVARIANTS
  ReaderSeesCommitted
