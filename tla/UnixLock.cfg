SPECIFICATION MCSpec
CONSTANTS
  a = a  b = b  c = c  d = d  x = x
  Conn <- MCConn
  Proc <- MCProc
  ProcOf <- MCProcOf
  ExclProc <- MCExcl
  MaxFaults = 2
SYMMETRY Symmetry
INVARIANTS
  TypeOK
  ExclusiveAlone
  LocksBackedByOs
  DowngradeNeverRefused
  ReservationVisible
  InodeAssertions
  NoStrandedFd
PROPERTY RefinesFileLock
