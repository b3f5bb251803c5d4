SPECIFICATION Spec
CONSTANTS
  a = a  b = b  c = c
  Conn = {a, b, c}
  None = None
  NReader = 3
  MaxFrame = 3
  Setups <- WalSetups
INVARIANTS CacheFresh CrashSafe
PROPERTY RefinesSnapshotStore
CHECK_DEADLOCK FALSE
