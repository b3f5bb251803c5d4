SPECIFICATION Spec
CONSTANTS
  a = a  b = b  c = c
  Conn = {a, b, c}
  None = None
  NReader = 3
  MaxFrame = 3
  Setups <- ResetSetups
INVARIANT BackfillWithinLog
CHECK_DEADLOCK FALSE
