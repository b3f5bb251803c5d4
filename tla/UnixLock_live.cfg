SPECIFICATION LiveSpec
CONSTANTS
  a = a  b = b  c = c  d = d  x = x
  Conn <- LiveConn
  Proc <- LiveProc
  ProcOf <- LiveProcOf
  ExclProc <- LiveExcl
  MaxFaults = 0
PROPERTY WriterNotStarved
