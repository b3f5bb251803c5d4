SPECIFICATION ShareSpec
CONSTANTS
  ShSubjects <- AllShared
  u = u  v = v  w = w
  ShConn = {u, v, w}
  NoConn = NoConn
  NTab = 2
  ShSetups <- ShareShSetups
  xa = xa  xb = xb  xc = xc  pa = pa  pb = pb
  XConn = {xa, xb, xc}
  XProc = {pa, pb}
  ProcOf <- ShareProcOf
  NoX = NoX
  NSlot = 2
  MaxRegion = 2
  MaxFile = 2
  ShmSetups <- ShareShmSetups
  ca = ca  cb = cb
  PcCache = {ca, cb}
  PcKeys = {1, 2, 3}
  NMin = 1
  MinHash = 2
  PcSizes = {1, 2}
  PcSetups <- SharePcSetups
  BkSetups <- ShareBkSetups
  NHandle = 3
  AsSetups <- ShareAsSetups
SYMMETRY Symmetry
INVARIANTS
  Isolated
  WaitsAcyclic
  WaiterWillBeNotified
  PinnedNotRecycled
  OverBudgetByRacesOnly
  MappedWithinFile
  OneSharedFile
  AsyncTransparent
  LockedUntilFlushed
PROPERTIES
  RefinesShmLock
  BackupIsSnapshot
CHECK_DEADLOCK FALSE
