\* A registration that fails while the housekeeper holds flush_mutex.
CONSTANTS
  Thread = {a1, a2}
  a1 = a1
  a2 = a2
  HK = hk
  None = None
  PipeRoom = 1
  MinRoom = 1
  Capacity = 2
  Contexts = 1
  ForceBlocking = FALSE
  Bounds <- MCReattach
SPECIFICATION Spec
INVARIANT NoSelfDeadlock
CHECK_DEADLOCK FALSE
