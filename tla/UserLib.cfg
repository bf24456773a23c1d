\* A thread that logs, another that registers, and the housekeeper.
CONSTANTS
  Thread = {a1, a2}
  a1 = a1
  a2 = a2
  HK = hk
  None = None
  PipeRoom = 1
  MinRoom = 1
  Capacity = 2
  Contexts = 1
  ForceBlocking = FALSE
  Bounds <- MCBounds
SPECIFICATION Spec
INVARIANTS InOnePlace LossIsCounted
PROPERTIES BlockingKeeps CallsReturn
CHECK_DEADLOCK FALSE
