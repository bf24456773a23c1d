\* A message longer than the minimal size is pushed.
CONSTANTS
  a = a
  b = b
  Msg = {a, b}
  NoMsg = NoMsg
  Mangled = Mangled
  BlockLen <- MCLongLen
  HeadLen = 1
  MinSize = 4
  MaxSize = 10
  StepSize = 2
SPECIFICATION Spec
PROPERTY ReadsOldest
