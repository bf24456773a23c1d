\* A growing buffer every message of which fits the minimal size.
CONSTANTS
  a = a
  b = b
  Msg = {a, b}
  NoMsg = NoMsg
  Mangled = Mangled
  BlockLen <- MCBlockLen
  HeadLen = 2
  MinSize = 5
  MaxSize = 9
  StepSize = 2
SPECIFICATION Spec
INVARIANTS TypeOK Layout RefusedOnlyWhenFull EmptyIsMinimal
PROPERTY FifoSpec
