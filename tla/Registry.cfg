\* Two applications, the first of them run by two processes in turn.
CONSTANTS
  p1 = p1
  p2 = p2
  p3 = p3
  Proc = {p1, p2, p3}
  AppOf <- MCApp
  Ctid = {1}
  Fd = {3, 4, 5}
  Dev = {"d1"}
  Filter <- MCFilter
  BlockingDev = {"d1"}
  Force = FALSE
  AppRoom = 1
  DaemonRoom = 2
  MaxSlots = 2
  Budget <- MCBudget
SYMMETRY MCSymmetry
SPECIFICATION Spec
INVARIANTS SliceIsOwn HandleOwned AllKnown LevelsAgree
PROPERTY UnregisterForgets
CHECK_DEADLOCK FALSE
