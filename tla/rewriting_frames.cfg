SPECIFICATION Spec
CONSTANTS
  MaxFree = 3
  Inputs <- MCInputs
  Reach = 22
  SameFrameMax = 7
  ClassNumber = 40000
  MethodNumber = 6
  ClassNumberIndex = 13
INVARIANTS
  NoBlocksAdded
CHECK_DEADLOCK FALSE
