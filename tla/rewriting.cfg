SPECIFICATION Spec
CONSTANTS
  MaxFree = 4
  Inputs <- MCInputs
  Reach = 22
  SameFrameMax = 7
  ClassNumber = 40000
  MethodNumber = 6
  ClassNumberIndex = 13
INVARIANTS
  TypeOK
  InjectionFits
  BranchesLand
  SwitchesAligned
  RangesCover
  FramesAtTargets
  PoolDecodes
  ImageIffInjected
  ConstructorTracked
PROPERTIES
  Finishes
CHECK_DEADLOCK FALSE
