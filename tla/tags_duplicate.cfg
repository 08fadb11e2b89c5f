SPECIFICATION LifecycleSpec
CONSTANTS
  k = k
  c = c
  o1 = o1
  th = th
  ThreadObject = th
  Main = main
  ObjectClass = k
  TrackerClass = k
  Classes = {k, c}
  Objects = {o1, th}
  ClassOf <- MCClassOf
  Trackers = {main}
  MaxRuns = 1
  Nothing = nothing
INVARIANTS
  UniqueTags
CHECK_DEADLOCK FALSE
