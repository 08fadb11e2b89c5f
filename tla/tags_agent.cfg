SPECIFICATION LifecycleSpec
CONSTANTS
  k = k
  c = c
  o1 = o1
  th = th
  ThreadObject = th
  Main = main
  ObjectClass = k
  TrackerClass = k
  Classes = {k, c}
  Objects = {o1, th}
  ClassOf <- MCClassOf
  Trackers = {main, t1}
  MaxRuns = 4
  Nothing = nothing
INVARIANTS
  NativeBound
  EveryInstanceTagged
  UnknownOnce
  SharedOnlyAcross
  AnnouncedFirst
  CountsMatch
PROPERTIES
  AgentServes
CHECK_DEADLOCK FALSE
