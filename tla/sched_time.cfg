SPECIFICATION Spec
CONSTANTS
  main = main
  a = a
  m1 = m1
  m2 = m2
  o = o
  None = None
  Main = main
  Tasks <- TwoTasks
  Timers <- TwoTimers
  Plain <- NoPlain
  Delays <- AlsoWrong
  Results <- TwoResults
  Lists <- AnyList
  Api <- TimeCalls
  MaxClock = 2
  MaxKeep = 0
INVARIANTS
  ChainOrdered
  NoBadTime
PROPERTIES
  RunsInOrder
  TerminatedStays
  NoOvertaking
