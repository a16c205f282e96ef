SPECIFICATION Spec
CONSTANTS
  main = main
  a = a
  m1 = m1
  m2 = m2
  o = o
  None = None
  Main = main
  Tasks <- TwoTasks
  Timers <- NoTimer
  Plain <- OnePlain
  Delays <- NowOrNext
  Results <- OneResult
  Lists <- AnyList
  Api <- AlertClockCalls
  MaxClock = 2
  MaxKeep = 0
INVARIANTS
  NoSelfLink
