SPECIFICATION Spec
CONSTANTS
  main = main
  a = a
  m1 = m1
  m2 = m2
  o = o
  None = None
  Main = main
  Tasks <- TwoTasks
  Timers <- NoTimer
  Plain <- NoPlain
  Delays <- Now
  Results <- OneResult
  Lists <- AnyList
  Api <- AllCalls
  MaxClock = 1
  MaxKeep = 1
INVARIANTS
  ChainWellFormed
