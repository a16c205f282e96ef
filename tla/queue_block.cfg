SPECIFICATION QSpec
CONSTANTS
  main = main
  a = a
  b = b
  q1 = q1
  h1 = h1
  t1 = t1
  x = x
  y = y
  z = z
  None = None
  Main = main
  Tasks <- ThreeTasks
  Timers <- NoTimer
  Plain <- OneEach
  Delays <- Now
  Results <- OneResult
  Lists <- SomeLists
  Api <- QueueWaits
  MaxClock = 0
  MaxKeep = 0
  queue = q1
  head = h1
  tail = t1
  Queues <- OneQueue
  Heads <- OneHead
  Tails <- OneTail
  Items <- ThreeItems
  Maxes <- OneOrTwo
  Modes <- AnyMode
  MaxCount = 4
  Getters <- ThreeTasks
  Putters <- ThreeTasks
  QApi <- AllTransfer
INVARIANTS
  QTypeOK
  NobodySleepsBesideWork
  NobodyWaitsForReadyEnds
SYMMETRY Alike
