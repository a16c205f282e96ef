SPECIFICATION ProgramsSpec
CONSTANTS
  main = main
  a = a
  b = b
  c = c
  q1 = q1
  q2 = q2
  h1 = h1
  h2 = h2
  t1 = t1
  t2 = t2
  x = x
  y = y
  z = z
  None = None
  Main = main
  consumer = a
  filter = b
  Where <- HeadOrTail
  MaxYields = 3
  Tasks <- FourTasks
  Timers <- NoTimer
  Plain <- TwoEach
  Delays <- Now
  Results <- OneResult
  Lists <- NoList
  Api <- ProgramCalls
  MaxClock = 0
  MaxKeep = 0
  queue = q1
  head = h1
  tail = t1
  Queues <- TwoQueues
  Heads <- TwoHeads
  Tails <- TwoTails
  Items <- ThreeItems
  Maxes <- OneOrTwo
  Modes <- OnlyWait
  MaxCount = 4
  Getters <- ThreeTasks
  Putters <- ThreeTasks
  QApi <- Careful
INVARIANTS
  FilterUnnoticed
  NobodySleepsBesideWork
PROPERTIES
  FilterPassesAll
  EveryTransferReturns
  DueGetsProcessor
