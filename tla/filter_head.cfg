SPECIFICATION FilterSpec
CONSTANTS
  main = main
  a = a
  b = b
  q1 = q1
  q2 = q2
  h1 = h1
  h2 = h2
  t1 = t1
  t2 = t2
  x = x
  y = y
  z = z
  None = None
  Main = main
  consumer = a
  filter = b
  Where <- AtHead
  MaxYields = 3
  Tasks <- ThreeTasks
  Timers <- NoTimer
  Plain <- TwoEach
  Delays <- Now
  Results <- OneResult
  Lists <- NoList
  Api <- ProgramCalls
  MaxClock = 0
  MaxKeep = 0
  queue = q1
  head = h1
  tail = t1
  Queues <- TwoQueues
  Heads <- TwoHeads
  Tails <- TwoTails
  Items <- ThreeItems
  Maxes <- OneOrTwo
  Modes <- OnlyWait
  MaxCount = 4
  Getters <- ThreeTasks
  Putters <- ThreeTasks
  QApi <- Busy
INVARIANTS
  NothingLostOrOvertaken
