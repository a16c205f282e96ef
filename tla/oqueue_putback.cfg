SPECIFICATION RefusingSpec
CONSTANTS
  q1 = q1
  q2 = q2
  h1 = h1
  h2 = h2
  t1 = t1
  t2 = t2
  x = x
  y = y
  z = z
  None = None
  Queues <- TwoQueues
  Heads <- TwoHeads
  Tails <- TwoTails
  Items <- ThreeItems
  Maxes <- OneOrTwo
  MaxCount = 4
  Api <- AllCalls
INVARIANTS
  RingsSound
