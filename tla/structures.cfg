SPECIFICATION StructuresSpec
CONSTANTS
  q1 = q1
  q2 = q2
  h1 = h1
  h2 = h2
  t1 = t1
  t2 = t2
  x = x
  y = y
  z = z
  None = None
  Queues <- TwoQueues
  Heads <- TwoHeads
  Tails <- TwoTails
  Items <- ThreeItems
  Maxes <- OneOrTwo
  MaxCount = 4
  Api <- AllCalls
  Chars <- TwoChars
  BufSize = 3
  Reserve = 1
  Texts <- OneText
  Offsets <- SomeOffsets
  MaxText = 2
  Addresses <- ThreeAddresses
  Counts <- NoneOrTwo
  NodeBlock = 2
  RecordBlock = 2
  Keys <- ThreeKeys
  Values <- OneOrTwo
  HashOf <- Colliding
  InitialSize = 2
  MaxSize = 4
  Trees <- SomeTrees
  Roots = 2
  MaxNodes = 16
  NoTask = NoTask
  Tasks = {main, a, b}
  Main = main
  Careless = {}
  Strings = {s1, s2}
  Letters <- TwoLetters
  Gone = Gone
  Reps = {r1, r2, r3}
  NullRep = NullRep
  MAXS = 2
  MAXL = 2
  LongRoom <- Doubled
  MaxLength = 2
  Literals <- SomeLiterals
  RashStrings = {}
  Links = {l1, l2, l3}
  Iters = {i1, i2}
  NoLink = NoLink
  RashLists = {}
CHECK_DEADLOCK FALSE
INVARIANTS
  EndsMatch
  RingsSound
  PartsTypeOK
  TrieSound
  CountsFound
  
  
  RunsOnItsFrames
  StacksFreedInTime
  SharingSound
PROPERTIES
  FirstInFirstOut
  BehavesAsFile
  HashIsMap
  IteratorsKeepTheirPlace
SYMMETRY Renamings
