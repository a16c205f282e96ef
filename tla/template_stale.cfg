SPECIFICATION PartsSpec
CONSTANTS
  l1 = l1
  l2 = l2
  l3 = l3
  r1 = r1
  r2 = r2
  m1 = m1
  m2 = m2
  m3 = m3
  ha = ha
  hb = hb
  i1 = i1
  i2 = i2
  d1 = d1
  d2 = d2
  None = None
  Links <- ThreeLinks
  Reps <- TwoReps
  Setups <- MixedSetups
  Members <- ThreeMembers
  Defined <- TwoDefined
  Calls <- WhoCalls
  Headers <- TwoHeaders
  Root <- WhichRoot
  MaxTime = 2
  Nothing = Nothing
  Torn = Torn
  p = p
  q = q
  type = type
  func = func
  f = f
  g = g
  Programs <- TwoPrograms
  Functions <- OneFunction
  Outputs <- Tables
  MaxCompiles = 0
  MaxMapKills = 1
PROPERTIES
  OtherOptionsAreOut
CHECK_DEADLOCK FALSE
