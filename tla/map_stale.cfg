SPECIFICATION MapSpec
CONSTANTS
  p = p
  q = q
  type = type
  func = func
  f = f
  g = g
  Nothing = Nothing
  Torn = Torn
  Programs <- TwoPrograms
  Functions <- OneFunction
  Outputs <- Tables
  MaxCompiles = 3
  MaxMapKills = 1
INVARIANTS
  AgreedIsFoundOnce
CHECK_DEADLOCK FALSE
