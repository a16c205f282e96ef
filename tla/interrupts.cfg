SPECIFICATION ProgramsSpec
CONSTANTS
  main = main
  a = a
  alerter = alerter
  h1 = h1
  h2 = h2
  None = None
  Main = main
  Alerter = alerter
  Tasks <- ThreeTasks
  Timers <- NoTimer
  Plain <- TwoHandlers
  Handlers <- TwoHandlers
  Delays <- Now
  Results <- OneResult
  Lists <- BothHandlers
  Api <- InterruptCalls
  Programs <- Careful
  NASS = 2
  MaxClock = 0
  MaxKeep = 2
INVARIANTS
  ProgramsTypeOK
  WaitersHeard
  InterruptsHeard
  HandlersArmed
SYMMETRY Alike
