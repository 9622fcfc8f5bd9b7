SPECIFICATION ProcessesSpec
CONSTANTS
  Connections = {c1, c2, c3}
  Requests = {r1, r2, r3}
  Nobody = Nobody
  Sizes = {1, 2, 3}
  MaxOutput = 2
  PipeSize = 2
INVARIANTS
  ListenersReleased
  CleanExit
  OneChildAtATime
  ReportIsWholeOrNone
PROPERTIES
  EndsWhenItMust
  GateOpensAgain
  RunnerImplementsSingleFlight
CHECK_DEADLOCK FALSE
