SPECIFICATION Spec
CONSTANTS
  r1 = r1  r2 = r2  n1 = n1  n2 = n2  i1 = i1  i2 = i2
  Requests = {r1, r2}
  Units = {n1, n2}
  Instances = {i1, i2}
  NoInstance = NoInstance
  Counters <- MCCounters
  Inputs <- MCInputs
INVARIANTS
  ReportedTwiceOnlyAtOnce
  ResetIsReported
  AnswersAreComplete
CHECK_DEADLOCK FALSE
SYMMETRY Interchangeable
