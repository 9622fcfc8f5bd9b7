SPECIFICATION FairSpec
CONSTANTS
  n1 = n1  n2 = n2  one = one  both = both
  Nodes = {n1, n2}
  Hints = {one, both}
  Matches <- MCMatches
  UnknownNode = UnknownNode
  NoId = NoId
  Timeout = 4
  Grace = 2
  ClientTimeout = 2
  MaxInterval = 2
  MaxPaths = 2
  MaxMeddling = 2
INVARIANTS
  SuccessIsTrue
  NotGivenUpOnSuccess
PROPERTIES
  ToolEnds
CHECK_DEADLOCK FALSE
