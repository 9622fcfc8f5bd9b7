SPECIFICATION Spec
CONSTANTS
  eth = eth  wg = wg
  Ifaces = {eth, wg}
  Directions = {"rx"}
  RouteTables <- MCRouteTables
  SecondTicks = 2
  Carriable <- MCCarriable
  MaxTime = 2
  None = None
  Unparsable = Unparsable
  alice = alice  bob = bob
  Queries <- MCQueries
  Users = {alice, bob}
  Connections <- MCConnections
  CoreInstances = {1, 2}
  NoCore = NoCore
  MaxUptime = 1
  MaxClock = 2
  NoHashes = NoHashes
  t1 = t1  hash1 = hash1  hash2 = hash2  e1 = e1  e2 = e2
  Tags <- MCTags  Digests = {hash1, hash2, e1, e2}
  HashListPairs <- MCHashListPairs
  Nil = Nil
  NoConflict = NoConflict
  Odd = Odd
  OldPort = OldPort
  Documents <- MCDocuments
  BuilderPorts = {0, 8443}
  NotBuilt = NotBuilt
  Depth = 5
  Blank = Blank
  Malformed = Malformed
  LongZero = LongZero
  Refused = Refused
  MaxPort = 4
  MaxInt = 4
  Defaults <- MCDefaults
  Spellings = {"mtls", "optional", "none", "info", "always"}
  Environments <- MCEnvironments
  Requests <- MCRequests
  Pending = Pending
INVARIANTS
  RatesWithinTraffic
  SettledIsShown
  ReadsAreTrue
  DecidedRightly
  BuiltRightly
  SetUpIffSound
  LimitIsKept
CHECK_DEADLOCK FALSE
