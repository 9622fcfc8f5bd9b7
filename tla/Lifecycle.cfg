CONSTANTS
  Starts = {s1, s2, s3}
  Configs = {s1, s2, s3}
  Stops = {t1, t2}
  HashLists <- TwoHashLists
  NoHashes = NoHashes
  NoConfig = NoConfig
  NoInstance = NoInstance
  Background = Background
SPECIFICATION Spec
INVARIANTS
  CallsInOrder
  PublishedIsUsable
  OwnedByOne
  MemoryDescribesInstance
  StatusMatchesCore
PROPERTIES
  FailedLaunchLeavesCoreDown
SYMMETRY Symmetry
