CONSTANTS
  Starts = {s1, s2}
  Configs = {s1, s2}
  Stops = {t1}
  HashLists <- AllHashLists
  NoHashes = NoHashes
  NoConfig = NoConfig
  NoInstance = NoInstance
  Background = Background
SPECIFICATION FairSpec
PROPERTIES
  RequestsComplete
  NoLeak
  KeptOnlyIfUpToDate
  ImplementsInstanceSlot
  ImplementsSingleFlight
