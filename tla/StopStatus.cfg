CONSTANTS
  Starts = {s1}
  Configs = {s1}
  Stops = {t1}
  HashLists <- TwoHashLists
  NoHashes = NoHashes
  NoConfig = NoConfig
  NoInstance = NoInstance
  Background = Background
SPECIFICATION Spec
INVARIANTS
  StopClearsStatus
