CONSTANTS
  Starts = {s1, s2}
  Configs = {s1, s2}
  Stops = {t1}
  HashLists <- TwoHashLists
  NoHashes = NoHashes
  NoConfig = NoConfig
  NoInstance = NoInstance
  Background = Background
SPECIFICATION Spec
PROPERTIES
  FailedStartSyncsStatus
