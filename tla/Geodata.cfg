SPECIFICATION FairSpec
CONSTANTS
  a1 = a1  a2 = a2  a3 = a3  a4 = a4  f1 = f1  f2 = f2
  Assets = {a1, a2, a3, a4}
  Valid = {a1, a2, a3}
  Files = {f1, f2}
  File <- MCFile
  Sizes = {0, 2, 3}
  Limit = 2
  Concurrency = 2
  Absent = Absent  Empty = Empty  Preset = Preset  Irregular = Irregular
  MaxCalls = 2
  MaxCrashes = 1
INVARIANTS
  PreparedFilesExist
  TempFilesBounded
PROPERTIES
  FilesChangeWhole
  CallReturns
CHECK_DEADLOCK FALSE
