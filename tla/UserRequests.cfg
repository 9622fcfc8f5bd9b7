SPECIFICATION ScenarioSpec
CONSTANTS
  r1 = r1  r2 = r2  u1 = u1  u2 = u2  v1 = v1  v2 = v2  t1 = t1  t2 = t2
  ip1 = ip1  ip2 = ip2  i1 = i1  i2 = i2
  Versions = {v1, v2}
  Tags = {t1, t2}
  NoVersion = NoVersion
  NoInstance = NoInstance
  Configs <- MCConfigs
  Requests = {r1, r2}
  Inputs <- AllInputs
  Users = {u1, u2}
  Instances = {i1, i2}
  IPs = {ip1, ip2}
  DropOutcomes = {"dropped", "unavailable", "error"}
INVARIANTS
  CapturedDoNotSurvive
  KnownTagsCoverInbounds
  RecordedAtKnownTags
  AddedExactly
  RemovedCompletely
CHECK_DEADLOCK FALSE
SYMMETRY Interchangeable
