CONSTANTS
  Absent = Absent
  None = None
  Torn = Torn
  Files = {"f1"}
  Sensors = {"js"}
  SensorOf <- JustOneFile
  IssuesOnly = {}
  Contents = {"c1", "c2"}
  Plugins = {"p1"}
  Ucfgs = {"u1"}
  Envs <- PullRequestEnvs
  MaxScans = 3
  WritesFail = FALSE
  MaxDamage = 2
SPECIFICATION Spec
INVARIANTS
  FileChangedMeansChanged
CHECK_DEADLOCK FALSE
