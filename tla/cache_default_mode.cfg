CONSTANTS
  Absent = Absent
  None = None
  Torn = Torn
  Files = {"f1"}
  Sensors = {"js"}
  SensorOf <- JustOneFile
  IssuesOnly = {}
  Contents = {"c1", "c2"}
  Plugins = {"p1"}
  Ucfgs = {"u1"}
  Envs <- NoSecurityEnvs
  MaxScans = 3
  WritesFail = TRUE
  MaxDamage = 2
SPECIFICATION Spec
INVARIANTS
  DefaultModeSkipsNothing
CHECK_DEADLOCK FALSE
