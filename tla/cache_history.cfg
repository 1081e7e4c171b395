CONSTANTS
  Absent = Absent
  None = None
  Torn = Torn
  Files = {"f1"}
  Sensors = {"js"}
  SensorOf <- JustOneFile
  IssuesOnly = {}
  Contents = {"c1", "c2"}
  Plugins = {"p1", "p2"}
  Ucfgs = {"u1", "u2"}
  Envs <- VersionEnvs
  MaxScans = 3
  WritesFail = TRUE
  MaxDamage = 2
SPECIFICATION Spec
INVARIANTS
  TypeOK
  FinishedOutputsFresh
  NextCacheIntact
  MetadataVouches
  CacheInvariant
PROPERTIES
  EntryWrittenOnce
CHECK_DEADLOCK FALSE
