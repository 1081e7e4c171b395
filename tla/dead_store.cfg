SPECIFICATION Spec
CONSTANTS
  Vars = {"x"}
  Forms = {"plain"}
  MaxRefs = 3
  MaxSegs = 4
  MaxDepth = 2
  Features = {"branch", "loop", "closure", "pattern", "finally"}
INVARIANTS
  ReportedIsDead
  ReportedOnce
  StableSolution
  NoLiveVariableMissed
  
PROPERTIES
  LvaTerminates
