SPECIFICATION FairSpec
CONSTANTS
    c1 = c1  c2 = c2  c3 = c3
    f1 = f1  f2 = f2  f3 = f3
    Configs = {c1, c2, c3}
    Files = {f1, f2, f3}
    Projects <- AllProjects
    Later <- FewProjects
    MaxRuns = 3
    None = None
INVARIANTS TypeOK FirstConfigWins BridgeHoldsWhatIsUsed
PROPERTIES AnalyzesOnce AnalysisEnds
CHECK_DEADLOCK FALSE
