SPECIFICATION FairSpec
CONSTANT Count = 3
INVARIANTS TypeOK OutcomeIsLogged ReportInvariant
PROPERTY StopReturns
CHECK_DEADLOCK FALSE
