SPECIFICATION FairSpec
CONSTANTS
    OrphanTicks = 3
    WaitTicks = 5
    MaxBusy = 2
    Hangs = TRUE
    Off = Off
INVARIANT TypeOK
PROPERTIES ShutdownOnlyWhenOrphan OrphanExits ClosedServerExits CleanReturns RequestReturns
