SPECIFICATION FairSpec
CONSTANTS
    OrphanTicks = 3
    WaitTicks = 5
    MaxBusy = 3
    Hangs = FALSE
    Off = Off
PROPERTY ShutdownOnlyWhenOrphan
