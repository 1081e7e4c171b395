SPECIFICATION FairSpec
CONSTANTS
    OrphanTicks = 3
    WaitTicks = 5
    MaxBusy = 2
    Hangs = FALSE
    Off = Off
PROPERTY OrphanAlwaysExits
