SPECIFICATION LiveSpec
CONSTANTS
    Settings <- MCSettings
    Window = 1
    Cycles = 1
    Connections = 2
    MaxRuns = 2
    MaxFaults = 1
INVARIANTS PairedAlike BondUsable DroppedIsOurs
PROPERTIES KeyRequestServed AdvertisesAgain
CHECK_DEADLOCK FALSE
