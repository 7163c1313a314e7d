SPECIFICATION LiveSpec
CONSTANTS
    Board = "IBK"
    DebouncePasses = 2
    MaxPresses = 3
    MaxCuts = 2
INVARIANTS
    BootsInKnownMode
    FlashWithRadioDown
    OnePressOneChange
PROPERTY
    PressChangesMode
CHECK_DEADLOCK FALSE
