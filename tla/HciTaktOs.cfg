SPECIFICATION FairSpec
CONSTANTS
    Interrupt <- MCInterrupt
    EventOf <- MCEventOf
    Polls = TRUE
INVARIANTS
    SleepsOnlyWhenIdle
    TornDownAlone
PROPERTIES
    MpslServed
    StopLeaves
CHECK_DEADLOCK FALSE
