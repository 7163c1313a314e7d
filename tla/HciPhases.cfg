SPECIFICATION Spec
CONSTANTS
    Count = 1
    ISO_EVERY = 1
    Cases = 2
    PAWR_RESPONSE_ATTEMPTS = 2
    Tests <- Scripts
    Phases = {"connected", "subrate", "advanced", "cis", "stress", "periodic", "past", "pawr", "bis", "auracast", "recovery", "core54"}
    MaxFaults = 1
    MaxRepeat = 1
INVARIANTS FreshEvents AwaitedNotLost TornDown OneReader
PROPERTY ServiceEnds
