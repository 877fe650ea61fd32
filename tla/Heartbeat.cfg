SPECIFICATION FairSpec
CONSTANTS
    Autostart = TRUE
    MaxInFlight = 3
INVARIANTS
    NoLostWakeup
PROPERTIES
    GateIsATurnstile
    LoopMakesProgress
    StopCompletes
