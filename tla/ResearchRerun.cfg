SPECIFICATION Spec
CONSTANTS
    Models <- TwoModels
    Claude = "claude"
    MaxRequests = 2
    MaxFaults = 0
    MaxRaces = 1
INVARIANTS
    TypeOK
    OneAgent
PROPERTIES
    QueueKept
    SynthesisWaits
CHECK_DEADLOCK FALSE
