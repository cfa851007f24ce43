SPECIFICATION FairSpec
CONSTANTS
    Models <- TwoModels
    Claude = "claude"
    MaxRequests = 2
    MaxFaults = 1
    MaxRaces = 0
PROPERTIES
    Finishes
    LiveSpared
CHECK_DEADLOCK FALSE
