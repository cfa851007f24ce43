\* a mechanical action that chains to an AI action scheduled once a day, over
\* two days of two ticks: the worker rows, crashes, retries and aborts
CONSTANTS
    ai = ai
    mech = mech
    none = none
    Actions = {ai, mech}
    Ai = {ai}
    After <- MCChain
    Moments <- MCMoments
    DayLen = 2
    Interval = 3
    MaxRetries = 1
    Backoff <- MCBackoff
    Limit = 2
    Slots = 2
    NumWorkers = 2
    MaxFaults = 1
    MaxTime = 3
SPECIFICATION FairSpec
 
PROPERTIES RowsClose 
CHECK_DEADLOCK FALSE
