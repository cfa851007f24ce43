CONSTANTS
    picks = picks
    assess = assess
    None = None
    Actions = {picks, assess}
    Ai = {picks}
    Timed = {picks}
    Assess = assess
    DayLen = 2
    Moment = 1
    Interval = 2
    MaxRetries = 1
    MaxRuns = 1
    Checks = 2
    Dialog <- BothDates
    Slots = {1, 2}
    Pending = 1
    MaxEvents = 1
    MaxTime = 3
SPECIFICATION FairSpec
INVARIANTS TypeOK OneDoer BackfillCovers
PROPERTIES ScheduleKept 
CHECK_DEADLOCK FALSE
