\* two workers, one of which may stop for good, and one research item
CONSTANTS
    m1 = m1
    m2 = m2
    i1 = i1
    None = None
    Machines = {m1, m2}
    KeptAlive = {m1}
    Items = {i1}
    Research = {i1}
    Serves <- MCServes
    NumPolls = 3
    MaxFaults = 1
SPECIFICATION FairSpec
INVARIANTS OneWorker
PROPERTIES ResultKept ImplementsWorkItem 
