\* one machine, two entries, one of them in a context, batches and pages of
\* one row; a cycle may be cut anywhere but before the restore
CONSTANTS
    m1 = m1
    m2 = m2
    c1 = c1
    none = none
    g1 = g1
    Machines = {m1}
    NumEntries = 2
    Contexts = {c1}
    CtxOf <- MCFirstInContext
    Tags = {g1}
    BatchSize = 1
    Ahead <- MCInStep
    MaxClock = 4
    CliDuringCycle = FALSE
    WebKeepsTime = FALSE
    WebLag = 0
    Resyncs = TRUE
    FailsAt <- MCBeforeRestore
SPECIFICATION FairSpec
PROPERTIES NoLoss  DirtyDrains 
