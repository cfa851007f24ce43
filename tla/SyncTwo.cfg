\* two machines and the web editing one entry; everything may fail
CONSTANTS
    m1 = m1
    m2 = m2
    c1 = c1
    none = none
    g1 = g1
    Machines = {m1, m2}
    NumEntries = 1
    Contexts = {}
    CtxOf <- MCNoContext
    Tags = {}
    BatchSize = 2
    Ahead <- MCInStep
    MaxClock = 3
    CliDuringCycle = TRUE
    WebKeepsTime = TRUE
    WebLag = 1
    Resyncs = TRUE
    FailsAt <- MCAnywhere
SPECIFICATION Spec
SYMMETRY MCSymmetry
INVARIANTS SyncInv
PROPERTIES LossNeedsHole
