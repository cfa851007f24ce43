CONSTANTS
    s1 = s1
    s2 = s2
    b1 = b1
    b2 = b2
    x1 = x1
    None = None
    Sessions = {s1, s2}
    Bridges = {b1, b2}
    Renaming = {s1, s2}
    Messages = {x1}
    MaxFaults = 1
SPECIFICATION FairSpec
INVARIANTS TypeOK CopiesKept NumbersDistinct
PROPERTIES MailArrives
CHECK_DEADLOCK FALSE
