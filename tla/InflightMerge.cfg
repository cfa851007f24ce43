CONSTANTS
    e1 = e1
    e2 = e2
    NoReply = NoReply
    Editors = {e1, e2}
    Items = {"a", "b", "ab"}
    Raised <- MCRaised
    Grows <- MCGrows
    Initial <- MCInitial
    MaxEvents = 3
SPECIFICATION Spec
INVARIANT DeletionsHold
CHECK_DEADLOCK FALSE
