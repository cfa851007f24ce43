CONSTANTS
    e1 = e1
    e2 = e2
    NoReply = NoReply
    Editors = {e1, e2}
    Items = {"a", "b", "ab"}
    Raised <- MCRaised
    Grows <- MCGrows
    Initial <- MCInitial
    MaxEvents = 3
SYMMETRY MCSymmetry
SPECIFICATION Spec
INVARIANTS TypeOK MergeLosesNothing
PROPERTIES  OwnSaveStands
CHECK_DEADLOCK FALSE
