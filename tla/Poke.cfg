CONSTANTS
    page = page
    llm = llm
    None = None
    Writers = {page, llm}
    Humans = {page}
    Texts = {"t", "u"}
    MaxWrites = 4
SPECIFICATION PokeSpec
INVARIANTS OneRecord KeepFlow ApprovalHolds
PROPERTIES ChangesSeen
CHECK_DEADLOCK FALSE
