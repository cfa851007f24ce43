\* two drains of three messages, or GitHub activity on two items
CONSTANTS
    i1 = i1
    i2 = i2
    down = down
    run1 = run1
    none = none
    NumMessages = 3
    KeyOf <- MCKeyOf
    NoKey = none
    Quiet = {3}
    PageSize = 2
    PageLimit = 1
    Items = {i1, i2}
    Queries <- MCQueries
    SearchLimit = 1
    MaxSecond = 2
    Loads <- MCLoads
SPECIFICATION FairSpec
   
PROPERTIES MessagesArrive
