SPECIFICATION FairSpec
CONSTANTS
    NumKeys = 2
    Deletes = {d1, d2}
    Sizes = {s1}
    MaxKeys = 1
    CanFail = TRUE
    KeyErrors = FALSE
INVARIANTS
    TypeOK
    AllContentsDeleted
    SizeIsHonest
PROPERTY RequestsEnd
