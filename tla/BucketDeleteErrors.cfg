SPECIFICATION Spec
CONSTANTS
    NumKeys = 2
    Deletes = {d1}
    Sizes = {}
    MaxKeys = 2
    CanFail = FALSE
    KeyErrors = TRUE
INVARIANT AllContentsDeleted
