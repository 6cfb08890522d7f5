SPECIFICATION FairSpec
CONSTANTS
    Internal = {app}
    Malformed = {typo}
    External = {hub}
    Interval = 2
    For = 6
    Work = 1
    RefusesHead = TRUE
    CanFail = TRUE
INVARIANTS
    TypeOK
    FiresOnRepeatedEvidence
    MissingIsDefinitive
PROPERTY DeletionIsNoticed
