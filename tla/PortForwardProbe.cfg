CONSTANTS
    ROUNDS = 2
    ATTEMPTS = 2
    Settings <- BothSites
    Draws = {1, 2, 3, 4, 5, 6}
SPECIFICATION FairSpec
INVARIANTS
    RotatesOnlyCondemned
    LeavesUnforwardedAlone
PROPERTY
    UnforwardedIsJudgedBySite
    BadDrawIsReplaced
