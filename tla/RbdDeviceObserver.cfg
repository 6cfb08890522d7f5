SPECIFICATION FairSpec
CONSTANTS
    Devices = {d1, d2}
    OtherPv = TRUE
    MaxChanges = 3
INVARIANTS
    TypeOK
    AtLeastOnce
    NoFalseUnmap
    JournalIsHistory
PROPERTY JournalCatchesUp
