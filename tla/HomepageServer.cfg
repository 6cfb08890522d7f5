SPECIFICATION ServerSpec
CONSTANTS
    Routes = {r1}
    Users = {u1, u2}
    CACHE_TTL = 2
    Work = 1
    CanFail = TRUE
    NoData = no_data
    Queries = {q1, q2, q3}
    Workers = 2
    Timeout = 1
    Ttl = 3
INVARIANTS
    ServerTypeOK
    PagesAreFresh
    OutageHidesNothing
    FetchIsBounded
    CachedIsRecent
    RefreshHitsCache
SYMMETRY ServerSymmetry
