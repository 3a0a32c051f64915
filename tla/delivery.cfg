SPECIFICATION RepairSpec
CONSTANTS
    s1 = s1
    s2 = s2
    won = won
    lost = lost
    v1 = v1
    v2 = v2
    Versions = {v1, v2}
    Jsons = {j1}
    DEFAULT_VERSION = v1
    None = None
    Keys <- MCKeys
    Seasons = {s1, s2}
    Players <- MCPlayers
    Results = {won, lost}
    MaxTs = 2
    Sigs = {sig1}
    MAX_PLAYERS_PER_CALL = 2
    MigratedKey <- MCMigratedKey
    MigratedVersion = v2
    Batches <- MCBatches
    Reports <- MCReports
    Signups <- MCSignups
    Lists <- MCLists
    PageSize = 1
    MAX_PAGE_LIMIT = 4
    USIZE = 8
    MAX_PLAYERS_BATCH = 2
INVARIANTS
    TypeOK
    BatchesMerge
    HistoryInStep
    HistoryComplete
    WalkMissesNothing
PROPERTIES
    ConfigPinned
    PinnedOrDefault
    SnapshotOnlyGrows
