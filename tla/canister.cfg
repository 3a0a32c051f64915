SPECIFICATION CanisterSpec
CONSTANTS
    p1 = p1
    p2 = p2
    a1 = a1
    a2 = a2
    Tiers = {0}
    Calls = {c1}
    Masters = {m1, m2, m3}
    CHUNK_SIZE = 2
    U64 = 9
    MaxReveals = 3
    MaxRound = 3
    None = None
    RoundIds <- MCRounds
    Players <- MCPlayers
    Outcomes <- MCOutcomes
    U8 = 3
    MaxTime = 1
    Hashes = {1, 2}
    Presets = {0, 4, 5}
    MAX_PLAYER_CONFIGS_LIST = 1
    Principals = {a1, a2, anonymous}
    Anonymous = anonymous
    MAX_INIT_ADMINS = 2
    MaxKeyCalls = 2
    EmptyCell = empty
    PlayerOf <- MCPlayerOf
    V1Rounds = {1}
    Service = a1
    Spendings <- MCSpendings
INVARIANTS
    CanisterTypeOK
    RunnerInv
    ReplayMatches
PROPERTIES
    ListingsOnlyGrow
    PubkeyStable
SYMMETRY Symmetry
CHECK_DEADLOCK FALSE
