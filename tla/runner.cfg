SPECIFICATION FairRunnerSpec
CONSTANTS
    Tiers = {t1}
    Calls = {c1}
    Masters = {m1, m2, m3, m4, m5, m6}
    CHUNK_SIZE = 3
    U64 = 11
    MaxReveals = 8
    MaxRound = 8
    None = None
    RoundIds <- MCRounds
INVARIANTS
    OneRootPerChunk
    OffsetTracksSettled
    RevealedUpToSettled
    NextFollowsCurrent
    SeedReadyMidChunk
    NoFutureSeedPublished
PROPERTIES
    ProofsImmutable
    SettledByOne
    PlayerSeedStable
    SeedReadyAfterReveal
    EveryRoundRevealed
CHECK_DEADLOCK FALSE
