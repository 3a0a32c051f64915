SPECIFICATION RevealSpec
CONSTANTS
    Tiers = {t1}
    Calls = {c1}
    Masters = {m1, m2, m3, m4}
    CHUNK_SIZE = 3
    U64 = 11
    MaxReveals = 4
    MaxRound = 4
    None = None
    RoundIds <- MCRoundsFromZero
INVARIANTS
    NoFutureSeedPublished
CHECK_DEADLOCK FALSE
