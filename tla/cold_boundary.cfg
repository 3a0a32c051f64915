SPECIFICATION RunnerSpec
CONSTANTS
    Tiers = {t1}
    Calls = {c1}
    Masters = {m1, m2, m3}
    CHUNK_SIZE = 2
    U64 = 5
    MaxReveals = 3
    MaxRound = 3
    None = None
    RoundIds <- MCRounds
INVARIANTS
    SeamlessAcrossBoundaries
CHECK_DEADLOCK FALSE
