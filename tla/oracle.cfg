SPECIFICATION RunnerSpec
CONSTANTS
    Tiers = {t1, t2}
    Calls = {c1, c2}
    Masters = {m1, m2, m3, m4, m5, m6}
    CHUNK_SIZE = 2
    U64 = 9
    MaxReveals = 4
    MaxRound = 4
    None = None
    RoundIds <- MCRounds
INVARIANTS
    RunnerInv
PROPERTIES
    ImplementsOracle
SYMMETRY Symmetry
CHECK_DEADLOCK FALSE
