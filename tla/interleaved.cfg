SPECIFICATION RevealSpec
CONSTANTS
    Tiers = {t1}
    Calls = {c1, c2}
    Masters = {m1, m2, m3, m4, m5, m6, m7}
    CHUNK_SIZE = 2
    U64 = 9
    MaxReveals = 6
    MaxRound = 4
    None = None
    RoundIds <- MCRounds
INVARIANTS
    TypeOK
    ProofBinding
    RevealedInOrder
    OffsetCoversReveals
PROPERTIES
    PrefetchKept
SYMMETRY Symmetry
CHECK_DEADLOCK FALSE
