SPECIFICATION Spec
CONSTANTS
    CHUNK_SIZE = 11
    Tiers = {t1, t2}
    Tier = t1
    Chunk = 1
INVARIANTS
    WalkClimbsTree
    AcceptedIffGenuine
    PositionsSpellOffset
CHECK_DEADLOCK FALSE
