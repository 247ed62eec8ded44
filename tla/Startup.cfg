SPECIFICATION FairSpec
CONSTANTS
    Memories = {m1, m2}
    Texts = {t1, t2}
    MaxCrashes = 3
INVARIANT StampTellsSchema
INVARIANT IndexMirrors
PROPERTY ComesUp
CHECK_DEADLOCK FALSE
