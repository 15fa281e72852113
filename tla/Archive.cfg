SPECIFICATION FairSpec
CONSTANTS
    s1 = s1 s2 = s2 m1 = m1 m2 = m2 t1 = t1
    Sessions = {s1, s2}
    Messages = {m1}
    Tools = {t1}
    Core = Core Nobody = Nobody NoVector = NoVector NoRecord = NoRecord
    Batch = 1
    MaxCrashes = 1
    MaxFaults = 1
INVARIANTS TypeOK NoMixedTags RunIsIndexed LoadedIsIndexed KeywordLossHasCause
PROPERTIES EndedIsIndexed
CHECK_DEADLOCK FALSE
