SPECIFICATION Spec
CONSTANTS
    Tasks = {t1, t2}
    NoTask = NoTask
    Dests = {nc}
    NoDest = NoDest
    Depth = 2
    MaxCloses = 1
INVARIANT NextGenerationStands
CHECK_DEADLOCK FALSE
