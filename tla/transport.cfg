SPECIFICATION MCSpec
CONSTANTS
    t1 = t1  t2 = t2  t3 = t3  nc = nc
    Tasks = {t1, t2, t3}
    NoTask = NoTask
    Dests = {nc}
    NoDest = NoDest
    Depth = 2
    MaxCloses = 2
    Callers = {t1, t2}
    MaxConnections = 3
    MaxManagerCloses = 2
SYMMETRY Alike
INVARIANTS MCTypeOK OpenIsStored NothingOutlivesClose ConnectionsAreHeld
    NobodyWaitsInVain
