SPECIFICATION MCSpec
CONSTANTS
    t1 = t1
    t2 = t2
    n1 = n1
    n2 = n2
    Pool = Pool
    Default = n1
    Names = {n1, n2}
    Tasks = {t1, t2}
    MaxSessions = 3
    MaxCommands = 3
    MaxProbes = 2
    p1 = p1
    p2 = p2
    Selectors = {p1, p2}
    NoSelector = NoSelector
    Placements = 2
    MaxLevel = 2
    MaxCalls = 3
    MaxLinkFaults = 1
SYMMETRY Alike
INVARIANTS
    MCTypeOK
    SessionsAreHeld OneSessionPerName BorrowedAsLoggedIn AnswersItsOwn
    NoHalfImpairment TimerClearsItsOwn ImpairedAsAsked
PROPERTIES CallEnds
\* The sessions, commands and calls may be used up.
CHECK_DEADLOCK FALSE
