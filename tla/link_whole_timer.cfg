SPECIFICATION LinkSpec
CONSTANTS
    Selectors = {p1}
    NoSelector = NoSelector
    Placements = 1
    MaxLevel = 1
    MaxCalls = 2
    MaxLinkFaults = 0
INVARIANT WholeTimersFindNoScoped
CHECK_DEADLOCK FALSE
