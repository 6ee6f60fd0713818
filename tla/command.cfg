SPECIFICATION FairSpec
CONSTANTS
    SIGINT = SIGINT
    SIGTERM = SIGTERM
    Signals = {SIGINT, SIGTERM}
    NoSignal = NoSignal
    MaxSignals = 3
    MaxCancels = 2
INVARIANTS TypeOK SweepFollowsBody CleanupUnlessForced
PROPERTIES NoEarlyAbandon BoundedExit SignalStopsBody
\* The command exits.
CHECK_DEADLOCK FALSE
