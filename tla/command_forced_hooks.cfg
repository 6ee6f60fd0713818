SPECIFICATION Spec
CONSTANTS
    SIGINT = SIGINT
    SIGTERM = SIGTERM
    Signals = {SIGINT, SIGTERM}
    NoSignal = NoSignal
    MaxSignals = 2
    MaxCancels = 0
INVARIANT ForcedExitRunsHooks
\* The command exits.
CHECK_DEADLOCK FALSE
