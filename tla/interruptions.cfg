SPECIFICATION MCSpec
CONSTANTS
    SIGINT = SIGINT
    SIGTERM = SIGTERM
    SIGWINCH = SIGWINCH
    Signals = {SIGINT, SIGTERM}
    Foreign = {SIGWINCH}
    NoSignal = NoSignal
    Bound = 2
    MaxSignals = 3
    MaxLoops = 2
    MaxPipe = 2
    a1 = a1
    a2 = a2
    h1 = h1
    h2 = h2
    Adders = {a1, a2}
    NoAdder = NoAdder
    Hosts = {h1, h2}
    Plan <- OneWay
    MaxFaults = 1
    Deadline = 1
    Timeout = 1
    MaxClock = 2
    MaxCancels = 2
INVARIANTS
    MCTypeOK
    ForcesRightly
    NoHalfTunnel WinnerStands CallerGetsItsOwn BoundsAreKept
    NoWordIsLost
PROPERTIES
    DescriptorIsLent SecondSignalForces BoundedPhase
    TieGoesToTheWork AddEnds
\* A phase, a call or an add is over.
CHECK_DEADLOCK FALSE
