SPECIFICATION ShellSpec
CONSTANTS
    MaxCommands = 2
    MaxProbes = 1
INVARIANT MarkedForRecovery
CHECK_DEADLOCK FALSE
