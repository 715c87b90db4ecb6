SPECIFICATION Spec
CONSTANTS
    Containers = {c1, c2}
    Namesakes = {}
    Faults = {}
    ConnectWait = 1
    EmptyPolls = 2
    MaxChecks = 2
    Events = {"signal"}
    MaxSessions = 1
SYMMETRY Symmetry
INVARIANT ShutdownCleansUp
CHECK_DEADLOCK FALSE
