SPECIFICATION LiveSpec
CONSTANTS
    Containers = {c1, c2}
    Namesakes = {}
    Faults = {"user"}
    ConnectWait = 1
    EmptyPolls = 1
    MaxChecks = 1
    Events = {"luks", "signal", "crash"}
    MaxSessions = 2
INVARIANTS
    UniqueMounted
    StaleDeviceYields
CHECK_DEADLOCK FALSE
PROPERTY ShutdownEnds
