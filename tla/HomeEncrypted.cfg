SPECIFICATION Spec
CONSTANTS
    Containers = {c1, c2}
    Namesakes = {}
    Faults = {}
    ConnectWait = 1
    EmptyPolls = 2
    MaxChecks = 2
    Events = {"exit"}
    MaxSessions = 3
SYMMETRY Symmetry
INVARIANT HomeEncryptedWhenStopped
