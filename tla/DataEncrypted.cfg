SPECIFICATION Spec
CONSTANTS
    Containers = {c1, c2}
    Namesakes = {}
    Faults = {"user"}
    ConnectWait = 1
    EmptyPolls = 2
    MaxChecks = 2
    Events = {"exit"}
    MaxSessions = 2
SYMMETRY Symmetry
INVARIANT SessionsEncrypted
