SPECIFICATION LiveSpec
CONSTANTS
    Containers = {c1, c2}
    Namesakes <- SomeNamesake
    Faults <- MinorFaults
    ConnectWait = 1
    EmptyPolls = 2
    MaxChecks = 2
    Events = {"exit", "delete"}
    MaxSessions = 2
PROPERTIES
    SessionEnds
    CleanerCloses
