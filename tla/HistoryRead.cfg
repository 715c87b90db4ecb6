\* One home, opened once by the program.
SPECIFICATION Spec
CONSTANTS
    h1 = h1
    Containers = {h1}
    Homes <- MCHomes
    Tests <- MCTests
    Responses <- MCResponses
    MAX_LINES = 3
    MaxRuns = 1
    MaxOpens = 0
INVARIANTS
    HistoryRead
CHECK_DEADLOCK FALSE
