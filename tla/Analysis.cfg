\* Two containers, two runs of the program, one home opened by the manager.
SPECIFICATION Spec
CONSTANTS
    h1 = h1
    h2 = h2
    Containers = {h1, h2}
    Homes <- MCHomes
    Tests <- MCTests
    Responses <- MCResponses
    MAX_LINES = 3
    MaxRuns = 2
    MaxOpens = 1
SYMMETRY ContainerSymmetry
INVARIANTS
    AnalysisTypeOK
    KeyFileGone
    LeavesNoTrace
    AllReported
    PromptFaithful
\* The program is run a bounded number of times.
CHECK_DEADLOCK FALSE
