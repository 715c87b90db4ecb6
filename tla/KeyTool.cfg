\* Three runs of the key tool, two passwords, two keys, one power failure.
SPECIFICATION FairSpec
CONSTANTS
    p1 = p1
    p2 = p2
    NoPassword = NoPassword
    Passwords = {p1, p2}
    Shipped = {"empty", "sealed", "plain"}
    MaxKeys = 2
    BodyKinds = {}
    MaxBody = 0
    MaxResets = 1
    MaxRuns = 3
INVARIANTS
    ToolTypeOK
    SignsWithOwnKey
    LockedForgets
    SuccessIsReal
    RightPasswordUnlocks
PROPERTIES
    CommandEnds
\* The tool is run a bounded number of times.
CHECK_DEADLOCK FALSE
