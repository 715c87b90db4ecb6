\* One client of the bridge unlocks and locks the key; the device never restarts.
SPECIFICATION Spec
CONSTANTS
    c1 = c1
    p1 = p1
    NoPassword = NoPassword
    Clients = {c1}
    Passwords = {p1}
    Shipped = {"sealed"}
    BodyKinds = {}
    MaxKeys = 1
    MaxResets = 0
    MaxBody = 0
    Commands = {"unlock", "lock"}
    MaxRequests = 2
    MaxAhead = 1
INVARIANTS
    LockReported
CHECK_DEADLOCK FALSE
