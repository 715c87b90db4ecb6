\* Two clients of the bridge, two requests of any kind, no restart of the
\* device; the body of an oversized packet is read as an unlock, as the
\* beginning of a packet, or as none.
SPECIFICATION FairSpec
CONSTANTS
    c1 = c1
    c2 = c2
    p1 = p1
    NoPassword = NoPassword
    Clients = {c1, c2}
    Passwords = {p1}
    Shipped = {"sealed"}
    BodyKinds = {"unlock", "fragment"}
    MaxKeys = 1
    MaxResets = 0
    MaxBody = 1
    Commands = {"identities", "agentsign", "unlock", "lock", "huge", "wideflags", "unparsable", "identity"}
    MaxRequests = 2
    MaxAhead = 1
INVARIANTS
    BridgeTypeOK
    AnswersMatch
    LockHolds
PROPERTIES
    Answered
\* The process exits and the clients' requests end.
CHECK_DEADLOCK FALSE
