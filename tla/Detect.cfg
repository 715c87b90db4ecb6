\* One user with two containers, a past of one session, the baseline
\* generator, one live session and one report. A day has eight hours of one
\* time unit; the generator's window is two of them, spanning midnight for one
\* of the two times at which the behaviours begin. The past session lies across
\* the beginning of the last day (10 units ago), or only in the baseline (14), or
\* across the beginning of the baseline (25); it may have no end (length 0).
SPECIFICATION BaselineSpec
CONSTANTS
    u1 = u1
    h1 = h1
    h2 = h2
    Users = {u1}
    Containers = {h1, h2}
    HourLength = 1
    Hours = 8
    Rare = 2
    Unseen = 12
    MinRows = 5
    ZLow = 9
    ZMedium = 11
    ZHigh = 14
    Window = 3
    Starts = {35, 37}
    Ago = {10, 14, 25}
    Lengths = {0, 3}
    MaxPast = 1
    Jumps = {4}
    MaxTicks = 2
    MaxSessions = 1
    MaxReports = 1
    Zone = 1
    FromAgo = 4
    ToAgo = 3
    Days = 2
    PerDay = {1}
    Durations = {1}
INVARIANTS
    BaselineTypeOK
    DurationsPaired
    DurationsReal
    RecentInBaseline
    EnoughDays
    CurrentSessionFlagged
\* The manager's sessions and the detector's reports are bounded.
CHECK_DEADLOCK FALSE
