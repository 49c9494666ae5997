SPECIFICATION MCSpec
CONSTANTS
    Calls = {c1, c2}
    MaxCrashes = 1
    h1 = h1
    h2 = h2
    Rows = {1, 2}
    Requests = {h1, h2}
    Purposes = {"list", "write", "asset"}
    New = 3
    MaxPages = 2
    Candidates = 2
    Accepts = {2}
    MaxExpiries = 1
    MaxLapses = 1
    None = None
INVARIANTS RunsAreHeld CallsAreSound
PROPERTIES VerdictStands EverythingEnds
CHECK_DEADLOCK FALSE
