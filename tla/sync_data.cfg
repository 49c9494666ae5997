CONSTANTS
    Employees = {e1, e2}
    Pulls = {p1}
    MaxTime = 1
    MaxChanges = 2
    Ratio = 100
    Persons = {e1, e2}
    PunchesEach = 1
    Syncs = {s1, s2}
    MaxTicks = 3
    MaxMoves = 1
    Overlap = 1
    Lookback = 2
    Fallback = 1
    Window = 1
SYMMETRY Symmetry
SPECIFICATION MCSpec
CONSTRAINT FewRuns
INVARIANTS FullRunAgrees
PROPERTIES NothingIsSkipped UploadsAreReached
CHECK_DEADLOCK FALSE
