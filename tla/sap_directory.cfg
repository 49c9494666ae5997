CONSTANTS
    e1 = e1
    e2 = e2
    s1 = s1
    s2 = s2
    Employees = {e1, e2}
    code = code
    Records = {s1, s2}
    Keys = {s1, s2, code}
    None = None
    Handlers = {h1, h2}
    MaxRequests = 2
    Codes <- MCCodes
    Badge <- MCBadge
    Named <- MCNamed
    Alike <- MCAlike
    Partly <- MCPartly
    Imports = {i1, i2}
    Bulletins <- MCBulletins
    Persons = {"paid", "unlinked", "foreign"}
    RecordsOf <- MCRecordsOf
    CodesOf <- MCCodesOf
    Blank = "none"
    Selections = {{"A"}, {"A", "B"}}
    Targets = {"PAID"}
    Workers = {"worker"}
    AdvanceRequests = {h1, h2}
    FirstDay = 1
    LastDay = 7
    Fridays = {6}
    Facts <- MCFacts
    MaxChanges = 1
    Nothing = Nothing
SYMMETRY Symmetry
SPECIFICATION MCSpec
INVARIANTS RefreshSettles ImportIsWhole LinesAreCounted AdvanceIsSound
PROPERTIES LinkStands DoubleIsOvertaken
CHECK_DEADLOCK FALSE
