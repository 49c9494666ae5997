SPECIFICATION MCSpec
CONSTANTS
    Leaves = {l1, l2}
    Requests = {r1, r2}
    Days <- MCDays
    YearOf <- MCYearOf
    Periods <- MCPeriods
    Kinds = {"ANNUEL", "SANS_SOLDE", "EXCEPTIONNEL", "HAJJ"}
    Modes = {"pending", "direct", "forced"}
    CrowdLeaves = 1
    CrowdPeriods <- MCCrowdPeriods
    CrowdKinds = {"ANNUEL", "SANS_SOLDE"}
    CrowdModes = {"pending", "direct"}
    MaxShort = 1
    MaxUnpaid = 2
    Unused = Unused
    Deleted = Deleted
    Choices = {c1, c2}
    Initial = c1
    Nothing = Nothing
    Loads = {l1, l2}
    Acts = {r1, r2}
    MaxVersions = 1
INVARIANTS BalanceIsRight PagesAreTrue
PROPERTIES ChangeIsRecalculated RulesAreKept
SYMMETRY Symmetry
