CONSTANTS
    Employees = {e1}
    Handlers = {h1, h2}
    MaxChanges = 1
    Dates = {1, 2}
    Actors = {"DRH", "GRH", "RESPONSABLE"}
    MaxAltered = 1
    Rows = {x1}
    None = None
    Requests = {r1, r2}
    MaxRequests = 2
SYMMETRY Symmetry
SPECIFICATION MCSpec
INVARIANTS PassIsComplete PendingIsAnnounced
PROPERTIES DecisionStands CaseIsFounded DeclarationIsFounded
CHECK_DEADLOCK FALSE
