SPECIFICATION MCSpec
CONSTANTS
    Employees = {e1, e2}
    Days = {d1}
    Assigns = {a1}
    Batches = {b1, b2}
    Reviewers = {r1, r2}
    Movers = {m1}
    Direct = Direct
    NoRow = NoRow
INVARIANTS BatchHolds
PROPERTIES DayIsNotLost
SYMMETRY Symmetry
