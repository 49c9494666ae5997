CONSTANTS
    Days = 2
    Generations = {g1, g2}
    Starts <- MCStarts
SPECIFICATION Spec
INVARIANTS OwnPunches
PROPERTIES SummaryIsRight ViewsAgree
CHECK_DEADLOCK FALSE
