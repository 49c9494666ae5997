SPECIFICATION MCSpec
CONSTANTS
    Generations = {g1, g2, g3}
    Prints = {p1, p2, p3}
    Versions <- MCVersions
    N = 3
    Texts = {t1}
    Blank = Blank
    Handlers = {h1, h2}
    Employees = {e1}
    Demands = {d1, d2, d3}
    Series = {2025, 2026}
SYMMETRY Symmetry
INVARIANTS
    ReviewIsSound
    ArchiveIsKept
    DecisionsAreWhole
PROPERTIES
    CircuitUnlessLate
    AgreementLasts
CHECK_DEADLOCK FALSE
