CONSTANTS
    Groups = {g1, g2}
    SubUnits = {s1}
    Staff = {e1}
    Changes = {c1, c2}
    Requests = {r1, r2}
    None = None
    MaxEvents = 2
    Holders = {h1, h2}
    Sessions = {k1, k2}
    RoleCodes = {"ADMIN", "OTHER"}
    Codes <- MCCodes
    Defaults <- MCDefaults
    Areas = {a1}
    AccountRequests = {r1, r2}
    MaxRequests = 2
    Users = {u1, u2, u3}
    RolesOf <- MCRolesOf
    u1 = u1
    u2 = u2
    u3 = u3
    Conversations = {t1, t2}
    Messages = {m1}
    MaxTime = 2
    ChatRequests = {r1, r2}
    MaxChatCalls = 2
SYMMETRY Symmetry
SPECIFICATION MCSpec
INVARIANTS EndedForGood ChatIsKept
PROPERTIES DecidedOnce ChangesAreEntitled GrantsAreWhole
CHECK_DEADLOCK FALSE
