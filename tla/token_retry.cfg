SPECIFICATION ClientSpec
CONSTANTS
    Requests = {h1, h2}
    Purposes = {"list"}
    Rows = {1, 2}
    New = 3
    MaxPages = 2
    Candidates = 2
    Accepts = {2}
    MaxExpiries = 1
    MaxLapses = 1
    None = None
PROPERTIES RefusedIsRelaunched
CHECK_DEADLOCK FALSE
