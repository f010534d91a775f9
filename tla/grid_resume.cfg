\* Is the grid that stage 6 goes on with always the one of the inputs of now?
SPECIFICATION SavedSpec
CONSTANTS
    Parts = {"grid"}
    N = 1
    Limit = 1
    Workers = 1
    ProcessPool = FALSE
    Last = 2
    MaxStamp = 0
    FirstSteps = {1}
    EditableKeys = {}
    LiveEdits = FALSE
    Failures = FALSE
    NIfg = 2
    Modes <- MCModes
    Versions = {1, 2}
    MaxEdits = 1
    MaxStops = 0
INVARIANTS
    GridOfNow
