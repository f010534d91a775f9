\* Runs from the first stages, crashes anywhere, no stage raises.
SPECIFICATION Spec
CONSTANTS
    Last = 5
    MaxStamp = 10
    FirstSteps = {1, 2}
    EditableKeys = {"filter"}
    LiveEdits = FALSE
    Failures = FALSE
INVARIANTS
    ReuseHonest
    FullRunCurrent
    RerunSkips
