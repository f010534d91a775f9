\* Is a stage ever skipped although its outputs are torn?
SPECIFICATION Spec
CONSTANTS
    Last = 2
    MaxStamp = 8
    FirstSteps = {1, 2}
    EditableKeys = {}
    LiveEdits = FALSE
    Failures = FALSE
INVARIANTS
    TornNeverReused
