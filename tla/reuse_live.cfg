\* The sweep: five patches, a window of three on a two-process pool that may die.
\* A patch: runs from any stage, crashes and failures anywhere, settings edited
\* during runs.  The grid: two versions of its inputs, two edits, two faults.
SPECIFICATION SavedSpec
CONSTANTS
    Parts = {"sweep", "patch", "grid"}
    N = 5
    Limit = 3
    Workers = 2
    ProcessPool = TRUE
    Last = 3
    MaxStamp = 7
    FirstSteps = {1, 2, 3}
    EditableKeys = {"filter"}
    LiveEdits = TRUE
    Failures = TRUE
    NIfg = 2
    Modes <- MCModes
    Versions = {1, 2}
    MaxEdits = 2
    MaxStops = 2
INVARIANTS
    NoPatchLost
    ReportFaithful
    PatchHonest
    CheckpointHonest
    DropListOfNow
PROPERTIES
    ImplementsSweep
    SweepsEnd
