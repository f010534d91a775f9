\* The native command; two jobs of the service; two runs, of which a page
\* lists one.
SPECIFICATION ProgramSpec
CONSTANTS
    NPatches = 2
    Commands <- MCCommands
    Lists <- MCLists
    Extras <- MCExtras
    Removable <- MCRemovable
    MaxRuns = 2
    MaxFaults = 1
    MaxEdits = 1
    Forms2 <- MCForms
    Here2 = {"A"}
    MaxJobs2 = 2
    MaxDeaths2 = 1
    Runs3 = {1, 2}
    MaxRecentRuns = 1
    MaxHours3 = 2
    MaxReports3 = 3
INVARIANT LinesHold
PROPERTIES
    RunHonest
    JobsHonest
    RunsEnd
