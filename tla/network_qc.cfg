\* All networks of five interferograms on four days, for the four rules.
SPECIFICATION Spec
CONSTANTS
    Day = {d1, d2, d3, d4}
    N = 5
    Percents = {0, 10, 50}
SYMMETRY DaySymmetry
INVARIANTS
    NetworkPreserved
    ProtectedNeeded
    WithinLimit
    GreedyOptimal
    TestsAgree
