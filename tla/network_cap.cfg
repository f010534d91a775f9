\* The limit of config/production.yaml, 5 percent, on networks of five.
SPECIFICATION Spec
CONSTANTS
    Day = {d1, d2, d3, d4}
    N = 5
    Percents = {5}
SYMMETRY DaySymmetry
INVARIANT CapKept
