\* The native stages 1 to 8, each on every small input of its own.
SPECIFICATION StagesSpec
CONSTANTS
    Xs <- ThreeX
    Ys <- ThreeY
    Slaves <- ThreeSlaves
    Master = 15
    Pars = {10, 15, 20}
    NCand = 3
    NIfg = 2
    MasterColumn = 2
    MaxIterations = 2
    DefaultIterations = 3
    GridLayouts <- FiveLayouts
    Windows = {8, 5, 4}
    BaselineFiles <- SixBaselines
    Centers <- FiveCenters
    BinnedValues = {0, 2, 5, 6, 7, 14, 18, 30, 37, 50}
    Cohs3 <- MCCohs3
    Dispersions3 <- MCDispersions
    Nr3 <- MCNr
    Drops3 <- MCDrops
    Pixels4 <- MCPixels
    Cohs4 <- MCCohs4
    Variations4 <- MCVariations
    Ifgs4 = {1, 2}
    Patches5 = {1, 2, 3}
    Pixels5 = {1, 2, 3, 4}
    Histories5 <- MCHistories5
    Ifgs6 = {1, 2, 3}
    Histories6 <- MCHistories6
    Day7 <- MCDay
    Histories7 <- MCHistories7
    Inputs8 <- MCInputs8
    Wave8 <- MCWave
INVARIANTS
    ShortcutsExact
    SelectionRespectsOrder
    WeedingKeepsBest
    MergeAligned
    UnwrappingFaithful
    CorrectionRecovered
    VelocityAndCyclesRecovered
PROPERTIES
    CandidatesAligned
    IterationsEnd
