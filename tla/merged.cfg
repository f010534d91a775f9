\* Three plans of the merged stages: see MCSetups.
SPECIFICATION Spec
CONSTANTS Setups <- MCSetups
INVARIANTS
    ReuseHonest
    PhaseAgreement
    RebuildShared
    ExportCurrent
    RerunSkips
