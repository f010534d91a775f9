\* Does a run of stage 8 alone use an SCLA of another phase input?
SPECIFICATION Spec
CONSTANTS Setups <- OnePhaseSetup
INVARIANTS
    DirectStage8SameInput
