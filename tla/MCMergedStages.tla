--------------------------- MODULE MCMergedStages ---------------------------
(* Plans of a user for the merged stages.                                  *)
EXTENDS MergedStages

Setup(w, e, s, begins, finishes, corr, what, sh) ==
    [writes |-> w, edits |-> e, stops |-> s, starts |-> begins, ends |-> finishes,
     corrections |-> corr, editable |-> what, shared |-> sh]

\* Patches are replaced and QC settings edited; runs from stage 5 or 6.
InputsSetup == Setup(9, 2, 1, {5, 6}, {6, 8}, {}, {"qc", "patch"}, TRUE)
\* GACOS is switched on and off and rebuilt; runs from stage 6, 7 or 8.
PhaseSetup == Setup(11, 2, 1, {6, 7, 8}, {8}, {"gacos"}, {"corr", "rebuild"}, TRUE)
\* Both corrections, merged stages in a process pool; two full runs fit.
ChainSetup == Setup(16, 1, 1, {5, 8}, {8}, {"gacos", "deramp"}, {"corr", "patch", "rebuild"}, FALSE)
MCSetups == {InputsSetup, PhaseSetup, ChainSetup}

OnePhaseSetup == {PhaseSetup}
=============================================================================
