----------------------------- MODULE SavedResults -----------------------------
(***************************************************************************)
(* The Python stages: the sweep of one stage over all patches              *)
(* (SlidingWindow), and what a stage finds of an earlier run, of a patch   *)
(* its files and markers (PatchStages), of the data set the grid and the   *)
(* drop list of stage 6 (GridCheckpoint).  They share no state; part says  *)
(* which one runs, and the others stay in an initial state.                *)
(***************************************************************************)
EXTENDS SlidingWindow, PatchStages, GridCheckpoint

CONSTANT Parts   \* which of them are explored
ASSUME PartsAssumption == Parts \subseteq {"sweep", "patch", "grid"}

VARIABLE part

Mode(resume, size, interval, final, strict, signed) ==
    [resume |-> resume, size |-> size, interval |-> interval, final |-> final,
     strict |-> strict, signed |-> signed]

\* Checkpoints after each interferogram, or only at the end with batches of
\* two and without the signature of the drop list; strict parity from scratch.
MCModes == {
    Mode(TRUE, 1, 1, TRUE, FALSE, TRUE),
    Mode(TRUE, 2, 3, TRUE, FALSE, FALSE),
    Mode(FALSE, 1, 2, FALSE, TRUE, TRUE)}

SavedInit ==
    /\ part \in Parts /\ SweepInit /\ Init /\ GridInit
    /\ part # "sweep" => ~broken
    /\ part # "grid" => chosen = NoChoice
SavedNext ==
    \/ part = "grid" /\ GridNext /\ UNCHANGED <<part, sweepVars, vars>>
    \/ part = "patch" /\ Next /\ UNCHANGED <<part, sweepVars, checkpointVars>>
    \/ part = "sweep" /\ SweepNext /\ UNCHANGED <<part, vars, checkpointVars>>
savedVars == <<part, sweepVars, vars, checkpointVars>>
NotSweep == <<part, vars, checkpointVars>>
\* The fairness of the sweep; nothing makes a user run a stage.
SavedSpec == SavedInit /\ [][SavedNext]_savedVars
    /\ WF_savedVars(part = "sweep" /\ Main /\ UNCHANGED NotSweep)
    /\ WF_savedVars(part = "sweep" /\ Pool /\ UNCHANGED NotSweep)

-----------------------------------------------------------------------------
(* A stage of a patch that would be skipped has complete outputs, computed *)
(* from what its signature covers (see PatchStages), and the variables of  *)
(* both parts have their types.                                            *)
PatchHonest == TypeOK /\ GridTypeOK /\ ReuseHonest

(* Every sweep ends: with a report, or with an exception after the pool    *)
(* died (stages.py:1280 loops for as long as something is pending).        *)
SweepsEnd == part = "sweep" => SweepEnds
=============================================================================
