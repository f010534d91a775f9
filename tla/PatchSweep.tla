----------------------------- MODULE PatchSweep -----------------------------
(***************************************************************************)
(* What run_pipeline (src/pystamps/pipeline/stages.py) promises about one  *)
(* patch-scope stage: every patch of the dataset is processed at most      *)
(* once, at most Limit of them are in progress together, and the stage     *)
(* contributes its results to the report only when every patch has one.    *)
(* The only other way a sweep ends is that the process pool itself died.   *)
(***************************************************************************)
EXTENDS Naturals, FiniteSets

CONSTANTS
    N,      \* number of patches in the dataset, named 1..N in dataset order
    Limit   \* how many patches may be in progress at the same time

Patch == 1..N

VARIABLES
    phase,     \* what has happened to each patch in this stage
    poolUp,    \* FALSE once a pool process has died, in this stage or earlier
    outcome    \* "open" until the stage ends, then how it ended

vars == <<phase, poolUp, outcome>>

Active == {p \in Patch : phase[p] = "active"}
Ended  == {p \in Patch : phase[p] \in {"ok", "failed"}}

Init ==
    /\ phase = [p \in Patch |-> "waiting"]
    /\ poolUp \in BOOLEAN
    /\ outcome = "open"

Start(p) ==
    /\ outcome = "open" /\ poolUp
    /\ phase[p] = "waiting"
    /\ Cardinality(Active) < Limit
    /\ phase' = [phase EXCEPT ![p] = "active"]
    /\ UNCHANGED <<poolUp, outcome>>

End(p, result) ==
    /\ phase[p] = "active"
    /\ phase' = [phase EXCEPT ![p] = result]
    /\ UNCHANGED <<poolUp, outcome>>

LosePool ==
    /\ poolUp
    /\ poolUp' = FALSE
    /\ phase' = [p \in Patch |-> IF p \in Active THEN "failed" ELSE phase[p]]
    /\ UNCHANGED outcome

Publish ==
    /\ outcome = "open"
    /\ Ended = Patch
    /\ outcome' = "published"
    /\ UNCHANGED <<phase, poolUp>>

Abort ==
    /\ outcome = "open" /\ ~poolUp
    /\ outcome' = "aborted"
    /\ UNCHANGED <<phase, poolUp>>

Next ==
    \/ \E p \in Patch : Start(p)
    \/ \E p \in Patch, result \in {"ok", "failed"} : End(p, result)
    \/ LosePool
    \/ Publish
    \/ Abort

Spec == Init /\ [][Next]_vars
=============================================================================
