---------------------------- MODULE NativeStages ----------------------------
(***************************************************************************)
(* The native stages 1 to 8, each with small inputs of its own.  Part of   *)
(* the state says which of them runs; they share no state, since what one  *)
(* leaves for the next is an input here.  Stages 1 and 2 are EXTENDed,     *)
(* under their own names, the others are instances.                        *)
(***************************************************************************)
EXTENDS NativeStage1, NativeStage2

CONSTANTS
    Cohs3, Dispersions3, Nr3, Drops3,
    Pixels4, Cohs4, Variations4, Ifgs4,
    Patches5, Pixels5, Histories5,
    Ifgs6, Histories6,
    Day7, Histories7,
    Inputs8, Wave8

VARIABLES part,   \* which of them runs
    files, bins, minCoh, ix, select1, keep, edges, quiet, weed1, run, left,
    merged, acc, clean, interp, bperp, out, vel, space
rest == <<files, bins, minCoh, ix, select1, keep, edges, quiet, weed1, run,
          left, merged, acc, clean, interp, bperp, out, vel, space>>
stages == <<part, stage1Vars, vars, rest>>

\* Two rows of four pixels.
MCPixels == {0, 1} \X (0..3)

S3 == INSTANCE NativeStage3 WITH NPs <- 4, Cohs <- Cohs3, Dispersions <- Dispersions3, BigPatch <- 4, BinSize <- 2,
    Nr <- Nr3, LowCoh <- 3, PercentRand <- 10, DensityRand <- 14, DefaultThreshold <- 3,
    Flat <- 7, NIfg <- 4, Master <- 2, Drops <- Drops3
S4 == INSTANCE NativeStage4 WITH N <- 4, Pixels <- Pixels4, Cohs <- Cohs4, Ifgs <- Ifgs4,
    Variations <- Variations4
S5 == INSTANCE NativeStage5 WITH Patches <- Patches5, Pixels <- Pixels5, Histories <- Histories5
S6 == INSTANCE NativeStage6 WITH Cycle <- 16, Ifgs <- Ifgs6, Master <- 2, Histories <- Histories6
S7 == INSTANCE NativeStage7 WITH NIfg <- 5, Master <- 3, Day <- Day7, Histories <- Histories7
S8 == INSTANCE NativeStage8 WITH NIfg <- 5, Master <- 3, Inputs <- Inputs8, Wave <- Wave8

\* The small inputs, see the modules.
I4 == INSTANCE NativeStage4 WITH N <- 4, Pixels <- MCPixels, Cohs <- {}, Ifgs <- Ifgs4, Variations <- {}
I5 == INSTANCE NativeStage5 WITH Patches <- {}, Pixels <- {}, Histories <- {}
I6 == INSTANCE NativeStage6 WITH Cycle <- 16, Ifgs <- {}, Master <- 2, Histories <- {}
I7 == INSTANCE NativeStage7 WITH NIfg <- 5, Master <- 3, Day <- <<>>, Histories <- {}
I8 == INSTANCE NativeStage8 WITH NIfg <- 5, Master <- 3, Inputs <- {}, Wave <- 0
MCCohs4 == I4!MCCohs
MCVariations == I4!MCVariations
MCHistories5 == I5!MCHistories
MCHistories6 == I6!MCHistories
MCDay == I7!MCDay
MCHistories7 == I7!MCHistories
MCInputs8 == I8!MCInputs
MCWave == I8!MCWave

\* Three candidates listed out of coordinate order, two of them on one line,
\* and three dates listed out of time order, the master's between.
ThreeX == <<7, 3, 5>>
ThreeY == <<2, 1, 1>>
ThreeSlaves == <<40, 10, 20>>

\* Four candidates in bins of two, with equal, zero and separate values of
\* D_A, and a histogram of eight coherence bins.
MCCohs3 == {<<8, 5, c, 4>> : c \in {2, 8}}
           \cup {<<4, 6, 5, 8>>, <<2, 5, 5, 2>>, <<8, 1, 2, 6>>, <<0, 0, 0, 0>>}
MCDispersions == {<<2, 4, 6, 8>>, <<8, 6, 4, 2>>, <<3, 3, 3, 9>>, <<0, 5, 5, 5>>}
MCNr == <<4, 4, 4, 3, 2, 1, 1, 0>>
MCDrops == {{}, {2}, {1, 4}, {1, 3, 4}}

-----------------------------------------------------------------------------
\* The variables of the parts that do not run have no meaning.
Off == "off"
StagesInit ==
    \/ /\ part = "1" /\ Stage1Init
       /\ inp = Off /\ prep = Off /\ pc = Off /\ iter = Off /\ weight = Off
       /\ k = Off /\ grid = Off /\ filt = Off /\ patch = Off /\ pm1 = Off
       /\ files = Off /\ bins = Off /\ minCoh = Off /\ ix = Off
       /\ select1 = Off /\ keep = Off /\ edges = Off /\ quiet = Off
       /\ weed1 = Off /\ run = Off /\ left = Off /\ merged = Off /\ acc = Off
       /\ clean = Off /\ interp = Off /\ bperp = Off /\ out = Off
       /\ vel = Off /\ space = Off
    \/ /\ part = "2" /\ Init
       /\ inputs = Off /\ disk = Off /\ todo = Off /\ metadata = Off /\ result = Off
       /\ last = Off /\ files = Off /\ bins = Off /\ minCoh = Off /\ ix = Off
       /\ select1 = Off /\ keep = Off /\ edges = Off /\ quiet = Off
       /\ weed1 = Off /\ run = Off /\ left = Off /\ merged = Off /\ acc = Off
       /\ clean = Off /\ interp = Off /\ bperp = Off /\ out = Off
       /\ vel = Off /\ space = Off
    \/ /\ part = "3" /\ S3!Init
       /\ inputs = Off /\ disk = Off /\ todo = Off /\ metadata = Off /\ result = Off
       /\ last = Off /\ prep = Off /\ iter = Off /\ weight = Off /\ k = Off
       /\ grid = Off /\ filt = Off /\ patch = Off /\ pm1 = Off /\ keep = Off
       /\ edges = Off /\ quiet = Off /\ weed1 = Off /\ run = Off
       /\ left = Off /\ merged = Off /\ acc = Off /\ clean = Off
       /\ interp = Off /\ bperp = Off /\ out = Off /\ vel = Off
       /\ space = Off
    \/ /\ part = "4" /\ S4!Init
       /\ inputs = Off /\ disk = Off /\ todo = Off /\ metadata = Off /\ result = Off
       /\ last = Off /\ prep = Off /\ iter = Off /\ weight = Off /\ k = Off
       /\ grid = Off /\ filt = Off /\ patch = Off /\ pm1 = Off /\ files = Off
       /\ bins = Off /\ minCoh = Off /\ ix = Off /\ select1 = Off
       /\ run = Off /\ left = Off /\ merged = Off /\ acc = Off /\ clean = Off
       /\ interp = Off /\ bperp = Off /\ out = Off /\ vel = Off
       /\ space = Off
    \/ /\ part = "5" /\ S5!Init
       /\ inputs = Off /\ metadata = Off /\ result = Off /\ last = Off /\ prep = Off
       /\ iter = Off /\ weight = Off /\ k = Off /\ grid = Off /\ filt = Off
       /\ patch = Off /\ pm1 = Off /\ files = Off /\ bins = Off
       /\ minCoh = Off /\ ix = Off /\ select1 = Off /\ keep = Off
       /\ edges = Off /\ quiet = Off /\ weed1 = Off /\ interp = Off
       /\ bperp = Off /\ out = Off /\ vel = Off /\ space = Off
    \/ /\ part = "6" /\ S6!Init
       /\ inputs = Off /\ todo = Off /\ metadata = Off /\ result = Off /\ last = Off
       /\ prep = Off /\ iter = Off /\ weight = Off /\ k = Off /\ filt = Off
       /\ patch = Off /\ pm1 = Off /\ files = Off /\ bins = Off
       /\ minCoh = Off /\ ix = Off /\ select1 = Off /\ keep = Off
       /\ edges = Off /\ quiet = Off /\ weed1 = Off /\ left = Off
       /\ merged = Off /\ acc = Off /\ clean = Off /\ bperp = Off
       /\ out = Off /\ vel = Off /\ space = Off
    \/ /\ part = "7" /\ S7!Init
       /\ inputs = Off /\ todo = Off /\ metadata = Off /\ result = Off /\ last = Off
       /\ prep = Off /\ iter = Off /\ weight = Off /\ k = Off /\ grid = Off
       /\ filt = Off /\ patch = Off /\ pm1 = Off /\ files = Off /\ bins = Off
       /\ minCoh = Off /\ ix = Off /\ select1 = Off /\ keep = Off
       /\ edges = Off /\ quiet = Off /\ weed1 = Off /\ left = Off
       /\ merged = Off /\ acc = Off /\ clean = Off /\ interp = Off
       /\ vel = Off /\ space = Off
    \/ /\ part = "8" /\ S8!Init
       /\ inputs = Off /\ todo = Off /\ metadata = Off /\ result = Off /\ last = Off
       /\ prep = Off /\ iter = Off /\ weight = Off /\ k = Off /\ grid = Off
       /\ filt = Off /\ patch = Off /\ pm1 = Off /\ files = Off /\ bins = Off
       /\ minCoh = Off /\ ix = Off /\ select1 = Off /\ keep = Off
       /\ edges = Off /\ quiet = Off /\ weed1 = Off /\ run = Off
       /\ left = Off /\ merged = Off /\ acc = Off /\ clean = Off
       /\ interp = Off /\ bperp = Off /\ out = Off
StagesNext ==
    \/ /\ part = "1" /\ Stage1Next
       /\ UNCHANGED <<part, inp, prep, pc, iter, weight, k, grid, filt,
                      patch, pm1, files, bins, minCoh, ix, select1, keep,
                      edges, quiet, weed1, run, left, merged, acc, clean,
                      interp, bperp, out, vel, space>>
    \/ /\ part = "2" /\ Next
       /\ UNCHANGED <<part, stage1Vars, rest>>
    \/ /\ part = "3" /\ S3!Next
       /\ UNCHANGED <<part, inputs, disk, todo, metadata, result, last, prep, iter,
                      weight, k, grid, filt, patch, pm1, keep, edges,
                      quiet, weed1, run, left, merged, acc, clean, interp,
                      bperp, out, vel, space>>
    \/ /\ part = "4" /\ S4!Next
       /\ UNCHANGED <<part, inputs, disk, todo, metadata, result, last, prep, iter,
                      weight, k, grid, filt, patch, pm1, files, bins,
                      minCoh, ix, select1, run, left, merged, acc, clean,
                      interp, bperp, out, vel, space>>
    \/ /\ part = "5" /\ S5!Next
       /\ UNCHANGED <<part, inputs, metadata, result, last, prep, iter, weight, k,
                      grid, filt, patch, pm1, files, bins, minCoh, ix,
                      select1, keep, edges, quiet, weed1, interp, bperp,
                      out, vel, space>>
    \/ /\ part = "6" /\ S6!Next
       /\ UNCHANGED <<part, inputs, todo, metadata, result, last, prep, iter, weight,
                      k, filt, patch, pm1, files, bins, minCoh, ix,
                      select1, keep, edges, quiet, weed1, left, merged,
                      acc, clean, bperp, out, vel, space>>
    \/ /\ part = "7" /\ S7!Next
       /\ UNCHANGED <<part, inputs, todo, metadata, result, last, prep, iter, weight,
                      k, grid, filt, patch, pm1, files, bins, minCoh, ix,
                      select1, keep, edges, quiet, weed1, left, merged,
                      acc, clean, interp, vel, space>>
    \/ /\ part = "8" /\ S8!Next
       /\ UNCHANGED <<part, inputs, todo, metadata, result, last, prep, iter, weight,
                      k, grid, filt, patch, pm1, files, bins, minCoh, ix,
                      select1, keep, edges, quiet, weed1, run, left,
                      merged, acc, clean, interp, bperp, out>>
StagesSpec == StagesInit /\ [][StagesNext]_stages /\ WF_vars(part = "2" /\ Next)

-----------------------------------------------------------------------------
(* Stage 1, over reruns, kills and deleted files: row and column of every  *)
(* whole product are about the candidate and the date that ps1 names       *)
(* there, and a later run changes at most the baselines, and those to the  *)
(* mean of their date.                                                     *)
CandidatesAligned ==
    /\ [](part = "1" => Stage1TypeOK /\ Aligned)
    /\ RerunDegradesOnlyToMean

(* Stage 2, on a grid of any size: what its shortcuts compute is what the  *)
(* rules they replace say.                                                 *)
ShortcutsExact == part = "2" => Shortcuts

(* Stage 2: the iterations end, by the limit if not by convergence, and    *)
(* when no candidate has a fit no later iteration finds one.               *)
IterationsEnd ==
    /\ part = "2" ~> pc \in {"done", "failed", "panic"}
    /\ NothingComesBack

(* Stage 3: the selection respects both orders it is made from, and the    *)
(* user's dates.                                                           *)
SelectionRespectsOrder ==
    part = "3" =>
        /\ S3!TypeOK
        /\ S3!BinsPartition      \* a candidate with a dispersion is in one bin
        /\ S3!FitHasPoints       \* the fit has enough bins, the crossing among them
        /\ S3!StableFirst        \* as coherent and as stable as a selected one: selected
        /\ S3!DropsTheRightDates \* numbered without the master as the user meant
        /\ S3!RejectsOnlyNoisy   \* rejected for the scatter of a date that was kept

(* Stage 4: neighbours, duplicates and noise remove what they should and   *)
(* nothing else.                                                           *)
WeedingKeepsBest ==
    part = "4" =>
        /\ S4!TypeOK
        /\ S4!RegionKeepsBest    \* of a connected region the most coherent stays
        /\ S4!PairsExcused       \* two neighbours stay only if none saw the other first
        /\ S4!NoDuplicates       \* one pixel of a place gets to the noise estimate
        /\ S4!MasksAgree         \* the two masks of weed1 count the same
        /\ S4!QuietWithNeighbour \* who is kept shares its disturbances with another
        /\ S4!QuietSurvive       \* who has none is not lost

(* Stage 5, whatever earlier runs left: the files of a patch, and those of *)
(* the merged stack, describe one list of rows, with every place once and  *)
(* from the patch it belongs to.                                           *)
MergeAligned ==
    part = "5" =>
        /\ S5!TypeOK
        /\ S5!RejectedStayOut    \* unless the mask is ignored for its length
        /\ S5!PatchAgrees        \* after a promotion
        /\ S5!MergedAligned
        /\ S5!PanicExcused       \* only when patches disagree about optional files
        /\ S5!OncePerPlace
        /\ S5!NoPlaceLost
        /\ S5!OwnPatchWins

(* Stage 6: unwrapping and scattering add whole cycles and nothing else.   *)
UnwrappingFaithful ==
    part = "6" =>
        /\ S6!TypeOK
        /\ S6!LabelsNearest      \* a cell has the label of the nearest occupied one
        /\ S6!OwnGraphConnected  \* the graph of the own grid is never refused
        /\ S6!GridIsPlane        \* where the phase is clear the plane comes back
        /\ S6!OnlyCyclesAdded    \* phuw2 and the wrapped phase, point by point
        /\ S6!UnusedAreZero      \* master and dropped ones, whatever was there before

(* Stage 7: the K and C that the phases were made from come back, and the  *)
(* correction is K times the baseline of the same interferogram.           *)
CorrectionRecovered ==
    part = "7" =>
        /\ S7!TypeOK
        /\ S7!Recovered          \* exactly, whatever is wrong in dropped ones
        /\ S7!CorrectionInPlace  \* also when bp2 lacks the master's column
        /\ S7!PlaneRemoved       \* K has no plane in it once the phases have none
        /\ S7!RefIsZero          \* K and C on average over the reference points
        /\ S7!SmoothClosest      \* to the nearest value between the old neighbours
        /\ S7!EveryoneHasNeighbour

(* Stage 8: velocities and look-angle errors come back, over any number of *)
(* cycles, and a run that fails leaves the files of the run before.        *)
VelocityAndCyclesRecovered ==
    part = "8" =>
        /\ S8!TypeOK
        /\ S8!FailureWritesNothing
        /\ S8!VelocityRecovered  \* whatever K, C, drop list and layout of the files
        /\ S8!LaRecovered        \* an edge that is a look-angle error only
        /\ S8!OnlyCyclesAdded
        /\ S8!CloseToMaster      \* the smooth part, next to the master
=============================================================================
