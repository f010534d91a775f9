----------------------------- MODULE NativeStage3 -----------------------------
(***************************************************************************)
(* Stage 3 of the native Rust driver on one patch: candidates whose        *)
(* coherence exceeds a threshold are selected.  The threshold follows from *)
(* how many candidates of random phase would be let through, separately    *)
(* for bins of amplitude dispersion D_A, and a line through the bins makes *)
(* it a function of D_A.                                                   *)
(*                                                                         *)
(* A coherence is the number of its histogram bin (0 was not fitted), D_A  *)
(* is counted in steps.  The cubic fit around the crossing is any value    *)
(* within the bins it is made from, or NaN when it is singular.            *)
(***************************************************************************)
EXTENDS Integers, Sequences, FiniteSets, FiniteSetsExt, SequencesExt

CONSTANTS
    NPs,               \* candidates of the patch
    Cohs, Dispersions, \* possible coherence and D_A of the candidates
    BigPatch,          \* candidates from which on D_A is used (10000)
    BinSize,           \* candidates of a bin (2000)
    Nr,                \* random candidates for each coherence bin
    LowCoh,            \* coherence bins that hold random candidates only
    PercentRand,       \* random candidates allowed, in percent
    DensityRand,       \* and as a number for the patch, in tenths
    DefaultThreshold,  \* 0.3, in bins
    Flat,              \* D_A = 0.35, in steps
    NIfg, Master, Drops

Cand == 1..NPs
Bins == 1..Len(Nr)
NaN == -1

\* Where
\* /\ NPs \in Nat \ {0} /\ BinSize \in 1..NPs /\ Len(Nr) >= 4
\* /\ Cohs \subseteq [Cand -> 0..Len(Nr)] /\ Dispersions \subseteq [Cand -> Nat]
\* /\ LowCoh \in Bins /\ Master \in 1..NIfg

VARIABLES
    inp,      \* coherence, D_A, parameters and noise of the patch
    files,    \* file -> "whole", "absent", "torn", "other" (of another patch)
              \* or "short" (of another patch with fewer than BigPatch)
    pc,
    bins,     \* D_A bin -> its candidates and their mean
    minCoh,   \* D_A bin -> minimum coherence or NaN
    ix,       \* selected candidates
    select1   \* what write_select_artifact wrote

vars == <<inp, files, pc, bins, minCoh, ix, select1>>

Nothing == [ix |-> {}, ifg |-> <<>>, written |-> FALSE]

-----------------------------------------------------------------------------
\* Files.

\* Stage3MatSource: the MAT reader, then HDF5, then HDF5 behind a user block.
Hdf5(f) == files[f] \in {"hdf5", "userblock"}
Readable(f) == files[f] \in {"whole", "other", "short"} \/ Hdf5(f)

\* orient_matrix_f32 and its like: neither side has n_ps entries.
Fits(f) == files[f] # "other"

\* load_stage3_parms: what cannot be read is the default, without an error.
Method == IF Readable("parms") THEN inp.method ELSE "DENSITY"
Reject == Readable("parms") /\ inp.reject
Drop == IF Readable("parms") THEN inp.drop ELSE {}

\* load_da and its use: a missing file is D_A = 1 for every candidate, a torn
\* one is an error.  A list of another length is an error as well, unless it
\* is short: then D_A is not used, as when the patch has few candidates.
DaAccepted == files["da1"] \in {"absent", "short"} \/ (Readable("da1") /\ Fits("da1"))
UsesDa == files["da1"] # "short" /\ NPs >= BigPatch
Da(r) == IF UsesDa /\ files["da1"] # "absent" THEN inp.da[r] ELSE 1

-----------------------------------------------------------------------------
\* Bins of D_A.

Sorted == SortSeq([r \in Cand |-> Da(r)], LAMBDA a, b : a < b)

\* da_bin_edges: a boundary after every BinSize candidates, as long as a
\* whole bin remains, and the largest value.
Edges ==
    IF ~UsesDa THEN <<0, 1>>
    ELSE <<0>> \o [b \in 1..(NPs - BinSize) \div BinSize |-> Sorted[b * BinSize]]
              \o <<Sorted[NPs]>>

Members(edges, b) == {r \in Cand : edges[b] < Da(r) /\ Da(r) <= edges[b + 1]}

\* The bins with their means, all multiplied with the same Common.
Common == FoldFunction(LAMBDA a, b : a * b, 1, [n \in 1..NPs |-> n])
Total(f) == FoldFunction(LAMBDA a, b : a + b, 0, f)
BinsOf(edges) ==
    [b \in 1..Len(edges) - 1 |->
        LET rows == Members(edges, b) IN
        [rows |-> rows,
         mean |-> (Total([r \in rows |-> Da(r)]) * Common) \div Max({1, Cardinality(rows)})]]

\* hist_with_centers.
Na(b, c) == Cardinality({r \in bins[b].rows : inp.coh[r] = c})
NaSafe(b, c) == IF Na(b, c) = 0 THEN 1 ELSE Na(b, c)

\* Sums over the coherence bins from c up, and below the low threshold.
NrCum(c) == Total([d \in c..Len(Nr) |-> Nr[d]])
NaCum(b, c) == Total([d \in c..Len(Nr) |-> NaSafe(b, d)])
NrLow == Total([d \in 1..LowCoh |-> Nr[d]])
NaLow(b) == Total([d \in 1..LowCoh |-> Na(b, d)])

\* Few enough random candidates from bin c up.
Passes(b, c) ==
    IF Method = "PERCENT"
    THEN NrCum(c) * NaLow(b) * 100 < PercentRand * NrLow * NaCum(b, c)
    ELSE NrCum(c) * NaLow(b) * 10 * Len(bins) < DensityRand * NrLow

\* The bins the cubic is fitted to.
FitWindow(ok) == ok - 3 .. Min({ok + 2, Len(Nr)})

\* polyfit_eval_centered, least_squares_poly, solve_linear_system.
Fit(ok) == {NaN, Min(FitWindow(ok)), Max(FitWindow(ok))}

\* The minimum coherence of one D_A bin.
MinCoh(b) ==
    LET fitted == {r \in bins[b].rows : inp.coh[r] # 0}
        passing == {c \in Bins : Passes(b, c)} IN
    IF fitted = {} THEN {NaN}
    ELSE IF passing = {} THEN {Len(Nr)}
    ELSE IF Min(passing) <= 3 THEN {NaN} ELSE Fit(Min(passing))

-----------------------------------------------------------------------------
\* Threshold.

Valid(m) == {b \in DOMAIN m : m[b] # NaN}

\* linear_fit: the line through the valid bins is (P * (n x - X) + Q * Y) / (n Q).
Line(m) ==
    LET v == Valid(m)  n == Cardinality(v)
        X == Total([b \in v |-> bins[b].mean])
        Y == Total([b \in v |-> m[b]])
        Q == n * Total([b \in v |-> bins[b].mean * bins[b].mean]) - X * X IN
    [n |-> n, X |-> X, Y |-> Y, Q |-> IF Q = 0 THEN 1 ELSE Q,
     P |-> IF Q = 0 THEN 0 ELSE n * Total([b \in v |-> bins[b].mean * m[b]]) - X * Y]
Above(line, coh, d) ==
    coh * line.n * line.Q > Max({0, line.P * (line.n * d * Common - line.X) + line.Q * line.Y})

\* coh_threshold_from_dist and selected_indices_from_thresholds: a threshold
\* that falls with D_A is taken at one D_A for all.
Exceeding(m) ==
    LET v == Valid(m)  line == Line(m) IN
    {r \in Cand :
        IF v = {} THEN inp.coh[r] > DefaultThreshold
        ELSE IF Cardinality(v) = 1 THEN \A b \in v : inp.coh[r] > m[b]
        ELSE Above(line, inp.coh[r], IF line.P > 0 THEN Da(r) ELSE Flat)}

-----------------------------------------------------------------------------
\* Interferograms, numbered without the master's.

\* Mutant of IfgIndex: the numbers are not moved down after the master's.
IfgIndexUnshifted == SelectSeq([i \in 1..NIfg |-> i], LAMBDA i : i \notin Drop \cup {Master})

\* ifg_index_for_selection.
IfgIndex ==
    LET kept == SelectSeq([i \in 1..NIfg |-> i], LAMBDA i : i \notin Drop \cup {Master}) IN
    [n \in DOMAIN kept |-> IF kept[n] > Master THEN kept[n] - 1 ELSE kept[n]]

\* Columns of ph_res that are looked at, and their dates.
Columns == ToSet(IfgIndex) \cap 1..NIfg - 1
DateOf(c) == IF c >= Master THEN c + 1 ELSE c

\* The residuals of r scatter too much: those of its noisy dates.
Scatters(r) == \E c \in Columns : DateOf(c) \in inp.noisy[r]

-----------------------------------------------------------------------------
\* run_stage3_native.

Read ==
    /\ pc = "read"
    /\ pc' = IF Readable("ps1") /\ Readable("pm1") /\ Fits("pm1") /\ DaAccepted
             THEN "threshold" ELSE "failed"
    /\ bins' = IF DaAccepted THEN BinsOf(Edges) ELSE <<>>
    /\ UNCHANGED <<inp, files, minCoh, ix, select1>>

Threshold ==
    /\ pc = "threshold"
    /\ minCoh' \in {m \in [DOMAIN bins -> {NaN} \cup Bins] : \A b \in DOMAIN bins : m[b] \in MinCoh(b)}
    /\ pc' = "select"
    /\ UNCHANGED <<inp, files, bins, ix, select1>>

Select ==
    /\ pc = "select"
    /\ ix' = Exceeding(minCoh)
    /\ pc' = "reject"
    /\ UNCHANGED <<inp, files, bins, minCoh, select1>>

\* The standard deviation of the residuals, if a limit is set.
RejectNoisy ==
    /\ pc = "reject"
    /\ ix' = IF Reject THEN {r \in ix : ~Scatters(r)} ELSE ix
    /\ pc' = "write"
    /\ UNCHANGED <<inp, files, bins, minCoh, select1>>

\* write_select_artifact.
Write ==
    /\ pc = "write"
    /\ select1' = [ix |-> ix, ifg |-> IfgIndex, written |-> TRUE]
    /\ pc' = "done"
    /\ UNCHANGED <<inp, files, bins, minCoh, ix>>

AllWhole == [f \in {"ps1", "pm1", "da1", "parms"} |-> "whole"]

Init ==
    /\ inp \in [coh : Cohs, da : Dispersions, method : {"DENSITY", "PERCENT"},
                reject : BOOLEAN, drop : Drops,
                noisy : {[r \in Cand |-> {}], [r \in Cand |-> IF r % 2 = 0 THEN {NIfg} ELSE {1}]}]
    /\ files \in {AllWhole} \cup
         {[AllWhole EXCEPT ![f] = s] : f \in {"pm1", "da1", "parms"},
                                       s \in {"absent", "torn", "hdf5", "userblock", "other"}} \cup
         {[AllWhole EXCEPT !["da1"] = "short"]}
    /\ files = AllWhole \/ (inp.drop = {} /\ ~inp.reject)
    /\ inp.reject \/ \A r \in Cand : inp.noisy[r] = {}
    /\ pc = "read" /\ bins = <<>> /\ minCoh = <<>> /\ ix = {} /\ select1 = Nothing

Next ==
    \/ Read \/ Threshold \/ Select \/ RejectNoisy \/ Write
    \/ pc \in {"done", "failed"} /\ UNCHANGED vars

Spec == Init /\ [][Next]_vars

-----------------------------------------------------------------------------
\* Types.
TypeOK ==
    /\ pc \in {"read", "threshold", "select", "reject", "write", "done", "failed"}
    /\ pc \notin {"read", "threshold", "failed"} => minCoh \in [DOMAIN bins -> {NaN} \cup Bins]
    /\ ix \subseteq Cand
    /\ select1.written => select1.ix \subseteq Cand /\ ToSet(select1.ifg) \subseteq 1..NIfg - 1

\* Every candidate with a dispersion is in exactly one bin, also when many
\* have the same value.
BinsPartition ==
    pc = "threshold" => \A r \in Cand : Da(r) > 0 =>
        Cardinality({b \in DOMAIN bins : r \in bins[b].rows}) = 1

\* A candidate that is at least as coherent and whose amplitude is at least
\* as stable as that of a selected one is selected.
StableFirst ==
    pc = "reject" => \A r, s \in Cand :
        s \in ix /\ Da(r) <= Da(s) /\ inp.coh[r] >= inp.coh[s] => r \in ix

\* A cubic needs four points and the crossing among them.
FitHasPoints ==
    pc = "threshold" => \A b \in DOMAIN bins :
        LET passing == {c \in Bins : Passes(b, c)} IN
        passing # {} /\ Min(passing) > 3 =>
            /\ Cardinality(FitWindow(Min(passing))) >= 4
            /\ FitWindow(Min(passing)) \subseteq Bins /\ Min(passing) \in FitWindow(Min(passing))

\* The interferograms select1 names, counted without the master's, are those
\* the user did not drop, counted with it.
DropsTheRightDates ==
    select1.written => {DateOf(c) : c \in ToSet(select1.ifg)} = 1..NIfg \ (Drop \cup {Master})

\* The limit on the residuals removes only candidates that scatter in a date
\* that was kept; with every date dropped it removes none.
RejectsOnlyNoisy ==
    select1.written => \A r \in Exceeding(minCoh) \ select1.ix :
            \E d \in inp.noisy[r] : d \notin Drop \cup {Master}
=============================================================================
