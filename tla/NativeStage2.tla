----------------------------- MODULE NativeStage2 -----------------------------
(***************************************************************************)
(* Stage 2 of the native Rust driver on one patch: inputs are collected    *)
(* with fallbacks, candidates are binned into a grid, the grid is filtered *)
(* through overlapping windows (CLAP), every candidate is fitted against   *)
(* the filtered phase, and the loop repeats until the coherence settles.   *)
(*                                                                         *)
(* Of a complex value only what decides the control is kept: "zero", "nan" *)
(* or "signal".  A candidate that could not be fitted has K_ps = NaN, and  *)
(* the NaN reaches its grid cell in the next iteration.  Coordinates are   *)
(* whole grid steps.                                                       *)
(***************************************************************************)
EXTENDS Naturals, Integers, Sequences, FiniteSets, FiniteSetsExt, SequencesExt

CONSTANTS
    NCand,          \* candidates of the patch
    GridLayouts,    \* possible positions <<x, y>> of the candidates
    Windows,        \* possible window lengths, 0.75 clap_win rounded
    BaselineFiles,  \* possible contents of bp1.mat, or <<>> for no file
    NIfg,           \* interferograms, without the master's column
    MasterColumn,   \* the master's column in a matrix with NIfg + 1 columns
    MaxIterations,  \* gamma_max_iterations in parms.mat
    DefaultIterations,
    Centers,        \* centers of the coherence histogram
    BinnedValues    \* values put into it

Cand == 1..NCand

\* A patch has candidates and dates, files hold matrices of rows, and the
\* centers of the histogram grow.
ASSUME InputsAssumption ==
    /\ {NCand, NIfg} \subseteq Nat \ {0} /\ {MaxIterations, DefaultIterations} \subseteq Nat
    /\ GridLayouts \subseteq [Cand -> Nat \X Nat] /\ Windows \subseteq Nat \ {0}
    /\ BaselineFiles \subseteq Seq(Seq(Int))
    /\ Centers \in Seq(Int) /\ Len(Centers) >= 2 /\ Centers[1] < Centers[2]
    /\ BinnedValues \subseteq Int

VARIABLES
    inp,      \* what the files of the patch hold
    prep,     \* n_i, n_j and the cell of every candidate
    pc,       \* next step of the loop, "done", "failed" or "panic"
    iter,     \* i_loop
    weight,   \* candidate -> its weight is not 0
    k,        \* candidate -> the iteration that fitted it, or NaN
    grid,     \* cell -> "zero", "nan" or "signal"
    filt,     \* cell -> the filtered phase is not 0
    patch,    \* candidate -> ph_patch is not 0
    pm1       \* what write_pm1 wrote, or None

vars == <<inp, prep, pc, iter, weight, k, grid, filt, patch, pm1>>

None == [iter |-> 0]
NaN == -1

-----------------------------------------------------------------------------
\* Inputs.

\* read_hdf5_scalar_f64 and read_hdf5_text: directly, or from a copy that
\* starts at the signature when MATLAB put a user block before it.
Hdf5Readable == inp.parms \in {"hdf5", "userblock"}

\* Stage2ParmSource: parms.mat beside the patch or up to two levels above it;
\* one that is missing or cannot be read gives the defaults without an error.
Limit ==
    IF inp.parms = "zero" THEN 0
    ELSE IF inp.parms = "mat" \/ Hdf5Readable THEN MaxIterations ELSE DefaultIterations

SmallBaseline == inp.sb # "no"

\* small_baseline_random_indices: ps1 must name the two images of every pair.
PairsKnown == inp.sb # "without_pairs"

\* orient_matrix_f64: rows are candidates, or the columns are.
Transposed(bp) == [c \in DOMAIN bp[1] |-> [r \in DOMAIN bp |-> bp[r][c]]]
Oriented(bp) ==
    IF bp = <<>> \/ Len(bp) = NCand THEN bp
    ELSE IF Len(bp[1]) = NCand THEN Transposed(bp) ELSE <<>>

\* load_bperp_mat: one column per interferogram, or one more for the master,
\* which is taken out unless the pairs have no common master.
Columns(bp) == Len(Oriented(bp)[1])
Accepted(bp) ==
    \/ bp = <<>>
    \/ /\ Oriented(bp) # <<>>
       /\ Columns(bp) = NIfg \/ (~SmallBaseline /\ Columns(bp) = NIfg + 1)
BperpMat(bp) ==
    IF Columns(bp) = NIfg THEN Oriented(bp)
    ELSE [r \in Cand |-> RemoveAt(Oriented(bp)[r], MasterColumn)]

\* bperp_rows_are_invariant.
RowInvariant(mat) == \A r \in DOMAIN mat : \A c \in 1..NIfg : mat[r][c] = mat[1][c]

\* The baseline that fill_phase_weight and fit_stage2_rows use: the first row
\* stands for all when the rows are the same.
Baseline(bp, r, c) ==
    LET mat == BperpMat(bp) IN IF RowInvariant(mat) THEN mat[1][c] ELSE mat[r][c]

-----------------------------------------------------------------------------
\* stage2_grid_indices: the cell of a coordinate; what falls into the last
\* row or column is moved to the one before it.

Index(xy, a, r) == xy[r][a] - Min({xy[s][a] : s \in Cand}) + 1
LastIndex(xy, a) == Max({Index(xy, a, r) : r \in Cand})

Moved(xy, a, r) ==
    LET ix == Index(xy, a, r)
        last == LastIndex(xy, a) IN
    IF last > 1 /\ ix = last THEN last - 1 ELSE ix

\* n_i and n_j of prepare_stage2_inputs, and grid_ij.
Size(xy, a) == Max({1} \cup {Moved(xy, a, r) : r \in Cand})
CellOf(xy, r) == <<Moved(xy, 2, r), Moved(xy, 1, r)>>
GridCells == (1..prep.ni) \X (1..prep.nj)

-----------------------------------------------------------------------------
\* clap_windows along one axis of n cells: first cell of each window and the
\* part of its weights that is pushed out when it is moved back.

CeilDiv(a, b) == (a + b - 1) \div b
Step(w) == Max({1, w \div 4})

WindowCount(n, w) == CeilDiv(n, Step(w)) - 3

\* Mutant of WindowAt: the last window keeps its weights when it is moved.
WindowAtUnshifted(n, w, q) ==
    LET first == (q - 1) * Step(w) IN
    IF first + w > n THEN [first |-> n - w, shift |-> 0] ELSE [first |-> first, shift |-> 0]

WindowAt(n, w, q) ==
    LET first == (q - 1) * Step(w) IN
    IF first + w > n THEN [first |-> n - w, shift |-> first + w - n]
    ELSE [first |-> first, shift |-> 0]

AxisWindows(n, w) == {WindowAt(n, w, q) : q \in 1..WindowCount(n, w)}

\* The first window that the subtraction n - w would take below 0.
Underflows(n, w) == \E win \in AxisWindows(n, w) : win.first < 0

\* clap_window_weight: the ramp 0 .. half - 1 and back; with an odd length
\* the last row and column have no weight.
Ramp(w, i) ==
    LET half == w \div 2 IN
    IF i < half THEN i ELSE IF i < 2 * half THEN 2 * half - 1 - i ELSE NaN

\* clap_window_weight_at, as a number of steps; NaN is the weight 0.
WeightAt(w, wi, wj, i, j) ==
    LET a == Ramp(w, i - wi.shift)
        b == Ramp(w, j - wj.shift) IN
    IF i < wi.shift \/ j < wj.shift \/ a = NaN \/ b = NaN THEN NaN ELSE a + b

\* The windows that give cell <<i, j>> (counted from 1) a weight.
Inside(w, win, x) == win.first < x /\ x <= win.first + w
WindowsOver(w, cell) ==
    {p \in AxisWindows(prep.ni, w) \X AxisWindows(prep.nj, w) :
        /\ Inside(w, p[1], cell[1]) /\ Inside(w, p[2], cell[2])
        /\ WeightAt(w, p[1], p[2], cell[1] - p[1].first - 1,
                    cell[2] - p[2].first - 1) # NaN}

\* clap_filter_one_ifg: NaN counts as 0, and a window with any signal has a
\* filtered phase everywhere.
WindowSignal(w, p) ==
    \E c \in DOMAIN grid : grid[c] = "signal" /\ Inside(w, p[1], c[1]) /\ Inside(w, p[2], c[2])
Filtered(w) ==
    LET live == {p \in AxisWindows(prep.ni, w) \X AxisWindows(prep.nj, w) :
                    WindowSignal(w, p)} IN
    [cell \in GridCells |-> live \cap WindowsOver(w, cell) # {}]

-----------------------------------------------------------------------------
\* histogram_center_index for finite values: by distance when the centers are
\* equally spaced, by the midpoints otherwise.  Values are doubled.

EqualSpacing(cs) == \A i \in 2..Len(cs) - 1 : cs[i + 1] - cs[i] = cs[2] - cs[1]

EqualIndex(cs, v) ==
    LET d == cs[2] - cs[1]
        up == v - (cs[1] + cs[2]) IN
    Min({Len(cs) - 1, IF up <= 0 THEN 0 ELSE CeilDiv(up, 2 * d)})

MidIndex(cs, v) == Cardinality({i \in 1..Len(cs) - 1 : cs[i] + cs[i + 1] < v})

-----------------------------------------------------------------------------
\* The loop.

Fitted == {r \in Cand : k[r] # NaN}

\* Mutant of Prepare: inputs that cannot be used are read again, for ever.
PrepareRetried ==
    /\ pc = "prepare"
    /\ IF ~Accepted(inp.bp) \/ ~PairsKnown THEN UNCHANGED <<pc, prep, weight, grid, filt>>
       ELSE /\ pc' = "fill"
            /\ weight' = [r \in Cand |-> r \notin inp.da0]
            /\ prep' = [ni |-> Size(inp.xy, 2), nj |-> Size(inp.xy, 1),
                       cell |-> [r \in Cand |-> CellOf(inp.xy, r)]]
            /\ grid' = [c \in GridCells' |-> "zero"]
            /\ filt' = [c \in GridCells' |-> FALSE]
    /\ UNCHANGED <<inp, iter, k, patch, pm1>>

\* prepare_stage2_inputs, then the weights 1 / D_A.
Prepare ==
    /\ pc = "prepare"
    /\ IF ~Accepted(inp.bp) \/ ~PairsKnown THEN pc' = "failed" /\ UNCHANGED <<prep, weight, grid, filt>>
       ELSE /\ pc' = "fill"
            /\ weight' = [r \in Cand |-> r \notin inp.da0]
            /\ prep' = [ni |-> Size(inp.xy, 2), nj |-> Size(inp.xy, 1),
                       cell |-> [r \in Cand |-> CellOf(inp.xy, r)]]
            /\ grid' = [c \in GridCells' |-> "zero"]
            /\ filt' = [c \in GridCells' |-> FALSE]
    /\ UNCHANGED <<inp, iter, k, patch, pm1>>

\* fill_phase_weight and accumulate_grid: a sum with a NaN is NaN.
CellSum(c) ==
    LET rows == {r \in Cand : prep.cell[r] = c} IN
    IF \E r \in rows : k[r] = NaN THEN "nan"
    ELSE IF \E r \in rows : weight[r] THEN "signal" ELSE "zero"

Fill ==
    /\ pc = "fill"
    /\ grid' = [c \in GridCells |-> CellSum(c)]
    /\ pc' = "filter"
    /\ UNCHANGED <<inp, prep, iter, weight, k, filt, patch, pm1>>

\* clap_filter_grid_stack: a grid too small for one window stays 0; one that
\* is smaller than the window it is given panics.
Filter ==
    /\ pc = "filter"
    /\ LET w == inp.window
           ni == prep.ni
           nj == prep.nj
           small == WindowCount(ni, w) <= 0 \/ WindowCount(nj, w) <= 0 IN
       IF ~small /\ (Underflows(ni, w) \/ Underflows(nj, w))
       THEN pc' = "panic" /\ UNCHANGED filt
       ELSE /\ pc' = "extract"
            /\ filt' = IF small THEN [c \in GridCells |-> FALSE]
                       ELSE Filtered(w)
    /\ UNCHANGED <<inp, prep, iter, weight, k, grid, patch, pm1>>

\* extract_patch_phase.
Extract ==
    /\ pc = "extract"
    /\ patch' = [r \in Cand |-> filt[prep.cell[r]]]
    /\ pc' = "fit"
    /\ UNCHANGED <<inp, prep, iter, weight, k, grid, filt, pm1>>

\* fit_stage2_rows and topofit_row: a row with a zero in any interferogram is
\* not fitted.
Fit ==
    /\ pc = "fit"
    /\ k' = [r \in Cand |-> IF patch[r] /\ r \notin inp.zero THEN iter ELSE NaN]
    /\ pc' = "check"
    /\ UNCHANGED <<inp, prep, iter, weight, grid, filt, patch, pm1>>

\* The change of the coherence: it cannot have changed in the first iteration
\* if nothing was fitted.
Check ==
    /\ pc = "check"
    /\ \E settled \in IF iter = 1 /\ Fitted = {} THEN {TRUE} ELSE BOOLEAN :
         IF settled \/ iter >= Max({1, Limit})
         THEN /\ pm1' = [iter |-> iter, k |-> k, patch |-> patch, grid |-> grid]
              /\ pc' = "done" /\ UNCHANGED iter
         ELSE pc' = "weigh" /\ iter' = iter + 1 /\ UNCHANGED pm1
    /\ UNCHANGED <<inp, prep, weight, k, grid, filt, patch>>

\* psquare_weighting: coherence 0 has weight 0, a fitted row may get any.
WeighPSquare ==
    /\ pc = "weigh" /\ inp.weighting = "P-square"
    /\ \E pos \in SUBSET Fitted : weight' = [r \in Cand |-> r \in pos]
    /\ pc' = "fill"
    /\ UNCHANGED <<inp, prep, iter, k, grid, filt, patch, pm1>>

\* snr_weighting: a row without a fit has residuals 0, and may weigh anything.
WeighSnr ==
    /\ pc = "weigh" /\ inp.weighting = "SNR"
    /\ \E pos \in SUBSET Cand : weight' = [r \in Cand |-> r \in pos]
    /\ pc' = "fill"
    /\ UNCHANGED <<inp, prep, iter, k, grid, filt, patch, pm1>>

\* The parameters are varied one at a time.
Plain == [parms |-> "mat", sb |-> "no", weighting |-> "P-square"]
Parameters ==
    {Plain} \cup {[Plain EXCEPT !.parms = p] : p \in {"none", "torn", "zero", "hdf5", "userblock"}}
            \cup {[Plain EXCEPT !.sb = p] : p \in {"yes", "without_pairs"}}
            \cup {[Plain EXCEPT !.weighting = "SNR"]}

Init ==
    /\ \E xy \in GridLayouts, w \in Windows, bp \in BaselineFiles, p \in Parameters,
          z \in SUBSET {1, 2}, d \in {{}, {1}} :
         /\ bp = <<>> \/ (p = Plain /\ w = Max(Windows))
         /\ p = Plain \/ w = Min(Windows)
         /\ z = {} \/ d = {}
         /\ inp = [xy |-> xy, window |-> w, bp |-> bp, zero |-> z, da0 |-> d,
                   parms |-> p.parms, sb |-> p.sb, weighting |-> p.weighting]
    /\ prep = [ni |-> 1, nj |-> 1, cell |-> [r \in Cand |-> <<1, 1>>]]
    /\ pc = "prepare" /\ iter = 1
    /\ weight = [r \in Cand |-> FALSE] /\ k = [r \in Cand |-> 0]
    /\ grid = <<>> /\ filt = <<>> /\ patch = [r \in Cand |-> FALSE]
    /\ pm1 = None

Next ==
    \/ Prepare \/ Fill \/ Filter \/ Extract \/ Fit \/ Check
    \/ WeighPSquare \/ WeighSnr
    \/ pc \in {"done", "failed", "panic"} /\ UNCHANGED vars

Spec == Init /\ [][Next]_vars

-----------------------------------------------------------------------------
\* Types.
TypeOK ==
    /\ pc \in {"prepare", "fill", "filter", "extract", "fit", "check", "weigh",
              "done", "failed", "panic"}
    /\ iter \in 1..Max({1, MaxIterations, DefaultIterations})
    /\ weight \in [Cand -> BOOLEAN] /\ patch \in [Cand -> BOOLEAN]
    /\ k \in [Cand -> {NaN} \cup 0..iter]
    /\ pc \notin {"prepare", "failed"} =>
         /\ grid \in [GridCells -> {"zero", "nan", "signal"}]
         /\ \A r \in Cand : prep.cell[r] \in DOMAIN grid

\* The one row that stands for all gives every candidate its own baselines,
\* with and without the master's column, in either orientation.
ShortcutExact ==
    pc = "prepare" /\ inp.bp # <<>> /\ Accepted(inp.bp) =>
        \A r \in Cand, c \in 1..NIfg : Baseline(inp.bp, r, c) = BperpMat(inp.bp)[r][c]

\* Centers that are equally spaced put a value into the bin that the
\* midpoints would: the two ways of histogram_center_index agree.
HistogramAgrees ==
    pc = "prepare" /\ EqualSpacing(Centers) =>
        \A v \in BinnedValues : EqualIndex(Centers, v) = MidIndex(Centers, v)

\* A window that is moved back at the border gives every cell the weight it
\* would have given it before, and with an even length of four or more every cell of
\* the grid has a weight: no candidate is lost because of where it lies.
Stays(n, w) ==
    \A q \in 1..WindowCount(n, w) : LET win == WindowAt(n, w, q) IN
        \A i \in 0..w - 1 : i >= win.shift =>
            LET a == Ramp(w, i - win.shift) IN
            a = NaN \/ a = Ramp(w, win.first + i - (q - 1) * Step(w))
WindowsCover ==
    pc = "filter" /\ iter = 1 =>
        LET w == inp.window  ni == prep.ni  nj == prep.nj IN
        /\ Stays(ni, w) /\ Stays(nj, w)
        /\ (w % 2 = 0 /\ w >= 4 /\ ni >= w /\ nj >= w) =>
              \A c \in GridCells : WindowsOver(w, c) # {}

\* The subtraction that places the last window fails only for a grid that is
\* shorter than the window but longer than three steps of it; every smaller
\* and every larger grid is filtered or left at 0.
PanicBand ==
    pc = "panic" => \E a \in {1, 2} :
        Size(inp.xy, a) \in 3 * Step(inp.window) + 1 .. inp.window - 1

\* pm1 holds the fits and patch phases of one iteration: no candidate keeps
\* the fit of an earlier one beside the phases of the last.
PublishedTogether ==
    pm1 # None => \A r \in Cand :
        /\ pm1.k[r] \in {pm1.iter, NaN}
        /\ pm1.k[r] # NaN <=> pm1.patch[r] /\ r \notin inp.zero

\* Once no candidate has a fit, no later iteration finds one again: the NaN
\* of the candidates that failed cannot come back as signal.
NothingComesBack ==
    [][pc = "fit" /\ iter > 1 /\ (\A r \in Cand : k[r] = NaN) =>
         \A r \in Cand : k'[r] = NaN]_vars

(* On a grid of any size: what the shortcuts of stage 2 compute is what the *)
(* rules they replace say, and what it publishes belongs together.         *)
Shortcuts ==
    /\ TypeOK
    /\ ShortcutExact      \* one baseline for all candidates is that of each
    /\ HistogramAgrees    \* the division finds the bin that the search finds
    /\ WindowsCover       \* a window moved back at the border leaves no cell out
    /\ PanicBand          \* its place is negative in a narrow band of sizes only
    /\ PublishedTogether  \* pm1 has fits and patch phases of one iteration

-----------------------------------------------------------------------------
(* Small inputs.                                                           *)
(* Three candidates on a grid that is between one cell and larger than the *)
(* windows, with baselines that are the same for all, differ in the last   *)
(* column, come with the master's column, transposed or in a wrong shape.  *)
FiveLayouts == {<<<<0, 0>>, <<0, 0>>, <<1, 0>>>>, <<<<0, 0>>, <<0, 0>>, <<5, 6>>>>,
               <<<<0, 0>>, <<1, 1>>, <<7, 7>>>>, <<<<0, 0>>, <<6, 0>>, <<6, 6>>>>,
               <<<<2, 4>>, <<2, 9>>, <<5, 0>>>>}
SixBaselines == {<<>>, <<<<3, 4>>, <<3, 4>>, <<3, 4>>>>, <<<<3, 4>>, <<3, 4>>, <<3, 5>>>>,
                 <<<<3, 0, 4>>, <<3, 0, 4>>, <<3, 0, 5>>>>, <<<<3, 3, 6>>, <<4, 4, 4>>>>,
                 <<<<1>>, <<2>>, <<3>>>>}
FiveCenters == <<1, 5, 9, 13, 17>>
=============================================================================
