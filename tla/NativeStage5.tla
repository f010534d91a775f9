----------------------------- MODULE NativeStage5 -----------------------------
(***************************************************************************)
(* Stage 5 of the native Rust driver: every patch promotes the candidates  *)
(* that survived selection and weeding to its version-2 files, and the     *)
(* patches are merged into the files of the dataset.                       *)
(*                                                                         *)
(* A row of a file is <<patch, pixel>>: whose values it holds.  A file is  *)
(* missing, whole, or torn by a kill while it was written.  The stage is   *)
(* run twice, the second time with other inputs or after a kill, over the  *)
(* files that the first run left.                                          *)
(***************************************************************************)
EXTENDS Integers, Sequences, FiniteSets, FiniteSetsExt, SequencesExt

CONSTANTS
    Patches,     \* directories PATCH_1.., in the order of their names
    Pixels,      \* pixels of the scene, numbered in the order of their xy
    Histories    \* the inputs of the two runs, see Init

\* Where Patches \in SUBSET (Nat \ {0}) /\ Pixels \in SUBSET Nat /\ \A h \in Histories : Len(h) = 2.

VARIABLES
    inp, run,    \* the inputs of both runs, and the run that is on
    pc,
    left,        \* patches that are still to be promoted or merged
    todo,        \* files that are still to be written
    disk,        \* version-2 files of the patches
    merged,      \* version-2 files of the dataset
    acc,         \* the merge so far
    clean        \* patches whose last promotion wrote all its files

vars == <<inp, run, pc, left, todo, disk, merged, acc, clean>>

Optional == {"hgt2", "la2", "inc2", "da2", "bp2"}
PatchFiles == <<"ps2", "hgt2", "la2", "inc2", "da2", "bp2", "rc2", "ph2", "pm2", "psver">>
MergedFiles == <<"ps2", "ph2", "pm2", "psver", "bp2", "hgt2", "la2", "inc2", "rc2", "ifgstd2">>
Files == ToSet(PatchFiles) \cup ToSet(MergedFiles)
Carried == {"bp2", "hgt2", "la2", "inc2", "rc2"}    \* merged where a patch has them

Missing == [st |-> "missing", rows |-> <<>>]
Torn == [st |-> "torn", rows |-> <<>>]
Whole(rows) == [st |-> "whole", rows |-> rows]
Exists(f) == f.st # "missing"

In == inp[run]
Sel(p) == In.sel[p]

-----------------------------------------------------------------------------
\* Promotion of one patch.

\* bool_vector_or_default: a keep_ix of another length keeps everything.
KeepIx(p) ==
    IF Len(Sel(p).keep) = Len(Sel(p).ix) THEN Sel(p).keep ELSE [s \in DOMAIN Sel(p).ix |-> TRUE]
Positions(p) == SelectSeq([s \in DOMAIN Sel(p).ix |-> s], LAMBDA s : KeepIx(p)[s])

\* bool_vector_exact: an ix_weed of another length weeds nothing.
Weeded(p, n) == IF Len(Sel(p).weed) = Len(Positions(p)) THEN Sel(p).weed[n] ELSE TRUE

Kept2(p) == SelectSeq([n \in DOMAIN Positions(p) |-> n], LAMBDA n : Weeded(p, n))
RowOf(p, candidate) == <<p, Sel(p).pix[candidate]>>

\* final_ix0 and kept_select_positions.
Promoted(p) == [k \in DOMAIN Kept2(p) |-> RowOf(p, Sel(p).ix[Positions(p)[Kept2(p)[k]]])]

\* Mutant of PatchPhase: rows of select1 are taken instead of those of ix2.
PatchPhaseBySelect(p) ==
    [k \in DOMAIN Kept2(p) |-> RowOf(p, Sel(p).ix[Kept2(p)[k]])]

\* ph_patch2 and kept_ix2_positions.
PatchPhase(p) ==
    LET ix2 == [n \in DOMAIN Positions(p) |-> Sel(p).ix[Positions(p)[n]]] IN
    [k \in DOMAIN Kept2(p) |-> RowOf(p, ix2[Kept2(p)[k]])]

PatchRows(p, f) == IF f = "pm2" THEN PatchPhase(p) ELSE Promoted(p)

\* read_mat_stage5_vars, load_stage5_parms and the shapes that are looked at
\* before the first file is written.
CannotStart(p) == "inputs" \in Sel(p).bad \/ Sel(p).ix = <<>>
\* What is looked at later: the vectors of select1 and pm1 after ps2, an
\* optional source when its turn comes, the columns of bp2 at rc2.
FailsAt(p, f) == f \in Sel(p).bad \/ (f # "ps2" /\ "select" \in Sel(p).bad)

\* promote_optional_vector: without a source nothing is written or removed.
ToPromote(p) == SelectSeq(PatchFiles, LAMBDA f : f \in Optional => f \in Sel(p).opt)

-----------------------------------------------------------------------------
\* Merge.

\* discover_stage5_patch_dirs: 0 stands for a name without a directory.
ListsDiffer == In.list # <<>> /\ In.old # <<>> /\ In.list # In.old
Manifest == IF In.list # <<>> THEN In.list ELSE In.old
Discovered == IF Manifest # <<>> THEN Manifest ELSE SetToSortSeq(Patches, <)
DiscoveryFails == ListsDiffer \/ 0 \in ToSet(Manifest) \/ In.noparms

\* A patch whose ps2 holds no rows is skipped.
Skipped(p) == disk[p]["ps2"].st = "whole" /\ disk[p]["ps2"].rows = <<>>

\* load_stage5_patch_bundle: required files are there, all that are there can
\* be read and are as long as ps2.
BundleOk(p) ==
    /\ \A f \in {"ps2", "ph2", "pm2"} : disk[p][f].st = "whole"
    /\ \A f \in {"ph2", "pm2"} \cup Carried :
         Exists(disk[p][f]) =>
             disk[p][f].st = "whole" /\ Len(disk[p][f].rows) = Len(disk[p]["ps2"].rows)

IncDisagrees ==
    LET bundles == {p \in ToSet(Discovered) : ~Skipped(p)}
        with == {p \in bundles : Exists(disk[p]["inc2"])} IN
    with # {} /\ with # bundles

NoAcc == [rows |-> <<>>, removed |-> {}, carried |-> [f \in Carried |-> <<>>]]

\* read_patch_bounds: a patch without patch_noover.in owns all its pixels.
InBounds(p, x) == Sel(p).bounds = {} \/ x \in Sel(p).bounds
IndexOf(x) == {i \in DOMAIN acc.rows : acc.rows[i][2] = x}

\* compute_patch_keep_mask.
KeepMask(p, x) == InBounds(p, x) \/ IndexOf(x) = {}

\* The entry of a pixel stays with the first patch that had it.
Replaced(p) ==
    {Min(IndexOf(x)) : x \in {y \in Pixels : /\ InBounds(p, y) /\ IndexOf(y) # {}
                                             /\ <<p, y>> \in ToSet(disk[p]["ps2"].rows)}}

\* append_rows, append_values: what a patch does not have is not appended.
Append5(p) ==
    LET ps == disk[p]["ps2"].rows
        kept == SelectSeq([i \in DOMAIN ps |-> i], LAMBDA i : KeepMask(p, ps[i][2]))
        Take(f) == [k \in DOMAIN kept |-> disk[p][f].rows[kept[k]]] IN
    [rows |-> acc.rows \o [k \in DOMAIN kept |-> ps[kept[k]]],
     removed |-> acc.removed \cup Replaced(p),
     carried |-> [f \in Carried |-> IF Exists(disk[p][f]) THEN acc.carried[f] \o Take(f)
                                    ELSE acc.carried[f]]]

\* dedup_lonlat_keep_highest_coh_indices: of the most coherent rows at one
\* place the first is kept.
Dedup(ix) ==
    {i \in ix : \A j \in ix :
        LET a == acc.rows[i]  b == acc.rows[j] IN
        In.place[a[2]] = In.place[b[2]] /\ j # i =>
            \/ In.coh[a[1]][a[2]] > In.coh[b[1]][b[2]]
            \/ In.coh[a[1]][a[2]] = In.coh[b[1]][b[2]] /\ i < j}

\* local_xy_from_lonlat and the sort by its second, then first coordinate.
FinalIndices ==
    SetToSortSeq(Dedup(DOMAIN acc.rows \ acc.removed),
                 LAMBDA i, j : acc.rows[i][2] < acc.rows[j][2])

\* select_rows_plain, select_values_plain: an index past the end panics.
IndexPanics ==
    \E f \in Carried : acc.carried[f] # <<>> /\
        \E i \in ToSet(FinalIndices) : i > Len(acc.carried[f])
MergedRows(f) ==
    LET source == IF f \in Carried THEN acc.carried[f] ELSE acc.rows IN
    [k \in DOMAIN FinalIndices |-> source[FinalIndices[k]]]

\* merged_ifg_std compares the columns of the last patch with parms.
CannotWrite == acc.rows = <<>> \/ acc.carried["bp2"] = <<>> \/ In.badcols
ToMerge == SelectSeq(MergedFiles, LAMBDA f : f \in Carried => acc.carried[f] # <<>>)

-----------------------------------------------------------------------------
\* run_stage5_patch_native, for one patch after the other.

PromoteStart ==
    /\ pc = "promote" /\ left # <<>> /\ todo = <<>>
    /\ clean' = clean \ {Head(left)}
    /\ IF CannotStart(Head(left)) THEN left' = Tail(left) /\ UNCHANGED todo
       ELSE todo' = ToPromote(Head(left)) /\ UNCHANGED left
    /\ UNCHANGED <<inp, run, pc, disk, merged, acc>>

PromoteWrite ==
    /\ pc = "promote" /\ todo # <<>>
    /\ LET p == Head(left)  f == Head(todo) IN
       IF FailsAt(p, f) THEN
           /\ todo' = <<>> /\ left' = Tail(left)
           /\ UNCHANGED <<disk, clean>>
       ELSE
           /\ disk' = [disk EXCEPT ![p][f] = Whole(PatchRows(p, f))]
           /\ todo' = Tail(todo)
           /\ left' = IF Tail(todo) = <<>> THEN Tail(left) ELSE left
           /\ clean' = IF Tail(todo) = <<>> THEN clean \cup {p} ELSE clean
    /\ UNCHANGED <<inp, run, pc, merged, acc>>

\* run_stage5_merge_native: every bundle is read before the first is merged.
MergeStart ==
    /\ pc = "promote" /\ left = <<>>
    /\ LET bundles == IF DiscoveryFails THEN <<>>
                      ELSE SelectSeq(Discovered, LAMBDA p : ~Skipped(p)) IN
       IF bundles = <<>> \/ IncDisagrees \/ (\E p \in ToSet(bundles) : ~BundleOk(p))
       THEN pc' = "failed" /\ UNCHANGED <<left, acc>>
       ELSE pc' = "merge" /\ left' = bundles /\ acc' = NoAcc
    /\ UNCHANGED <<inp, run, todo, disk, merged, clean>>

MergeBundle ==
    /\ pc = "merge" /\ left # <<>>
    /\ acc' = Append5(Head(left))
    /\ left' = Tail(left)
    /\ UNCHANGED <<inp, run, pc, todo, disk, merged, clean>>

MergeSelect ==
    /\ pc = "merge" /\ left = <<>>
    /\ IF IndexPanics \/ CannotWrite THEN pc' = "failed" /\ UNCHANGED todo
       ELSE pc' = "write" /\ todo' = ToMerge
    /\ UNCHANGED <<inp, run, left, disk, merged, acc, clean>>

\* The angles of inc2 are looked at when its turn comes.
MergeWrite ==
    /\ pc = "write"
    /\ IF Head(todo) = "inc2" /\ In.badinc THEN
           pc' = "failed" /\ todo' = <<>> /\ UNCHANGED merged
       ELSE
           /\ merged' = [merged EXCEPT ![Head(todo)] = Whole(MergedRows(Head(todo)))]
           /\ todo' = Tail(todo)
           /\ pc' = IF Tail(todo) = <<>> THEN "done" ELSE "write"
    /\ UNCHANGED <<inp, run, left, disk, acc, clean>>

\* The process is killed while it writes a file, which is then torn.
Kill ==
    /\ run = 1 /\ todo # <<>> /\ In.kill
    /\ IF pc = "promote"
       THEN disk' = [disk EXCEPT ![Head(left)][Head(todo)] = Torn] /\ UNCHANGED merged
       ELSE merged' = [merged EXCEPT ![Head(todo)] = Torn] /\ UNCHANGED disk
    /\ pc' = "killed" /\ todo' = <<>> /\ left' = <<>>
    /\ UNCHANGED <<inp, run, acc, clean>>

Again ==
    /\ run = 1 /\ pc \in {"done", "failed", "killed"}
    /\ run' = 2 /\ pc' = "promote"
    /\ left' = IF inp[2].list # <<>> THEN SelectSeq(inp[2].list, LAMBDA p : p # 0)
               ELSE SetToSortSeq(Patches, <)
    /\ todo' = <<>> /\ acc' = NoAcc
    /\ UNCHANGED <<inp, disk, merged, clean>>

Init ==
    /\ inp \in Histories
    /\ run = 1 /\ pc = "promote"
    /\ left = IF inp[1].list # <<>> THEN SelectSeq(inp[1].list, LAMBDA p : p # 0)
              ELSE SetToSortSeq(Patches, <)
    /\ todo = <<>> /\ acc = NoAcc /\ clean = {}
    /\ disk = [p \in Patches |-> [f \in Files |-> Missing]]
    /\ merged = [f \in Files |-> Missing]

Next ==
    \/ PromoteStart \/ PromoteWrite \/ MergeStart \/ MergeBundle \/ MergeSelect \/ MergeWrite
    \/ Kill \/ Again
    \/ run = 2 /\ pc \in {"done", "failed"} /\ UNCHANGED vars

Spec == Init /\ [][Next]_vars

-----------------------------------------------------------------------------
\* Types.
TypeOK ==
    /\ run \in {1, 2} /\ pc \in {"promote", "merge", "write", "done", "failed", "killed"}
    /\ left \in Seq(Patches) /\ ToSet(todo) \subseteq Files /\ clean \subseteq Patches
    /\ acc.removed \subseteq DOMAIN acc.rows

\* A candidate that the user or the weeding rejected is promoted only where
\* the mask is not as long as the selection and is therefore ignored.
RejectedStayOut ==
    \A p \in clean \cap ToSet(Discovered) : pc # "promote" => \A s \in DOMAIN Sel(p).ix :
        LET weed == Sel(p).weed
            before == Cardinality({t \in 1..s : KeepIx(p)[t]})
            rejected == ~KeepIx(p)[s] \/ (Len(weed) = Len(Positions(p)) /\ ~weed[before]) IN
        rejected => RowOf(p, Sel(p).ix[s]) \notin ToSet(disk[p]["ps2"].rows)

\* After a promotion that went through, the files of a patch describe the
\* same rows, whatever a failed or killed run left, except for optional files
\* whose source is gone.
PatchAgrees ==
    \A p \in clean \cap ToSet(Discovered) : pc # "promote" => \A f \in ToSet(PatchFiles) :
        (f \in Optional => f \in Sel(p).opt) => disk[p][f] = disk[p]["ps2"]

\* The patches the merge used agree about optional files, none of which is
\* left from an earlier run.
Uniform ==
    /\ \A p, q \in ToSet(Discovered) : Sel(p).opt = Sel(q).opt
    /\ \A p \in ToSet(Discovered) : p \in clean /\ \A f \in Optional \ Sel(p).opt : ~Exists(disk[p][f])

\* Then every row of every merged file belongs to the same row of ps2.
MergedAligned ==
    pc = "done" /\ Uniform => \A f \in Files :
        (f \in Carried => acc.carried[f] # <<>>) /\ Exists(merged[f]) =>
            merged[f] = merged["ps2"]

\* An index out of range stops the merge only when patches disagree about
\* the optional files they have.
PanicExcused ==
    pc = "merge" /\ left = <<>> /\ IndexPanics => ~Uniform

\* No place occurs twice in the merged rows, and they are sorted.
OncePerPlace ==
    pc = "done" =>
        LET r == merged["ps2"].rows IN
        \A i, j \in DOMAIN r : i < j => r[i][2] < r[j][2] /\ In.place[r[i][2]] # In.place[r[j][2]]

\* No place that some patch has is missing from the merged rows.
NoPlaceLost ==
    pc = "done" => \A p \in ToSet(Discovered) : \A r \in ToSet(disk[p]["ps2"].rows) :
        \E m \in ToSet(merged["ps2"].rows) : In.place[m[2]] = In.place[r[2]]

\* Where patches overlap, a pixel is taken from the patch whose own area it
\* is in.
OwnPatchWins ==
    pc = "done" /\ (\A p \in ToSet(Discovered) : Sel(p).bounds # {}) =>
        \A m \in ToSet(merged["ps2"].rows) : \A p \in ToSet(Discovered) :
            m[2] \in Sel(p).bounds /\ <<p, m[2]>> \in ToSet(disk[p]["ps2"].rows) => m[1] = p

-----------------------------------------------------------------------------
(* Small inputs.                                                           *)
(* Three patches over four pixels.  The second run changes what the first  *)
(* was given in one respect, or follows a kill or a failure.               *)
All == {"hgt2", "la2", "inc2", "da2", "bp2"}
PlainSel(pix) == [pix |-> pix, ix |-> [s \in DOMAIN pix |-> s], keep |-> <<>>, weed |-> <<>>,
                  opt |-> All, bad |-> {}, bounds |-> {}]
Plain == [sel |-> <<PlainSel(<<1, 2>>), PlainSel(<<2, 3>>), PlainSel(<<2, 4>>)>>,
          list |-> <<>>, old |-> <<>>, noparms |-> FALSE, badcols |-> FALSE, badinc |-> FALSE,
          kill |-> FALSE, place |-> <<1, 2, 3, 4>>, coh |-> [p \in 1..3 |-> <<1, 1, 1, 1>>]]
Bounded == [Plain EXCEPT !.sel[1].bounds = {1}, !.sel[2].bounds = {2}, !.sel[3].bounds = {3, 4}]

Masks(n) == [1..n -> BOOLEAN]
Selections ==
    {[Plain EXCEPT !.sel[1] = [PlainSel(<<3, 1, 2>>) EXCEPT !.ix = ix, !.keep = k, !.weed = w]] :
        ix \in {<<1, 2, 3>>, <<1, 3>>}, k \in {<<>>} \cup Masks(3) \cup Masks(2),
        w \in {<<>>} \cup Masks(1) \cup Masks(2) \cup Masks(3)}
Overlaps ==
    {[b EXCEPT !.sel[1].pix = x, !.sel[2].pix = y, !.sel[3].pix = z, !.coh = c, !.place = pl,
              !.sel[3].bounds = IF b3 THEN b.sel[3].bounds ELSE {}] :
        b \in {Plain, Bounded}, x \in {<<1, 2>>, <<2, 3>>}, y \in {<<2, 3>>, <<1, 2>>},
        z \in {<<2, 4>>, <<4, 1>>}, b3 \in BOOLEAN,
        c \in {[p \in 1..3 |-> <<1, 1, 1, 1>>], [p \in 1..3 |-> <<3 - p, p, 1, 2>>]},
        pl \in {<<1, 2, 3, 4>>, <<1, 2, 3, 1>>}}
Faults ==
    {[Plain EXCEPT !.kill = TRUE]}
    \cup {[Plain EXCEPT !.sel[1].bad = b] : b \in {{"inputs"}, {"select"}, {"la2"}, {"rc2"}}}
    \cup {[Plain EXCEPT !.sel[q].opt = All \ {f}] : q \in {1, 3}, f \in All}
    \cup {[Plain EXCEPT !.badcols = TRUE], [Plain EXCEPT !.badinc = TRUE],
          [Plain EXCEPT !.noparms = TRUE], [Plain EXCEPT !.list = <<1, 2>>],
          [Plain EXCEPT !.list = <<1, 2>>, !.old = <<1, 2, 3>>], [Plain EXCEPT !.list = <<1, 0>>],
          [Plain EXCEPT !.sel[1].weed = <<FALSE, FALSE>>]}

MCHistories ==
    {<<a, a>> : a \in Selections \cup Overlaps}
    \cup {<<a, a>> : a \in Faults} \cup {<<a, Plain>> : a \in Faults} \cup {<<Plain, b>> : b \in Faults}
    \cup {<<Plain, b>> : b \in {[Plain EXCEPT !.sel[1].weed = w, !.sel[1].opt = o] :
                              w \in Masks(2), o \in {All, All \ {"hgt2"}, {"bp2"}}}}
=============================================================================
