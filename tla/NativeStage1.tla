----------------------------- MODULE NativeStage1 -----------------------------
(***************************************************************************)
(* Stage 1 of the native Rust driver on one patch: the candidate files     *)
(* become ps1, ph1 and bp1, whose rows are the candidates in the order of  *)
(* their map coordinates and whose columns are the acquisition dates with  *)
(* the master's in between.  The dates and baselines come from text files, *)
(* from an existing ps1.mat or from SNAP files, and each source puts the   *)
(* metadata in an order of its own.  The stage writes one file after the   *)
(* other in place and may be killed at any point.                          *)
(*                                                                         *)
(* A matrix cell holds what it is about, <<candidate, date>>; candidate 0  *)
(* stands for the mean over the patch.  Candidates are numbered in the     *)
(* order of pscands.1.ij, coordinates and values are left out.             *)
(***************************************************************************)
EXTENDS Naturals, Integers, Sequences, FiniteSets, SequencesExt

CONSTANTS
    Xs, Ys,    \* map coordinates of the candidates, rounded to single precision
    Slaves,    \* the slave dates in the order of the interferogram files
    Master,    \* the master's date
    Pars       \* dates for which there may be an rslc/*.rslc.par

ASSUME CandidatesAssumption ==
    /\ Xs \in Seq(Int) /\ Ys \in Seq(Int) /\ Len(Xs) = Len(Ys) /\ Xs # <<>>
    /\ Slaves \in Seq(Nat) /\ Master \in Nat

NPs == Len(Xs)

\* A sorted list of indices, from the set of those that each one comes after;
\* sort_by is stable, and of two equal ones the first stays first.
Sorted(after) ==
    [r \in DOMAIN after |-> CHOOSE i \in DOMAIN after : Cardinality(after[i]) = r - 1]

\* Row of ps1 -> candidate: by y, then by x.
RowFirst(i, j) ==
    \/ Ys[i] < Ys[j]
    \/ Ys[i] = Ys[j] /\ (Xs[i] < Xs[j] \/ (Xs[i] = Xs[j] /\ i < j))
SortIx == Sorted([i \in 1..NPs |-> {j \in 1..NPs : RowFirst(j, i)}])

Text == {"day", "master_day", "bperp"}         \* the three *.1.in files
Optional == {"da1", "hgt1", "la1"}
Products == {"ps1", "ph1", "psver", "bp1"}     \* expected_bundle of stage 1

VARIABLES
    inputs,   \* which inputs the patch has
    disk,     \* file -> contents
    todo,     \* files the stage still has to write
    metadata, \* what the running stage knows of dates and baselines
    result,   \* "none", "running", "refusing", "ok", "failed", "killed"
    last      \* bp1 and ph1 as the last successful run left them

stage1Vars == <<inputs, disk, todo, metadata, result, last>>

Absent == [tag |-> "absent"]
Torn == [tag |-> "torn"]
Holds(x) == [tag |-> "value", v |-> x]
Exists(f) == disk[f] # Absent
Whole(f) == disk[f].tag = "value"

-----------------------------------------------------------------------------
\* Metadata: the dates in the order of the columns of pscands.1.ph, as far as
\* the source knows it, and per-candidate baselines if it has them.

\* build_metadata: the dates in order, the master put in its place.
DayFirst(day, i, j) == day[i] < day[j] \/ (day[i] = day[j] /\ i < j)
DayIx(day) ==
    Sorted([i \in 1..Len(day) |-> {j \in 1..Len(day) : DayFirst(day, j, i)}])
MasterIx(day) == Cardinality({i \in DOMAIN day : day[i] < Master}) + 1
DayFull(day) ==
    InsertAt([c \in 1..Len(day) |-> day[DayIx(day)[c]]], MasterIx(day), Master)

NoMat == <<>>
NoResult == <<>>
BuildMetadata(day, mat) ==
    [day_full |-> DayFull(day), master_ix |-> MasterIx(day),
     day_ix |-> DayIx(day), mat |-> mat]

\* metadata_from_text, from files that hold one line for each interferogram.
MetadataFromText(mat) == BuildMetadata(Slaves, mat)

\* metadata_from_existing_ps1: the master's column is taken out of the old
\* dates, and the old per-candidate baselines are taken as they are.
MetadataFromExistingPs1 ==
    LET old == disk["ps1"].v IN
    BuildMetadata(RemoveAt(old.days, old.master_ix),
                  IF Whole("bp1") THEN disk["bp1"].v ELSE NoMat)

\* snap_patch_bperp_vector: the baseline of every candidate, in input order.
SnapBperp == [r \in 1..NPs |-> [c \in DOMAIN Slaves |-> <<r, Slaves[c]>>]]

\* snap_ifg_records, single_master_day, resolve_rslc_par: the *.base files
\* name one master, and it has a parameter file or there is only one.
SnapRecords == inputs.masters # {}
SingleMaster == inputs.masters = {Master}
RslcPar == Master \in inputs.pars \/ Cardinality(inputs.pars) = 1
SnapUsable == SnapRecords /\ SingleMaster /\ RslcPar

\* resolve_file_optional: text files near the patch, or written into it by an
\* earlier run.
HasText == inputs.kind = "text" \/ \A f \in Text : Exists(f)
HasOldPs1 == ~HasText /\ Whole("ps1")
UsesSnap == ~HasText /\ disk["ps1"] = Absent

\* resolve_stage1_metadata: text files, then an existing ps1.mat, then SNAP.
Metadata ==
    IF HasText THEN MetadataFromText(NoMat)
    ELSE IF HasOldPs1 THEN MetadataFromExistingPs1
    ELSE MetadataFromText(SnapBperp)

\* No source, a ps1.mat that cannot be read, or an empty text file that a
\* killed run left behind: the three files must have one line for each date.
TextTorn == inputs.kind # "text" /\ \E f \in Text : disk[f] = Torn
Resolves ==
    \/ HasText /\ ~TextTorn
    \/ HasOldPs1
    \/ UsesSnap /\ SnapUsable /\ ~TextTorn

-----------------------------------------------------------------------------
\* What the stage writes.

\* The column of pscands.1.ph that becomes column c, and the master's 1 + 0i.
PhaseCell(meta, cand, c) ==
    IF c = meta.master_ix THEN <<0, Master>>
    ELSE LET sorted == IF c > meta.master_ix THEN c - 1 ELSE c IN
         <<cand, Slaves[meta.day_ix[sorted]]>>

Ph1(meta) == [r \in 1..NPs |->
    [c \in DOMAIN meta.day_full |-> PhaseCell(meta, SortIx[r], c)]]

\* Mutant of Bp1: the columns keep the order of the metadata.
Bp1ColumnsKept(meta) ==
    LET dates == RemoveAt(meta.day_full, meta.master_ix) IN
    [r \in 1..NPs |-> [c \in DOMAIN meta.day_ix |->
        IF meta.mat # NoMat THEN meta.mat[SortIx[r]][c] ELSE <<0, dates[c]>>]]

\* The baselines without the master: per candidate, or the same for all.
Bp1(meta) ==
    LET dates == RemoveAt(meta.day_full, meta.master_ix) IN
    [r \in 1..NPs |-> [c \in DOMAIN meta.day_ix |->
        IF meta.mat # NoMat THEN meta.mat[SortIx[r]][meta.day_ix[c]]
        ELSE <<0, dates[c]>>]]

Ps1(meta) == [rows |-> SortIx, days |-> meta.day_full, master_ix |-> meta.master_ix]

\* write_lines_if_missing for the three files, before the phase is read.
SnapTextIO == {f \in Text : ~Exists(f)}

\* The products; an optional input whose length is not that of the patch
\* leaves the old product in place.
ProductsIO == Products \cup inputs.optional

\* The files in the order in which the code writes them.
WriteOrder == [day |-> 1, master_day |-> 2, bperp |-> 3, ps1 |-> 4, ph1 |-> 5, psver |-> 6,
               da1 |-> 7, hgt1 |-> 8, la1 |-> 9, bp1 |-> 10]
Contents(f) ==
    CASE f \in Text -> 1
      [] f = "ps1" -> Ps1(metadata)
      [] f = "ph1" -> Ph1(metadata)
      [] f = "bp1" -> Bp1(metadata)
      [] f = "psver" -> 1
      [] f \in Optional -> SortIx

Running == result \in {"running", "refusing"}
NoMetadata == [day_full |-> <<>>]

\* run_stage1_native up to its first write.  Missing candidate files are
\* found before anything is written; the number of columns of the phase file
\* is that of the metadata in every state reached here.  A text file that a
\* killed run left torn is an error after the others were completed.
Start ==
    /\ ~Running
    /\ IF Resolves
       THEN /\ todo' = (IF UsesSnap THEN SnapTextIO ELSE {}) \cup ProductsIO
            /\ metadata' = Metadata
            /\ result' = "running"
       ELSE /\ todo' = IF UsesSnap /\ SnapUsable THEN SnapTextIO ELSE {}
            /\ result' = IF UsesSnap /\ SnapUsable THEN "refusing" ELSE "failed"
            /\ UNCHANGED metadata
    /\ UNCHANGED <<inputs, disk, last>>

BundleExists == \A f \in Products : Exists(f)

\* The `run` subcommand executes the stage when its bundle is not complete,
\* the `stage1` subcommand whenever it is called.
RunPlanned == ~BundleExists /\ Start
RunDirect == Start

\* One write: File::create empties the file, then the bytes follow.
Turn(f) == Running /\ f \in todo /\ \A g \in todo : WriteOrder[f] <= WriteOrder[g]

BeginWrite(f) ==
    /\ Turn(f) /\ disk[f] # Torn
    /\ disk' = [disk EXCEPT ![f] = Torn]
    /\ UNCHANGED <<inputs, todo, metadata, result, last>>

EndWrite(f) ==
    /\ Turn(f) /\ disk[f] = Torn
    /\ disk' = [disk EXCEPT ![f] = Holds(Contents(f))]
    /\ todo' = todo \ {f}
    /\ UNCHANGED <<inputs, metadata, result, last>>

Leave == todo' = {} /\ metadata' = NoMetadata /\ UNCHANGED <<inputs, disk>>

Fail ==
    /\ result = "refusing" /\ todo = {}
    /\ result' = "failed" /\ UNCHANGED last /\ Leave

Finish ==
    /\ result = "running" /\ todo = {}
    /\ result' = "ok" /\ Leave
    /\ last' = [bp1 |-> disk["bp1"].v, ph1 |-> disk["ph1"].v]

Kill ==
    /\ Running
    /\ result' = "killed" /\ UNCHANGED last /\ Leave

\* The user deletes a product, or a file that the killed run left torn.
Delete ==
    /\ ~Running
    /\ \E f \in Products \cup Text :
         /\ Exists(f) /\ (f \in Text => disk[f] = Torn)
         /\ disk' = [disk EXCEPT ![f] = Absent]
    /\ UNCHANGED <<inputs, todo, metadata, result, last>>

\* A patch as stage 1 meets it: text files near it, a SNAP layout around it,
\* or the products of another implementation without either.
OldProducts(f) ==
    CASE f = "ps1" -> Holds(Ps1(MetadataFromText(NoMat)))
      [] f = "bp1" -> Holds([r \in 1..NPs |->
                        [c \in DOMAIN Slaves |-> <<SortIx[r], Slaves[DayIx(Slaves)[c]]>>]])
      [] OTHER -> Absent

Stage1Init ==
    /\ inputs \in [kind : {"text", "snap", "old"}, optional : {{}, Optional}, pars : SUBSET Pars,
                   masters : {{}, {Master}, ToSet(Slaves) \cup {Master}}]
    /\ IF inputs.kind = "snap" THEN SnapRecords ELSE inputs.masters = {} /\ inputs.pars = {}
    /\ disk = [f \in Products \cup Text \cup Optional |->
                 IF inputs.kind = "old" THEN OldProducts(f) ELSE Absent]
    /\ todo = {} /\ metadata = NoMetadata /\ result = "none" /\ last = NoResult

Stage1Next ==
    \/ RunPlanned \/ RunDirect
    \/ \E f \in todo : BeginWrite(f) \/ EndWrite(f)
    \/ Fail \/ Finish \/ Kill \/ Delete

Stage1Spec == Stage1Init /\ [][Stage1Next]_stage1Vars

-----------------------------------------------------------------------------
\* Types: a product that was completed has a row for every candidate.
Stage1TypeOK ==
    /\ inputs.optional \subseteq Optional
    /\ todo \subseteq Products \cup Text \cup Optional
    /\ result \in {"none", "running", "refusing", "ok", "failed", "killed"}
    /\ \A f \in Products \cup Text \cup Optional : disk[f].tag \in {"absent", "torn", "value"}
    /\ \A f \in {"ph1", "bp1"} : Whole(f) => DOMAIN disk[f].v = 1..NPs

About(cell, cand, date) == cell = <<cand, date>> \/ cell = <<0, date>>

\* Row r and column c of every matrix are about the same candidate and date.
RowsAligned ==
    LET days == DayFull(Slaves)
        dates == RemoveAt(days, MasterIx(Slaves)) IN
    /\ Whole("bp1") => \A r \in 1..NPs : \A c \in DOMAIN dates :
         About(disk["bp1"].v[r][c], SortIx[r], dates[c])
    /\ Whole("ph1") => \A r \in 1..NPs : \A c \in DOMAIN days :
         About(disk["ph1"].v[r][c], SortIx[r], days[c])

\* Whenever the metadata comes from text or SNAP files, every whole product
\* is aligned with the candidates and dates of ps1, also after a kill, a
\* partial rerun or a deletion.
Aligned == inputs.kind = "old" \/ RowsAligned

\* A later successful run on text or SNAP files reproduces the phase, and a
\* baseline either as it was or, on SNAP files, as the mean of its date: the
\* text files written by the first run carry no per-candidate baseline.
DegradesToMean ==
    result' = "ok" /\ result = "running" /\ last # NoResult /\ inputs.kind # "old" =>
        /\ last'.ph1 = last.ph1
        /\ \A r \in 1..NPs : \A c \in DOMAIN last.bp1[r] :
             \/ last'.bp1[r][c] = last.bp1[r][c]
             \/ SnapRecords /\ last'.bp1[r][c] = <<0, last.bp1[r][c][2]>>
RerunDegradesOnlyToMean == [][DegradesToMean]_stage1Vars
=============================================================================
