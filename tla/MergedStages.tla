---------------------------- MODULE MergedStages ----------------------------
(***************************************************************************)
(* The merged stages 5 to 8 over many run_pipeline invocations:            *)
(* _run_merged_stage of src/pystamps/pipeline/stages.py, with the phase    *)
(* product that stages 7 and 8 take (phuw2.mat, corrected by GACOS, by the *)
(* post-unwrapping deramp, or by both), the two kinds of marker that       *)
(* decide what is computed again, and the inversion that stage 6 repeats   *)
(* when FINAL-QC drops interferograms.                                     *)
(*                                                                         *)
(* As in PatchStages a file is known by the stamp of its last write, and   *)
(* from[f] records what the code that wrote f had read.  Stage 6 and stage *)
(* 8 may first have to compute the product of an earlier stage: job is the *)
(* stage being computed, stage the one the run is at.                      *)
(***************************************************************************)
EXTENDS Naturals

CONSTANT Setups   \* how the program may be used: the members of the record are named below
ASSUME MergedAssumption ==
    \A u \in Setups :
        /\ u.writes \in Nat \ {0} /\ {u.edits, u.stops} \subseteq Nat
        /\ u.starts \union u.ends \subseteq 5..8
        /\ u.corrections \subseteq {"gacos", "deramp"}
        /\ u.editable \subseteq {"qc", "corr", "rebuild", "patch"}
        /\ u.shared \in BOOLEAN

Stage == 5..8

(* patch stands for the outputs of patch stage 5, merged for ps2, ifgstd2  *)
(* and the other files of merged stage 5, gacos, deramp and gacos_deramp   *)
(* for phuw2_gacos, phuw2_deramp and phuw2_gacos_deramp.                   *)
Corrected == {"gacos", "deramp", "gacos_deramp"}
PhaseFile == {"phuw2"} \union Corrected
File      == {"patch", "merged", "scla", "scn"} \union PhaseFile

Product == [s \in Stage |-> CASE s = 5 -> "merged" [] s = 6 -> "phuw2"
                              [] s = 7 -> "scla"   [] OTHER -> "scn"]

VARIABLES
    setup,     \* the member of Setups that is explored, never changed
    pc,        \* "idle", or where the run is in the current stage
    first,     \* start_step of the run
    last,      \* end_step of the run
    stage,     \* the stage the run is at
    job,       \* the stage whose product is being computed
    status,    \* StageResult.status of each stage in the report
    conf,      \* the run configuration: QC settings, corrections, rebuild
    drop,      \* 1 when parms.drop_ifg_index drops interferograms
    audit,     \* QC settings recorded in grid_ifg_selection.json
    stamp,     \* stamp of the last write of each file, 0 when it is absent
    whole,     \* the files whose last writer finished writing them
    clock,     \* the largest stamp given out
    marked,    \* the stages that have a provenance marker
    marker,    \* what it says
    phaseMark, \* phase-input marker of stages 7 and 8
    record,    \* stamps of the inputs in the cache record of each corrected phase
    from,      \* what each file was computed from
    ctx,       \* context.stage78_phase_file, "none" when unset
    phase,     \* phase_file of the stage the run is at
    read,      \* what the job being computed has read
    built,     \* history: how often this run wrote each corrected phase
    suspect,   \* history: files whose last writer was stopped before its marker
    edits,     \* number of edits so far
    stops      \* number of stages that raised and runs that were killed so far

run   == <<pc, first, last, stage, job, status, ctx, phase, read, built>>
files == <<stamp, whole, clock, from>>
marks == <<marked, marker, phaseMark, record, audit>>
bounds == <<edits, stops>>
vars  == <<setup, run, conf, drop, files, marks, suspect, bounds>>

MaxStamp == setup.writes           \* bound: number of file writes
MaxEdits == setup.edits            \* bound: number of edits by the user
MaxStops == setup.stops            \* bound: stages that raise and runs that are killed
FirstSteps == setup.starts         \* the values of start_step and of end_step
LastSteps == setup.ends            \* the user runs with
Corrections == setup.corrections   \* the corrections the user may enable
Editable == setup.editable         \* what the user edits: "qc", "corr", "rebuild", "patch"
SharedContext == setup.shared      \* TRUE when merged stages run in the driver's process

NoFiles == [f \in File |-> 0]
NoMark  == [file |-> "none", stamp |-> 0]
Nothing == [files |-> NoFiles, drop |-> 0, qc |-> 0]
NoAudit == 2
Unsigned ==
    [files |-> NoFiles, drop |-> 0, qc |-> 0, corr |-> {}, rebuild |-> FALSE, phase |-> "none"]

Stamps(names) == [f \in File |-> IF f \in names THEN stamp[f] ELSE 0]

\* Mutant of SignedFiles: stage 6 does not sign the merged files.
SignedFilesNoMerged(s, ph) ==
    CASE s = 5 -> {"patch"}
      [] s = 6 -> {}
      [] s = 7 -> {"merged", ph}
      [] OTHER -> {"merged", ph, "scla"}

\* What build_stage_signature signs for stage s with phase_file ph ...
SignedFiles(s, ph) ==
    CASE s = 5 -> {"patch"}
      [] s = 6 -> {"merged"}
      [] s = 7 -> {"merged", ph}
      [] OTHER -> {"merged", ph, "scla"}

Signature(s, ph) ==
    [files   |-> Stamps(SignedFiles(s, ph)),
     drop    |-> IF s = 5 THEN 0 ELSE drop,
     qc      |-> IF s = 6 THEN conf.qc ELSE 0,
     corr    |-> IF s < 7 THEN {} ELSE conf.corr,
     rebuild |-> IF s < 7 THEN FALSE ELSE conf.rebuild,
     phase   |-> IF s < 7 THEN "none" ELSE ph]

\* ... and what its code reads: stage 7 also takes phuw_sb2 of stage 6.
ReadFiles(s, ph) ==
    CASE s = 5 -> {"patch"}
      [] s = 6 -> {"merged"}
      [] s = 7 -> {"merged", "phuw2", ph}
      [] OTHER -> {"merged", ph, "scla"}

Derivation(s, ph) ==
    [files |-> Stamps(ReadFiles(s, ph)),
     drop  |-> IF s = 5 THEN 0 ELSE drop,
     qc    |-> IF s = 6 THEN conf.qc ELSE 0]

Present(names) == \A f \in names : stamp[f] > 0

-----------------------------------------------------------------------------
\* The phase product of stages 7 and 8.

\* The file that carries all the corrections enabled in the configuration.
Target ==
    CASE conf.corr = {}         -> "phuw2"
      [] conf.corr = {"gacos"}  -> "gacos"
      [] conf.corr = {"deramp"} -> "deramp"
      [] OTHER                  -> "gacos_deramp"

\* The next file to make after ph: GACOS first, then the deramp.
NextPhase(ph) ==
    IF ph # "phuw2" THEN "gacos_deramp"
    ELSE IF "gacos" \in conf.corr THEN "gacos" ELSE "deramp"

\* Mutant of Reusable: the cache record is not compared with the source.
ReusableIfPresent(ph, q) == stamp[q] > 0 /\ record[q] # NoFiles /\ ~conf.rebuild

\* The cached product is returned when its record matches its inputs: the
\* phase file it corrects, and ps2 or inc2 of merged stage 5.
Reusable(ph, q) == stamp[q] > 0 /\ record[q] = Stamps({ph, "merged"}) /\ ~conf.rebuild

\* _phase_input_is_current: without a marker only phuw2.mat is current.
PhaseCurrent(s, ph) ==
    IF phaseMark[s] = NoMark
      THEN ph = "phuw2"
      ELSE stamp[ph] > 0 /\ phaseMark[s] = [file |-> ph, stamp |-> stamp[ph]]

\* Why _run_merged_stage recomputes stage s whatever its provenance says.
Forced(s, ph) ==
    CASE s = 6 -> audit # conf.qc
      [] s = 7 -> ~PhaseCurrent(7, ph)
      [] s = 8 -> ~PhaseCurrent(8, ph) \/ ~PhaseCurrent(7, ph)
      [] OTHER -> FALSE

WouldSkip(s, ph) ==
    /\ ~Forced(s, ph)
    /\ stamp[Product[s]] > 0
    /\ s = 6 => stamp["merged"] > 0
    /\ s \in marked /\ marker[s] = Signature(s, ph)

-----------------------------------------------------------------------------
Init ==
    /\ setup \in Setups
    /\ pc = "idle"
    /\ first = 5 /\ last = 8 /\ stage = 5 /\ job = 5
    /\ status = [s \in Stage |-> "none"]
    /\ conf \in [qc : {0}, corr : SUBSET Corrections, rebuild : {FALSE}]
    /\ drop = 0
    /\ audit = NoAudit
    /\ stamp = [NoFiles EXCEPT !["patch"] = 1]
    /\ whole = {"patch"}
    /\ clock = 1
    /\ marked = {}
    /\ marker = [s \in Stage |-> Unsigned]
    /\ phaseMark = [s \in {7, 8} |-> NoMark]
    /\ record = [q \in Corrected |-> NoFiles]
    /\ from = [f \in File |-> Nothing]
    /\ ctx = "none" /\ phase = "phuw2"
    /\ read = Nothing
    /\ built = [q \in Corrected |-> 0]
    /\ suspect = {}
    /\ edits = 0 /\ stops = 0

Leave ==
    /\ pc' = "idle"
    /\ first' = 5 /\ last' = 8 /\ stage' = 5 /\ job' = 5
    /\ status' = [s \in Stage |-> "none"]
    /\ ctx' = "none" /\ phase' = "phuw2"
    /\ read' = Nothing
    /\ built' = [q \in Corrected |-> 0]

\* pystamps run --start-step i --end-step j, seen from merged stage 5 on.
StartRun(i, j) ==
    /\ pc = "idle"
    /\ pc' = "check"
    /\ first' = i /\ last' = j /\ stage' = i
    /\ UNCHANGED <<job, status, ctx, phase, read, built, conf, drop, files, marks, suspect, bounds>>

\* The stage's result is reported.  A failed merge breaks the stage loop; a
\* stage in a process of its own leaves no trace in the driver's context.
Advance(result) ==
    /\ status' = [status EXCEPT ![stage] = result]
    /\ stage' = IF stage = 5 /\ result = "failed" THEN last + 1 ELSE stage + 1
    /\ pc' = "check"
    /\ ctx' = IF SharedContext THEN ctx ELSE "none"
    /\ phase' = "phuw2"
    /\ read' = Nothing
    /\ UNCHANGED <<first, last, job, built>>

\* Write file f, with what it was computed from.
Write(f, source, complete) ==
    /\ clock < MaxStamp
    /\ clock' = clock + 1
    /\ stamp' = [stamp EXCEPT ![f] = clock']
    /\ whole' = IF complete THEN whole \union {f} ELSE whole \ {f}
    /\ from' = [from EXCEPT ![f] = source]

-----------------------------------------------------------------------------
\* _resolve_stage78_phase_file

\* Stages 7 and 8 begin with the phase file, kept for the whole invocation.
Enter ==
    /\ pc = "check" /\ stage <= last
    /\ pc' = IF stage \in {7, 8} /\ ctx = "none" THEN "resolve" ELSE "decide"
    /\ phase' = IF stage \in {7, 8} /\ ctx # "none" THEN ctx ELSE "phuw2"
    /\ UNCHANGED <<first, last, stage, job, status, ctx, read, built,
                   conf, drop, files, marks, suspect, bounds>>

ReuseProduct ==
    /\ pc = "resolve" /\ phase # Target
    /\ Reusable(phase, NextPhase(phase))
    /\ phase' = NextPhase(phase)
    /\ UNCHANGED <<pc, first, last, stage, job, status, ctx, read, built,
                   conf, drop, files, marks, suspect, bounds>>

\* GACOS replaces its file in one step; the deramp writes it in place.
MakeProduct ==
    LET q == NextPhase(phase) IN
    /\ pc = "resolve" /\ phase # Target
    /\ ~Reusable(phase, q)
    /\ Present({phase, "merged"})
    /\ Write(q, [Nothing EXCEPT !.files = Stamps({phase, "merged"})], q = "gacos")
    /\ built' = [built EXCEPT ![q] = @ + 1]
    /\ suspect' = suspect \union {q}
    /\ pc' = "record"
    /\ UNCHANGED <<first, last, stage, job, status, ctx, phase, read, conf, drop, marks, bounds>>

\* The cache record names the inputs as they were when the product was begun.
RecordProduct ==
    LET q == NextPhase(phase) IN
    /\ pc = "record"
    /\ record' = [record EXCEPT ![q] = from[q].files]
    /\ whole' = whole \union {q}
    /\ suspect' = suspect \ {q}
    /\ phase' = q
    /\ pc' = "resolve"
    /\ UNCHANGED <<first, last, stage, job, status, ctx, read, built, conf, drop,
                   stamp, clock, from, marked, marker, phaseMark, audit, bounds>>

\* Mutant of Resolved: the phase file is not kept in the context.
ResolvedNotKept ==
    /\ pc = "resolve" /\ phase = Target
    /\ pc' = "decide"
    /\ UNCHANGED <<first, last, stage, job, status, ctx, phase, read, built,
                   conf, drop, files, marks, suspect, bounds>>

Resolved ==
    /\ pc = "resolve" /\ phase = Target
    /\ ctx' = phase
    /\ pc' = "decide"
    /\ UNCHANGED <<first, last, stage, job, status, phase, read, built,
                   conf, drop, files, marks, suspect, bounds>>

-----------------------------------------------------------------------------
\* The rest of _run_merged_stage.

Skip ==
    /\ pc = "decide"
    /\ WouldSkip(stage, phase)
    /\ Advance("skipped_existing")
    /\ UNCHANGED <<conf, drop, files, marks, suspect, bounds>>

\* Mutant of Recompute: stage 8 takes the SCLA that is there.
RecomputeStage8Alone ==
    /\ pc = "decide"
    /\ ~WouldSkip(stage, phase)
    /\ job' = IF stage = 6 /\ ~Present({"merged"}) THEN 5 ELSE stage
    /\ pc' = "begin"
    /\ UNCHANGED <<first, last, stage, status, ctx, phase, read, built,
                   conf, drop, files, marks, suspect, bounds>>

\* Stage 6 merges first when ifgstd2 is missing; stage 8 computes the SCLA
\* first when stage 7 has another phase input.
Recompute ==
    /\ pc = "decide"
    /\ ~WouldSkip(stage, phase)
    /\ job' = CASE stage = 6 /\ ~Present({"merged"})    -> 5
                [] stage = 8 /\ ~PhaseCurrent(7, phase) -> 7
                [] OTHER -> stage
    /\ pc' = "begin"
    /\ UNCHANGED <<first, last, stage, status, ctx, phase, read, built,
                   conf, drop, files, marks, suspect, bounds>>

\* Stages 5, 7 and 8 overwrite their files in place, the one that is modelled
\* possibly as the last of its bundle: ifgstd2 and scla2 are.
BeginJob ==
    /\ pc = "begin" /\ job # 6
    /\ Present(ReadFiles(job, phase))
    /\ \/ Write(Product[job], Nothing, FALSE)
       \/ /\ job # 8
          /\ whole' = whole \ {Product[job]}
          /\ UNCHANGED <<stamp, clock, from>>
    /\ read' = Derivation(job, phase)
    /\ suspect' = suspect \union {Product[job]}
    /\ pc' = "write"
    /\ UNCHANGED <<first, last, stage, job, status, ctx, phase, built, conf, drop, marks, bounds>>

FinishJob ==
    /\ pc = "write" /\ job # 6
    /\ Write(Product[job], read, TRUE)
    /\ pc' = IF job = 5 THEN "commit" ELSE "mark"
    /\ UNCHANGED <<first, last, stage, job, status, ctx, phase, read, built,
                   conf, drop, marks, suspect, bounds>>

\* resolve_ifg_selection may restore or replace the drop list; then the old
\* outputs are moved away.
BeginUnwrap(d) ==
    /\ pc = "begin" /\ job = 6
    /\ Present({"merged"})
    /\ drop' = d
    /\ stamp' = [stamp EXCEPT !["phuw2"] = 0]
    /\ whole' = whole \ {"phuw2"}
    /\ from' = [from EXCEPT !["phuw2"] = Nothing]
    /\ read' = Derivation(6, phase)
    /\ suspect' = suspect \union {"phuw2"}
    /\ pc' = "invert"
    /\ UNCHANGED <<first, last, stage, job, status, ctx, phase, built, conf, clock, marks, bounds>>

\* After the GRID audit all interferograms are unwrapped and inverted.  Before
\* SNAPHU parms.mat is written with an empty list: the state before the audit
\* is kept (3672) and put back (3826-3851) whatever the audit found.
FirstInversion ==
    /\ pc = "invert"
    /\ audit' = conf.qc
    /\ drop' = 0
    /\ Write("phuw2", Nothing, FALSE)
    /\ pc' = "finalqc"
    /\ UNCHANGED <<first, last, stage, job, status, ctx, phase, read, built, conf,
                   marked, marker, phaseMark, record, suspect, bounds>>

\* FINAL-QC decides what to drop; without drops the first inversion stands.
FinalQC(d) ==
    /\ pc = "finalqc"
    /\ drop' = d
    /\ pc' = IF d = 0 THEN "commit" ELSE "write"
    /\ IF d = 0 THEN /\ whole' = whole \union {"phuw2"}
                     /\ from' = [from EXCEPT !["phuw2"] = [read EXCEPT !.drop = 0]]
                ELSE UNCHANGED <<whole, from>>
    /\ read' = [read EXCEPT !.drop = d]
    /\ UNCHANGED <<first, last, stage, job, status, ctx, phase, built, conf,
                   stamp, clock, marks, suspect, bounds>>

SecondInversion ==
    /\ pc = "write" /\ job = 6
    /\ Write("phuw2", read, TRUE)
    /\ pc' = "commit"
    /\ UNCHANGED <<first, last, stage, job, status, ctx, phase, read, built,
                   conf, drop, marks, suspect, bounds>>

\* Mutant of MarkPhase: stage 8 writes the marker of stage 7.
MarkPhase7 ==
    /\ pc = "mark"
    /\ phaseMark' = [phaseMark EXCEPT ![7] = [file |-> phase, stamp |-> stamp[phase]]]
    /\ pc' = "commit"
    /\ UNCHANGED <<first, last, stage, job, status, ctx, phase, read, built,
                   conf, drop, files, marked, marker, record, audit, suspect, bounds>>

MarkPhase ==
    /\ pc = "mark"
    /\ phaseMark' = [phaseMark EXCEPT ![job] = [file |-> phase, stamp |-> stamp[phase]]]
    /\ pc' = "commit"
    /\ UNCHANGED <<first, last, stage, job, status, ctx, phase, read, built,
                   conf, drop, files, marked, marker, record, audit, suspect, bounds>>

\* _commit_stage_provenance; then the stage's own job, or the next stage.
Commit ==
    /\ pc = "commit"
    /\ marked' = marked \union {job}
    /\ marker' = [marker EXCEPT ![job] = Signature(job, phase)]
    /\ suspect' = suspect \ {Product[job]}
    /\ IF job = stage
         THEN Advance("completed")
         ELSE /\ job' = stage /\ pc' = "begin"
              /\ UNCHANGED <<first, last, stage, status, ctx, phase, read, built>>
    /\ UNCHANGED <<conf, drop, files, phaseMark, record, audit, bounds>>

Missing ==
    \/ pc = "begin" /\ ~Present(ReadFiles(job, phase))
    \/ pc = "resolve" /\ phase # Target /\ ~Present({phase, "merged"}) /\ ~Reusable(phase, NextPhase(phase))

\* The stage raised: the report says so and the loop goes on.
FailStage ==
    /\ pc \notin {"idle", "export", "check"}
    /\ IF Missing THEN UNCHANGED stops ELSE stops < MaxStops /\ stops' = stops + 1
    /\ ~(pc = "decide" /\ WouldSkip(stage, phase))
    /\ Advance("failed")
    /\ UNCHANGED <<conf, drop, files, marks, suspect, edits>>

\* After the loop the engineering products are exported, if stage 8 is fine
\* and nothing failed.
Exportable ==
    /\ last = 8
    /\ status[8] \in {"completed", "skipped_existing"}
    /\ \A s \in Stage : status[s] # "failed"

EndLoop ==
    /\ pc = "check" /\ stage > last
    /\ IF Exportable
         THEN /\ pc' = "export"
              /\ UNCHANGED <<first, last, stage, job, status, ctx, phase, read, built>>
         ELSE Leave
    /\ UNCHANGED <<conf, drop, files, marks, suspect, bounds>>

Export ==
    /\ pc = "export"
    /\ Leave
    /\ UNCHANGED <<conf, drop, files, marks, suspect, bounds>>

\* The process is killed.  What it had written stays.  (A run for which no
\* stamp is left ends here too.)
Crash ==
    /\ pc # "idle"
    /\ IF stops < MaxStops THEN stops' = stops + 1
                           ELSE clock = MaxStamp /\ UNCHANGED stops
    /\ Leave
    /\ UNCHANGED <<conf, drop, files, marks, suspect, edits>>

-----------------------------------------------------------------------------
\* The user, between runs.

EditConfig(c) ==
    /\ pc = "idle" /\ c # conf
    /\ c.qc # conf.qc => "qc" \in Editable
    /\ c.corr # conf.corr => "corr" \in Editable
    /\ c.rebuild # conf.rebuild => "rebuild" \in Editable
    /\ conf' = c
    /\ edits < MaxEdits /\ edits' = edits + 1
    /\ UNCHANGED <<run, drop, files, marks, suspect, stops>>

\* Stages 1 to 5 of some patch were computed again.
ReplacePatches ==
    /\ pc = "idle" /\ "patch" \in Editable
    /\ Write("patch", Nothing, TRUE)
    /\ edits < MaxEdits /\ edits' = edits + 1
    /\ UNCHANGED <<run, conf, drop, marks, suspect, stops>>

-----------------------------------------------------------------------------
Run ==
    \/ Enter \/ ReuseProduct \/ MakeProduct \/ RecordProduct \/ Resolved
    \/ Skip \/ Recompute \/ BeginJob \/ FinishJob
    \/ \E d \in 0..1 : BeginUnwrap(d)
    \/ FirstInversion
    \/ \E d \in 0..1 : FinalQC(d)
    \/ SecondInversion \/ MarkPhase \/ Commit \/ FailStage \/ EndLoop \/ Export

Config == [qc : 0..1, corr : SUBSET Corrections, rebuild : BOOLEAN]

User ==
    \/ \E i \in FirstSteps, j \in LastSteps : i <= j /\ StartRun(i, j)
    \/ \E c \in Config : EditConfig(c)
    \/ ReplacePatches

Next == (Run \/ Crash \/ User) /\ UNCHANGED setup

Spec == Init /\ [][Next]_vars
-----------------------------------------------------------------------------
Source == [files : [File -> 0..MaxStamp], drop : 0..1, qc : 0..1]
Signed == [files : [File -> 0..MaxStamp], drop : 0..1, qc : 0..1,
           corr : SUBSET Corrections, rebuild : BOOLEAN,
           phase : PhaseFile \union {"none"}]

TypeOK ==
    /\ pc \in {"idle", "check", "resolve", "record", "decide", "begin", "invert",
              "finalqc", "write", "mark", "commit", "export"}
    /\ first \in Stage /\ last \in Stage /\ stage \in 5..9 /\ job \in Stage
    /\ status \in [Stage -> {"none", "completed", "skipped_existing", "failed"}]
    /\ conf \in Config
    /\ drop \in 0..1
    /\ audit \in 0..1 \union {NoAudit}
    /\ stamp \in [File -> 0..MaxStamp]
    /\ whole \subseteq File
    /\ clock \in 0..MaxStamp
    /\ marked \subseteq Stage
    /\ marker \in [Stage -> Signed]
    /\ phaseMark \in [{7, 8} -> [file : PhaseFile \union {"none"}, stamp : 0..MaxStamp]]
    /\ record \in [Corrected -> [File -> 0..MaxStamp]]
    /\ from \in [File -> Source]
    /\ ctx \in PhaseFile \union {"none"} /\ phase \in PhaseFile
    /\ read \in Source
    /\ built \in [Corrected -> 0..2] /\ suspect \subseteq File
    /\ setup \in Setups /\ edits \in 0..MaxEdits /\ stops \in 0..MaxStops

\* The product of stage s was computed from the files and settings of now.
Current(s, ph) == Product[s] \in whole /\ from[Product[s]] = Derivation(s, ph)

(* A merged stage that is skipped has complete outputs, computed from the  *)
(* files and settings of now, unless its last attempt was stopped between  *)
(* the first write and the marker (stages.py:935-962, 1103-1122), whatever *)
(* the user edits between runs, although stage 6 rewrites the drop list    *)
(* that stages 6 to 8 sign and stage 7 does not sign all that it reads.    *)
ReuseHonest ==
    /\ TypeOK
    /\ pc = "decide" /\ WouldSkip(stage, phase) /\ Product[stage] \notin suspect =>
           Current(stage, phase)

Succeeded == pc = "export"

(* The SCN that is exported and the SCLA it was estimated with come from   *)
(* one phase file, the one the configuration asks for, whatever stage the  *)
(* run started at and whatever became of earlier runs, unless stage 7 or 8 *)
(* was stopped before its markers (stages.py:893-919, 1046-1088).          *)
PhaseAgreement ==
    Succeeded /\ suspect \intersect {"scla", "scn"} = {} =>
        /\ from["scn"].files["scla"] = stamp["scla"]
        /\ from["scn"].files[Target] = stamp[Target]
        /\ \A f \in PhaseFile : f = Target \/ f # "phuw2" =>
              from["scla"].files[f] = from["scn"].files[f]

\* The corrected phase files made on the way to Target, and their sources.
Applied == CASE Target = "phuw2"        -> {}
             [] Target = "gacos_deramp" -> {"gacos", "gacos_deramp"}
             [] OTHER                   -> {Target}
SourceOf(q) == IF q = "gacos_deramp" THEN "gacos" ELSE "phuw2"

(* What a successful run exports is current from its first stage on: no    *)
(* product is older than a file or setting it was computed from, although  *)
(* a corrected phase is reused on the word of its cache record and stage 7 *)
(* reads phuw_sb2.mat, which only the phase file stands for in its marker. *)
ExportCurrent ==
    Succeeded /\ suspect = {} =>
        /\ \A s \in first..8 : Current(s, Target)
        /\ \A q \in Applied : q \in whole /\ from[q].files = Stamps({SourceOf(q), "merged"})

(* A run that just succeeded would be skipped as a whole if it were        *)
(* repeated, unless a rebuild is asked for: committing the later stages    *)
(* leaves the markers of the earlier ones current.                         *)
RerunSkips ==
    Succeeded /\ ~conf.rebuild => \A s \in first..8 : WouldSkip(s, Target)

(* README.md:490: with rebuild: true, the corrected phase is rebuilt once  *)
(* and shared by stages 7 and 8 within the same invocation.  (After a      *)
(* failed stage there is nothing to share.)                                *)
RebuildOnce ==
    \A q \in Corrected : built[q] > 1 => \E s \in Stage : status[s] = "failed"

\* It holds where the stages share the context, that is without a pool.
RebuildShared == SharedContext => RebuildOnce

(* stages.py:908: a direct Stage-8 execution must not use an SCLA          *)
(* generated from a different phase input.                                 *)
DirectStage8SameInput ==
    pc = "write" /\ job = 8 /\ "scla" \in whole =>
        \A f \in PhaseFile : f = phase \/ f # "phuw2" =>
              from["scla"].files[f] = read.files[f]
=============================================================================
