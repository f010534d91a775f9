----------------------------- MODULE PatchStages -----------------------------
(***************************************************************************)
(* Stages 1 to 5 of one PATCH_* directory over many run_pipeline           *)
(* invocations: _run_patch_stage of src/pystamps/pipeline/stages.py with   *)
(* the provenance markers of provenance.py and the files that ported.py    *)
(* reads and writes.                                                       *)
(*                                                                         *)
(* A stage is skipped when its files exist and its marker equals the       *)
(* signature of its inputs and settings as they are now; otherwise it      *)
(* overwrites its files in place and then writes its marker.  Between two  *)
(* invocations the user edits settings, replaces inputs or deletes         *)
(* outputs; a run can crash anywhere and a stage can fail anywhere, after  *)
(* which run_pipeline goes on with the next stage.                         *)
(*                                                                         *)
(* A file is known by the stamp of its last write, as size and mtime_ns    *)
(* make it known to _file_signature; from[s] records what the numerical    *)
(* code of stage s really read, whatever the marker says of it.            *)
(***************************************************************************)
EXTENDS Naturals

CONSTANTS
    Last,           \* last stage of the chain that is modelled
    MaxStamp,       \* bound: number of file writes
    FirstSteps,     \* the values of start_step the user runs with
    EditableKeys,   \* the settings the user edits
    LiveEdits,      \* TRUE when settings may change while a run is going on
    Failures        \* TRUE when a stage may raise

ASSUME StagesAssumption ==
    /\ Last \in 2..5
    /\ MaxStamp \in Nat
    /\ FirstSteps \subseteq 1..Last
    /\ EditableKeys \subseteq {"filter", "select", "weed", "drop"}
    /\ LiveEdits \in BOOLEAN
    /\ Failures \in BOOLEAN

Stage == 1..Last

(* aux1 stands for ph1, bp1, da1, hgt1, la1 and inc1, which are written    *)
(* together with ps1; ps2 for the promoted bundle of stage 5.              *)
File    == {"ps1", "aux1", "pm1", "select1", "weed1", "ps2"}
Product == <<"ps1", "pm1", "select1", "weed1", "ps2">>

(* Settings in parms.mat, by the stage whose signature lists them: filter  *)
(* for clap_*, filter_* and gamma_*, select for select_method, *_rand and  *)
(* gamma_stdev_reject, weed for weed_*, drop for drop_ifg_index.           *)
Key == {"filter", "select", "weed", "drop"}

\* Mutant of SignedFiles: stage 3 does not sign pm1.mat.
SignedFilesNoPm1 ==
    << {},
       {"ps1", "aux1"},
       {"ps1"},
       {"ps1", "pm1", "select1"},
       {"ps1", "aux1", "pm1", "select1", "weed1"} >>

\* What provenance.py signs ...
SignedFiles ==
    << {},
       {"ps1", "aux1"},
       {"ps1", "pm1"},
       {"ps1", "pm1", "select1"},
       {"ps1", "aux1", "pm1", "select1", "weed1"} >>
SignedKeys == << {}, {"filter"}, {"select"}, {"weed"}, {} >>

\* ... and what the numerical code of ported.py reads.
ReadFiles ==
    << {},
       {"ps1", "aux1"},
       {"ps1", "aux1", "pm1"},
       {"ps1", "aux1", "select1"},
       {"ps1", "aux1", "pm1", "select1", "weed1"} >>
ReadKeys == << {}, {"filter"}, {"filter", "select", "drop"}, {"weed", "drop"}, {} >>

VARIABLES
    pc,        \* "idle", or where the run is in the current stage
    first,     \* start_step of the run
    last,      \* end_step of the run
    stage,     \* the stage the run is at
    status,    \* StageResult.status of each stage in the report
    settings,  \* the settings now in parms.mat
    present,   \* the files (for ps2: all the files of the bundle) that exist
    whole,     \* the files whose last writer finished writing them
    stamp,     \* stamp of the last write of each file, 0 when it is absent
    clock,     \* the largest stamp given out
    marked,    \* the stages that have a marker file
    marker,    \* what it says
    from,      \* what each stage's product was computed from
    read,      \* what the stage being computed has read
    suspect    \* history: stages whose last writer did not commit what it read

world == <<settings, present, whole, stamp, clock>>
vars  == <<pc, first, last, stage, status, world, marked, marker, from, read, suspect>>

Restricted(files, keys) ==
    [files |-> [f \in File |-> IF f \in files THEN stamp[f] ELSE 0],
     keys  |-> [k \in Key |-> IF k \in keys THEN settings[k] ELSE 0]]

\* build_stage_signature, for the inputs and settings as they are now.
Signature(s) == Restricted(SignedFiles[s], SignedKeys[s])

\* What stage s would compute its product from if it ran now.
Derivation(s) == Restricted(ReadFiles[s], ReadKeys[s])

Nothing == [files |-> [f \in File |-> 0], keys |-> [k \in Key |-> 0]]

\* Mutant of WouldSkip: only the input files are compared.
WouldSkipFilesOnly(s) ==
    /\ Product[s] \in present
    /\ s = 1 => "aux1" \in present
    /\ s # 1 => s \in marked /\ marker[s].files = Signature(s).files

\* The condition under which _run_patch_stage returns "skipped_existing".
WouldSkip(s) ==
    /\ Product[s] \in present
    /\ s = 1 => "aux1" \in present
    /\ s # 1 => s \in marked /\ marker[s] = Signature(s)

Init ==
    /\ pc = "idle"
    /\ first = 1 /\ last = Last /\ stage = 1
    /\ status = [s \in Stage |-> "none"]
    /\ settings = [k \in Key |-> 0]
    /\ present = {} /\ whole = {}
    /\ stamp = [f \in File |-> 0]
    /\ clock = 0
    /\ marked = {}
    /\ marker = [s \in Stage |-> Nothing]
    /\ from = [s \in Stage |-> Nothing]
    /\ read = Nothing
    /\ suspect = {}

-----------------------------------------------------------------------------
\* The run.

Advance(result) ==
    /\ status' = [status EXCEPT ![stage] = result]
    /\ stage' = stage + 1
    /\ read' = Nothing
    /\ pc' = "check"

\* The process ends: its report and what it held in memory are gone.
Leave ==
    /\ pc' = "idle"
    /\ first' = 1 /\ last' = Last /\ stage' = 1
    /\ status' = [s \in Stage |-> "none"]
    /\ read' = Nothing

\* pystamps run --start-step i --end-step j.  Stage 1 is checked as a whole
\* before the stage loop; with a later start_step it is not looked at.
StartRun(i, j) ==
    /\ pc = "idle"
    /\ first' = i /\ last' = j /\ stage' = i
    /\ pc' = IF i = 1 /\ ~ {"ps1", "aux1"} \subseteq present THEN "prepare" ELSE "check"
    /\ UNCHANGED <<status, world, marked, marker, from, read, suspect>>

\* prepare_gamma_sbas_stage1 writes the Stage-1 dataset.
Prepare ==
    /\ pc = "prepare"
    /\ clock < MaxStamp
    /\ clock' = clock + 1
    /\ stamp' = [stamp EXCEPT !["ps1"] = clock', !["aux1"] = clock']
    /\ present' = present \union {"ps1", "aux1"}
    /\ whole' = whole \union {"ps1", "aux1"}
    /\ pc' = "check"
    /\ UNCHANGED <<first, last, stage, status, settings, marked, marker, from, read, suspect>>

\* It raised: run_pipeline ends with a StageExecutionError, without a report.
PrepareFails ==
    /\ pc = "prepare"
    /\ Leave
    /\ UNCHANGED <<world, marked, marker, from, suspect>>

Skip ==
    /\ pc = "check" /\ stage <= last
    /\ WouldSkip(stage)
    /\ Advance("skipped_existing")
    /\ UNCHANGED <<first, last, world, marked, marker, from, suspect>>

\* The stage has read its inputs and starts to overwrite its product.  The
\* bundle of stage 5 has many files: they may not all exist yet.
BeginStage ==
    /\ pc = "check" /\ stage \in 2..last
    /\ ~ WouldSkip(stage)
    /\ ReadFiles[stage] \subseteq present
    /\ clock < MaxStamp
    /\ clock' = clock + 1
    /\ stamp' = [stamp EXCEPT ![Product[stage]] = clock']
    /\ present' \in IF stage = 5 THEN {present, present \union {"ps2"}}
                                 ELSE {present \union {Product[stage]}}
    /\ whole' = whole \ {Product[stage]}
    /\ read' = Derivation(stage)
    /\ from' = [from EXCEPT ![stage] = Nothing]
    /\ suspect' = suspect \union {stage}
    /\ pc' = "write"
    /\ UNCHANGED <<first, last, stage, status, settings, marked, marker>>

FinishStage ==
    /\ pc = "write"
    /\ clock < MaxStamp
    /\ clock' = clock + 1
    /\ stamp' = [stamp EXCEPT ![Product[stage]] = clock']
    /\ present' = present \union {Product[stage]}
    /\ whole' = whole \union {Product[stage]}
    /\ from' = [from EXCEPT ![stage] = read]
    /\ pc' = "commit"
    /\ UNCHANGED <<first, last, stage, status, settings, marked, marker, read, suspect>>

\* Mutant of Commit: a marker that exists is kept.
CommitOnce ==
    /\ pc = "commit"
    /\ marked' = marked \union {stage}
    /\ marker' = IF stage \in marked THEN marker
                 ELSE [marker EXCEPT ![stage] = Signature(stage)]
    /\ suspect' = IF read = Derivation(stage) THEN suspect \ {stage} ELSE suspect
    /\ Advance("completed")
    /\ UNCHANGED <<first, last, world, from>>

\* _commit_stage_provenance signs the inputs and settings again, after the
\* run; the marker replaces the old one atomically.
Commit ==
    /\ pc = "commit"
    /\ marked' = marked \union {stage}
    /\ marker' = [marker EXCEPT ![stage] = Signature(stage)]
    /\ suspect' = IF read = Derivation(stage) THEN suspect \ {stage} ELSE suspect
    /\ Advance("completed")
    /\ UNCHANGED <<first, last, world, from>>

\* The stage raised, on reading its inputs or later; the report says "failed"
\* and the loop goes on.
FailStage ==
    /\ stage <= last
    /\ \/ /\ pc = "check" /\ ~ WouldSkip(stage)
          /\ Failures \/ ~ ReadFiles[stage] \subseteq present
       \/ pc \in {"write", "commit"} /\ Failures
    /\ Advance("failed")
    /\ UNCHANGED <<first, last, world, marked, marker, from, suspect>>

EndRun ==
    /\ pc = "check" /\ stage > last
    /\ Leave
    /\ UNCHANGED <<world, marked, marker, from, suspect>>

\* The process is killed.  What it had written stays.
Crash ==
    /\ pc # "idle"
    /\ Leave
    /\ UNCHANGED <<world, marked, marker, from, suspect>>

-----------------------------------------------------------------------------
\* The user.

EditSetting(k) ==
    /\ pc = "idle" \/ LiveEdits
    /\ settings' = [settings EXCEPT ![k] = 1 - @]
    /\ UNCHANGED <<pc, first, last, stage, status, present, whole, stamp, clock,
                   marked, marker, from, read, suspect>>

\* Stage 1 is prepared again, completely (ps1) or only its auxiliary files.
ReplaceStage1(files) ==
    /\ pc = "idle" /\ "ps1" \in present
    /\ clock < MaxStamp
    /\ clock' = clock + 1
    /\ stamp' = [f \in File |-> IF f \in files THEN clock' ELSE stamp[f]]
    /\ UNCHANGED <<pc, first, last, stage, status, settings, present, whole,
                   marked, marker, from, read, suspect>>

\* Outputs are deleted to have a stage computed again; markers are left.
DeleteOutput(s) ==
    /\ pc = "idle"
    /\ Product[s] \in present
    /\ present' = present \ {Product[s]}
    /\ whole' = whole \ {Product[s]}
    /\ stamp' = [stamp EXCEPT ![Product[s]] = 0]
    /\ UNCHANGED <<pc, first, last, stage, status, settings, clock,
                   marked, marker, from, read, suspect>>

-----------------------------------------------------------------------------
Run ==
    \/ Prepare \/ PrepareFails \/ Skip \/ BeginStage \/ FinishStage
    \/ Commit \/ FailStage \/ EndRun

User ==
    \/ \E i \in FirstSteps, j \in Stage : i <= j /\ StartRun(i, j)
    \/ \E k \in EditableKeys : EditSetting(k)
    \/ \E files \in {{"ps1", "aux1"}, {"aux1"}} : ReplaceStage1(files)
    \/ \E s \in Stage \ {1} : DeleteOutput(s)

Next == Run \/ Crash \/ User

Spec == Init /\ [][Next]_vars

-----------------------------------------------------------------------------
Source == [files : [File -> 0..MaxStamp], keys : [Key -> 0..1]]

TypeOK ==
    /\ pc \in {"idle", "prepare", "check", "write", "commit"}
    /\ first \in Stage /\ last \in Stage /\ stage \in 1..(Last + 1)
    /\ status \in [Stage -> {"none", "completed", "skipped_existing", "failed"}]
    /\ settings \in [Key -> 0..1]
    /\ present \subseteq File /\ whole \subseteq present
    /\ stamp \in [File -> 0..MaxStamp]
    /\ clock \in 0..MaxStamp
    /\ marked \subseteq Stage
    /\ marker \in [Stage -> Source]
    /\ from \in [Stage -> Source]
    /\ read \in Source
    /\ suspect \subseteq Stage

\* The product of stage s was computed from the inputs and settings of now.
Current(s) == Product[s] \in whole /\ from[s] = Derivation(s)

(* Whatever is edited, replaced, deleted or interrupted, and whenever: a   *)
(* stage that would be skipped has complete outputs computed from the      *)
(* inputs and settings its signature covers, unless its last attempt did   *)
(* not commit what it had read (stages.py:781-795, 839-845).               *)
ReuseHonest ==
    \A s \in Stage \ {1} : WouldSkip(s) /\ s \notin suspect =>
        /\ Product[s] \in whole
        /\ \A f \in SignedFiles[s] \intersect ReadFiles[s] : from[s].files[f] = stamp[f]
        /\ \A k \in SignedKeys[s] \intersect ReadKeys[s] : from[s].keys[k] = settings[k]

CleanRun ==
    /\ pc = "check" /\ stage > last
    /\ \A s \in first..last : /\ status[s] \in {"completed", "skipped_existing"}
                              /\ s \notin suspect

(* After a run from the first stages in which nothing failed, every        *)
(* product is current, although stage 3 reads files and settings that only *)
(* stage 2 signs: what changes them makes stage 2 run again, and its new   *)
(* pm1.mat makes stage 3 run again.                                        *)
FullRunCurrent ==
    CleanRun /\ first <= 2 => \A s \in 2..last : Current(s)

(* A run that just succeeded would be skipped, every stage of it, if it    *)
(* were repeated: no stage disturbs what an earlier one signed.            *)
RerunSkips == CleanRun => \A s \in first..last : WouldSkip(s)

(* README.md:435-436: stages 2-8 are reused only when their saved          *)
(* provenance matches.  So no stage is skipped whose outputs are torn.     *)
TornNeverReused ==
    pc = "check" /\ stage \in 2..last /\ WouldSkip(stage) => Product[stage] \in whole
=============================================================================
