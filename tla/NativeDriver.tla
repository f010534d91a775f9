----------------------------- MODULE NativeDriver -----------------------------
(***************************************************************************)
(* pystamps-native: the command that plans the stages of a data set from   *)
(* the files it finds, runs those that are missing, one after the other,   *)
(* and reports; `stage N`, which runs one stage whatever is there; and the *)
(* bridge that hands the run to the Python command line.                   *)
(*                                                                         *)
(* What the stages compute is in NativeStage1 .. NativeStage8.  Here a     *)
(* file is missing, torn, or whole, and knows which version of the raw     *)
(* input of which patches it was made from.                                *)
(***************************************************************************)
EXTENDS Integers, Sequences, FiniteSets, SequencesExt

CONSTANTS
    NPatches,      \* of the directories PATCH_1 .., in the order of their names
    Commands,      \* commands a user gives, see MCCommands of NativePrograms
    Lists,         \* contents of patch.list; <<>> is a file without names
    Extras,        \* the optional files that the raw files of each patch give
    Removable,     \* files that a user removes
    MaxRuns, MaxFaults, MaxEdits    \* bounds of the exploration

Patches == 1..NPatches
Places == 0..NPatches               \* 0 is the data set
Stages == 1..8
\* A `stage N` names a patch or the data set, whichever the stage is for.
ASSUME DriverAssumption ==
    /\ {NPatches, MaxRuns, MaxFaults, MaxEdits} \subseteq Nat
    /\ Lists \subseteq Seq(Patches)
    /\ Extras \subseteq [Patches -> SUBSET {"da1", "hgt1", "la1"}]
    /\ \A c \in Commands :
        /\ c.kind \in {"run", "bridge", "stage"}
        /\ c.kind = "run" => c.start \in Nat /\ c.end \in Nat /\ c.dry \in BOOLEAN
        /\ c.kind = "stage" =>
            c.stage \in Stages /\ c.place \in Places
            /\ (c.place = 0 => c.stage >= 5) /\ (c.place # 0 => c.stage <= 5)

VARIABLES
    raw,         \* version of the raw files of each patch, 0 when they are missing
    extra,       \* the optional files that the raw files of each patch give
    list,        \* patch.list
    disk,        \* the MAT files of each patch, and of the data set in place 0
    pc, cmd,     \* what the command is doing
    plan,        \* its results, in order
    at,          \* the result that is worked on
    todo,        \* the set of files the stage has still to write
    config,      \* TRUE while the bridge's temporary configuration exists
    left,        \* what remains of each bound
    clean,       \* no file was torn and nothing that was used has been edited
    faulted      \* places in which a stage failed by itself in this run

vars == <<raw, extra, list, disk, pc, cmd, plan, at, todo, config, left, clean, faulted>>

-----------------------------------------------------------------------------
\* The tables of lib.rs.  A task is a stage in a place: a patch or, as 0, the
\* data set.  STAGE_DEFS.
\* The files are sets of names: their order tells nothing but in WriteOrder.
ScopeOf(stage) == IF stage <= 5 THEN "patch" ELSE "merged"

Second == {"ps2", "ph2", "pm2", "bp2", "hgt2", "la2", "rc2", "psver"}
Bundle(stage, scope) ==                                     \* expected_bundle
    CASE stage = 1 -> {"ps1", "ph1", "bp1", "psver"}
      [] stage = 2 -> {"pm1"}
      [] stage = 3 -> {"select1"}
      [] stage = 4 -> {"weed1"}
      [] stage = 5 /\ scope = "patch" -> Second
      [] stage = 5 /\ scope = "merged" -> Second \cup {"ifgstd2"}
      [] stage = 6 -> {"ps2", "ph2", "pm2", "bp2", "ifgstd2", "phuw2", "uw_phaseuw", "uw_grid", "uw_interp"}
      [] stage = 7 -> {"scla2", "scla_smooth2"}
      [] stage = 8 -> {"mean_v", "uw_space_time"}
Outputs(stage, scope) ==                             \* stage_output_artifacts
    IF stage = 6 THEN {"phuw2", "uw_phaseuw", "uw_grid", "uw_interp"} ELSE Bundle(stage, scope)
Inputs(stage, scope) ==                               \* stage_input_artifacts
    CASE stage = 1 -> {}
      [] stage = 2 -> {"ps1", "ph1", "bp1"}
      [] stage = 3 -> {"ps1", "pm1"}
      [] stage = 4 -> {"ps1", "pm1", "select1"}
      [] stage = 5 /\ scope = "patch" -> {"ps1", "ph1", "pm1", "bp1", "select1", "weed1"}
      [] stage = 5 /\ scope = "merged" -> {}
      [] stage = 6 -> {"ps2", "ph2", "pm2", "bp2", "ifgstd2"}
      [] stage = 7 -> {"ps2", "phuw2", "ifgstd2"}
      [] stage = 8 -> {"ps2", "phuw2", "scla2", "uw_grid", "uw_interp"}

\* The optional first files, and what stage 5 makes of them.
Promotes == [hgt2 |-> "hgt1", la2 |-> "la1", da2 |-> "da1", bp2 |-> "bp1"]
\* What a merge has only if the patches have it.
MergedIfThere == {"hgt2", "la2", "rc2"}

Files ==
    UNION {Bundle(s, c) : s \in Stages, c \in {"patch", "merged"}}
    \cup {"da1", "hgt1", "la1", "da2"}
ASSUME RemovableAssumption == Removable \subseteq Files
Missing == [st |-> "missing", from |-> {}]
Torn == [st |-> "torn", from |-> {}]
Whole(from) == [st |-> "whole", from |-> from]
Exists(place, f) == disk[place][f].st # "missing"
IsWhole(place, f) == disk[place][f].st = "whole"
IsTorn(place, f) == disk[place][f].st = "torn"

-----------------------------------------------------------------------------
\* discover_dataset: patch.list, or every patch directory where it names none.
Discovered == IF list # <<>> THEN list ELSE [p \in Patches |-> p]

Task(stage, place) ==
    [stage |-> stage, place |-> place, scope |-> IF place = 0 THEN "merged" ELSE "patch"]

\* Mutant of Present: one file of the bundle is enough.
PresentAny(t) == \E f \in Bundle(t.stage, t.scope) : Exists(t.place, f)
\* plan_single_scope.
Present(t) == \A f \in Bundle(t.stage, t.scope) : Exists(t.place, f)
Result(t, status) ==
    [stage |-> t.stage, place |-> t.place, scope |-> t.scope, status |-> status, inputs |-> -1, outputs |-> -1]
Status(t, dry) == IF Present(t) THEN "skipped_existing" ELSE IF dry THEN "planned" ELSE "pending"

\* plan_pipeline for one stage: the merge follows the patches of stage 5.
StageTasks(stage) ==
    LET patches == [k \in DOMAIN Discovered |-> Task(stage, Discovered[k])] IN
    IF ScopeOf(stage) = "merged" THEN <<Task(stage, 0)>>
    ELSE IF stage = 5 THEN Append(patches, Task(5, 0)) ELSE patches
SelectedStages(c) == {s \in Stages : c.start <= s /\ s <= c.end}
Selected(c, stage) == IF stage \in SelectedStages(c) THEN StageTasks(stage) ELSE <<>>
Tasks(c) ==
    Selected(c, 1) \o Selected(c, 2) \o Selected(c, 3) \o Selected(c, 4) \o Selected(c, 5)
    \o Selected(c, 6) \o Selected(c, 7) \o Selected(c, 8)
Planned(c) == [k \in DOMAIN Tasks(c) |-> Result(Tasks(c)[k], Status(Tasks(c)[k], c.dry))]

\* run_native_stage has a stage for every task a plan can have.
Runnable(t) == (t.stage \in 1..5 /\ t.scope = "patch") \/ (t.stage \in 5..8 /\ t.scope = "merged")

\* parse_run_args, validate_runtime_config and validate_stage_range.
ValidRange(c) == c.start # 0 /\ c.end # 0 /\ c.start <= c.end /\ c.end <= 8
ValidRuntime(c) ==
    /\ c.backend \in {"auto", "threads", "processes", "gpu", "native"}
    /\ c.kernel \in {"auto", "python", "native"}
    /\ ~(c.threads > 0 /\ c.kernel = "python")
    /\ c.nativeOnly => c.backend = "native" /\ c.kernel = "native"

\* processing_chain_coverage: what the report calls native.
Certified == {[stage |-> s, scope |-> "patch"] : s \in 1..5}
             \cup {[stage |-> s, scope |-> "merged"] : s \in 5..8}
Coverage(c, disabled) ==
    [t \in {x \in [stage : SelectedStages(c), scope : {"patch", "merged"}] :
               x.scope = ScopeOf(x.stage) \/ x.stage = 5}
     |-> t \in Certified \ disabled]

-----------------------------------------------------------------------------
(* What the stages read and write.                                         *)
Promotion(t) == t.stage = 5 /\ t.scope = "patch"
Merge(t) == t.stage = 5 /\ t.scope = "merged"

\* Files without which a stage fails.
Needs(t) ==
    CASE t.stage = 1 -> {}
      [] t.stage = 2 -> {"ps1", "ph1"}
      [] t.stage = 3 -> {"ps1", "pm1"}
      [] t.stage = 4 -> {"ps1", "ph1", "select1"}
      [] Promotion(t) -> {"ps1", "ph1", "pm1", "select1", "weed1"}
      [] Merge(t) -> {"ps2", "ph2", "pm2"}
      [] t.stage = 6 -> {"ps2", "pm2", "bp2"} \cup {f \in {"ph2"} : ~Exists(t.place, "rc2")}
      [] t.stage = 7 -> {"ps2", "phuw2", "ifgstd2"}
      [] t.stage = 8 -> {"ps2", "phuw2", "scla2", "uw_grid", "uw_interp", "ifgstd2"}
\* Files that it takes where they exist: it fails only on a torn one.
Takes(t) ==
    CASE t.stage = 2 -> {"bp1", "da1"}
      [] t.stage = 3 -> {"da1"}
      [] t.stage = 4 -> {"hgt1"}
      [] Merge(t) -> MergedIfThere \cup {"bp2"}
      [] t.stage = 6 -> {"rc2", "uw_grid", "uw_interp"}
      [] t.stage = 7 -> {"bp2"}
      [] OTHER -> {}
\* Files that it takes where they can be read.
Tolerates(t) ==
    CASE t.stage = 2 -> {"la1"}
      [] t.stage = 6 -> {"scla_smooth2"}
      [] OTHER -> {}
\* Files that stage 5 reads only when it writes what it makes of them.
ReadLate(t) == IF Promotion(t) THEN {"hgt1", "la1", "da1", "bp1"} ELSE {}

\* The merge reads the patches, each other task its own place.
ReadPlaces(t) == IF Merge(t) THEN ToSet(Discovered) ELSE {t.place}
\* Stage 6 does not open ifgstd2, and the merge fails when no patch has bp2.
Readable(t) ==
    /\ t.stage = 1 => raw[t.place] > 0
    /\ t.stage = 6 => Exists(t.place, "ifgstd2")
    /\ Merge(t) => \E p \in ReadPlaces(t) : Exists(p, "bp2")
    /\ \A p \in ReadPlaces(t) :
        (\A f \in Needs(t) : IsWhole(p, f)) /\ (\A f \in Takes(t) : ~IsTorn(p, f))
\* Patches that disagree on an optional file: unless the rows that survive are
\* few, the merge indexes beyond the shorter table and panics.
Uneven(t) ==
    /\ Merge(t)
    /\ \E f \in Takes(t) : \E p, q \in ReadPlaces(t) : Exists(p, f) /\ ~Exists(q, f)

\* A file counts as made from all that its stage read.
From(t) ==
    IF t.stage = 1 THEN {<<t.place, raw[t.place]>>}
    ELSE UNION {disk[p][f].from :
                   p \in ReadPlaces(t), f \in Needs(t) \cup Takes(t) \cup Tolerates(t) \cup ReadLate(t)}

\* The files a stage writes.
Writes(t) ==
    CASE t.stage = 1 -> {"ps1", "ph1", "psver", "bp1"} \cup extra[t.place]
      [] Promotion(t) ->
            {"ps2", "rc2", "ph2", "pm2", "psver"} \cup {f \in DOMAIN Promotes : Exists(t.place, Promotes[f])}
      [] Merge(t) ->
            {"ps2", "ph2", "pm2", "psver", "bp2", "ifgstd2"}
            \cup {f \in MergedIfThere : \E p \in ToSet(Discovered) : Exists(p, f)}
      [] t.stage = 6 -> {"uw_phaseuw", "phuw2"} \cup {f \in {"uw_grid", "uw_interp"} : ~Exists(t.place, f)}
      [] t.stage = 7 -> {"scla2", "scla_smooth2"} \cup {f \in {"bp2"} : ~Exists(t.place, f)}
      [] OTHER -> Outputs(t.stage, t.scope)
\* The order in which it writes them; those of one set at the same time.
WriteOrder(t) ==
    CASE t.stage = 1 -> <<{"ps1"}, {"ph1"}, {"psver"}, {"da1"}, {"hgt1"}, {"la1"}, {"bp1"}>>
      [] Promotion(t) ->
            <<{"ps2"}, {"hgt2"}, {"la2"}, {"da2"}, {"bp2"}, {"rc2"}, {"ph2"}, {"pm2"}, {"psver"}>>
      [] Merge(t) ->
            <<{"ps2"}, {"ph2"}, {"pm2"}, {"psver"}, {"bp2"}, {"hgt2"}, {"la2"}, {"rc2"}, {"ifgstd2"}>>
      [] t.stage = 6 -> <<{"uw_grid"}, {"uw_interp"}, {"uw_phaseuw"}, {"phuw2"}>>
      [] t.stage = 7 -> <<{"bp2"}, {"scla2"}, {"scla_smooth2"}>>
      [] OTHER -> <<Outputs(t.stage, t.scope)>>

\* count_stage_input_artifacts and count_existing_artifacts.
CountFiles(place, names) == Cardinality({f \in names : Exists(place, f)})
InputCount(t) ==
    IF Merge(t)
    THEN Cardinality({x \in (DOMAIN Discovered) \X Outputs(5, "patch") : Exists(Discovered[x[1]], x[2])})
    ELSE IF t.stage = 1 THEN (IF raw[t.place] > 0 THEN 3 ELSE 0)
    ELSE CountFiles(t.place, Inputs(t.stage, t.scope))
\* enrich_stage_result_telemetry.
Enriched(r) ==
    [r EXCEPT !.inputs = InputCount(r), !.outputs = CountFiles(r.place, Outputs(r.stage, r.scope))]

-----------------------------------------------------------------------------
NoCommand == [kind |-> "none"]
Idle == pc \in {"idle", "reported", "refused", "killed"}
Now == plan[at]
Ended == at > Len(plan)

Give(c) ==
    /\ Idle /\ left.runs > 0
    /\ left' = [left EXCEPT !.runs = @ - 1]
    /\ cmd' = c /\ plan' = <<>> /\ at' = 1 /\ todo' = {} /\ faulted' = {}
    /\ pc' = c.kind
    /\ UNCHANGED <<raw, extra, list, disk, config, clean>>

\* `run`: the whole plan is made before the first stage runs.
Plan ==
    /\ pc = "run"
    /\ IF ValidRuntime(cmd) /\ ValidRange(cmd)
       THEN plan' = Planned(cmd) /\ pc' = IF cmd.dry THEN "reported" ELSE "working"
       ELSE plan' = plan /\ pc' = "refused"
    /\ UNCHANGED <<raw, extra, list, disk, cmd, at, todo, config, left, clean, faulted>>

\* `stage N`: one task, whatever files there are.
Single ==
    /\ pc = "stage"
    /\ plan' = <<Result(Task(cmd.stage, cmd.place), "pending")>>
    /\ pc' = "working"
    /\ UNCHANGED <<raw, extra, list, disk, cmd, at, todo, config, left, clean, faulted>>

Skip ==
    /\ pc = "working" /\ ~Ended /\ Now.status # "pending"
    /\ at' = at + 1
    /\ UNCHANGED <<raw, extra, list, disk, pc, cmd, plan, todo, config, left, clean, faulted>>

Begin ==
    /\ pc = "working" /\ ~Ended /\ Now.status = "pending" /\ Runnable(Now) /\ Readable(Now)
    /\ todo' = Writes(Now) /\ pc' = "writing"
    /\ UNCHANGED <<raw, extra, list, disk, cmd, plan, at, config, left, clean, faulted>>

\* The error of a stage is kept in its result; the next stage is run.
FailStage ==
    /\ plan' = [plan EXCEPT ![at].status = "failed"] /\ at' = at + 1
    /\ pc' = "working" /\ todo' = {}

Refuse ==
    /\ pc = "working" /\ ~Ended /\ Now.status = "pending" /\ ~(Runnable(Now) /\ Readable(Now))
    /\ FailStage
    /\ UNCHANGED <<raw, extra, list, disk, cmd, config, left, clean, faulted>>

\* The patches disagree on an optional file: the merge panics, and the command
\* with it.
Panic ==
    /\ pc = "working" /\ ~Ended /\ Now.status = "pending" /\ Readable(Now) /\ Uneven(Now)
    /\ pc' = "killed" /\ todo' = {}
    /\ UNCHANGED <<raw, extra, list, disk, cmd, plan, at, config, left, clean, faulted>>

\* The files that are being written: the first of those to write.
Open ==
    LET order == WriteOrder(Now) IN
    {f \in todo : \E k \in DOMAIN order : f \in order[k] /\ \A j \in 1..(k - 1) : order[j] \cap todo = {}}
Tear(S) == disk' = [disk EXCEPT ![Now.place] = [f \in Files |-> IF f \in S THEN Torn ELSE @[f]]]

\* A stage fails by itself: by what it computed, or in writing files, which
\* MatFile::write has truncated by then.
Fault ==
    /\ pc = "writing" /\ left.faults > 0
    /\ left' = [left EXCEPT !.faults = @ - 1]
    /\ faulted' = faulted \cup {Now.place}
    /\ FailStage
    /\ \E S \in SUBSET Open : Tear(S) /\ clean' = (clean /\ S = {})
    /\ UNCHANGED <<raw, extra, list, cmd, config>>

\* promote_optional_vector and the like: the source is read in its turn.
FailsLate(f) == Promotion(Now) /\ f \in DOMAIN Promotes /\ IsTorn(Now.place, Promotes[f])
RefuseLate ==
    /\ pc = "writing" /\ \E f \in Open : FailsLate(f)
    /\ FailStage
    /\ UNCHANGED <<raw, extra, list, disk, cmd, config, left, clean, faulted>>

WriteFile(f) ==
    /\ pc = "writing" /\ ~FailsLate(f)
    /\ disk' = [disk EXCEPT ![Now.place][f] = Whole(From(Now))]
    /\ todo' = todo \ {f}
    /\ IF todo = {f}
       THEN pc' = "working" /\ plan' = [plan EXCEPT ![at].status = "completed"] /\ at' = at + 1
       ELSE UNCHANGED <<pc, plan, at>>
    /\ UNCHANGED <<raw, extra, list, cmd, config, left, clean, faulted>>

\* The report of `run`; `stage N` has none, it ends well or with the error.
Report ==
    /\ pc = "working" /\ Ended
    /\ plan' = IF cmd.kind = "run" THEN [k \in DOMAIN plan |-> Enriched(plan[k])] ELSE plan
    /\ pc' = "reported"
    /\ UNCHANGED <<raw, extra, list, disk, cmd, at, todo, config, left, clean, faulted>>

Kill ==
    /\ left.faults > 0 /\ ~Idle
    /\ left' = [left EXCEPT !.faults = @ - 1]
    /\ \/ disk' = disk /\ clean' = clean
       \/ pc = "writing" /\ clean' = FALSE /\ \E S \in SUBSET Open : Tear(S)
    /\ pc' = "killed" /\ todo' = {}
    /\ UNCHANGED <<raw, extra, list, cmd, plan, at, config, faulted>>

\* execute_pipeline_cli_bridge: the configuration is written, the command is
\* run, and the configuration is removed before its outcome is looked at.
Bridge ==
    /\ pc = "bridge"
    /\ IF cmd.nativeOnly \/ ~ValidRange(cmd) THEN pc' = "refused" /\ UNCHANGED config
       ELSE config' = TRUE /\ pc' = "bridged"
    /\ UNCHANGED <<raw, extra, list, disk, cmd, plan, at, todo, left, clean, faulted>>
Bridged ==
    /\ pc = "bridged"
    /\ config' = FALSE
    /\ \/ pc' = "reported" /\ plan' = <<>>                  \* output that is not JSON
       \/ pc' = "refused" /\ plan' = plan                   \* the command did not start
    /\ UNCHANGED <<raw, extra, list, disk, cmd, at, todo, left, clean, faulted>>

-----------------------------------------------------------------------------
\* The user, between commands.
EditRaw(p) ==
    /\ Idle /\ left.edits > 0 /\ pc' = "idle" /\ left' = [left EXCEPT !.edits = @ - 1]
    /\ raw' = [raw EXCEPT ![p] = @ + 1]
    /\ clean' = (clean /\ raw[p] = 0)
    /\ UNCHANGED <<extra, list, disk, cmd, plan, at, todo, config, faulted>>
SetList(l) ==
    /\ Idle /\ left.edits > 0 /\ pc' = "idle" /\ left' = [left EXCEPT !.edits = @ - 1]
    /\ list' = l
    /\ clean' = (clean /\ \A f \in Files : ~Exists(0, f))
    /\ UNCHANGED <<raw, extra, disk, cmd, plan, at, todo, config, faulted>>
RemoveFile(place, f) ==
    /\ Idle /\ left.edits > 0 /\ pc' = "idle" /\ left' = [left EXCEPT !.edits = @ - 1]
    /\ Exists(place, f)
    /\ disk' = [disk EXCEPT ![place][f] = Missing]
    /\ UNCHANGED <<raw, extra, list, cmd, plan, at, todo, config, clean, faulted>>

Init ==
    /\ raw \in [Patches -> {0, 1}] /\ extra \in Extras /\ list \in Lists \ {<<>>}
    /\ disk = [p \in Places |-> [f \in Files |-> Missing]]
    /\ pc = "idle" /\ cmd = NoCommand /\ plan = <<>> /\ at = 1 /\ todo = {} /\ config = FALSE
    /\ left = [runs |-> MaxRuns, faults |-> MaxFaults, edits |-> MaxEdits]
    /\ clean = TRUE /\ faulted = {}

Driver ==
    \/ Plan \/ Single \/ Skip \/ Begin \/ Refuse \/ Panic \/ RefuseLate
    \/ \E f \in Open : WriteFile(f)
    \/ Report \/ Bridge \/ Bridged
User ==
    \/ \E c \in Commands : Give(c)
    \/ \E p \in Patches : EditRaw(p)
    \/ \E l \in Lists : SetList(l)
    \/ \E p \in Places, f \in Removable : RemoveFile(p, f)
Next == Driver \/ User \/ Fault \/ Kill \/ (Idle /\ UNCHANGED vars)

Spec == Init /\ [][Next]_vars

-----------------------------------------------------------------------------
Statuses == {"skipped_existing", "planned", "pending", "completed", "failed"}
TypeOK ==
    /\ \A p \in DOMAIN disk : \A f \in Files :
        /\ disk[p][f].st \in {"missing", "torn", "whole"}
        /\ \A v \in disk[p][f].from : v[2] \in 1..raw[v[1]]
    /\ \A k \in DOMAIN plan : plan[k].status \in Statuses
    /\ pc \in {"idle", "run", "stage", "bridge", "bridged", "working", "writing", "reported", "refused", "killed"}
    /\ pc = "writing" => todo # {} /\ todo \subseteq Files /\ at \in DOMAIN plan

\* What a file should have been made from.
Expected(t) ==
    IF t.place # 0 THEN {<<t.place, raw[t.place]>>} ELSE {<<p, raw[p]>> : p \in ToSet(Discovered)}
Good(r) == r.status \in {"completed", "skipped_existing"}

\* Files a completed stage does not promise: what stage 5 makes of an optional
\* file that is not there, in the patch or, for the merge, in one of them.
Unpromised(t, f) ==
    \/ Promotion(t) /\ f \in DOMAIN Promotes /\ ~Exists(t.place, Promotes[f])
    \/ Merge(t) /\ f \in MergedIfThere /\ \E p \in ToSet(Discovered) : ~Exists(p, f)
Promised(r) ==
    IF r.status = "skipped_existing" THEN Bundle(r.stage, r.scope)
    ELSE {f \in Outputs(r.stage, r.scope) : ~Unpromised(r, f)}

\* A run that found or made everything, after whatever kills, failures and
\* removals came before, as long as no file was torn and nothing that had
\* been used was edited: every file it promises is whole and made from the
\* raw files of all the patches there are, and what it does not promise is
\* missing or no older.
ResumedWhole ==
    pc = "reported" /\ cmd.kind = "run" /\ clean /\ (\A k \in DOMAIN plan : Good(plan[k])) =>
        \A k \in DOMAIN plan : \A f \in Bundle(plan[k].stage, plan[k].scope) :
            \/ disk[plan[k].place][f] = Whole(Expected(plan[k]))
            \/ f \notin Promised(plan[k]) /\ ~Exists(plan[k].place, f)

\* A result that says completed has all the files the stage promises, and
\* the report counts them; they are whole, unless a later stage of the run
\* failed in writing a file that both write (psver).
CompletedHasFiles ==
    pc = "reported" => \A k \in DOMAIN plan :
        plan[k].status = "completed" =>
            /\ cmd.kind = "run" => plan[k].outputs >= Cardinality(Promised(plan[k]))
            /\ clean => \A f \in Promised(plan[k]) : IsWhole(plan[k].place, f)

\* No task of a plan is beyond the driver, and every stage coverage calls
\* native is one that `run` runs.
PlanRunnable ==
    /\ \A k \in DOMAIN plan : Runnable(plan[k])
    /\ pc = "run" /\ ValidRange(cmd) =>
        \A t \in DOMAIN Coverage(cmd, {}) : Coverage(cmd, {})[t] => Runnable(t)

\* A patch whose raw files are there is processed whatever happens to others.
PatchesIsolated ==
    pc = "reported" /\ cmd.kind = "run" /\ ~cmd.dry /\ cmd.start = 1 =>
        \A p \in Patches :
            raw[p] > 0 /\ p \notin faulted /\ (\A f \in Files : disk[p][f].st # "torn") =>
                \A k \in DOMAIN plan : plan[k].place = p => Good(plan[k])

\* The merged files never lack a patch: the merge fails if one has no files.
MergeStep ==
    \A f \in {"ps2", "ifgstd2"} :
        disk'[0][f].st = "whole" /\ disk'[0][f] # disk[0][f] =>
            \A p \in ToSet(Discovered) : \E v \in disk'[0][f].from : v[1] = p

\* A run writes only in the place of a stage whose bundle had a gap when the
\* run was planned, and it leaves alone the products of the stages it skips:
\* stage 7 makes bp2 only where it is missing, and the only file two stages
\* write over each other is the psver of a patch.
FinishedStep ==
    \A p \in DOMAIN disk : disk'[p] # disk[p] /\ ~Idle /\ cmd.kind = "run" =>
        /\ plan[at].place = p /\ plan[at].status = "pending"
        /\ \A k \in DOMAIN plan : plan[k].status = "skipped_existing" /\ plan[k].place = p =>
            \A f \in Outputs(plan[k].stage, plan[k].scope) \ {"psver"} : disk'[p][f] = disk[p][f]

\* The bridge leaves no configuration behind unless it is killed.
ConfigRemoved == pc \in {"reported", "refused"} => (config => left.faults < MaxFaults)
=============================================================================
