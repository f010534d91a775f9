--------------------------- MODULE GridCheckpoint ---------------------------
(***************************************************************************)
(* What stage 6 keeps between runs: the filtered grid of each              *)
(* interferogram, in memory-mapped files of _stage6_sbas_work/grid_v2      *)
(* (_stage6_build_grid_batched of pipeline/stage6_sbas.py), and the drop   *)
(* list of FINAL-QC, in final_ifg_qc_selection.json (resolve_ifg_selection *)
(* of ifg_selection.py restores it into parms.mat before stage 6).         *)
(*                                                                         *)
(* A run may fail, the process may be killed, when the kernel still has    *)
(* what was written to the maps, and the power may fail, when only what    *)
(* was flushed is certain.  Between runs the inputs may change.            *)
(*                                                                         *)
(* grid_phase.npy and grid_lowpass.npy are one map here: a column of the   *)
(* two that belong to different writes is torn.  File names are durable    *)
(* in the order of the calls; meta.json and parms.mat are whole.           *)
(***************************************************************************)
EXTENDS Naturals

CONSTANTS
    NIfg,       \* number of interferograms that stage 6 unwraps
    Modes,      \* how a run may be started, see ModeType
    Versions,   \* of each of the inputs; all begin with version 1
    MaxEdits,   \* bound on changes of the inputs
    MaxStops    \* bound on failures, kills and power failures

Ifg == 1..NIfg

(* What the grid is filtered from, and what FINAL-QC judges.  shape: the   *)
(* places of the points and the parameters of the filter.  phases: the     *)
(* wrapped phases less the corrections, of the interferograms kept.  net:  *)
(* days and interferograms.  qc: scientific settings of FINAL-QC.          *)
Input == [shape : Versions, phases : Versions, net : Versions, qc : Versions]

ModeType == [
    resume   : BOOLEAN,     \* PYSTAMPS_STAGE6_GRID_RESUME
    size     : Nat \ {0},   \* interferograms in a batch
    interval : Nat \ {0},   \* interferograms between two checkpoints
    final    : BOOLEAN,     \* FINAL-QC is enabled and owns the drop list
    strict   : BOOLEAN,     \* strict_reference: no selection before stage 6
    signed   : BOOLEAN]     \* final_qc_require_signature

ASSUME GridAssumption ==
    /\ NIfg \in Nat \ {0}
    /\ Modes \subseteq ModeType
    /\ Versions \subseteq Nat \ {0} /\ 1 \in Versions
    /\ {MaxEdits, MaxStops} \subseteq Nat

\* A column of the maps: what it was computed from, and for the shape the
\* files were made for.  Zeros come from creating a file.
Filtered(in) == [shape |-> in.shape, phases |-> in.phases, net |-> in.net]
Zeros(s)     == [shape |-> s, phases |-> 0, net |-> 0]
Torn         == [shape |-> 0, phases |-> 0, net |-> 0]
Column       == [shape : Versions, phases : Versions \union {0}, net : Versions \union {0}] \union {Torn}
Maps         == [col : [Ifg -> Column], done : [Ifg -> BOOLEAN]]

MapFiles == {"phase", "low", "done"}

VARIABLES
    now,      \* the inputs of the dataset
    drops,    \* where parms.drop_ifg_index comes from
    chosen,   \* final_ifg_qc_selection.json
    meta,     \* signature in meta.json: a shape, 0 when the file is absent
    files,    \* the map files that exist
    kept,     \* the maps as every process sees them
    disk,     \* the maps as they would be after a power failure
    at,       \* where the run is
    mode,     \* how it was started
    script,   \* the next operation of Remake, Opened when none is left
    pending,  \* batches that are left
    state,    \* done_state, the run's own copy of done.npy
    unsaved,  \* checkpoint_pending
    after,    \* where the run goes on after a checkpoint
    edits, stops,
    made      \* history: the columns a run could write since the files were made

gridVars == <<meta, files, kept, disk>>
runVars  == <<mode, script, pending, state, unsaved, after>>
checkpointVars == <<now, drops, chosen, gridVars, at, runVars, edits, stops, made>>

\* The file operations that make new maps.
Remake == << <<"unlink", "phase">>, <<"unlink", "low">>, <<"unlink", "done">>, <<"unlink", "meta">>,
             <<"create", "phase">>, <<"create", "low">>, <<"create", "done">> >>
Opened == 8

\* The memory of a run that has ended, in whatever way.
NoMode == [resume |-> FALSE, size |-> 1, interval |-> 1, final |-> FALSE, strict |-> FALSE,
           signed |-> FALSE]
Forgotten ==
    /\ at' = "idle" /\ mode' = NoMode
    /\ script' = Opened /\ pending' = {} /\ state' = {} /\ unsaved' = 0 /\ after' = "loop"

NoChoice == [net |-> 0, qc |-> 0, provenance |-> FALSE, ok |-> FALSE]

GridInit ==
    /\ now = [shape |-> 1, phases |-> 1, net |-> 1, qc |-> 1]
    /\ drops = [by |-> "config", net |-> 1, qc |-> 0]
    \* there may be a selection that an older version wrote
    /\ chosen \in {NoChoice, [net |-> 1, qc |-> 1, provenance |-> FALSE, ok |-> TRUE]}
    /\ meta = 0 /\ files = {}
    /\ kept = [col |-> [i \in Ifg |-> Torn], done |-> [i \in Ifg |-> FALSE]]
    /\ disk = kept
    /\ at = "idle" /\ mode = NoMode
    /\ script = Opened /\ pending = {} /\ state = {} /\ unsaved = 0 /\ after = "loop"
    /\ edits = 0 /\ stops = 0
    /\ made = {}

-----------------------------------------------------------------------------
(* Between runs.                                                           *)

\* The user, or an earlier stage, changes an input, or changes it back.
Edit ==
    /\ at = "idle" /\ edits < MaxEdits
    /\ \E k \in DOMAIN now : \E v \in Versions \ {now[k]} : now' = [now EXCEPT ![k] = v]
    /\ edits' = edits + 1
    /\ UNCHANGED <<drops, chosen, gridVars, at, runVars, stops, made>>

\* final_qc_provenance_is_current
ProvenanceCurrent(m) ==
    IF chosen.provenance THEN chosen.net = now.net /\ chosen.qc = now.qc
                         ELSE ~m.signed

Restored(m) == chosen.ok /\ m.final /\ ProvenanceCurrent(m)

\* Mutant of Resolved: the list in parms.mat is left as it is.
ResolvedIfChosen(m) ==
    IF ~m.strict /\ Restored(m) THEN [by |-> "final", net |-> chosen.net, qc |-> chosen.qc]
    ELSE drops

\* PRE-QC replaces the drop list by its own, and the last list of FINAL-QC
\* replaces that.
Resolved(m) ==
    IF m.strict THEN drops
    ELSE IF Restored(m) THEN [by |-> "final", net |-> chosen.net, qc |-> chosen.qc]
    ELSE [by |-> "config", net |-> now.net, qc |-> 0]

\* Without resuming, the work directory is removed first.
Begin(m) ==
    /\ at = "idle" /\ at' = "look"
    /\ mode' = m
    /\ drops' = Resolved(m)
    /\ files' = IF m.resume THEN files ELSE {}
    /\ meta' = IF m.resume THEN meta ELSE 0
    /\ UNCHANGED <<now, chosen, kept, disk, script, pending, state, unsaved, after,
                   edits, stops, made>>

-----------------------------------------------------------------------------
(* Opening the maps.                                                       *)

CanResume == mode.resume /\ meta = now.shape /\ files = MapFiles

Look ==
    /\ at = "look" /\ at' = "open"
    /\ script' = IF CanResume THEN Opened ELSE 1
    /\ made' = IF CanResume THEN made \union {Filtered(now)} ELSE made
    /\ UNCHANGED <<now, drops, chosen, gridVars, mode, pending, state, unsaved, after,
                   edits, stops>>

Unlink ==
    /\ at = "open" /\ script # Opened /\ Remake[script][1] = "unlink"
    /\ files' = files \ {Remake[script][2]}
    /\ meta' = IF Remake[script][2] = "meta" THEN 0 ELSE meta
    /\ script' = script + 1
    /\ UNCHANGED <<now, drops, chosen, kept, disk, at, mode, pending, state, unsaved, after,
                   edits, stops, made>>

\* The maps are created full of zeros and flushed.
Create ==
    /\ at = "open" /\ script # Opened /\ Remake[script][1] = "create"
    /\ files' = files \union {Remake[script][2]}
    /\ kept' = IF Remake[script][2] = "done"
               THEN [kept EXCEPT !.done = [i \in Ifg |-> FALSE]]
               ELSE [kept EXCEPT !.col = [i \in Ifg |-> Zeros(now.shape)]]
    /\ disk' = kept'
    /\ made' = {Filtered(now)}
    /\ script' = script + 1
    /\ UNCHANGED <<now, drops, chosen, meta, at, mode, pending, state, unsaved, after,
                   edits, stops>>

Batches(size) ==
    {{i \in Ifg : (i - 1) \div size = (j - 1) \div size} : j \in Ifg}

\* A batch that was only finished in part, with batches of another size, is
\* done again.  meta.json says "running".
Plan ==
    /\ at = "open" /\ script = Opened /\ at' = "loop"
    /\ state' = {i \in Ifg : kept.done[i]}
    /\ pending' = {B \in Batches(mode.size) : ~(B \subseteq state')}
    /\ unsaved' = 0
    /\ meta' = now.shape
    /\ UNCHANGED <<now, drops, chosen, files, kept, disk, mode, script, after,
                   edits, stops, made>>

-----------------------------------------------------------------------------
(* Filtering.  Batches are computed by threads, which only read, and       *)
(* written by the main thread, as they complete.                           *)

\* What kept becomes when batch B is written.
Written(B) ==
    [kept EXCEPT !.col = [i \in Ifg |-> IF i \in B THEN Filtered(now) ELSE kept.col[i]]]

\* What it becomes when the write of B is interrupted.
HalfWritten(B) ==
    [kept EXCEPT !.col = [i \in Ifg |-> IF i \in B /\ kept.col[i] # Filtered(now)
                                        THEN Torn ELSE kept.col[i]]]

WriteBatch(B) ==
    /\ at = "loop" /\ B \in pending
    /\ kept' = Written(B)
    /\ state' = state \union B
    /\ pending' = pending \ {B}
    /\ unsaved' = unsaved + mode.size
    /\ at' = IF unsaved' >= mode.interval THEN "flush" ELSE "loop"
    /\ after' = "loop"
    /\ UNCHANGED <<now, drops, chosen, meta, files, disk, mode, script, edits, stops, made>>

\* The forced checkpoint at the end.
LastCheckpoint ==
    /\ at = "loop" /\ pending = {}
    /\ at' = "flush" /\ after' = "judge"
    /\ UNCHANGED <<now, drops, chosen, gridVars, mode, script, pending, state, unsaved,
                   edits, stops, made>>

(* A checkpoint: flush the columns, write done.npy, flush it.              *)

\* Mutant of Flush: done.npy is flushed, the columns are not.
FlushNothing ==
    /\ at = "flush" /\ at' = "mark"
    /\ UNCHANGED <<now, drops, chosen, gridVars, runVars, edits, stops, made>>

Flush ==
    /\ at = "flush" /\ at' = "mark"
    /\ disk' = [disk EXCEPT !.col = kept.col]
    /\ UNCHANGED <<now, drops, chosen, meta, files, kept, runVars, edits, stops, made>>

Mark ==
    /\ at = "mark" /\ at' = "sync"
    /\ kept' = [kept EXCEPT !.done = [i \in Ifg |-> i \in state]]
    /\ UNCHANGED <<now, drops, chosen, meta, files, disk, runVars, edits, stops, made>>

Sync ==
    /\ at = "sync"
    /\ disk' = [disk EXCEPT !.done = kept.done]
    /\ IF after = "idle"
       THEN Forgotten
       ELSE /\ at' = after /\ unsaved' = 0
            /\ UNCHANGED <<mode, script, pending, state, after>>
    /\ UNCHANGED <<now, drops, chosen, meta, files, kept, edits, stops, made>>

-----------------------------------------------------------------------------
(* FINAL-QC, after unwrapping.                                             *)

Judge ==
    /\ at = "judge"
    /\ IF mode.final
       THEN /\ chosen' = [net |-> now.net, qc |-> now.qc, provenance |-> TRUE, ok |-> TRUE]
            /\ at' = "own"
       ELSE at' = "built" /\ UNCHANGED chosen
    /\ UNCHANGED <<now, drops, gridVars, runVars, edits, stops, made>>

\* candidate_cap_exceeded: the selection is written without a list.
JudgeRaises ==
    /\ at = "judge" /\ mode.final
    /\ chosen' = [net |-> now.net, qc |-> now.qc, provenance |-> TRUE, ok |-> FALSE]
    /\ Forgotten
    /\ UNCHANGED <<now, drops, gridVars, edits, stops, made>>

Own ==
    /\ at = "own" /\ at' = "built"
    /\ drops' = [by |-> "final", net |-> now.net, qc |-> now.qc]
    /\ UNCHANGED <<now, chosen, gridVars, runVars, edits, stops, made>>

\* grid_v2 survives the clean-up when the next run may resume.
Finish ==
    /\ at = "built" /\ Forgotten
    /\ files' = IF mode.resume THEN files ELSE {}
    /\ meta' = IF mode.resume THEN meta ELSE 0
    /\ UNCHANGED <<now, drops, chosen, kept, disk, edits, stops, made>>

-----------------------------------------------------------------------------
(* Faults.                                                                 *)

Filtering == {"loop", "flush", "mark", "sync"}

\* An exception, or an interrupt, also during the write of a batch: the
\* handler makes a checkpoint of what was committed before.
Fail ==
    /\ at \in Filtering /\ after # "idle" /\ stops < MaxStops
    /\ kept' \in {kept} \union {HalfWritten(B) : B \in IF at = "loop" THEN pending ELSE {}}
    /\ at' = "flush" /\ after' = "idle"
    /\ stops' = stops + 1
    /\ UNCHANGED <<now, drops, chosen, meta, files, disk, mode, script, pending, state, unsaved,
                   edits, made>>

Kill ==
    /\ at # "idle" /\ stops < MaxStops
    /\ kept' \in {kept} \union {HalfWritten(B) : B \in IF at = "loop" THEN pending ELSE {}}
    /\ Forgotten
    /\ stops' = stops + 1
    /\ UNCHANGED <<now, drops, chosen, meta, files, disk, edits, made>>

Unflushed == {i \in Ifg : kept.col[i] # disk.col[i]}
Unsynced  == {i \in Ifg : kept.done[i] # disk.done[i]}

\* Each column and each flag that was not flushed may have got to the disk,
\* a column also in part.
PowerFailure ==
    /\ stops < MaxStops
    /\ \E saved, torn \in SUBSET Unflushed, flags \in SUBSET Unsynced :
        kept' = [col  |-> [i \in Ifg |-> IF i \in torn THEN Torn
                                        ELSE IF i \in saved THEN kept.col[i] ELSE disk.col[i]],
                 done |-> [i \in Ifg |-> (IF i \in flags THEN kept ELSE disk).done[i]]]
    /\ disk' = kept'
    /\ Forgotten
    /\ stops' = stops + 1
    /\ UNCHANGED <<now, drops, chosen, meta, files, edits, made>>

-----------------------------------------------------------------------------
GridNext ==
    \/ Edit
    \/ \E m \in Modes : Begin(m)
    \/ Look \/ Unlink \/ Create \/ Plan
    \/ \E B \in pending : WriteBatch(B)
    \/ LastCheckpoint \/ Flush \/ Mark \/ Sync
    \/ Judge \/ JudgeRaises \/ Own \/ Finish
    \/ Fail \/ Kill \/ PowerFailure

GridSpec == GridInit /\ [][GridNext]_checkpointVars

-----------------------------------------------------------------------------
List == [by : {"config", "final"}, net : Versions, qc : Versions \union {0}]

GridTypeOK ==
    /\ now \in Input
    /\ drops \in List
    /\ chosen \in [net : Versions, qc : Versions, provenance : BOOLEAN, ok : BOOLEAN] \union {NoChoice}
    /\ meta \in Versions \union {0} /\ files \subseteq MapFiles
    /\ kept \in Maps /\ disk \in Maps
    /\ at \in Filtering \union {"idle", "look", "open", "judge", "own", "built"}
    /\ mode \in Modes \union {NoMode}
    /\ script \in 1..Opened
    /\ pending \subseteq SUBSET Ifg /\ state \subseteq Ifg
    /\ unsaved \in Nat /\ after \in {"loop", "judge", "idle"}
    /\ edits \in 0..MaxEdits /\ stops \in 0..MaxStops
    /\ made \subseteq Column

\* The maps were written for one set of phases of one network only.
OneSource == \A c, d \in made : c.phases = d.phases /\ c.net = d.net

(* What a checkpoint calls done is done, also after a power failure:       *)
(* unless the maps were written for several phases or networks, a column   *)
(* that done.npy marks is the filtered grid of those phases, in memory and *)
(* on the disk, and the maps have the shape that meta.json gives.          *)
MarkedIsDurable ==
    files = MapFiles /\ meta # 0 /\ OneSource =>
        \A c \in made :
            /\ c.shape = meta
            /\ \A i \in Ifg : kept.done[i] \/ disk.done[i] =>
                  kept.col[i] = c /\ disk.col[i] = c

(* The grid that stage 6 goes on with, after any number of runs that       *)
(* failed, were killed or lost the power, with batches of any size, has    *)
(* every interferogram filtered from the inputs of now, unless the maps    *)
(* were written for other phases or another network before.                *)
GridComplete ==
    at = "judge" /\ OneSource /\ Filtered(now) \in made =>
        \A i \in Ifg : kept.col[i] = Filtered(now)

\* The checkpoint of the grid can be trusted.
CheckpointHonest == MarkedIsDurable /\ GridComplete

(* The drop list that stage 6 begins with, and the one it leaves, number   *)
(* the interferograms of the network of now: a selection of FINAL-QC made  *)
(* for another network, or with other settings, is not taken, and the list *)
(* of an earlier run does not stay either.                                 *)
DropListOfNow ==
    at \notin {"idle"} /\ ~mode.strict /\ mode.signed =>
        /\ drops.net = now.net
        /\ drops.by = "final" => drops.qc = now.qc
        /\ at = "built" /\ mode.final => drops.by = "final"

(* README.md:435-436: stages 2-8 are reused only when their saved          *)
(* provenance matches the current upstream artifacts and scientific        *)
(* settings.  The signature of the grid covers neither the phases nor      *)
(* which interferograms they belong to.                                    *)
GridOfNow == at = "judge" => \A i \in Ifg : kept.col[i] = Filtered(now)
=============================================================================
