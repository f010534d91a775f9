# A formal model of pystamps-gamma

TLA+ modules about the control of pystamps-gamma: which stage of the SBAS
pipeline is run, skipped or reused, in which order and by which process; what
survives a crash; how interferograms are dropped from the network; what the
native Rust stages select, order and merge; how its web service runs jobs; and
how its HDF5 library lays out, indexes, filters and streams data. Twelve TLC
runs check them on small instances, and TLAPS proves the safety of the Python
pipeline's control, of the native stages 1 and 2, of the web service's jobs and of
two of the library's chunk indexes for every instance. Paths below are relative to the
repository; `stages.py` is `src/pystamps/pipeline/stages.py`.

## 1. The system

pystamps processes a stack of SAR interferograms in eight stages. A dataset
directory holds `PATCH_*` subdirectories; stages 1 to 5 run once per patch,
then stage 5 merges the patches and stages 6 to 8 run on the merged data.
`pystamps run --start-step i --end-step j` is one invocation of `run_pipeline`
(`stages.py`); a project sees many invocations, with settings edited, inputs
replaced, outputs deleted and processes killed in between. All state between
invocations is in files. A second driver in Rust, `pystamps-native`, runs stages
of its own on the same directory layout; a web service starts the command line
or the native command; an HDF5 library stores matrices.

| Component | State | Operations | Talks to | Hard behaviour | What makes it correct |
|---|---|---|---|---|---|
| Patch scheduler (`run_pipeline`, `runtime/executor.py`) | iterator over patches, futures, pending set, results, pools | submit, wait, collect and refill, publish | pool workers, through futures | futures finish in any order; a pool process dies | window bounded, no patch lost or done twice, faithful report, it ends |
| Patch stages (`_run_patch_stage`, `provenance.py`, `ported.py`) | per patch: files, settings in `parms.mat`, one marker per stage | skip, recompute in place, commit the marker, fail | the user, through files and settings; later stages, through files | crash between two writes; edits during a run; what is read but not signed | a skipped stage is complete and current; a full run is current; a repeated run does nothing |
| Merged stages (`_run_merged_stage`) | merged files, provenance markers, phase-input markers, drop list | merge, unwrap with two inversions, SCLA, SCN; implicit merge and implicit stage 7 | patch stages, corrected phases, FINAL-QC | runs that start at a late stage; two kinds of marker; failures go on to the next stage | SCLA and SCN of one phase file; what is exported is current |
| Corrected phases (`gacos_correction.py`, `post_unwrap_deramp.py`) | product and cache record of each correction | reuse, make, record | stages 7 and 8, through the context of the run | torn products; records of older sources; contexts copied into processes | a reused product belongs to its source; made once per run |
| Interferogram selection (`ifg_selection.py`, `grid_ifg_qc.py`, `final_ifg_qc.py`) | network; candidates, kept, dropped and protected interferograms; the saved drop list | refuse, drop, protect, stop, restore | stage 6 | a sequence of harmless drops; limits; a list restored into another network | the network is preserved, at least cost, within the limit; a list numbers the network of now |
| GRID checkpoint (`stage6_sbas.py:2047-2880`) | memory-mapped maps, flags, signature | open, resume, fill, checkpoint | stage 6 | failures, kills and power failures between writes and flushes | what is marked done is on the disk, and belongs to the signature |
| Native driver (`crates/pystamps-core`) | plan of stages, files of the dataset | plan, run, `stage N`, bridge | the native stages, the Python command line | plans before it runs; kills between files; edits | what is reported as done is done, of all patches |
| Native stages 1-8 (`native_stage1.rs` to `native_stage8.rs`) | the `.mat` files of a patch or of the merged stack | sort, filter, select, weed, merge, unwrap, correct, estimate | each other, through files | shortcuts; ties; orders of rows; reruns over files of an earlier run; kills | rows agree between files; selection respects its order; what was put in comes back |
| Web service (`crates/pystamps-web`) | job table, config files, pages of runs | post, plan, run, poll, list | the bridge, reports of a tool | the service dies under its commands; two jobs on one dataset; partial reports; a list that is cut while a browser shows it | shown as completed means done; the page behind a line takes nothing back |
| HDF5 library (`crates/rust-hdf5`) | superblock, object headers, chunk indexes, chunks | create, link, write, append, resize, flush, close, refresh, read | a polling reader; later sessions | SWMR reading between any two writes; power loss; sessions that append; geometry of indexes; codecs | a reader sees a prefix; what was written reads back; an index is a map |
| Reference selection, kriging resume, kernels, command line, parity tools, scripts | - | - | - | numerical, or pure input/output | not modelled, see section 6 |

`PROJECT.json` lists every component with its status, and every hazard with its
line and the properties that cover it.

## 2. The modules

### PatchSweep and SlidingWindow: one patch stage over all patches

`PatchSweep` is the promise: a patch is started at most once, at most `Limit`
are active, results are published all together or the pool has died.

`SlidingWindow` is the code (`stages.py:1221-1338`). `main` is the position of
the main thread; `nextIx` is `patch_iter`; `waitedFor` is `pending`; `future`,
`done` and `results` are what the code calls by these names. `SubmitNext` is
`_submit_next_patch`, shared by `Fill` (the first window) and `Collect` (one
turn of `for fut in done`). `WaitReturns` may return any non-empty set of
finished futures, as `wait(FIRST_COMPLETED)` may. A wait that times out only
prints. The pool takes tasks in order (`TakeTask`), a task returns or raises
(`FinishTask`), and a process of a process pool may die (`WorkerDies`), after
which every unfinished future fails and every submit raises
(`concurrent.futures`, external). The pool may also have been broken by an
earlier stage, since one pool serves the whole run.

### PatchStages: stages 1 to 5 of one patch over many runs

A file is its `stamp`, the number of its last write, as size and `mtime_ns`
are in `_file_signature`. `SignedFiles` and `SignedKeys` are transcribed from
the tables of `provenance.py`, `ReadFiles` and `ReadKeys` from the loads in
`ported.py`; the difference between them is what the properties are about.
`from[s]` is what the product of stage s was really computed from. `WouldSkip`
is the condition of `skipped_existing`. A stage that is not skipped goes through
`BeginStage` (inputs read, product being overwritten in place), `FinishStage`
and `Commit` (the marker is computed from the inputs and settings at that
moment, a second read). `FailStage` and `Crash` are possible at each point.
After a failure the run goes on with the next stage, as `run_pipeline` does.
The user edits settings, prepares Stage 1 again, deletes outputs; markers are
left alone.

Two outputs of one stage that are always written together are one file.
`psver.mat` is not modelled: it is written by stages 1 and 5 and read by no
signature of stages 2 to 5. `suspect` is a history variable: the stages whose
last attempt did not end in a commit of exactly what it had read. The safety
properties hold outside it; the run `reuse_torn` shows what happens inside it.

### MergedStages: stages 5 to 8 over many runs

`stage` is the stage the run is at, `job` the stage being computed: stage 6
merges first when `ifgstd2.mat` is missing, stage 8 computes the SCLA first when
the SCLA on disk has another phase input. Each merged stage goes through
`Enter`, then, for stages 7 and 8, `_resolve_stage78_phase_file`
(`ReuseProduct`, or `MakeProduct` and `RecordProduct`, once for each enabled
correction, then `Resolved`), then `Skip`, or `Recompute` and its job. Stage 6 is
`BeginUnwrap` (old outputs moved away; the drop list may be restored),
`FirstInversion` (all interferograms, GRID audit written, and, since FINAL-QC owns the
drop list, `parms.mat` written with an empty one before SNAPHU, `stage6_sbas.py:3670-3681`
and 3826-3851), `FinalQC` and, when something is dropped, `SecondInversion`. `MarkPhase` writes
the phase-input marker, `Commit` the provenance marker. `EndLoop` and `Export`
are the gate before the exports and the exports themselves.

`PhaseCurrent` is `_phase_input_is_current` with its rule for outputs that
have no marker. `Forced` lists the reasons to recompute whatever the markers
say. `ctx` is `context.stage78_phase_file`; where a plan says that the context
is not shared, each merged stage runs in a pool process and leaves no trace
in it. `drop` and `qc` have two values: nothing dropped or something, the
settings of now or others. GACOS replaces its file in one step; everything else
is overwritten in place and can be torn. What the user does (a *setup*: bounds
of writes, edits and stops, first and last steps, corrections, what is edited) is
chosen in the initial state; `MCMergedStages` has three of them.

### NetworkQC: dropping interferograms

`rule` selects which code is modelled: `pre` (`ifg_selection.py`, automatic),
`manual` (the same file, the user's list), `grid` (`grid_ifg_qc.py`), `final`
(`final_ifg_qc.py`). Interferograms are numbered in the order in which the rule
considers them, which makes the candidates `1..bad`; every choice of the
network, of the candidates and of their order is an initial state. `Search` is
the depth-first search of the three files, as the least set closed under
neighbours. `Connected` and `ComponentCount` are the two tests of connectivity;
`Cut` says which rule uses which. `Holds`, the reference, is independent of both:
every bipartition of the days that the full network bridges is still bridged.
`MaxDrop` is the code's limit, which is raised to one where it rounds to nothing.
`WithinLimit` does not mention it: whoever drops more than one interferogram stays
within the share that is configured, and the preliminary rule drops none at 0.
`CapKept` is the share as `config/production.yaml:80` puts it, a finding.
`MCNetworkQC` adds the symmetry of the days.

### GridCheckpoint: what stage 6 keeps between runs

`_stage6_build_grid_batched` filters one interferogram after the other into
memory-mapped files. A run goes step by step through `script`, the list of file
operations with which the code opens, creates or discards the maps, then filters
batches, and at a checkpoint flushes the columns and only then the flags. The maps
have two contents: what every process sees (`kept`), and what is on the disk
(`disk`). `Kill` keeps the first, `PowerFailure` any mixture of the two that the
flushes allow, and a column may be torn. The drop list of
FINAL-QC, its signature and its restoring by `resolve_ifg_selection` are in the
same module because stage 6 decides both before it filters. Assumed of the file
system: names are durable in the order of the calls, `meta.json` and `parms.mat`
are whole, removing a directory is one step.

`SavedResults` puts SlidingWindow, PatchStages (with live edits) and GridCheckpoint
into one run, each as a part of its own.

### NativeDriver, WebJobs, WebRuns: the programs around the native stages

`NativeDriver` is `pystamps-native`: discovery of the patches, the plan made from
the files that are there, the stages one after the other over all patches, the
merge, `stage N`, and the bridge to the Python command line. A file is missing,
torn or whole and knows of which version of the raw inputs of which patches it
was made; it counts as made from all that its stage read. `Planned` is
`plan_pipeline`; `Begin`, `WriteFile`, `Refuse` and `Fault` are what becomes of a
pending result in the loop of `execute_run_pipeline`; `clean` and `faulted` are
history variables.

The tables that decide what a plan looks for (`Bundle`, `Inputs`, `Outputs`) are those of
`lib.rs`. What a stage really reads and writes is taken from the stages. It fails
without what it `Needs`; of what it `Takes` only a torn file makes it fail, what it
`Tolerates` it does without, and what it does `ReadLate` is opened only after other
files were written (`RefuseLate`). `extra` says which of `da1`, `hgt1` and `la1` the raw
files of a patch give. What stage 5 makes of them (and of `bp1`) is written only where
they are there, stage 7 makes a `bp2` of its own where there is none, and stage 6 a grid.
`WriteOrder` has the order, and files that are written at the same time can be torn
together. Patches that disagree on an optional file make the merge panic (`Panic`):
`Promised` says what a completed stage promises after all that.

Consequences that the model has and a reader may not expect: without heights or
look angles stage 5 is never skipped, since its bundle names `hgt2` and `la2`, while the
stages after it are; the merge takes a patch without `hgt2` for one that
disagrees only when another has it. Assumed: each patch has candidates, since the merge
passes over one that has none; `parms.mat` is there and says that patches are not
unwrapped one by one. Left out: rows that a merge of uneven patches might misplace
when it does not panic (files have no rows here), text metadata of stage 1, `inc1` and
`inc2`, which no native stage makes.

`WebJobs` has the jobs of the service: form, plan, config file, command,
what the page shows; the commands are processes of their own and outlive the
service. `WebRuns` has the pages over the reports of runs: directories change,
reports are written and are there in part for a while (which makes a page an error), the list is cut
to the directories that changed last, and a browser keeps a `line` of a list it loaded.
`LineHolds` compares that line with the page behind it at any later time.

### NativeStage1 to NativeStage8

One module per stage, each with the files it reads, the selection it makes and
the files it writes, over reruns, kills and missing or contradictory inputs.
Numbers are abstracted to what the control looks at: coherence is a rank or a
histogram bin, a phase is zero, NaN or signal in stage 2, whole steps of a cycle
in stages 6 and 8, exact fractions in stage 7. Each header says which. The last
section of each module enumerates the inputs: a plain one and those that differ
from it in one or two respects.

### SwmrStream, ObjectTree, ChunkStore, EaIndex, ChunkMap and the filters

`SwmrStream` is a writer that appends frames in SWMR mode, one file operation at a
time, and a reader that polls between any two of them; `maybe` has what each
block may hold after a power loss. `ObjectTree` is the tree of groups, datasets,
hard links and attributes over several sessions. `ChunkStore` is one dataset with
its chunks under the three kinds of index or none, appended, resized and read.
Rows that do not fill a chunk wait in `buffer`, also those of an append that fails
because it goes beyond the maximum: it writes chunks and fills the buffer first, and the
close writes what is buffered over a chunk of fill values. `astray` has the rows that this
may have replaced, so that `ChunksFaithful` is about all others, and `AppendsKept` about
all there are, a finding.
`EaIndex` is the geometry of the extensible array, block by block, and `ChunkMap`
the map it implements. `ChunkFilters` is the filter pipeline with its message,
`LzCodecs` the two LZ77 codecs of the library's own, `FilterNumbers` the checksum
and the quantizers with widths as constants.

### FixedArray, BtreeIndex and FlatIndexes: the two other chunk indexes

`FixedArray` has the array as it is in memory (`elements`) and its parts on the
disk (`blocks`): the header, and a data block that is one block or, above
`page` chunks, a prefix with a bitmap and pages. `First`, `End`, `WrittenAt` and
`Encoded` are the writer's arithmetic (`encode_fixed_array_dblk`), `PageNelmts`,
`ReadAt` and `DiskSize` the reader's and the allocator's; nothing in the code makes the one
follow from the other. `BtreeIndex` is `Bt2ChunkIndex`: a list of records,
written into one new leaf by every flush, and a header in place. `FlatIndexes` is
a file with one dataset of each kind: `WriteFixed`, `WriteTree`, the flushes,
`finalize` step by step, `Fail` for a write or a sync that fails, after which drop
finalizes once more, and `Disk`, by which anything that was issued since the
last sync gets to the disk in any order, possibly torn. A power failure is not an
action: the properties say what a reader finds of the disk, in every state.

### Composites

`NativeStages` (the eight stages), `NativePrograms` (driver, jobs, pages), `Hdf5Files`
(the library's parts, `FlatIndexes` among them) and `SavedResults` put the modules of a
family into one run. Their parts do not interact: what one stage leaves for the next is an
input of the next here, enumerated wider than the previous stage can leave it.
So `part`, chosen in the initial state, says which of them is explored, and the
variables of the others have no meaning and stay `"off"`. A property of a composite is
the conjunction of what one part promises, each conjunct named in its own
module and commented where it is listed (those of stage 2 in `Shortcuts`, because
`NativeStages` extends stages 1 and 2, which have proofs, and instantiates the others). Inputs come from instances of their
own (`I6`, `I7`), because a constant cannot be defined by the instance it
parameterises.

## 3. The runs

| Run | Question | Answer |
|---|---|---|
| `reuse_clean` | Is what is skipped what its marker says, and after a run from the first stages, is every product current, and does a repeated run skip? | yes |
| `reuse_live` | Is the window complete and faithful, does it implement the promise, and does it end, when tasks finish in any order and a process may die? Is what is skipped what its marker says, also with failures and edits during a run? Is what the grid checkpoint marks on the disk, and the drop list one of the network of now? | yes, outside `suspect` |
| `reuse_torn` | Is a torn product never skipped? | no: finding |
| `merged` | Do the merged stages skip only what matches, export one phase, made once, and current, and does a repeated run skip? | yes, outside `suspect` |
| `merged_direct8` | Does stage 8 alone always use an SCLA of its own phase file? | no: finding |
| `grid_resume` | Is the grid that stage 6 goes on with the one of the inputs of now? | no: finding |
| `network_cap` | Is never more than the configured share of interferograms rejected automatically? | no: finding |
| `network_qc` | Do the four rules preserve the network, at least cost, within the limit? | yes |
| `native_stages` | Do stages 1 to 5 keep rows and columns together, compute what the rules say that their shortcuts replace, select and weed as their rules say, and does the loop of stage 2 end? Do stages 6 to 8 add whole cycles only, and give back the planes, errors and velocities that were put in? | yes |
| `native_programs` | Does the native command report what it did; do the jobs and pages of the service? Does a command end? | yes |
| `hdf5` | Does a reader see exactly what was flushed; does everything written come back, through sessions, indexes and filters; has a file that can be opened, after a power failure at any time, exact fixed arrays and B-trees? | yes |
| `hdf5_append` | Are rows appended in one session still there after the next one? | no: finding |

The properties of a run:

- `reuse_clean`: `ReuseHonest`, `FullRunCurrent`, `RerunSkips`.
- `reuse_live`: `NoPatchLost`, `ReportFaithful`, `ImplementsSweep` (the
  refinement of `PatchSweep`) and `SweepsEnd` of the window; `PatchHonest`;
  `CheckpointHonest`, `DropListOfNow`.
- `merged`: `ReuseHonest` (with the types), `PhaseAgreement`, `RebuildShared`,
  `ExportCurrent`, `RerunSkips`.
- `network_qc`: `NetworkPreserved`, `ProtectedNeeded`, `WithinLimit`,
  `GreedyOptimal`, `TestsAgree`.
- `native_stages`: `CandidatesAligned`, `ShortcutsExact`, `IterationsEnd`, `SelectionRespectsOrder`,
  `WeedingKeepsBest`, `MergeAligned`, `UnwrappingFaithful`, `CorrectionRecovered`,
  `VelocityAndCyclesRecovered`.
- `native_programs`: `RunHonest`, `JobsHonest`, `LinesHold`, `RunsEnd`.
- `hdf5`: `StreamExact`, `EventuallySeen`, `TreeFaithful`, `ChunksFaithful`,
  `IndexIsMap` (the refinement of `ChunkMap`), `IndexesExact`, `FiltersFaithful`.

What they do not say: `ReuseHonest` and `PatchHonest` are silent on stages that are
`suspect`, that is, on a torn output that an old marker still matches (`reuse_torn` shows
one) and on settings edited while the stage ran. `FullRunCurrent` assumes that the drop list,
which no stage signs, does not change. `MergeAligned` is about a merge that
makes its files anew, and `UnwrappingFaithful` about a grid built from the inputs of now:
older files that stay behind are not excluded by them.

Every property of a passing run has a mutant of the code beside it in the
module (an operator named for the mistake, introduced by "Mutant of"), listed
in `PROJECT.json`; with it in place of the original the property fails.

### Bounds

- Window: `N = 5`, `Limit = 3`, `Workers = 2`: patches beyond the window, tasks
  queued behind the workers, and several futures finished in one wait all occur.
- `PatchStages`: `MaxStamp` bounds the number of file writes. 10 stamps allow a
  run of all five stages, an edit and the recomputation of what it invalidates;
  7 do so for three stages, where failures and live edits multiply the states. When
  stamps run out a run can only be killed, so no property is checked on a run cut
  short by the bound.
- `GridCheckpoint`: two interferograms in batches of one and two, with checkpoints
  after each, every second or at the end; two versions of every input, two edits
  and two faults, so that a fault can hit the run that recovers from a fault.
- `MergedStages`: patches and QC settings (9 writes, 2 edits); one correction
  switched and rebuilt from any start step (11 writes, 2 edits); both corrections
  with merged stages in processes (16 writes, 1 edit: two complete runs of stages 5
  to 8). One failure or crash each.
- `NetworkQC`: four days, five interferograms: cycles, double edges, bridges,
  disconnected networks and unused days. `Percents = {0, 10, 50}` puts the limit
  below, at and above the number of candidates, and has one that rounds to nothing.
  `network_cap` has the 5 % of `config/production.yaml`.
- Native stages: three or four points, candidates or patches; grids below, at and above the
  size of the window; see the comments of the inputs in each module.
- Programs: two patches, two commands, one fault and one edit (new raw files, another
  list, or one of six removed files: read, taken, made by two stages, or promised);
  `MCExtras` has patches that agree on their optional files and patches that do not.
  Two jobs, one death of the service. Pages: two runs, of which the list holds one,
  so that it is cut; three reports in two hours.
- HDF5: streams of two frames in two tiles, or of two datasets, one of them
  banded; trees of depth two over three sessions; nine layouts of chunks; every
  order of recording five chunks that reach the index block, the first data
  blocks and a super block; a chunk is three rows high in two layouts, so that the
  close flushes rows behind others, and each maximum is at least a chunk high (below
  that the count of buffered rows underflows); codecs with 5-bit and 8-bit fields narrowed so that
  every limit is within reach of inputs of a few dozen symbols.
- `FlatIndexes`: arrays without chunks, of one block, and of pages the last of which is
  full or short, with and without filters; trees of two places; two allocations with
  pages or a long array and three otherwise, enough to write a chunk again after a flush,
  and to have two leaves.

The inductive invariants of section 4 hold for all values, so for the Python
pipeline the bounds matter only for the liveness of the window.

### Deadlock and fairness

Deadlock is checked in every run. Modules that end stutter explicitly in their
ended states, and in the rest the user can always act again. Fairness is assumed
of programs only, never of users, crashes, failures or deaths:

- `SweepsEnd`: weak fairness of the main thread, which runs as long as its process
  does, and of the pool, whose workers take a task and end it (a stage that
  computes forever is outside the model).
- `IterationsEnd`: weak fairness of the loop of native stage 2.
- `RunsEnd`: weak fairness of the one command that is explored, and of each task and process of the
  service, which the operating system schedules.
- `EventuallySeen`: weak fairness of the SWMR writer and of a reader that goes
  on polling.

## 4. The proofs

Eight modules hold theorems that TLAPS checks for every value of the constants that
the named assumptions allow: at least one patch stage after Stage 1, at least one
worker, a finite set of days, plans whose steps are stages, forms of the fields
they have, and the like (`WindowAssumption`, `StagesAssumption`, `GridAssumption`,
`NetworkAssumption`, `MergedAssumption`, `ProgramsAssumption`,
`InputsAssumption`, `ShapeAssumption`, `CountAssumption`, `LengthAssumption`). TLC evaluates the assumptions in the runs. Together they
state every safety property of the Python pipeline that the runs check.

| Module | Theorems |
|---|---|
| `SlidingWindowProofs` | `Invariance`; `Safety` (with `SweepTypeOK`, `WindowBound`, `NoPatchLost`, `RaisesOnlyWhenPoolDied`), `Report` (`ReportFaithful`), `Refinement` (`ImplementsSweep`) |
| `NetworkQCProofs` | `Invariance`; `Preserved`, `Needed`, `Limit`, `Agree`, `Optimal` (the five properties of `network_qc`) |
| `MergedStagesProofs` | `Types`, `Invariance`; `HonestReuse`, `Shared`, `Repeated`, `OnePhase`, `UpToDate` (the properties of `merged`) |
| `SavedResultsProofs` | of `PatchStages`: `Invariance`; `HonestReuse` (`ReuseHonest`), `Repeated` (`RerunSkips`), `UpToDate` (`FullRunCurrent`). Of `GridCheckpoint`: `GridInvariance`; `Honest` (`CheckpointHonest`), `DropList` (`DropListOfNow`). Of the two beside each other: `PatchIsHonest` (`PatchHonest`), `GridIsHonest` |
| `NativeProgramsProofs` | `ServiceHonest` (`JobsHonest`) |
| `NativePatchProofs` | `Stage1Aligned`: stage 1 by itself is aligned, and a rerun changes baselines to means only; `Stage2Exact`: stage 2 has its `Shortcuts`, always |
| `NativeStagesProofs` | `Stage1InPlace` (`CandidatesAligned`), `Stage2InPlace` (`ShortcutsExact`): the same of their parts in the composite |
| `ChunkIndexProofs` | `LayoutExact` (pages and lengths), `Invariance`, `Exact` (`IndexesExact`) |

Each proof begins with an invariant that is inductive, which TLC checked on a
run first; each action has a lemma or a step of its own.

- **Window.** The invariant adds to `SweepTypeOK` that each submitted patch is in
  exactly one of `waitedFor`, `done` and those with a result (`Tracking`), and that
  `waitedFor`, `done` and the remaining turns of the collecting loop together never
  exceed the window (`Window`). Without them neither `WindowBound` nor
  `NoPatchLost` is inductive: a patch in no set would never be collected.
  `Refinement` maps each step to a step of `PatchSweep` or a stutter.
- **Patch stages, reuse.** The marker of a stage outside `suspect` agrees with
  `from` on every file and key that is both signed and read (`Committed`), and a
  stage between its first write and its commit is suspect (`Running`). The step of
  `Commit` is where the second read matters: the stage leaves `suspect` only when
  it agrees with the first.
- **Patch stages, whole runs.** `Repeated` assumes that nobody edits settings while
  a run goes on (`~LiveEdits`; otherwise the marker names a setting that the stage
  did not use). Its strengthening is that no stage disturbs what an earlier stage
  of the run signed (`Reported`).
  `UpToDate` assumes orderly runs (`Orderly`): they begin with stage 1 or 2, no
  stage raises, nobody edits during a run, and the drop list, which no stage signs,
  is not among the settings that change. None can be left out, TLC finds a
  counterexample to each: a run from stage 3 reads a `pm1` of old Stage-1 files,
  which only stage 2 signs; after a stage that failed the next goes on with old
  files. The invariant `Linked` says that stages that fit together read the same of
  what not each of them signs. That is why a signature need not list it.
- **GRID checkpoint.** A flag in memory, on the disk or on its way there never says
  more than the columns do (`Durable`, `Progress`); a map belongs to the signature
  beside it (`Signed`); while maps are made again, the operations are done in an
  order in which no old flag survives a new map (`Opening`). `CheckpointHonest` is
  stated of maps that were written for one set of phases and one network only
  (`OneSource`): the signature covers neither, which is the finding `grid_resume`.
- **Network.** `Search` is the least closed set, so it contains a day exactly
  when no division of the days keeps it apart (`SearchIsClosed`, `SearchIsLeast`). From
  this follow that the two tests of connectivity mean the same (`CountTest`,
  `HoldsConnected`) and, action by action, that what is protected was needed and
  what is dropped was not. `GreedyOptimal` compares what the loop keeps with every
  other choice, by exchange: what is protected is a bridge of what was kept, and a
  network which joins the same days with fewer interferograms would part them
  (`SmallerForest`, `ForestJoinsAll`, `Exchange`; a least counterexample is used where a
  textbook would use induction on the size).
- **Merged stages.** The invariant is `TypeOK /\ Control /\ Rebuilds /\ Data`:
  where a run is and which job it is at; how often a corrected phase was made; and
  six facts about files. Stamps grow (`Clocked`). The marker of a product outside
  `suspect` tells what it was computed from (`Committed`), and a job has read what is
  there (`Running`). The phase at hand belongs, link by link, to the `phuw2.mat` of
  now (`Chain`). A cache record is never newer than its product, and that never newer
  than its sources (`Recorded`): a record is trusted, so nothing may make an old
  one true again. An SCLA and the corrected phase it was made from
  have one `phuw2.mat` (`Lineage`): stage 7 reads `phuw2.mat` beside the corrected
  phase and does not sign it, and only through the lineage is it current all the same.
  `RerunSkips`, `PhaseAgreement` and `ExportCurrent` need in addition that a
  stage that is done stays skippable to the end of the run (`Reported`, `Fresh`); the
  exception is a rebuild in a process pool, where stage 8 may make the product of
  stage 7 again. The proof also showed that the model's `NextPhase` had been a CASE
  with overlapping arms, which TLC resolves by taking the first and a prover cannot:
  it is now a choice in the order of the code.
- **Service.** The invariant `JobInv` is about a job's task, its command and its
  settings file together, none of which waits for another. How far the task is
  tells how far the command can be (`Stepwise`). No two commands that were ever
  started share a name (`Named`), which is why one command's end never removes
  another's settings, and why a name left by a service that died is never taken
  again. While the service lives, the settings files are exactly those of the
  tasks that wait (`Settings`). Two commands in one dataset have crossed, and one
  that crossed no other owns what it is through with (`Crossing`): the code keeps
  the jobs of a dataset apart nowhere, so this is as much as it promises.

- **Native stage 1.** Sorting by counting how many come before is a permutation, since
  different elements have different counts (`SortedPermutes`, by cardinality, without
  induction), so that every row and column of the inputs is used once; what is inserted
  at a place and removed there leaves the list as it was (`InsertedAndRemoved`). With
  these, the cells of both possible results are what ps1 names (`PhaseCells`,
  `BaselineCells`). The invariant `Sources` says why no third result is possible: ps1 is
  there only after the text files, so that metadata never comes from an own ps1;
  a text file that is whole is never written again; and once a run succeeded all later
  ones read text (`Promises`), which is why the baselines of the candidates are lost
  and nothing else is. `inputs.kind = "old"`, products of another implementation, is
  left out of both properties, since there the rows of bp1 are sorted a second time.
- **Native stage 2.** The invariant `Stage2Inv` is short: where the inputs are from, that
  the grid has the size of the layout (`Sized`) and that after a fit a candidate has
  one of this iteration or none (`FitsOfIteration`). The work is in the geometry. A
  candidate has a cell of the grid (`InGrid`). The last window of an axis is moved back
  by what its weights are shifted (`WeightsStay`). The greatest window that begins
  before a cell reaches it: there are enough of them because four steps fit into a
  window (`Counted`, `AxisCovered`). The proof showed that this needs windows of
  four cells or more: shorter ones may have no window at all on an axis they fit
  in, and `WindowsCover` had not said so. Equally spaced centers are multiples of
  the distance, by a least counterexample, so that both ways of finding a bin count
  the same midpoints (`EquallySpaced`, `SameBin`). The composite adds only that the
  other parts leave stages 1 and 2 alone (`StepsApart`).
- **Saved results.** The run `reuse_live` has PatchStages and the window beside the grid.
  A step of one leaves the variables of the others alone (`EachPart`), so that both invariants
  hold of the whole.
- **Chunk indexes, layout.** For every number of chunks and every page size, the
  writer's last page ends at the last chunk, reader and writer agree on the place and the
  length of each page, and what is written has the length that was
  allocated (`LayoutExact`). This is arithmetic with remainders and products, which the
  provers do only over plain numbers: `PageCount`, `PageNumber`, `PageOf` and `Regrouped`
  are stated of such.
- **Chunk indexes, power failures.** The invariant says what of memory agrees with what
  was accepted (`Kept`, `Recorded`: one record for each place), and what of the disk
  agrees with memory, step by step of `finalize` (`ArrayOnDisk`, `TreeOnDisk`,
  `FileOnDisk`). The core is that the file can be opened only after both indexes were
  synced once (`Frozen`). From then on memory does not change, so that a second
  `finalize` writes over each part of the array what it already is, and leaves are
  never written over (`Allocated`): the tree is missing or exact
  at every moment, although its header is torn and points to another leaf in
  between (`HeaderRight`).

`SweepTypeOK`, `WindowBound` and `RaisesOnlyWhenPoolDied` of `SlidingWindow` and
`TypeOK` of `NetworkQC` are proved and not in a run of their own.

Only model-checked:

- Liveness (`SweepsEnd`, `IterationsEnd`, `RunsEnd`, `EventuallySeen`): the prover
  has no rules for fairness.
- The safety of the native command: what a merge reads is a file of every patch
  of the list, and a proof has to follow the tables of files through all that. The safety of
  the native stages 3 to 8, the pages and the HDF5 library but
  for two of its chunk indexes. What these compute is defined by recursion over data, and what a
  recursive definition or a fold yields for every input is shown by induction, which the
  provers cannot be given as a rule; the least counterexamples of the proofs above
  replace it for facts about numbers and finite sets, not for what a recursion computes. `ObjectTree`, `ChunkStore`, `ChunkFilters` and `LzCodecs`
  have recursive operators, and with them `hdf5` as a whole. The pages and stages 3, 5, 6
  and 7 sort (`SortSeq`, `SetToSortSeq`), all of 3 to 8 sum or fold, stage 4 searches
  a graph. `EaIndex` needs powers of two and their logarithms and flattens the fields of
  its blocks, and the calls of `SwmrStream` are flattened lists of file operations over an
  index that grows tile by tile.

## 5. Findings

Disagreements between the code and what is written about it. The first five have
a run that ends in a counterexample:

1. `reuse_torn` (`stages.py:783`): a stage whose output was deleted, and whose
   recomputation was killed while it wrote, is skipped over the torn output,
   because the old marker still matches (README.md:435-436).
2. `merged_direct8` (`stages.py:325`): stage 8 run alone may take an SCLA made from
   the GACOS phase for one made from `phuw2.mat`, when stage 7 was killed
   before its first phase-input marker (comment at stages.py:908-909).
3. `grid_resume` (`stage6_sbas.py:2199`): the signature of the filtered grid covers
   neither the phases nor which interferograms they belong to, so that a second
   run of stage 6 may unwrap the grid of the first one's inputs.
4. `network_cap` (`ifg_selection.py:1324`): a cap that rounds down to nothing is raised
   to one interferogram, which may be a larger share than configured
   (`config/production.yaml:80`: "never automatically reject more than 5%"); the
   grid and the final rule do so even for a cap of 0.
5. `hdf5_append` (`io/writer.rs:3381`): the flush of buffered rows at the close begins with a
   chunk of fill values, so that lines appended in a second session erase those
   of the first in the same chunk (`file.rs:125`: "Existing datasets are preserved";
   `dataset.rs:1031-1035` names the danger). In the same way the rows of an append that was
   refused for the maximum replace accepted ones.

Others were met while the modules were written. The models keep out of their way
by the inputs they enumerate, or say in a comment what the code does:

- Pipeline. Stages 3 and 4 read `drop_ifg_index` and do not sign it
  (`provenance.py:116`). With merged stages in a process pool a requested rebuild is
  done in stage 7 and again in stage 8 (`stages.py:1360`, README.md:490).
- Native stages. Rows of an existing `bp1.mat` are sorted a second time
  (`native_stage1.rs:163`); `write_phuw2` numbers the cells by rows and the grid
  by columns (`native_stage6.rs:879`); a square matrix is read transposed
  (`native_stage8.rs:326`).
- Service. Results are found only when the output is one JSON list
  (`pystamps-core/src/lib.rs:439`); runs are cut to the newest directories before
  they are sorted by their reports (`pystamps-web/src/main.rs:681`).
- HDF5 streaming (`io/writer.rs`, `io/swmr.rs`). No sync between a chunk and the
  block that refers to it (`writer.rs:1421`); a partial band is counted before it is
  written (`swmr.rs:436`); structural changes after `start_swmr` are not all
  committed (`writer.rs:3440`).
- HDF5 tree. One name for a group and a dataset (`writer.rs:860`); attributes
  added to a dataset of an earlier session are not written (`writer.rs:3444`);
  hard links come apart when a file is opened to append (`writer.rs:427`), hide
  names (`reader.rs:430`), or lose their count after SWMR (`writer.rs:3440`); a
  dataset may be registered with a deleted group (`writer.rs:1033`).
- HDF5 chunks. Growing columns of an extensible array moves its chunks
  (`writer.rs:3105`), shrinking a fixed array too (`writer.rs:3144`); chunks of one
  row are found by the number of the row (`reader.rs:2612`); appending to a B-tree
  fails at the close only (`dataset.rs:1060`); a chunk beyond the columns is
  written before it is refused (`dataset.rs:856`); extending ignores buffered
  rows (`writer.rs:3080`); a B-tree without chunks reads as nothing (`reader.rs:1698`).
- HDF5 B-trees. The number of records is cut to 16 bits (`btree_v2.rs:808`, against line
  93): a dataset of 65,536 chunks reads back as one without any, one of more cannot
  be read. `TreeExact` is stated below that number (`CountLimit`).
- HDF5 filters (`format/messages/filter.rs`). Inputs of less than 16 bytes
  (line 1522); block sizes other than the default (1057); blocks that do not get smaller
  (1124); chunks stored raw with mask 0 (789), and a mask no reader looks
  at (`reader.rs:1910`); element sizes over 255 (1467); chunks over 64 MB (560);
  rounding the largest numbers to infinity (1266).

## 6. Not modelled

- Numerical results: the transform of stage 2, triangulation, SNAPHU, fits of more
  than one point. Wording of messages and pages, timings, memory planning.
- Reference replay (`compat.strict_reference`, but for what stage 6 does with its drop
  list), `validate_stage_provenance: false`, dry runs of the Python driver; the
  sequential loop of stage 2, which has no concurrency; reference selection; the
  kriging branch of stage 8 and its resumable workers; settings that only the
  caches of the corrections sign; command line, configuration, parity tools, scripts.
- Two invocations of the Python driver on one dataset at the same time; the
  service's jobs on one dataset are in `WebJobs`.
- A file system on which two writes of one size can have one `mtime_ns` would
  break the stamps, in the model as in the code.
- MAT files are whole, torn or missing; their encoding is not modelled.
- HDF5: encodings of messages other than the filter pipeline, types, locks, dense
  links and symbol tables, group and root attributes and empty groups over a second
  session, trees in SWMR mode; B-trees with internal nodes, which only other
  libraries write; opaque compressors, SZIP, N-bit, the undoing of scale-offset, chunks
  stored with a filter mask; widths of addresses. The reader
  does not verify page checksums and strips Fletcher-32 unverified; this library
  never writes extensible arrays with blocks of pages. BitGroom of eight-byte data ignores the missing
  value.

## 7. Plan

Order of work, most important first; the modules of section 2 and the proofs of
section 4 are done. What is left to prove is what could be reached by other definitions, equally
close to the code:

1. The reader of `SwmrStream`, with a call described by its position in place of the
   list of what is left of it, and the index after n tiles as a set of entries.
2. `EaIndex` implements `ChunkMap`, with sizes as a table that the constants give
   (assumed to double) in place of powers, and fields numbered instead of flattened.
3. The alignment of rows of the merge in `NativeStage5`, sorted by counting as
   `NativeStage1` is.

And to model: the resume of the kriging branch, and reference selection.
