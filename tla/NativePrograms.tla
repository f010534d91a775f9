--------------------------- MODULE NativePrograms ----------------------------
(***************************************************************************)
(* The programs around the native stages: the command that runs them, and  *)
(* the service with its jobs and its pages.  Part of the state says which  *)
(* is explored; a command does not know who started it, and the pages are  *)
(* about reports that neither writes, so that they share no state.         *)
(***************************************************************************)
EXTENDS NativeDriver

CONSTANTS
    Forms2, Here2, MaxJobs2, MaxDeaths2,            \* of the jobs
    Runs3, MaxRecentRuns, MaxHours3, MaxReports3    \* of the pages

ASSUME ProgramsAssumption ==
    /\ {MaxJobs2, MaxDeaths2} \subseteq Nat
    /\ Forms2 # {}
    /\ Forms2 \subseteq [dataset : STRING, from : Nat, to : Nat, backend : STRING, dry : BOOLEAN]

VARIABLES part,   \* which of them runs
    jobs, task, process, clock, deaths, product, crossed,
    hour, changed, report, line
programVars == <<part, raw, extra, list, disk, pc, cmd, plan, at, todo, config,
                 left, clean, faulted, jobs, task, process, clock, deaths,
                 product, crossed, hour, changed, report, line>>

Jobs == INSTANCE WebJobs WITH Forms <- Forms2, Datasets <- Here2, MaxJobs <- MaxJobs2, MaxDeaths <- MaxDeaths2
Pages == INSTANCE WebRuns WITH Runs <- Runs3, MaxHours <- MaxHours3, MaxReports <- MaxReports3

\* Whole runs, partial ones and refused ones.
Run(a, b) == [kind |-> "run", start |-> a, end |-> b, dry |-> FALSE, backend |-> "auto",
              kernel |-> "auto", threads |-> 0, nativeOnly |-> FALSE]
MCCommands ==
    {Run(1, 8), Run(5, 8), Run(6, 8), Run(3, 2), [Run(1, 8) EXCEPT !.dry = TRUE],
     [Run(1, 8) EXCEPT !.kernel = "python", !.threads = 2],
     [Run(1, 8) EXCEPT !.nativeOnly = TRUE],
     [Run(1, 8) EXCEPT !.kind = "bridge"],
     [kind |-> "stage", stage |-> 5, place |-> 1], [kind |-> "stage", stage |-> 6, place |-> 0]}
MCLists == {<<>>, <<2, 1>>, <<1>>}
\* Patches that agree on what they have, and patches that do not.
MCExtras == {<<{"da1"}, {"hgt1", "la1"}>>, <<{"hgt1", "la1"}, {"hgt1", "la1"}>>}
MCRemovable == {"ps1", "hgt1", "bp1", "bp2", "uw_grid", "scla2"}

\* Two commands of one dataset, a dry run, a dataset that is missing, and forms
\* that are not accepted.
Form(dataset, from, to, backend, dry) ==
    [dataset |-> dataset, from |-> from, to |-> to, backend |-> backend, dry |-> dry]
MCForms == {Form("A", 1, 2, "native", FALSE), Form("A", 1, 2, "threads", FALSE), Form("A", 2, 2, "native", FALSE),
            Form("A", 1, 2, "native", TRUE), Form("B", 1, 2, "native", FALSE),
            Form("A", 2, 1, "native", FALSE), Form("A", 0, 1, "native", FALSE), Form("", 1, 1, "native", FALSE)}

-----------------------------------------------------------------------------
\* The variables of the parts that do not run have no meaning.
Off == "off"
\* One command and no edits, to see how it ends.
OneCommand == Idle => left' = left \/ (left.runs = MaxRuns /\ left'.edits = left.edits)

ProgramInit ==
    \/ /\ part \in {"driver", "command"} /\ Init
       /\ jobs = Off /\ task = Off /\ process = Off /\ clock = Off
       /\ deaths = Off /\ product = Off /\ crossed = Off
       /\ hour = Off /\ changed = Off /\ report = Off /\ line = Off
    \/ /\ part = "jobs" /\ Jobs!Init
       /\ raw = Off /\ extra = Off /\ list = Off /\ disk = Off /\ pc = Off /\ cmd = Off
       /\ plan = Off /\ at = Off /\ todo = Off /\ left = Off /\ clean = Off
       /\ faulted = Off
       /\ hour = Off /\ changed = Off /\ report = Off /\ line = Off
    \/ /\ part = "pages" /\ Pages!Init
       /\ raw = Off /\ extra = Off /\ list = Off /\ disk = Off /\ pc = Off /\ cmd = Off
       /\ plan = Off /\ at = Off /\ todo = Off /\ config = Off /\ left = Off
       /\ clean = Off /\ faulted = Off
       /\ jobs = Off /\ task = Off /\ process = Off /\ clock = Off
       /\ deaths = Off /\ product = Off /\ crossed = Off
PageVars == <<hour, changed, report, line>>
ProgramNext ==
    \/ /\ part \in {"driver", "command"} /\ Next /\ (part = "command" => OneCommand)
       /\ UNCHANGED <<part, jobs, task, process, clock, deaths, product,
                      crossed, PageVars>>
    \/ /\ part = "jobs" /\ Jobs!Next
       /\ UNCHANGED <<part, raw, extra, list, disk, pc, cmd, plan, at, todo, left,
                      clean, faulted, PageVars>>
    \* A service may have nothing to do.
    \/ part = "jobs" /\ UNCHANGED programVars
    \/ /\ part = "pages" /\ Pages!Next
       /\ UNCHANGED <<part, raw, extra, list, disk, pc, cmd, plan, at, todo, config,
                      left, clean, faulted, jobs, task, process, clock, deaths,
                      product, crossed>>
\* The system comes to every command, the runtime to every task.
NotDriver == <<part, jobs, task, process, clock, deaths, product, crossed, PageVars>>
NotJobs == <<part, raw, extra, list, disk, pc, cmd, plan, at, todo, left, clean,
             faulted, PageVars>>
ProgramSpec == ProgramInit /\ [][ProgramNext]_programVars
    /\ WF_programVars(part = "command" /\ Driver /\ UNCHANGED NotDriver)
    /\ \A j \in Jobs!Ids : /\ WF_programVars(part = "jobs" /\ Jobs!Work(j) /\ UNCHANGED NotJobs)
                           /\ WF_programVars(part = "jobs" /\ Jobs!Command(j) /\ UNCHANGED NotJobs)

-----------------------------------------------------------------------------
(* The native command, over kills, failures, removed files and edits: what *)
(* it reports as done is done, of all patches, and it touches nothing else. *)
RunHonest ==
    /\ [](part = "driver" =>
            /\ TypeOK
            /\ ResumedWhole        \* a run that ends well leaves whole files of all patches
            /\ CompletedHasFiles   \* so does every stage it calls completed
            /\ PlanRunnable        \* what the coverage calls native can be run
            /\ PatchesIsolated     \* a patch does not suffer from another's failure
            /\ ConfigRemoved)      \* the settings of the bridge, unless it is killed
    /\ [][part = "driver" => MergeStep]_programVars     \* the merge takes every patch
    /\ [][part = "driver" => FinishedStep]_programVars  \* what is complete is left alone

(* The service, with two jobs that may share a dataset and commands that   *)
(* outlive it: a command works with the settings of its own job, and what  *)
(* is shown as completed was done.                                         *)
JobsHonest ==
    /\ [](part = "jobs" =>
            /\ Jobs!TypeOK
            /\ Jobs!OwnSettings
            /\ Jobs!SettingsThere      \* while the service lives
            /\ Jobs!CompletedEnded)
    /\ [][part = "jobs" => Jobs!EndedStep]_programVars   \* all products, each from the one before
    /\ [][part = "jobs" => Jobs!DryRunStep]_programVars  \* a dry run changes nothing

(* The pages: behind a line of the list that was loaded at any time is the *)
(* page of that run, and it takes nothing back (load_recent_native_runs,   *)
(* load_native_run_detail).                                                *)
LinesHold == part = "pages" => Pages!TypeOK /\ Pages!LineHolds

(* A command ends, whatever fails in it, and a job is completed or failed  *)
(* in the end unless the service dies.                                     *)
RunsEnd ==
    /\ <>[](part = "command" => Idle)
    /\ <>[](part = "jobs" => \A j \in Jobs!Ids : task[j] = "none" \/ Jobs!Over(j))
=============================================================================
