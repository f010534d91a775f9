------------------------------- MODULE WebJobs -------------------------------
(***************************************************************************)
(* The jobs of the web service (pystamps-web): a form is posted, a task of *)
(* the runtime plans it or runs the command line through the bridge of     *)
(* pystamps-core, and the page of a job shows what came of it.  The jobs   *)
(* are kept in memory; the commands are processes of their own, so that    *)
(* they go on when the service dies.                                       *)
(*                                                                         *)
(* A stage of a command makes its product from the product of the stage    *)
(* before; what a stage does is the subject of the modules of the stages.  *)
(* A reading of the clock is later than the readings before it.            *)
(***************************************************************************)
EXTENDS Integers

CONSTANTS
    Forms,          \* the forms that are posted
    Datasets,        \* the datasets that are there
    MaxJobs,        \* bound of the jobs
    MaxDeaths       \* bound of the deaths of the service

\* Where MaxJobs \in Nat /\ MaxDeaths \in Nat.

VARIABLES
    jobs,           \* the map of the service: job -> what is shown
    task,           \* where the task of a job is
    process,        \* the command of a job
    config,         \* the files for the settings, by name
    clock, deaths,
    product,        \* of each dataset and stage: who made it, from whose input
    crossed         \* jobs whose command ran while another was in its dataset
vars == <<jobs, task, process, config, clock, deaths, product, crossed>>

Stages == 1..8
Backends == {"auto", "threads", "processes", "gpu", "native"}
Ids == 1..MaxJobs
\* validate_form.
ValidForm(f) ==
    /\ f.from # 0 /\ f.to # 0 /\ f.from <= f.to /\ f.to <= 8
    /\ f.dataset # "" /\ f.backend \in Backends
Queued(f) == [form |-> f, state |-> "queued", results |-> "none", error |-> FALSE]

\* start_run: the job is in the map before its task runs.
StartRun(f) ==
    /\ ValidForm(f) /\ \E j \in Ids : task[j] = "none"
    /\ LET j == CHOOSE k \in Ids : task[k] = "none" /\ \A i \in Ids : task[i] = "none" => k <= i IN
       jobs' = [i \in DOMAIN jobs \cup {j} |-> IF i = j THEN Queued(f) ELSE jobs[i]]
       /\ task' = [task EXCEPT ![j] = "spawned"]
    /\ UNCHANGED <<process, config, clock, deaths, product, crossed>>

Show(j, state, results, error) ==
    jobs' = [jobs EXCEPT ![j] = [form |-> @.form, state |-> state, results |-> results, error |-> error]]

WaysOn(f) == IF f.dry THEN "plan" ELSE "bridge"
\* run_job: the first lock.
Take(j) ==
    /\ task[j] = "spawned"
    /\ Show(j, "running", "none", FALSE)
    /\ task' = [task EXCEPT ![j] = WaysOn(jobs[j].form)]
    /\ UNCHANGED <<process, config, clock, deaths, product, crossed>>

\* A dry run is planned from what is in the dataset.
Plan(j) ==
    /\ task[j] = "plan"
    /\ IF jobs[j].form.dataset \in Datasets
       THEN Show(j, "completed", "planned", FALSE) ELSE Show(j, "failed", "none", TRUE)
    /\ task' = [task EXCEPT ![j] = "done"]
    /\ UNCHANGED <<process, config, clock, deaths, product, crossed>>

\* Mutant of ConfigName: the same name for all commands of a service.
ConfigNameFixed(time) == 0
\* temp_runtime_config_path: the id of the service is the same for all jobs.
ConfigName(time) == time

InDataset(d) == {i \in Ids : process[i].st = "running" /\ process[i].form.dataset = d}
\* execute_pipeline_cli_bridge: the settings are written, the command starts.
Bridge(j) ==
    LET f == jobs[j].form
        name == ConfigName(clock + 1) IN
    /\ task[j] = "bridge"
    /\ IF f.dataset \in Datasets
       THEN /\ config' = [n \in DOMAIN config \cup {name} |-> IF n = name THEN f.backend ELSE config[n]]
            /\ clock' = clock + 1
            /\ process' = [process EXCEPT ![j] = [st |-> "started", form |-> f, name |-> name,
                                                  backend |-> "", next |-> f.from]]
            /\ task' = [task EXCEPT ![j] = "wait"]
       ELSE task' = [task EXCEPT ![j] = "error"] /\ UNCHANGED <<process, config, clock>>
    /\ UNCHANGED <<jobs, deaths, product, crossed>>

\* The command reads its settings; without them it stops with an error.
Load(j) ==
    LET p == process[j] IN
    /\ p.st = "started"
    /\ IF p.name \in DOMAIN config
       THEN /\ process' = [process EXCEPT ![j] = [p EXCEPT !.st = "running", !.backend = config[p.name]]]
            /\ crossed' = crossed \cup (IF InDataset(p.form.dataset) = {} THEN {}
                                        ELSE {j} \cup InDataset(p.form.dataset))
       ELSE process' = [process EXCEPT ![j].st = "failed"] /\ crossed' = crossed
    /\ UNCHANGED <<jobs, task, config, clock, deaths, product>>

\* run_cli_bridge_command: the range that is passed on.
LastStage(p) == p.form.to
\* One stage of the command, or the end of it.
Stage(j) ==
    LET p == process[j]
        d == p.form.dataset IN
    /\ p.st = "running"
    /\ \/ /\ p.next <= LastStage(p)
          /\ product' = [product EXCEPT ![d][p.next] =
                            [by |-> j, on |-> IF p.next = 1 THEN 0 ELSE product[d][p.next - 1].by]]
          /\ process' = [process EXCEPT ![j].next = @ + 1]
       \/ p.next > LastStage(p) /\ process' = [process EXCEPT ![j].st = "ended"] /\ product' = product
       \/ process' = [process EXCEPT ![j].st = "failed"] /\ product' = product
    /\ UNCHANGED <<jobs, task, config, clock, deaths, crossed>>

\* The command prints its settings file before the results, and only an
\* output that is a JSON list as a whole is taken.
ParsedResults(f) == "none"
\* The task of the bridge gets the output of the command, then the second lock
\* of run_job.
Collect(j) ==
    /\ task[j] = "wait" /\ process[j].st \in {"ended", "failed"}
    /\ config' = [n \in DOMAIN config \ {process[j].name} |-> config[n]]
    /\ task' = [task EXCEPT ![j] = "settle"]
    /\ UNCHANGED <<jobs, process, clock, deaths, product, crossed>>
Settled(j) == IF process[j].st = "ended" THEN "completed" ELSE "failed"
\* Mutant of Settle: an error of the bridge is only noted.
SettleNoted(j) ==
    /\ \/ task[j] = "settle" /\ Show(j, Settled(j), ParsedResults(jobs[j].form), process[j].st = "failed")
       \/ task[j] = "error" /\ Show(j, jobs[j].state, "none", TRUE)
    /\ task' = [task EXCEPT ![j] = "done"]
    /\ UNCHANGED <<process, config, clock, deaths, product, crossed>>
Settle(j) ==
    /\ \/ task[j] = "settle" /\ Show(j, Settled(j), ParsedResults(jobs[j].form), process[j].st = "failed")
       \/ task[j] = "error" /\ Show(j, "failed", "none", TRUE)
    /\ task' = [task EXCEPT ![j] = "done"]
    /\ UNCHANGED <<process, config, clock, deaths, product, crossed>>

\* The service dies and is started again; the commands go on.
Die ==
    /\ deaths < MaxDeaths /\ deaths' = deaths + 1
    /\ jobs' = [j \in {} |-> Queued(CHOOSE f \in Forms : TRUE)]
    /\ task' = [j \in Ids |-> IF task[j] = "none" THEN "none" ELSE "lost"]
    /\ UNCHANGED <<process, config, clock, product, crossed>>

NoProcess(f) == [st |-> "none", form |-> f, name |-> 0, backend |-> "", next |-> 1]
Init ==
    /\ jobs = [j \in {} |-> Queued(CHOOSE f \in Forms : TRUE)]
    /\ task = [j \in Ids |-> "none"]
    /\ process = [j \in Ids |-> NoProcess(CHOOSE f \in Forms : TRUE)]
    /\ config = [n \in {} |-> ""] /\ clock = 0 /\ deaths = 0 /\ crossed = {}
    /\ product = [d \in Datasets |-> [s \in Stages |-> [by |-> 0, on |-> 0]]]

\* The step of the task or of the command of a job.
Work(j) == Take(j) \/ Plan(j) \/ Bridge(j) \/ Collect(j) \/ Settle(j)
Command(j) == Load(j) \/ Stage(j)
Next == (\E f \in Forms : StartRun(f)) \/ (\E j \in Ids : Work(j) \/ Command(j)) \/ Die

Spec == Init /\ [][Next]_vars

-----------------------------------------------------------------------------
\* Jobs have forms the chain can run, and no more settings files are left
\* than services died in the middle of.
TypeOK ==
    /\ \A j \in DOMAIN jobs :
          /\ jobs[j].state \in {"queued", "running", "completed", "failed"}
          /\ jobs[j].form.from \in Stages /\ jobs[j].form.to \in jobs[j].form.from..8
    /\ deaths = 0 => \A n \in DOMAIN config : \E j \in Ids : task[j] = "wait" /\ process[j].name = n

\* A command works with the settings of its own job (run_job of two jobs at a
\* time, in one service).
OwnSettings == \A j \in Ids : process[j].st = "running" => process[j].backend = process[j].form.backend

\* No command that found its dataset to itself fails for want of its settings.
SettingsThere == \A j \in Ids : process[j].st = "started" /\ deaths = 0 => process[j].name \in DOMAIN config

\* A job is shown as completed only when its command ended well.
CompletedEnded ==
    \A j \in DOMAIN jobs : jobs[j].state = "completed" /\ ~jobs[j].form.dry => process[j].st = "ended"

\* Two jobs of one dataset are not kept apart.  A command that nothing crossed
\* leaves at its end a product of its own for every stage of its form,
\* each made from its own product before.
EndedStep ==
    \A j \in Ids :
        LET f == process[j].form IN
        process[j].st = "running" /\ process'[j].st = "ended" /\ j \notin crossed =>
            \A s \in f.from..f.to :
                product[f.dataset][s].by = j /\ (s > f.from => product[f.dataset][s].on = j)

\* A dry run leaves the dataset and the settings alone.
DryRunStep == \A j \in DOMAIN jobs : jobs[j].form.dry => process'[j].st = "none"

\* The job is over, or died with the service.
Over(j) == (j \in DOMAIN jobs /\ jobs[j].state \in {"completed", "failed"}) \/ task[j] = "lost"
=============================================================================
