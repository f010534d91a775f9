------------------------ MODULE NativeProgramsProofs ------------------------
(***************************************************************************)
(* Proofs about the jobs of the web service, for any number of jobs, any   *)
(* forms and datasets, any failures and any number of deaths of the        *)
(* service.                                                                *)
(***************************************************************************)
EXTENDS NativePrograms, FiniteSetTheorems, SequenceTheorems, WellFoundedInduction, TLAPS

-----------------------------------------------------------------------------
(* The jobs of the web service.                                            *)

\* Jobs the service knows; the others were never posted or died with it.
Known == {j \in Jobs!Ids : task[j] \notin {"none", "lost"}}

JobSteps == {"none", "spawned", "plan", "bridge", "wait", "settle", "error", "done", "lost"}
Backings == {f.backend : f \in Forms2} \cup {""}
Commanded == [st : {"none", "started", "running", "ended", "failed"}, form : Forms2,
            name : Nat, backend : Backings, next : Nat]

JobTypes ==
    /\ task \in [Jobs!Ids -> JobSteps] /\ process \in [Jobs!Ids -> Commanded]
    /\ clock \in Nat /\ deaths \in Nat /\ crossed \subseteq Jobs!Ids
    /\ DOMAIN jobs = Known
    /\ \A j \in Known : /\ jobs[j].form \in Forms2 /\ Jobs!ValidForm(jobs[j].form)
                        /\ jobs[j].state \in {"queued", "running", "completed", "failed"}
    /\ config \in [DOMAIN config -> Backings] /\ DOMAIN config \subseteq 1..clock
    /\ product \in [Here2 -> [Jobs!Stages -> [by : Nat, on : Nat]]]

\* How far a task is tells how far its command can be.
StepwiseAt(j) ==
    /\ task[j] \in {"none", "spawned", "plan", "bridge", "error"} => process[j].st = "none"
    /\ task[j] = "wait" => process[j].st # "none"
    /\ task[j] = "settle" => process[j].st \in {"ended", "failed"}
    /\ task[j] = "plan" => jobs[j].form.dry
    /\ task[j] = "bridge" => ~jobs[j].form.dry
    /\ j \in Known /\ process[j].st # "none" =>
          process[j].form = jobs[j].form /\ ~jobs[j].form.dry
    /\ j \in Known /\ jobs[j].state = "completed" /\ ~jobs[j].form.dry =>
          process[j].st = "ended"
Stepwise == \A j \in Jobs!Ids : StepwiseAt(j)

\* Commands that were started, and their names for their settings.
Named ==
    /\ \A j \in Jobs!Ids : process[j].st # "none" =>
          /\ process[j].name \in 1..clock
          /\ process[j].form.dataset \in Here2
          /\ Jobs!ValidForm(process[j].form)
    /\ \A i, j \in Jobs!Ids :
          i # j /\ process[i].st # "none" /\ process[j].st # "none" =>
              process[i].name # process[j].name

\* Settings are those of the job, and stay until its command has ended.
Settings ==
    /\ \A j \in Jobs!Ids :
          /\ process[j].st = "started" /\ process[j].name \in DOMAIN config =>
                config[process[j].name] = process[j].form.backend
          /\ process[j].st = "running" => process[j].backend = process[j].form.backend
    /\ deaths = 0 =>
          /\ \A j \in Jobs!Ids :
                /\ task[j] # "lost"
                /\ process[j].st \in {"started", "running"} => task[j] = "wait"
                /\ task[j] = "wait" => process[j].name \in DOMAIN config
          /\ \A n \in DOMAIN config : \E j \in Jobs!Ids : task[j] = "wait" /\ process[j].name = n

\* Two commands in one dataset have crossed; a command that crossed no other
\* has made what it is through with.
Makes(j) ==
    LET p == process[j] IN
    \A s \in p.form.from..(p.next - 1) :
        /\ product[p.form.dataset][s].by = j
        /\ s > p.form.from => product[p.form.dataset][s].on = j

Crossing ==
    /\ \A j \in Jobs!Ids : process[j].st = "started" => process[j].next = process[j].form.from
    /\ \A j \in Jobs!Ids : process[j].st = "running" =>
          /\ process[j].next \in process[j].form.from..(process[j].form.to + 1)
          /\ j \notin crossed => Makes(j)
    /\ \A i, j \in Jobs!Ids :
          /\ i # j /\ process[i].st = "running" /\ process[j].st = "running"
          /\ process[i].form.dataset = process[j].form.dataset
          => i \in crossed /\ j \in crossed

JobInv == JobTypes /\ Stepwise /\ Named /\ Settings /\ Crossing

-----------------------------------------------------------------------------
\* A posted form is given the first free number.
LEMMA LeastNumber ==
    ASSUME NEW T \in SUBSET Nat, T # {}
    PROVE  \E x \in T : \A y \in T : x <= y
<1>1. PICK x \in T : \A y \in T : <<y, x>> \notin OpToRel(<, Nat)
  BY NatLessThanWellFounded, WFMin
<1>2. \A y \in T : ~(y < x)
  BY <1>1 DEF OpToRel
<1>. QED
  BY <1>2

FirstFree ==
    CHOOSE k \in Jobs!Ids : task[k] = "none" /\ \A i \in Jobs!Ids : task[i] = "none" => k <= i

LEMMA FreeNumber ==
    ASSUME NEW k \in Jobs!Ids, task[k] = "none"
    PROVE  FirstFree \in Jobs!Ids /\ task[FirstFree] = "none"
<1>1. {i \in Jobs!Ids : task[i] = "none"} \in SUBSET Nat
  BY DEF Jobs!Ids
<1>2. PICK x \in {i \in Jobs!Ids : task[i] = "none"} :
          \A y \in {i \in Jobs!Ids : task[i] = "none"} : x <= y
  BY <1>1, LeastNumber
<1>. QED
  BY <1>2 DEF FirstFree

-----------------------------------------------------------------------------
\* Types.

LEMMA FormTypes ==
    ASSUME NEW f \in Forms2, Jobs!ValidForm(f)
    PROVE  /\ f.from \in 1..8 /\ f.to \in f.from..8 /\ f.backend \in Backings /\ f.dry \in BOOLEAN
           /\ f.from..f.to \subseteq Jobs!Stages
<1>1. f \in [dataset : STRING, from : Nat, to : Nat, backend : STRING, dry : BOOLEAN]
  BY ProgramsAssumption
<1>2. f.from \in Nat /\ f.to \in Nat /\ f.dry \in BOOLEAN
  BY <1>1
<1>3. f.from # 0 /\ f.from <= f.to /\ f.to <= 8
  BY DEF Jobs!ValidForm
<1>4. f.backend \in Backings
  BY DEF Backings
<1>. QED
  BY <1>2, <1>3, <1>4 DEF Jobs!Stages

\* Only job j is shown otherwise, and never another form.
Shown(j) ==
    /\ DOMAIN jobs' = Known
    /\ \A i \in Known : jobs'[i].form = jobs[i].form
    /\ \A i \in Known \ {j} : jobs'[i] = jobs[i]

\* All that JobTypes says of jobs and tasks.
LEMMA ShownTypes ==
    ASSUME JobTypes, NEW j \in Known, Shown(j), Known' = Known, task' \in [Jobs!Ids -> JobSteps],
           jobs'[j].state \in {"queued", "running", "completed", "failed"},
           UNCHANGED <<process, config, clock, deaths, product, crossed>>
    PROVE  JobTypes'
BY DEF JobTypes, Shown

LEMMA StartTypes ==
    ASSUME JobTypes, NEW f \in Forms2, Jobs!StartRun(f)
    PROVE  /\ JobTypes'
           /\ \E j \in Jobs!Ids :
                 /\ task[j] = "none" /\ task' = [task EXCEPT ![j] = "spawned"]
                 /\ Known' = Known \cup {j}
                 /\ jobs'[j] = Jobs!Queued(f) /\ \A i \in Known : jobs'[i] = jobs[i]
<1>1. FirstFree \in Jobs!Ids /\ task[FirstFree] = "none"
  <2>1. \E k \in Jobs!Ids : task[k] = "none"
    BY DEF Jobs!StartRun
  <2>. QED
    BY <2>1, FreeNumber
<1>2. /\ task' = [task EXCEPT ![FirstFree] = "spawned"]
      /\ jobs' = [i \in DOMAIN jobs \cup {FirstFree} |->
                    IF i = FirstFree THEN Jobs!Queued(f) ELSE jobs[i]]
      /\ Jobs!ValidForm(f)
      /\ UNCHANGED <<process, config, clock, deaths, product, crossed>>
  BY DEF Jobs!StartRun, FirstFree
<1>3. Known' = Known \cup {FirstFree} /\ FirstFree \notin Known
  BY <1>1, <1>2 DEF Known, JobTypes, JobSteps
<1>4. /\ jobs'[FirstFree] = Jobs!Queued(f)
      /\ \A i \in Known : jobs'[i] = jobs[i]
      /\ DOMAIN jobs' = Known'
  BY <1>2, <1>3 DEF JobTypes
<1>5. JobTypes'
  BY <1>1, <1>2, <1>3, <1>4 DEF JobTypes, JobSteps, Jobs!Queued
<1>. QED
  BY <1>1, <1>2, <1>3, <1>4, <1>5

LEMMA SameKnown ==
    ASSUME JobTypes, NEW j \in Known, NEW t \in JobSteps \ {"none", "lost"},
           task' = [task EXCEPT ![j] = t]
    PROVE  Known' = Known /\ task' \in [Jobs!Ids -> JobSteps]
BY DEF JobTypes, Known, JobSteps

\* A command of job j begins, with its settings in a file.
Started(j) ==
    LET f == jobs[j].form IN
    /\ f.dataset \in Here2
    /\ clock' = clock + 1
    /\ config' = [n \in DOMAIN config \cup {clock'} |-> IF n = clock' THEN f.backend ELSE config[n]]
    /\ process' = [process EXCEPT ![j] = [st |-> "started", form |-> f, name |-> clock',
                                          backend |-> "", next |-> f.from]]
    /\ task' = [task EXCEPT ![j] = "wait"]

LEMMA WorkTypes ==
    ASSUME JobTypes, Stepwise, NEW j \in Jobs!Ids, Jobs!Work(j)
    PROVE  /\ JobTypes' /\ Known' = Known /\ j \in Known
           /\ \A i \in Known : jobs'[i].form = jobs[i].form
           /\ \A i \in Known \ {j} : jobs'[i] = jobs[i]
<1>1. j \in Known
  BY DEF Jobs!Work, Jobs!Take, Jobs!Plan, Jobs!Bridge, Jobs!Collect, Jobs!Settle, Known
<1>2. CASE Jobs!Take(j)
  <2>1. Known' = Known /\ task' \in [Jobs!Ids -> JobSteps]
    BY <1>1, <1>2, SameKnown DEF Jobs!Take, Jobs!WaysOn, JobSteps
  <2>2. Shown(j) /\ jobs'[j].state \in {"queued", "running", "completed", "failed"}
    BY <1>1, <1>2 DEF Jobs!Take, Jobs!Show, Shown, JobTypes
  <2>3. JobTypes'
    BY <1>1, <1>2, <2>1, <2>2, ShownTypes DEF Jobs!Take
  <2>. QED
    BY <1>1, <2>1, <2>2, <2>3 DEF Shown
<1>3. CASE Jobs!Plan(j)
  <2>1. Known' = Known /\ task' \in [Jobs!Ids -> JobSteps]
    BY <1>1, <1>3, SameKnown DEF Jobs!Plan, Jobs!WaysOn, JobSteps
  <2>2. Shown(j) /\ jobs'[j].state \in {"queued", "running", "completed", "failed"}
    BY <1>1, <1>3 DEF Jobs!Plan, Jobs!Show, Shown, JobTypes
  <2>3. JobTypes'
    BY <1>1, <1>3, <2>1, <2>2, ShownTypes DEF Jobs!Plan
  <2>. QED
    BY <1>1, <2>1, <2>2, <2>3 DEF Shown
<1>4. CASE Jobs!Bridge(j)
  <2>1. Known' = Known /\ task' \in [Jobs!Ids -> JobSteps]
    BY <1>1, <1>4, SameKnown DEF Jobs!Bridge, JobSteps
  <2>2. UNCHANGED <<jobs, deaths, product, crossed>>
    BY <1>4 DEF Jobs!Bridge
  <2>3. JobTypes'
    <3>1. CASE UNCHANGED <<process, config, clock>>
      BY <2>1, <2>2, <3>1 DEF JobTypes
    <3>2. CASE Started(j)
      <4> DEFINE f == jobs[j].form
                 c == [st |-> "started", form |-> f, name |-> clock', backend |-> "", next |-> f.from]
      <4>t. clock \in Nat /\ clock' = clock + 1
        BY <3>2 DEF Started, JobTypes
      <4>0. clock' \in Nat /\ clock' \in 1..clock'
        BY <4>t
      <4>g. f \in Forms2 /\ Jobs!ValidForm(f)
        BY <1>1 DEF JobTypes
      <4>f. f.from \in Nat /\ f.backend \in Backings
        BY <4>g, FormTypes
      <4>1. clock' \in Nat /\ process' \in [Jobs!Ids -> Commanded]
        <5>1. c \in Commanded
          <6> HIDE DEF f
          <6>. QED
            BY <4>0, <4>g, <4>f DEF Commanded, Backings
        <5>2. process' = [process EXCEPT ![j] = c]
          BY <3>2 DEF Started
        <5>3. process \in [Jobs!Ids -> Commanded]
          BY DEF JobTypes
        <5> HIDE DEF c
        <5>. QED
          BY <4>0, <5>1, <5>2, <5>3
      <4>2. config' \in [DOMAIN config' -> Backings] /\ DOMAIN config' \subseteq 1..clock'
        <5>1. DOMAIN config \subseteq 1..clock /\ config \in [DOMAIN config -> Backings] /\ clock \in Nat
          BY DEF JobTypes
        <5>2. /\ clock' = clock + 1
              /\ config' = [n \in DOMAIN config \cup {clock'} |-> IF n = clock' THEN f.backend ELSE config[n]]
          BY <3>2 DEF Started
        <5> HIDE DEF f
        <5>3. DOMAIN config' = DOMAIN config \cup {clock'}
          BY <5>2
        <5>4. \A n \in DOMAIN config' : config'[n] \in Backings
          BY <4>f, <5>1, <5>2, <5>3
        <5>5. config' \in [DOMAIN config' -> Backings]
          BY <5>2, <5>3, <5>4
        <5>6. DOMAIN config' \subseteq 1..clock'
          BY <5>1, <5>2, <5>3
        <5>. QED
          BY <5>5, <5>6
      <4>. QED
        BY <2>1, <2>2, <4>1, <4>2 DEF JobTypes
    <3>. QED
      BY <1>4, <3>1, <3>2 DEF Jobs!Bridge, Jobs!ConfigName, Started
  <2>. QED
    BY <1>1, <2>1, <2>2, <2>3
<1>5. CASE Jobs!Collect(j)
  <2>1. Known' = Known /\ task' \in [Jobs!Ids -> JobSteps]
    BY <1>1, <1>5, SameKnown DEF Jobs!Collect, JobSteps
  <2>. QED
    BY <1>1, <1>5, <2>1 DEF Jobs!Collect, JobTypes
<1>6. CASE Jobs!Settle(j)
  <2>1. Known' = Known /\ task' \in [Jobs!Ids -> JobSteps]
    BY <1>1, <1>6, SameKnown DEF Jobs!Settle, Jobs!WaysOn, JobSteps
  <2>2. Shown(j) /\ jobs'[j].state \in {"queued", "running", "completed", "failed"}
    BY <1>1, <1>6 DEF Jobs!Settle, Jobs!Settled, Jobs!Show, Shown, JobTypes
  <2>3. JobTypes'
    BY <1>1, <1>6, <2>1, <2>2, ShownTypes DEF Jobs!Settle
  <2>. QED
    BY <1>1, <2>1, <2>2, <2>3 DEF Shown
<1>. QED
  BY <1>2, <1>3, <1>4, <1>5, <1>6 DEF Jobs!Work

LEMMA CommandTypes ==
    ASSUME JobTypes, Named, NEW j \in Jobs!Ids, Jobs!Command(j)
    PROVE  JobTypes' /\ Known' = Known /\ UNCHANGED <<jobs, task, config, clock, deaths>>
<1>0. Known' = Known /\ UNCHANGED <<jobs, task, config, clock, deaths>>
  BY DEF Jobs!Command, Jobs!Load, Jobs!Stage, Known
<1>1. CASE Jobs!Load(j)
  <2>1. process' \in [Jobs!Ids -> Commanded]
    <3>1. process[j] \in Commanded /\ process \in [Jobs!Ids -> Commanded]
      BY DEF JobTypes
    <3>2. CASE process[j].name \in DOMAIN config
      <4> DEFINE c == [process[j] EXCEPT !.st = "running", !.backend = config[process[j].name]]
      <4>1. config[process[j].name] \in Backings
        BY <3>2 DEF JobTypes
      <4>2. c \in Commanded
        BY <3>1, <4>1 DEF Commanded
      <4>3. process' = [process EXCEPT ![j] = c]
        BY <1>1, <3>2 DEF Jobs!Load
      <4> HIDE DEF c
      <4>. QED
        BY <3>1, <4>2, <4>3
    <3>3. CASE process[j].name \notin DOMAIN config
      <4> DEFINE c == [process[j] EXCEPT !.st = "failed"]
      <4>1. c \in Commanded
        BY <3>1 DEF Commanded
      <4>2. process' = [process EXCEPT ![j] = c]
        BY <1>1, <3>3 DEF Jobs!Load
      <4> HIDE DEF c
      <4>. QED
        BY <3>1, <4>1, <4>2
    <3>. QED
      BY <3>2, <3>3
  <2>2. crossed' \subseteq Jobs!Ids /\ product' = product
    BY <1>1 DEF Jobs!Load, Jobs!InDataset, JobTypes
  <2>. QED
    BY <1>0, <2>1, <2>2 DEF JobTypes
<1>2. CASE Jobs!Stage(j)
  <2>1. process[j] \in Commanded /\ process[j].form.dataset \in Here2 /\ crossed' = crossed
    BY <1>2 DEF Jobs!Stage, JobTypes, Named
  <2>2. process[j].form.from \in 1..8 /\ process[j].form.to \in process[j].form.from..8
    BY <1>2, <2>1, FormTypes DEF Jobs!Stage, Named, Commanded
  <2>3. process' \in [Jobs!Ids -> Commanded]
    <3>1. process \in [Jobs!Ids -> Commanded] /\ process[j].next \in Nat
      BY <2>1 DEF JobTypes, Commanded
    <3>2. \A c \in Commanded : [process EXCEPT ![j] = c] \in [Jobs!Ids -> Commanded]
      BY <3>1
    <3>3. /\ [process[j] EXCEPT !.next = @ + 1] \in Commanded
          /\ [process[j] EXCEPT !.st = "ended"] \in Commanded
          /\ [process[j] EXCEPT !.st = "failed"] \in Commanded
      BY <2>1, <3>1 DEF Commanded
    <3>4. \/ process' = [process EXCEPT ![j] = [process[j] EXCEPT !.next = @ + 1]]
          \/ process' = [process EXCEPT ![j] = [process[j] EXCEPT !.st = "ended"]]
          \/ process' = [process EXCEPT ![j] = [process[j] EXCEPT !.st = "failed"]]
      BY <1>2, <3>1 DEF Jobs!Stage
    <3>. QED
      BY <3>2, <3>3, <3>4
  <2>4. product' \in [Here2 -> [Jobs!Stages -> [by : Nat, on : Nat]]]
    <3>1. j \in Nat
      BY DEF Jobs!Ids
    <3>2. CASE product' = product
      BY <3>2 DEF JobTypes
    <3>3. CASE product' # product
      <4> DEFINE p == process[j]
      <4>1. /\ p.next <= p.form.to
            /\ product' = [product EXCEPT ![p.form.dataset][p.next] =
                 [by |-> j, on |-> IF p.next = 1 THEN 0 ELSE product[p.form.dataset][p.next - 1].by]]
        BY <1>2, <3>3 DEF Jobs!Stage, Jobs!LastStage
      <4>2. p.next = 0 \/ p.next = 1 \/ p.next - 1 \in Jobs!Stages
        BY <2>1, <2>2, <4>1 DEF Commanded, Jobs!Stages
      <4>3. p.next \in Nat /\ product \in [Here2 -> [Jobs!Stages -> [by : Nat, on : Nat]]]
        BY <2>1 DEF JobTypes, Commanded
      <4> DEFINE d == p.form.dataset
                 r == [by |-> j, on |-> IF p.next = 1 THEN 0 ELSE product[d][p.next - 1].by]
      <4>4. d \in Here2 /\ product[d] \in [Jobs!Stages -> [by : Nat, on : Nat]]
        BY <2>1, <4>3
      <4>5. p.next # 0 => r \in [by : Nat, on : Nat]
        BY <3>1, <4>2, <4>3, <4>4
      <4>6. product' = [product EXCEPT ![d] = [product[d] EXCEPT ![p.next] = r]]
        BY <4>1, <4>3
      <4> HIDE DEF d, r
      <4>7. CASE p.next # 0
        <5>1. [product[d] EXCEPT ![p.next] = r] \in [Jobs!Stages -> [by : Nat, on : Nat]]
          BY <4>4, <4>5, <4>7
        <5>. QED
          BY <4>3, <4>4, <4>6, <5>1
      <4>8. CASE p.next = 0
        <5>1. [product[d] EXCEPT ![p.next] = r] = product[d]
          BY <4>4, <4>8 DEF Jobs!Stages
        <5>. QED
          BY <4>3, <4>4, <4>6, <5>1
      <4>. QED
        BY <4>7, <4>8
    <3>. QED
      BY <3>2, <3>3
  <2>. QED
    BY <1>0, <2>1, <2>3, <2>4 DEF JobTypes
<1>. QED
  BY <1>1, <1>2 DEF Jobs!Command

LEMMA DieTypes ==
    ASSUME JobTypes, Jobs!Die
    PROVE  JobTypes' /\ Known' = {} /\ deaths' # 0
BY DEF Jobs!Die, JobTypes, Known, JobSteps

-----------------------------------------------------------------------------
\* What a step changes.

\* A step of a job leaves the task and the command of the others alone.
LEMMA OthersKept ==
    ASSUME JobTypes, NEW j \in Jobs!Ids, Jobs!Work(j) \/ Jobs!Command(j), NEW i \in Jobs!Ids \ {j}
    PROVE  task'[i] = task[i] /\ process'[i] = process[i]
<1>1. task \in [Jobs!Ids -> JobSteps] /\ process \in [Jobs!Ids -> Commanded]
  BY DEF JobTypes
<1>2. CASE Jobs!Work(j)
  <2>1. CASE Jobs!Take(j)
    BY <1>1, <2>1 DEF Jobs!Take
  <2>2. CASE Jobs!Plan(j)
    BY <1>1, <2>2 DEF Jobs!Plan
  <2>3. CASE Jobs!Bridge(j)
    BY <1>1, <2>3 DEF Jobs!Bridge
  <2>4. CASE Jobs!Collect(j)
    BY <1>1, <2>4 DEF Jobs!Collect
  <2>5. CASE Jobs!Settle(j)
    BY <1>1, <2>5 DEF Jobs!Settle
  <2>. QED
    BY <1>2, <2>1, <2>2, <2>3, <2>4, <2>5 DEF Jobs!Work
<1>3. CASE Jobs!Load(j)
  BY <1>1, <1>3 DEF Jobs!Load
<1>4. CASE Jobs!Stage(j)
  BY <1>1, <1>4 DEF Jobs!Stage
<1>. QED
  BY <1>2, <1>3, <1>4 DEF Jobs!Command

\* A command that begins has a name that no other has, and its settings there.
Begun(j) ==
    /\ task'[j] = "wait" /\ jobs[j].form.dataset \in Here2
    /\ clock' = clock + 1
    /\ process'[j].st = "started" /\ process'[j].form = jobs[j].form
    /\ process'[j].name = clock' /\ process'[j].next = jobs[j].form.from
    /\ DOMAIN config' = DOMAIN config \cup {clock'}
    /\ config'[clock'] = jobs[j].form.backend
    /\ \A n \in DOMAIN config : config'[n] = config[n]

LEMMA BridgeWays ==
    ASSUME JobTypes, NEW j \in Jobs!Ids, Jobs!Bridge(j)
    PROVE  \/ Begun(j)
           \/ task'[j] = "error" /\ UNCHANGED <<process, config, clock>>
<1>1. task \in [Jobs!Ids -> JobSteps] /\ process \in [Jobs!Ids -> Commanded]
  BY DEF JobTypes
<1>2. clock \in Nat /\ DOMAIN config \subseteq 1..clock
  BY DEF JobTypes
<1>3. CASE jobs[j].form.dataset \in Here2
  <2> DEFINE f == jobs[j].form
  <2>1. /\ config' = [n \in DOMAIN config \cup {clock + 1} |->
                         IF n = clock + 1 THEN f.backend ELSE config[n]]
        /\ clock' = clock + 1
        /\ process' = [process EXCEPT ![j] = [st |-> "started", form |-> f, name |-> clock + 1,
                                              backend |-> "", next |-> f.from]]
        /\ task' = [task EXCEPT ![j] = "wait"]
    BY <1>3 DEF Jobs!Bridge, Jobs!ConfigName
  <2> HIDE DEF f
  <2>2. /\ DOMAIN config' = DOMAIN config \cup {clock'}
        /\ config'[clock'] = f.backend
    BY <2>1
  <2>3. \A n \in DOMAIN config : config'[n] = config[n]
    <3>1. \A n \in DOMAIN config : n # clock + 1
      BY <1>2
    <3>. QED
      BY <2>1, <3>1
  <2>4. /\ task'[j] = "wait"
        /\ process'[j] = [st |-> "started", form |-> f, name |-> clock',
                          backend |-> "", next |-> f.from]
    BY <1>1, <2>1
  <2>5. /\ process'[j].st = "started" /\ process'[j].form = f
        /\ process'[j].name = clock' /\ process'[j].next = f.from
    <3> DEFINE from == f.from
               now == clock'
               empty == ""
    <3>1. process'[j] = [st |-> "started", form |-> f, name |-> now, backend |-> empty, next |-> from]
      BY <2>4
    <3> HIDE DEF from, now, empty
    <3>2. /\ process'[j].st = "started" /\ process'[j].form = f
          /\ process'[j].name = now /\ process'[j].next = from
      BY <3>1
    <3>. QED
      BY <3>2 DEF from, now
  <2>. QED
    BY <1>3, <2>1, <2>2, <2>3, <2>4, <2>5 DEF Begun, f
<1>4. CASE jobs[j].form.dataset \notin Here2
  BY <1>1, <1>4 DEF Jobs!Bridge
<1>. QED
  BY <1>3, <1>4

\* Where the command of a job can get from where it is.
LEMMA CommandWays ==
    ASSUME JobTypes, NEW j \in Jobs!Ids, Jobs!Command(j)
    PROVE  /\ process[j].st \in {"started", "running"}
           /\ process'[j].form = process[j].form /\ process'[j].name = process[j].name
           /\ \/ /\ process[j].st = "started" /\ process'[j].st = "running"
                 /\ process[j].name \in DOMAIN config
                 /\ process'[j].backend = config[process[j].name]
                 /\ process'[j].next = process[j].next
              \/ process'[j].st = "failed"
              \/ /\ process[j].st = "running" /\ process'[j].st = "running"
                 /\ process'[j].backend = process[j].backend
                 /\ process[j].next <= process[j].form.to
                 /\ process'[j].next = process[j].next + 1
              \/ /\ process[j].st = "running" /\ process'[j].st = "ended"
                 /\ process[j].next > process[j].form.to
<1>1. process[j] \in Commanded /\ process \in [Jobs!Ids -> Commanded]
  BY DEF JobTypes
<1>2. CASE Jobs!Load(j)
  <2>1. CASE process[j].name \in DOMAIN config
    <3> DEFINE b == config[process[j].name]
    <3>1. process' = [process EXCEPT ![j] = [process[j] EXCEPT !.st = "running", !.backend = b]]
          /\ process[j].st = "started"
      BY <1>2, <2>1 DEF Jobs!Load
    <3> HIDE DEF b
    <3>2. process'[j] = [process[j] EXCEPT !.st = "running", !.backend = b]
      BY <1>1, <3>1
    <3>3. /\ process'[j].st = "running" /\ process'[j].backend = b
          /\ process'[j].form = process[j].form /\ process'[j].name = process[j].name
          /\ process'[j].next = process[j].next
      BY <1>1, <3>2 DEF Commanded
    <3>. QED
      BY <2>1, <3>1, <3>3 DEF b
  <2>2. CASE process[j].name \notin DOMAIN config
    BY <1>1, <1>2, <2>2 DEF Jobs!Load, Commanded
  <2>. QED
    BY <2>1, <2>2
<1>3. CASE Jobs!Stage(j)
  BY <1>1, <1>3 DEF Jobs!Stage, Jobs!LastStage, Commanded
<1>. QED
  BY <1>2, <1>3 DEF Jobs!Command

-----------------------------------------------------------------------------
\* The step of a job keeps the order of its task and its command.

LEMMA StepwiseOther ==
    ASSUME NEW i \in Jobs!Ids, StepwiseAt(i), task'[i] = task[i], process'[i] = process[i],
           i \in Known => jobs'[i] = jobs[i]
    PROVE  StepwiseAt(i)'
BY DEF StepwiseAt, Known

LEMMA StepwiseStart ==
    ASSUME JobInv, NEW f \in Forms2, Jobs!StartRun(f)
    PROVE  Stepwise'
<1>1. process' = process
  BY DEF Jobs!StartRun
<1>2. PICK j \in Jobs!Ids :
         /\ task[j] = "none" /\ task' = [task EXCEPT ![j] = "spawned"]
         /\ jobs'[j] = Jobs!Queued(f) /\ \A i \in Known : jobs'[i] = jobs[i]
  BY StartTypes DEF JobInv
<1>3. \A i \in Jobs!Ids \ {j} : task'[i] = task[i]
  BY <1>2 DEF JobInv, JobTypes
<1>4. StepwiseAt(j)'
  <2>1. task'[j] = "spawned" /\ jobs'[j].state = "queued" /\ process[j].st = "none"
    BY <1>2 DEF JobInv, JobTypes, Jobs!Queued, Stepwise, StepwiseAt
  <2>. QED
    BY <1>1, <2>1 DEF StepwiseAt
<1>5. \A i \in Jobs!Ids \ {j} : StepwiseAt(i)'
  BY <1>1, <1>2, <1>3, StepwiseOther DEF JobInv, Stepwise
<1>. QED
  BY <1>4, <1>5 DEF Stepwise

LEMMA StepwiseWork ==
    ASSUME JobInv, NEW j \in Jobs!Ids, Jobs!Work(j)
    PROVE  Stepwise'
<1>1. /\ task \in [Jobs!Ids -> JobSteps] /\ process \in [Jobs!Ids -> Commanded]
      /\ DOMAIN jobs = Known /\ Known' = Known /\ j \in Known
      /\ \A i \in Known \ {j} : jobs'[i] = jobs[i]
      /\ jobs'[j].form = jobs[j].form
  BY WorkTypes DEF JobInv, JobTypes
<1>2. \A i \in Jobs!Ids \ {j} : StepwiseAt(i)'
  BY <1>1, OthersKept, StepwiseOther DEF JobInv, Stepwise
<1>3. StepwiseAt(j)
  BY DEF JobInv, Stepwise
<1>4. StepwiseAt(j)'
  <2>1. CASE Jobs!Take(j)
    <3>1. /\ task[j] = "spawned" /\ process' = process
          /\ task'[j] = IF jobs[j].form.dry THEN "plan" ELSE "bridge"
          /\ jobs'[j].state = "running"
      BY <1>1, <2>1 DEF Jobs!Take, Jobs!WaysOn, Jobs!Show
    <3>. QED
      BY <1>1, <1>3, <3>1 DEF StepwiseAt
  <2>2. CASE Jobs!Plan(j)
    <3>1. task[j] = "plan" /\ process' = process /\ task'[j] = "done"
      BY <1>1, <2>2 DEF Jobs!Plan
    <3>. QED
      BY <1>1, <1>3, <3>1 DEF StepwiseAt
  <2>3. CASE Jobs!Bridge(j)
    <3>1. task[j] = "bridge" /\ jobs' = jobs
      BY <2>3 DEF Jobs!Bridge
    <3>2. CASE Begun(j)
      <4>1. task'[j] = "wait" /\ process'[j].st = "started" /\ process'[j].form = jobs[j].form
        BY <3>2 DEF Begun
      <4>2. ~jobs[j].form.dry /\ jobs[j].state # "completed"
        BY <1>1, <1>3, <3>1 DEF StepwiseAt
      <4>. QED
        BY <3>1, <4>1, <4>2 DEF StepwiseAt
    <3>3. CASE task'[j] = "error" /\ UNCHANGED process
      BY <1>1, <1>3, <3>1, <3>3 DEF StepwiseAt
    <3>. QED
      BY <2>3, <3>2, <3>3, BridgeWays DEF JobInv
  <2>4. CASE Jobs!Collect(j)
    <3>1. /\ task[j] = "wait" /\ process' = process /\ jobs' = jobs /\ task'[j] = "settle"
          /\ process[j].st \in {"ended", "failed"}
      BY <1>1, <2>4 DEF Jobs!Collect
    <3>. QED
      BY <1>1, <1>3, <3>1 DEF StepwiseAt
  <2>5. CASE Jobs!Settle(j)
    <3>1. process' = process /\ task'[j] = "done"
      BY <1>1, <2>5 DEF Jobs!Settle
    <3>2. jobs'[j].state = "completed" => process[j].st = "ended"
      BY <1>1, <2>5 DEF Jobs!Settle, Jobs!Settled, Jobs!Show
    <3>. QED
      BY <1>1, <1>3, <3>1, <3>2 DEF StepwiseAt
  <2>. QED
    BY <2>1, <2>2, <2>3, <2>4, <2>5 DEF Jobs!Work
<1>. QED
  BY <1>2, <1>4 DEF Stepwise

LEMMA StepwiseCommand ==
    ASSUME JobInv, NEW j \in Jobs!Ids, Jobs!Command(j)
    PROVE  Stepwise'
<1>1. Known' = Known /\ jobs' = jobs /\ task' = task
  BY CommandTypes DEF JobInv
<1>2. \A i \in Jobs!Ids \ {j} : StepwiseAt(i)'
  BY <1>1, OthersKept, StepwiseOther DEF JobInv, Stepwise
<1>3. StepwiseAt(j)'
  <2>1. /\ process[j].st \in {"started", "running"} /\ process'[j].form = process[j].form
        /\ process'[j].st \in {"running", "failed", "ended"}
    BY CommandWays DEF JobInv
  <2>2. StepwiseAt(j)
    BY DEF JobInv, Stepwise
  <2>. QED
    BY <1>1, <2>1, <2>2 DEF StepwiseAt
<1>. QED
  BY <1>2, <1>3 DEF Stepwise

LEMMA StepwiseDie ==
    ASSUME JobInv, Jobs!Die
    PROVE  Stepwise'
<1>1. /\ task' = [j \in Jobs!Ids |-> IF task[j] = "none" THEN "none" ELSE "lost"]
      /\ process' = process /\ Known' = {}
  BY DieTypes DEF Jobs!Die, JobInv
<1>. QED
  BY <1>1 DEF JobInv, Stepwise, StepwiseAt

\* The steps of a task that begin no command leave the commands alone.
LEMMA QuietWork ==
    ASSUME NEW j \in Jobs!Ids, Jobs!Work(j), ~Jobs!Bridge(j)
    PROVE  UNCHANGED <<process, clock, deaths, product, crossed>>
BY DEF Jobs!Work, Jobs!Take, Jobs!Plan, Jobs!Collect, Jobs!Settle

-----------------------------------------------------------------------------
\* Names of the settings files are of one command each.

LEMMA NamedKept ==
    ASSUME Named, UNCHANGED <<process, clock>>
    PROVE  Named'
BY DEF Named

LEMMA NamedBridge ==
    ASSUME JobInv, NEW j \in Jobs!Ids, Jobs!Bridge(j)
    PROVE  Named'
<1>1. CASE UNCHANGED <<process, clock>>
  BY <1>1, NamedKept DEF JobInv
<1>2. CASE Begun(j)
  <2>1. \A i \in Jobs!Ids \ {j} : process'[i] = process[i]
    BY OthersKept DEF JobInv, Jobs!Work
  <2>2. clock \in Nat /\ clock' = clock + 1 /\ process'[j].name = clock'
    BY <1>2 DEF Begun, JobInv, JobTypes
  <2>3. process'[j].form.dataset \in Here2 /\ Jobs!ValidForm(process'[j].form)
    <3>1. j \in Known
      BY DEF Jobs!Bridge, Known
    <3>. QED
      BY <1>2, <3>1 DEF Begun, JobInv, JobTypes
  <2>4. \A i \in Jobs!Ids \ {j} : process[i].st # "none" =>
           /\ process[i].name \in 1..clock
           /\ process[i].form.dataset \in Here2 /\ Jobs!ValidForm(process[i].form)
    BY DEF JobInv, Named
  <2>5. \A i \in Jobs!Ids : process'[i].st # "none" =>
           /\ process'[i].name \in 1..clock'
           /\ process'[i].form.dataset \in Here2 /\ Jobs!ValidForm(process'[i].form)
    BY <2>1, <2>2, <2>3, <2>4
  <2>6. \A i \in Jobs!Ids \ {j} : process'[i].st # "none" => process'[i].name # process'[j].name
    BY <2>1, <2>2, <2>4
  <2>7. \A i, k \in Jobs!Ids \ {j} : i # k /\ process'[i].st # "none" /\ process'[k].st # "none" =>
           process'[i].name # process'[k].name
    BY <2>1 DEF JobInv, Named
  <2>. QED
    BY <2>5, <2>6, <2>7 DEF Named
<1>. QED
  BY <1>1, <1>2, BridgeWays DEF JobInv

LEMMA NamedCommand ==
    ASSUME JobInv, NEW j \in Jobs!Ids, Jobs!Command(j)
    PROVE  Named'
<1>1. \A i \in Jobs!Ids \ {j} : process'[i] = process[i]
  BY OthersKept DEF JobInv
<1>2. /\ process[j].st # "none" /\ process'[j].form = process[j].form
      /\ process'[j].name = process[j].name
  BY CommandWays DEF JobInv
<1>3. clock' = clock
  BY CommandTypes DEF JobInv
<1>4. \A i \in Jobs!Ids : /\ process'[i].name = process[i].name
                          /\ process'[i].form = process[i].form
                          /\ process'[i].st # "none" => process[i].st # "none"
  BY <1>1, <1>2
<1>. QED
  BY <1>3, <1>4 DEF JobInv, Named

-----------------------------------------------------------------------------
\* Settings of a command stay those of its job.

OwnAt(j) ==
    /\ process[j].st = "started" /\ process[j].name \in DOMAIN config =>
          config[process[j].name] = process[j].form.backend
    /\ process[j].st = "running" => process[j].backend = process[j].form.backend
LiveAt(j) ==
    /\ task[j] # "lost"
    /\ process[j].st \in {"started", "running"} => task[j] = "wait"
    /\ task[j] = "wait" => process[j].name \in DOMAIN config
Left(n) == \E j \in Jobs!Ids : task[j] = "wait" /\ process[j].name = n

LEMMA SettingsParts ==
    Settings <=> /\ \A j \in Jobs!Ids : OwnAt(j)
                 /\ deaths = 0 => /\ \A j \in Jobs!Ids : LiveAt(j)
                                  /\ \A n \in DOMAIN config : Left(n)
BY DEF Settings, OwnAt, LiveAt, Left

\* Tasks that go on without a command for them.
LEMMA SettingsOn ==
    ASSUME JobTypes, Settings, UNCHANGED <<process, config, deaths>>,
           NEW j \in Jobs!Ids, task[j] # "wait",
           NEW t \in JobSteps \ {"wait", "lost"}, task' = [task EXCEPT ![j] = t]
    PROVE  Settings'
<1>1. task'[j] = t /\ \A i \in Jobs!Ids \ {j} : task'[i] = task[i]
  BY DEF JobTypes
<1>2. \A i \in Jobs!Ids : OwnAt(i)'
  BY SettingsParts DEF OwnAt
<1>3. ASSUME deaths' = 0 PROVE \A i \in Jobs!Ids : LiveAt(i)'
  BY <1>1, <1>3, SettingsParts DEF LiveAt
<1>4. ASSUME deaths' = 0, NEW n \in DOMAIN config' PROVE Left(n)'
  <2>1. PICK i \in Jobs!Ids : task[i] = "wait" /\ process[i].name = n
    BY <1>4, SettingsParts DEF Left
  <2>. QED
    BY <1>1, <2>1 DEF Left
<1>. QED
  BY <1>2, <1>3, <1>4 DEF Settings, OwnAt, LiveAt, Left

LEMMA SettingsStart ==
    ASSUME JobInv, NEW f \in Forms2, Jobs!StartRun(f)
    PROVE  Settings'
<1>1. PICK j \in Jobs!Ids : task[j] = "none" /\ task' = [task EXCEPT ![j] = "spawned"]
  BY StartTypes DEF JobInv
<1>2. UNCHANGED <<process, config, deaths>>
  BY DEF Jobs!StartRun
<1>. QED
  BY <1>1, <1>2, SettingsOn DEF JobInv, JobSteps

LEMMA SettingsBridge ==
    ASSUME JobInv, NEW j \in Jobs!Ids, Jobs!Bridge(j)
    PROVE  Settings'
<1>1. task[j] = "bridge" /\ deaths' = deaths
  BY DEF Jobs!Bridge
<1>2. CASE task' = [task EXCEPT ![j] = "error"] /\ UNCHANGED <<process, config>>
  BY <1>1, <1>2, SettingsOn DEF JobInv, JobSteps
<1>3. CASE Begun(j)
  <2>1. \A i \in Jobs!Ids \ {j} : process'[i] = process[i] /\ task'[i] = task[i]
    BY OthersKept DEF JobInv, Jobs!Work
  <2>2. /\ clock \in Nat /\ clock' = clock + 1 /\ DOMAIN config \subseteq 1..clock
        /\ DOMAIN config' = DOMAIN config \cup {clock'}
    BY <1>3 DEF Begun, JobInv, JobTypes
  <2>3. OwnAt(j)' /\ (deaths' = 0 => LiveAt(j)') /\ task'[j] = "wait" /\ process'[j].name = clock'
    <3>1. /\ process'[j].st = "started" /\ process'[j].name = clock' /\ task'[j] = "wait"
          /\ config'[clock'] = process'[j].form.backend
      BY <1>3 DEF Begun
    <3>. QED
      BY <2>2, <3>1 DEF OwnAt, LiveAt
  <2>4. \A i \in Jobs!Ids \ {j} : OwnAt(i)'
    <3>1. SUFFICES ASSUME NEW i \in Jobs!Ids \ {j} PROVE OwnAt(i)'
      OBVIOUS
    <3>2. OwnAt(i)
      BY SettingsParts DEF JobInv
    <3>3. process[i].st # "none" => process[i].name \in 1..clock
      BY DEF JobInv, Named
    <3>4. \A n \in DOMAIN config : config'[n] = config[n]
      BY <1>3 DEF Begun
    <3>5. CASE process[i].st = "started"
      <4>1. process[i].name # clock'
        BY <2>2, <3>3, <3>5
      <4>. QED
        BY <2>1, <2>2, <3>2, <3>4, <3>5, <4>1 DEF OwnAt
    <3>6. CASE process[i].st # "started"
      BY <2>1, <3>2, <3>6 DEF OwnAt
    <3>. QED
      BY <3>5, <3>6
  <2>5. ASSUME deaths' = 0, NEW i \in Jobs!Ids \ {j} PROVE LiveAt(i)'
    BY <1>1, <2>1, <2>2, <2>5, SettingsParts DEF LiveAt, JobInv
  <2>6. ASSUME deaths' = 0, NEW n \in DOMAIN config PROVE Left(n)'
    <3>1. PICK i \in Jobs!Ids : task[i] = "wait" /\ process[i].name = n
      BY <1>1, <2>6, SettingsParts DEF Left, JobInv
    <3>. QED
      BY <1>1, <2>1, <3>1 DEF Left
  <2>7. ASSUME deaths' = 0, NEW n \in DOMAIN config' PROVE Left(n)'
    BY <2>2, <2>3, <2>6, <2>7 DEF Left
  <2>8. \A i \in Jobs!Ids : OwnAt(i)'
    BY <2>3, <2>4
  <2>9. deaths' = 0 => \A i \in Jobs!Ids : LiveAt(i)'
    BY <2>3, <2>5
  <2>. QED
    BY <2>7, <2>8, <2>9 DEF Settings, OwnAt, LiveAt, Left
<1>. QED
  BY <1>2, <1>3, BridgeWays DEF JobInv, Jobs!Bridge

LEMMA SettingsWork ==
    ASSUME JobInv, NEW j \in Jobs!Ids, Jobs!Work(j)
    PROVE  Settings'
<1>1. CASE Jobs!Bridge(j)
  BY <1>1, SettingsBridge
<1>2. CASE Jobs!Take(j)
  BY <1>2, SettingsOn DEF JobInv, Jobs!Take, Jobs!WaysOn, JobSteps
<1>3. CASE Jobs!Plan(j)
  BY <1>3, SettingsOn DEF JobInv, Jobs!Plan, JobSteps
<1>4. CASE Jobs!Settle(j)
  BY <1>4, SettingsOn DEF JobInv, Jobs!Settle, JobSteps
<1>5. CASE Jobs!Collect(j)
  <2>1. /\ task[j] = "wait" /\ process[j].st \in {"ended", "failed"} /\ process' = process
        /\ deaths' = deaths /\ DOMAIN config' = DOMAIN config \ {process[j].name}
        /\ \A n \in DOMAIN config' : config'[n] = config[n]
    BY <1>5 DEF Jobs!Collect
  <2>2. task'[j] = "settle" /\ \A i \in Jobs!Ids \ {j} : task'[i] = task[i]
    BY <1>5 DEF Jobs!Collect, JobInv, JobTypes
  <2>3. \A i \in Jobs!Ids : OwnAt(i)'
    BY <2>1, SettingsParts DEF OwnAt, JobInv
  <2>4. ASSUME deaths' = 0, NEW i \in Jobs!Ids PROVE LiveAt(i)'
    <3>1. LiveAt(i)
      BY <2>1, <2>4, SettingsParts DEF JobInv
    <3>2. CASE i = j
      BY <2>1, <2>2, <3>1, <3>2 DEF LiveAt
    <3>3. CASE i # j
      <4>1. task[i] = "wait" => process[i].name # process[j].name
        BY <2>1, <3>3 DEF JobInv, Named, Stepwise, StepwiseAt
      <4>. QED
        BY <2>1, <2>2, <3>1, <3>3, <4>1 DEF LiveAt
    <3>. QED
      BY <3>2, <3>3
  <2>5. ASSUME deaths' = 0, NEW n \in DOMAIN config' PROVE Left(n)'
    <3>1. PICK i \in Jobs!Ids : task[i] = "wait" /\ process[i].name = n
      BY <2>1, <2>5, SettingsParts DEF Left, JobInv
    <3>2. i # j
      BY <2>1, <2>5, <3>1
    <3>. QED
      BY <2>1, <2>2, <3>1, <3>2 DEF Left
  <2>. QED
    BY <2>3, <2>4, <2>5 DEF Settings, OwnAt, LiveAt, Left
<1>. QED
  BY <1>1, <1>2, <1>3, <1>4, <1>5 DEF Jobs!Work

LEMMA SettingsCommand ==
    ASSUME JobInv, NEW j \in Jobs!Ids, Jobs!Command(j)
    PROVE  Settings'
<1>1. \A i \in Jobs!Ids \ {j} : process'[i] = process[i]
  BY OthersKept DEF JobInv
<1>2. UNCHANGED <<task, config, deaths>>
  BY CommandTypes DEF JobInv
<1>3. /\ process[j].st \in {"started", "running"} /\ process'[j].name = process[j].name
      /\ process'[j].form = process[j].form
  BY CommandWays DEF JobInv
<1>4. OwnAt(j)'
  <2>1. OwnAt(j)
    BY SettingsParts DEF JobInv
  <2>. QED
    BY <1>2, <1>3, <2>1, CommandWays DEF JobInv, OwnAt
<1>5. \A i \in Jobs!Ids \ {j} : OwnAt(i)'
  BY <1>1, <1>2, SettingsParts DEF JobInv, OwnAt
<1>6. ASSUME deaths' = 0, NEW i \in Jobs!Ids PROVE LiveAt(i)'
  <2>1. LiveAt(i)
    BY <1>2, <1>6, SettingsParts DEF JobInv
  <2>. QED
    BY <1>1, <1>2, <1>3, <2>1 DEF LiveAt
<1>7. ASSUME deaths' = 0, NEW n \in DOMAIN config' PROVE Left(n)'
  <2>1. PICK i \in Jobs!Ids : task[i] = "wait" /\ process[i].name = n
    BY <1>2, <1>7, SettingsParts DEF Left, JobInv
  <2>. QED
    BY <1>1, <1>2, <1>3, <2>1 DEF Left
<1>. QED
  BY <1>4, <1>5, <1>6, <1>7 DEF Settings, OwnAt, LiveAt, Left

LEMMA SettingsDie ==
    ASSUME JobInv, Jobs!Die
    PROVE  Settings'
BY DieTypes DEF JobInv, Jobs!Die, Settings

-----------------------------------------------------------------------------
\* What a command that nothing crossed is through with is its own.

NextAt(j) ==
    /\ process[j].st = "started" => process[j].next = process[j].form.from
    /\ process[j].st = "running" =>
          /\ process[j].next \in process[j].form.from..(process[j].form.to + 1)
          /\ j \notin crossed => Makes(j)
Beside(i, j) ==
    i # j /\ process[i].st = "running" /\ process[j].st = "running"
    /\ process[i].form.dataset = process[j].form.dataset

LEMMA CrossingParts ==
    Crossing <=> /\ \A j \in Jobs!Ids : NextAt(j)
                 /\ \A i, j \in Jobs!Ids : Beside(i, j) => i \in crossed /\ j \in crossed
BY DEF Crossing, NextAt, Beside

LEMMA CrossingKept ==
    ASSUME Crossing, UNCHANGED <<process, product, crossed>>
    PROVE  Crossing'
BY DEF Crossing, Makes

LEMMA CrossingBridge ==
    ASSUME JobInv, NEW j \in Jobs!Ids, Jobs!Bridge(j)
    PROVE  Crossing'
<1>1. UNCHANGED <<product, crossed>>
  BY DEF Jobs!Bridge
<1>2. CASE UNCHANGED process
  BY <1>1, <1>2, CrossingKept DEF JobInv
<1>3. CASE Begun(j)
  <2>1. \A i \in Jobs!Ids \ {j} : process'[i] = process[i]
    BY OthersKept DEF JobInv, Jobs!Work
  <2>2. process'[j].st = "started" /\ process'[j].next = process'[j].form.from
    BY <1>3 DEF Begun
  <2>3. NextAt(j)'
    BY <2>2 DEF NextAt
  <2>4. \A i \in Jobs!Ids \ {j} : NextAt(i)'
    BY <1>1, <2>1, CrossingParts DEF JobInv, NextAt, Makes
  <2>5. \A i, k \in Jobs!Ids : Beside(i, k)' => Beside(i, k)
    BY <2>1, <2>2 DEF Beside
  <2>. QED
    BY <1>1, <2>3, <2>4, <2>5, CrossingParts DEF JobInv, Crossing, NextAt, Beside
<1>. QED
  BY <1>2, <1>3, BridgeWays DEF JobInv

LEMMA CrossingLoad ==
    ASSUME JobInv, NEW j \in Jobs!Ids, Jobs!Load(j)
    PROVE  Crossing'
<1>1. \A i \in Jobs!Ids \ {j} : process'[i] = process[i]
  BY OthersKept DEF JobInv, Jobs!Command
<1>2. process[j].st = "started" /\ product' = product
  BY DEF Jobs!Load
<1>3. /\ process'[j].form = process[j].form
      /\ \/ process'[j].st = "failed"
         \/ /\ process'[j].st = "running" /\ process'[j].next = process[j].next
            /\ process[j].name \in DOMAIN config
  BY <1>2, CommandWays DEF JobInv, Jobs!Command
<1>4. /\ crossed \subseteq crossed'
      /\ process[j].name \in DOMAIN config =>
            \A i \in Jobs!InDataset(process[j].form.dataset) : i \in crossed' /\ j \in crossed'
  BY DEF Jobs!Load
<1>5. NextAt(j)'
  <2>1. process[j].form.from \in 1..8 /\ process[j].form.to \in process[j].form.from..8
    BY <1>2, FormTypes DEF JobInv, JobTypes, Commanded, Named
  <2>2. process[j].next = process[j].form.from
    BY <1>2 DEF JobInv, Crossing
  <2>3. CASE process'[j].st = "running"
    <3>1. process'[j].next = process'[j].form.from
      BY <1>3, <2>2, <2>3
    <3>2. Makes(j)'
      BY <1>3, <2>1, <3>1 DEF Makes
    <3>3. process'[j].next \in process'[j].form.from..(process'[j].form.to + 1)
      BY <1>3, <2>1, <3>1
    <3>. QED
      BY <2>3, <3>2, <3>3 DEF NextAt
  <2>4. CASE process'[j].st = "failed"
    BY <2>4 DEF NextAt
  <2>. QED
    BY <1>3, <2>3, <2>4
<1>6. \A i \in Jobs!Ids \ {j} : NextAt(i)'
  BY <1>1, <1>2, <1>4, CrossingParts DEF JobInv, NextAt, Makes
<1>7. \A i \in Jobs!Ids : Beside(i, j)' \/ Beside(j, i)' => i \in crossed' /\ j \in crossed'
  <2>1. SUFFICES ASSUME NEW i \in Jobs!Ids \ {j}, Beside(i, j)' \/ Beside(j, i)'
                 PROVE  i \in crossed' /\ j \in crossed'
    BY DEF Beside
  <2>2. process[i].st = "running" /\ process[i].form.dataset = process[j].form.dataset
    BY <1>1, <1>3, <2>1 DEF Beside
  <2>3. process[j].name \in DOMAIN config
    BY <1>3, <2>1 DEF Beside
  <2>. QED
    BY <1>4, <2>2, <2>3 DEF Jobs!InDataset
<1>8. \A i, k \in Jobs!Ids \ {j} : Beside(i, k)' => i \in crossed' /\ k \in crossed'
  BY <1>1, <1>4, CrossingParts DEF JobInv, Beside
<1>. QED
  BY <1>5, <1>6, <1>7, <1>8 DEF Crossing, NextAt, Beside

LEMMA CrossingStage ==
    ASSUME JobInv, NEW j \in Jobs!Ids, Jobs!Stage(j)
    PROVE  Crossing'
<1>1. \A i \in Jobs!Ids \ {j} : process'[i] = process[i]
  BY OthersKept DEF JobInv, Jobs!Command
<1>2. process[j].st = "running" /\ crossed' = crossed
  BY DEF Jobs!Stage
<1>3. /\ process'[j].form = process[j].form
      /\ process'[j].st = "running" => /\ process[j].next <= process[j].form.to
                                       /\ process'[j].next = process[j].next + 1
  BY <1>2, CommandWays DEF JobInv, Jobs!Command
<1>4. \A i, k \in Jobs!Ids : Beside(i, k)' => Beside(i, k)
  BY <1>1, <1>2, <1>3 DEF Beside
<1>5. NextAt(j)
  BY CrossingParts DEF JobInv
<1> DEFINE d == process[j].form.dataset
           n == process[j].next
           a == process[j].form.from
<1>6. /\ d \in Here2 /\ a \in 1..8 /\ process[j].form.to \in a..8
      /\ n \in a..(process[j].form.to + 1)
  <2>1. d \in Here2 /\ process[j].form \in Forms2 /\ Jobs!ValidForm(process[j].form)
    BY <1>2 DEF JobInv, JobTypes, Commanded, Named
  <2>. QED
    BY <1>2, <1>5, <2>1, FormTypes DEF NextAt
<1>7. /\ product \in [Here2 -> [Jobs!Stages -> [by : Nat, on : Nat]]]
      /\ product[d] \in [Jobs!Stages -> [by : Nat, on : Nat]]
  BY <1>6 DEF JobInv, JobTypes
<1> DEFINE r == [by |-> j, on |-> IF n = 1 THEN 0 ELSE product[d][n - 1].by]
<1>8. \/ process'[j].st # "running" /\ product' = product
      \/ process'[j].st = "running" /\ product' = [product EXCEPT ![d] = [product[d] EXCEPT ![n] = r]]
  BY <1>2, <1>7 DEF JobInv, JobTypes, Commanded, Jobs!Stage, Jobs!LastStage
<1>9. \A e \in Here2 \ {d} : product'[e] = product[e]
  BY <1>7, <1>8
<1>10. NextAt(j)'
  <2>1. CASE process'[j].st = "running"
    <3>1. n <= process[j].form.to /\ process'[j].next = n + 1
      BY <1>3, <2>1
    <3>2. product' = [product EXCEPT ![d] = [product[d] EXCEPT ![n] = r]] /\ n \in Jobs!Stages
      BY <1>6, <1>8, <2>1, <3>1 DEF Jobs!Stages
    <3>3. product'[d][n] = r /\ \A s \in Jobs!Stages \ {n} : product'[d][s] = product[d][s]
      <4> HIDE DEF r, d, n
      <4>. QED
        BY <1>6, <1>7, <3>2
    <3>4. j \notin crossed => Makes(j)'
      <4>1. SUFFICES ASSUME j \notin crossed, NEW s \in a..n
                     PROVE  product'[d][s].by = j /\ (s > a => product'[d][s].on = j)
        BY <1>3, <1>6, <3>1 DEF Makes
      <4>2. Makes(j)
        BY <1>2, <1>5, <4>1 DEF NextAt
      <4>3. s \in Jobs!Stages
        BY <1>6, <3>1, <3>2 DEF Jobs!Stages
      <4>4. CASE s # n
        <5>1. s \in a..(n - 1)
          BY <1>6, <4>4
        <5>. QED
          BY <3>3, <4>2, <4>3, <4>4, <5>1 DEF Makes
      <4>5. CASE s = n
        <5>1. product'[d][s].by = j
          BY <3>3, <4>5
        <5>2. ASSUME s > a PROVE product'[d][s].on = j
          <6>1. n # 1 /\ n - 1 \in a..(n - 1)
            BY <1>6, <4>5, <5>2
          <6>2. product[d][n - 1].by = j
            BY <4>2, <6>1 DEF Makes
          <6>. QED
            BY <3>3, <4>5, <6>1, <6>2
        <5>. QED
          BY <5>1, <5>2
      <4>. QED
        BY <4>4, <4>5
    <3>5. process'[j].next \in process'[j].form.from..(process'[j].form.to + 1)
      BY <1>3, <1>6, <3>1
    <3>. QED
      BY <1>2, <2>1, <3>4, <3>5 DEF NextAt
  <2>2. CASE process'[j].st # "running"
    <3>1. process'[j].st # "started"
      BY <1>2, CommandWays DEF JobInv, Jobs!Command
    <3>. QED
      BY <2>2, <3>1 DEF NextAt
  <2>. QED
    BY <2>1, <2>2
<1>11. \A i \in Jobs!Ids \ {j} : NextAt(i)'
  <2>1. SUFFICES ASSUME NEW i \in Jobs!Ids \ {j} PROVE NextAt(i)'
    OBVIOUS
  <2>2. NextAt(i)
    BY CrossingParts DEF JobInv
  <2>3. CASE process[i].st = "running" /\ i \notin crossed
    <3>1. process[i].form.dataset # d
      BY <1>2, <2>3 DEF JobInv, Crossing
    <3>2. process[i].form.dataset \in Here2
      BY <2>3 DEF JobInv, Named
    <3>3. product'[process[i].form.dataset] = product[process[i].form.dataset]
      BY <1>9, <3>1, <3>2
    <3>. QED
      BY <1>1, <1>2, <2>2, <2>3, <3>3 DEF NextAt, Makes
  <2>4. CASE ~(process[i].st = "running" /\ i \notin crossed)
    BY <1>1, <1>2, <2>2, <2>4 DEF NextAt
  <2>. QED
    BY <2>3, <2>4
<1>12. \A i, k \in Jobs!Ids : Beside(i, k)' => i \in crossed' /\ k \in crossed'
  BY <1>2, <1>4, CrossingParts DEF JobInv
<1>. QED
  BY <1>10, <1>11, <1>12 DEF Crossing, NextAt, Beside

-----------------------------------------------------------------------------
\* The steps together.

LEMMA JobInit ==
    ASSUME Jobs!Init
    PROVE  JobInv
<1> DEFINE g == CHOOSE f \in Forms2 : TRUE
           c == Jobs!NoProcess(g)
<1>1. g \in Forms2
  BY ProgramsAssumption
<1>2. /\ task = [j \in Jobs!Ids |-> "none"] /\ process = [j \in Jobs!Ids |-> c]
      /\ DOMAIN jobs = {} /\ DOMAIN config = {} /\ clock = 0 /\ deaths = 0 /\ crossed = {}
      /\ product = [d \in Here2 |-> [s \in Jobs!Stages |-> [by |-> 0, on |-> 0]]]
      /\ config = [n \in {} |-> ""]
  BY DEF Jobs!Init
<1>3. c \in Commanded /\ c.st = "none"
  <2> DEFINE empty == ""
  <2>1. c = [st |-> "none", form |-> g, name |-> 0, backend |-> empty, next |-> 1] /\ empty \in Backings
    BY DEF Jobs!NoProcess, Backings
  <2> HIDE DEF empty, g, c
  <2>. QED
    BY <1>1, <2>1 DEF Commanded
<1> HIDE DEF c
<1>4. /\ Known = {}
      /\ \A j \in Jobs!Ids : task[j] = "none" /\ process[j].st = "none"
  BY <1>2, <1>3 DEF Known
<1>5. JobTypes
  <2>1. product \in [Here2 -> [Jobs!Stages -> [by : Nat, on : Nat]]]
    BY <1>2
  <2>2. config \in [DOMAIN config -> Backings] /\ DOMAIN config \subseteq 1..clock
    BY <1>2
  <2>3. task \in [Jobs!Ids -> JobSteps] /\ process \in [Jobs!Ids -> Commanded]
    BY <1>2, <1>3 DEF JobSteps
  <2>. QED
    BY <1>2, <1>4, <2>1, <2>2, <2>3 DEF JobTypes
<1>6. Stepwise /\ Named /\ Settings /\ Crossing
  <2>1. Stepwise
    BY <1>4 DEF Stepwise, StepwiseAt
  <2>2. Named
    BY <1>4 DEF Named
  <2>3. Settings
    BY <1>2, <1>4 DEF Settings
  <2>4. Crossing
    BY <1>4 DEF Crossing
  <2>. QED
    BY <2>1, <2>2, <2>3, <2>4
<1>. QED
  BY <1>5, <1>6 DEF JobInv

LEMMA JobKept ==
    ASSUME JobInv, Jobs!Next
    PROVE  JobInv'
<1>1. ASSUME NEW f \in Forms2, Jobs!StartRun(f) PROVE JobInv'
  <2>1. JobTypes' /\ Stepwise' /\ Settings'
    BY <1>1, StartTypes, StepwiseStart, SettingsStart DEF JobInv
  <2>2. UNCHANGED <<process, clock, product, crossed>>
    BY <1>1 DEF Jobs!StartRun
  <2>. QED
    BY <2>1, <2>2, NamedKept, CrossingKept DEF JobInv
<1>2. ASSUME NEW j \in Jobs!Ids, Jobs!Work(j) PROVE JobInv'
  <2>1. JobTypes' /\ Stepwise' /\ Settings'
    BY <1>2, WorkTypes, StepwiseWork, SettingsWork DEF JobInv
  <2>2. CASE Jobs!Bridge(j)
    BY <2>1, <2>2, NamedBridge, CrossingBridge DEF JobInv
  <2>3. CASE ~Jobs!Bridge(j)
    BY <1>2, <2>1, <2>3, QuietWork, NamedKept, CrossingKept DEF JobInv
  <2>. QED
    BY <2>2, <2>3
<1>3. ASSUME NEW j \in Jobs!Ids, Jobs!Command(j) PROVE JobInv'
  <2>1. JobTypes' /\ Stepwise' /\ Named' /\ Settings'
    BY <1>3, CommandTypes, StepwiseCommand, NamedCommand, SettingsCommand DEF JobInv
  <2>. QED
    BY <1>3, <2>1, CrossingLoad, CrossingStage DEF JobInv, Jobs!Command
<1>4. ASSUME Jobs!Die PROVE JobInv'
  <2>1. JobTypes' /\ Stepwise' /\ Settings'
    BY <1>4, DieTypes, StepwiseDie, SettingsDie DEF JobInv
  <2>2. UNCHANGED <<process, clock, product, crossed>>
    BY <1>4 DEF Jobs!Die
  <2>. QED
    BY <2>1, <2>2, NamedKept, CrossingKept DEF JobInv
<1>. QED
  BY <1>1, <1>2, <1>3, <1>4 DEF Jobs!Next

LEMMA JobStill ==
    ASSUME JobInv, UNCHANGED <<jobs, task, process, config, clock, deaths, product, crossed>>
    PROVE  JobInv'
<1>1. Known' = Known
  BY DEF Known
<1>2. JobTypes'
  BY <1>1 DEF JobInv, JobTypes
<1>3. Stepwise'
  BY <1>1, StepwiseOther DEF JobInv, Stepwise
<1>4. Settings'
  BY DEF JobInv, Settings
<1>. QED
  BY <1>2, <1>3, <1>4, NamedKept, CrossingKept DEF JobInv

\* What the invariant says of a state and of a step.
LEMMA JobStates ==
    ASSUME JobInv
    PROVE  Jobs!TypeOK /\ Jobs!OwnSettings /\ Jobs!SettingsThere /\ Jobs!CompletedEnded
<1>1. Known \subseteq Jobs!Ids /\ DOMAIN jobs = Known
  BY DEF JobInv, JobTypes, Known
<1>2. ASSUME NEW j \in DOMAIN jobs
      PROVE  /\ jobs[j].state \in {"queued", "running", "completed", "failed"}
             /\ jobs[j].form.from \in Jobs!Stages /\ jobs[j].form.to \in jobs[j].form.from..8
  BY <1>1, FormTypes DEF JobInv, JobTypes, Jobs!Stages
<1>3. Jobs!TypeOK
  BY <1>2 DEF JobInv, Settings, Jobs!TypeOK
<1>4. Jobs!OwnSettings /\ Jobs!SettingsThere
  BY DEF JobInv, Settings, Jobs!OwnSettings, Jobs!SettingsThere
<1>5. Jobs!CompletedEnded
  BY <1>1 DEF JobInv, Stepwise, StepwiseAt, Jobs!CompletedEnded
<1>. QED
  BY <1>3, <1>4, <1>5

LEMMA JobEnded ==
    ASSUME JobInv, Jobs!Next
    PROVE  Jobs!EndedStep
<1>1. SUFFICES ASSUME NEW j \in Jobs!Ids, process[j].st = "running", process'[j].st = "ended", j \notin crossed,
                      NEW s \in process[j].form.from..process[j].form.to
               PROVE  /\ product[process[j].form.dataset][s].by = j
                      /\ s > process[j].form.from => product[process[j].form.dataset][s].on = j
  BY DEF Jobs!EndedStep
<1>2. Jobs!Command(j)
  <2>1. ~(\E f \in Forms2 : Jobs!StartRun(f)) /\ ~Jobs!Die
    BY <1>1 DEF Jobs!StartRun, Jobs!Die
  <2>2. ASSUME NEW i \in Jobs!Ids, Jobs!Work(i) PROVE FALSE
    <3>1. i = j
      BY <1>1, <2>2, OthersKept DEF JobInv
    <3>2. CASE Jobs!Bridge(j)
      <4>1. process'[j].st = "started"  \/ process' = process
        BY <3>2, BridgeWays DEF JobInv, Begun
      <4>. QED
        BY <1>1, <4>1
    <3>. QED
      BY <1>1, <2>2, <3>1, <3>2, QuietWork
  <2>3. ASSUME NEW i \in Jobs!Ids, Jobs!Command(i) PROVE i = j
    BY <1>1, <2>3, OthersKept DEF JobInv
  <2>. QED
    BY <2>1, <2>2, <2>3 DEF Jobs!Next
<1>3. process[j].next > process[j].form.to
  BY <1>1, <1>2, CommandWays DEF JobInv
<1>4. Makes(j) /\ process[j].next \in process[j].form.from..(process[j].form.to + 1)
  BY <1>1 DEF JobInv, Crossing
<1>5. process[j].form.from \in Nat /\ process[j].form.to \in Nat
  BY <1>1, FormTypes DEF JobInv, JobTypes, Commanded, Named
<1>6. s \in process[j].form.from..(process[j].next - 1)
  BY <1>3, <1>4, <1>5
<1>. QED
  BY <1>4, <1>6 DEF Makes

LEMMA JobDry ==
    ASSUME JobInv, Jobs!Next
    PROVE  Jobs!DryRunStep
<1>1. SUFFICES ASSUME NEW j \in DOMAIN jobs, jobs[j].form.dry
               PROVE  process'[j].st = "none"
  BY DEF Jobs!DryRunStep
<1>2. j \in Jobs!Ids /\ j \in Known
  BY DEF JobInv, JobTypes, Known
<1>3. process[j].st = "none" /\ task[j] # "bridge"
  BY <1>1, <1>2 DEF JobInv, Stepwise, StepwiseAt
<1>4. ASSUME NEW i \in Jobs!Ids, Jobs!Work(i) PROVE process'[j] = process[j]
  <2>1. CASE i # j
    BY <1>2, <1>4, <2>1, OthersKept DEF JobInv
  <2>2. CASE i = j
    <3>1. ~Jobs!Bridge(i)
      BY <1>3, <2>2 DEF Jobs!Bridge
    <3>. QED
      BY <1>4, <3>1, QuietWork
  <2>. QED
    BY <2>1, <2>2
<1>5. ASSUME NEW i \in Jobs!Ids, Jobs!Command(i) PROVE process'[j] = process[j]
  <2>1. i # j
    BY <1>3, <1>5, CommandWays DEF JobInv
  <2>. QED
    BY <1>2, <1>5, <2>1, OthersKept DEF JobInv
<1>6. ASSUME NEW f \in Forms2, Jobs!StartRun(f) PROVE process' = process
  BY <1>6 DEF Jobs!StartRun
<1>7. ASSUME Jobs!Die PROVE process' = process
  BY <1>7 DEF Jobs!Die
<1>. QED
  BY <1>3, <1>4, <1>5, <1>6, <1>7 DEF Jobs!Next

\* The service is honest about its jobs, whatever forms are posted to it and
\* however often it dies: no file of settings is left while it lives but that
\* of a command that runs, a command works with the settings of its own job
\* and does not miss them, what is shown as completed has ended well, a
\* command that no other crossed in its dataset has made each product from its
\* own product before, and a dry run begins no command (run_job,
\* execute_pipeline_cli_bridge).
THEOREM ServiceHonest == ProgramSpec => JobsHonest
<1> DEFINE Always == part = "jobs" => JobInv
<1>1. ProgramInit => Always
  BY JobInit DEF ProgramInit
<1>2. Always /\ [ProgramNext]_programVars => Always'
  <2>1. SUFFICES ASSUME Always, [ProgramNext]_programVars, part' = "jobs" PROVE JobInv'
    OBVIOUS
  <2>2. part = "jobs"
    BY <2>1 DEF ProgramNext, programVars
  <2>3. Jobs!Next \/ UNCHANGED programVars
    BY <2>1, <2>2 DEF ProgramNext
  <2>. QED
    BY <2>1, <2>2, <2>3, JobKept, JobStill DEF programVars
<1>3. Always => (part = "jobs" =>
          Jobs!TypeOK /\ Jobs!OwnSettings /\ Jobs!SettingsThere /\ Jobs!CompletedEnded)
  BY JobStates
<1>4. Always /\ [ProgramNext]_programVars => [part = "jobs" => Jobs!EndedStep]_programVars
  BY JobEnded DEF ProgramNext
<1>5. Always /\ [ProgramNext]_programVars => [part = "jobs" => Jobs!DryRunStep]_programVars
  BY JobDry DEF ProgramNext
<1>. QED
  BY <1>1, <1>2, <1>3, <1>4, <1>5, PTL DEF ProgramSpec, JobsHonest

=============================================================================
