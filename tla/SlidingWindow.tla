---------------------------- MODULE SlidingWindow ----------------------------
(***************************************************************************)
(* The sliding-window scheduler that runs one patch-scope stage over all   *)
(* patches: run_pipeline in src/pystamps/pipeline/stages.py, with the      *)
(* worker pools of src/pystamps/runtime/executor.py.                       *)
(*                                                                         *)
(* The main thread submits the first min(Limit, N) patches, then waits for *)
(* the first futures to finish, records their results and submits one more *)
(* patch for each; when nothing is pending it adds the results to the      *)
(* report in dataset order.  Pool workers take the submitted tasks in      *)
(* submission order.  A process pool can lose a worker (killed for lack of *)
(* memory, say): concurrent.futures then fails every unfinished future and *)
(* every later submit raises, outside any handler of run_pipeline.         *)
(***************************************************************************)
EXTENDS Naturals, FiniteSets

CONSTANTS
    N,            \* number of patches, named 1..N in dataset order
    Limit,        \* stage_active_limit
    Workers,      \* size of the pool the stage runs on
    ProcessPool   \* TRUE when task_kind = "cpu": a worker may die

ASSUME WindowAssumption ==
    /\ N \in Nat
    /\ Limit \in Nat \ {0}
    /\ Workers \in Nat \ {0}
    /\ ProcessPool \in BOOLEAN

Patch == 1..N

VARIABLES
    main,      \* where the main thread is
    nextIx,    \* position of patch_iter: the next patch to submit
    future,    \* state of the future of each patch ("none": not submitted)
    waitedFor, \* the set passed to concurrent.futures.wait
    done,      \* futures returned by wait and not collected yet
    results,   \* results_by_name
    broken,    \* the process pool has lost a worker
    report     \* the stage's entries of the report, in dataset order

sweepVars == <<main, nextIx, future, waitedFor, done, results, broken, report>>

Finished    == {"ok", "failed"}
Status(p)   == IF future[p] = "ok" THEN "completed" ELSE "failed"
InPool      == {p \in Patch : future[p] \in {"queued", "running"}}
Busy        == {p \in Patch : future[p] = "running"}
AtMost(a, b) == IF a < b THEN a ELSE b

SweepInit ==
    /\ main = "fill"
    /\ nextIx = 1
    /\ future = [p \in Patch |-> "none"]
    /\ waitedFor = {}
    /\ done = {}
    /\ results = [p \in Patch |-> "none"]
    /\ broken \in IF ProcessPool THEN BOOLEAN ELSE {FALSE}  \* by an earlier stage
    /\ report = [p \in Patch |-> "none"]

-----------------------------------------------------------------------------

\* Mutant of SubmitNext: the iterator is not advanced.
SubmitAgain(waited, resume) ==
    IF nextIx > N
      THEN main' = resume /\ waitedFor' = waited /\ UNCHANGED <<nextIx, future>>
      ELSE /\ main' = resume
           /\ nextIx' \in {nextIx, nextIx + 1}
           /\ future' = [future EXCEPT ![nextIx] = "queued"]
           /\ waitedFor' = waited \union {nextIx}

(* _submit_next_patch with waited as the value pending has at the call.    *)
(* StopIteration leaves everything alone; a broken pool makes it raise.    *)
SubmitNext(waited, resume) ==
    IF nextIx > N
      THEN /\ main' = resume
           /\ waitedFor' = waited
           /\ UNCHANGED <<nextIx, future>>
      ELSE IF broken
        THEN /\ main' = "raised"
             /\ nextIx' = nextIx + 1
             /\ waitedFor' = waited
             /\ UNCHANGED future
        ELSE /\ main' = resume
             /\ nextIx' = nextIx + 1
             /\ future' = [future EXCEPT ![nextIx] = "queued"]
             /\ waitedFor' = waited \union {nextIx}

\* for _ in range(min(stage_active_limit, stage_total)): _submit_next_patch()
Fill ==
    /\ main = "fill"
    /\ nextIx <= AtMost(Limit, N)
    /\ SubmitNext(waitedFor, "fill")
    /\ UNCHANGED <<done, results, broken, report>>

EndFill ==
    /\ main = "fill"
    /\ nextIx > AtMost(Limit, N)
    /\ main' = "wait"
    /\ UNCHANGED <<nextIx, future, waitedFor, done, results, broken, report>>

\* wait(pending, FIRST_COMPLETED) returned some finished futures.  A timeout
\* with none finished only prints a heartbeat, which changes nothing here.
WaitReturns(batch) ==
    /\ main = "wait"
    /\ batch # {}
    /\ \A p \in batch : future[p] \in Finished
    /\ done' = batch
    /\ waitedFor' = waitedFor \ batch
    /\ main' = "collect"
    /\ UNCHANGED <<nextIx, future, results, broken, report>>

\* Mutants of Collect: a failed patch is not replaced in the window; the
\* status of the future is not looked at.
CollectNoRefill(p) ==
    /\ main = "collect"
    /\ results' = [results EXCEPT ![p] = Status(p)]
    /\ done' = done \ {p}
    /\ IF future[p] = "ok"
         THEN SubmitNext(waitedFor, IF done = {p} THEN "wait" ELSE "collect")
         ELSE /\ main' = IF done = {p} THEN "wait" ELSE "collect"
              /\ UNCHANGED <<waitedFor, nextIx, future>>
    /\ UNCHANGED <<broken, report>>

CollectCompleted(p) ==
    /\ main = "collect"
    /\ results' = [results EXCEPT ![p] = "completed"]
    /\ done' = done \ {p}
    /\ SubmitNext(waitedFor, IF done = {p} THEN "wait" ELSE "collect")
    /\ UNCHANGED <<broken, report>>

\* One turn of "for fut in done": record the result, submit one more patch.
Collect(p) ==
    /\ main = "collect"
    /\ results' = [results EXCEPT ![p] = Status(p)]
    /\ done' = done \ {p}
    /\ SubmitNext(waitedFor, IF done = {p} THEN "wait" ELSE "collect")
    /\ UNCHANGED <<broken, report>>

EndWait ==
    /\ main = "wait"
    /\ waitedFor = {}
    /\ main' = "publish"
    /\ UNCHANGED <<nextIx, future, waitedFor, done, results, broken, report>>

\* report.add(results_by_name[patch_dir.name]) for each patch in order; a
\* patch without a result would be a KeyError.
Publish ==
    /\ main = "publish"
    /\ IF \E p \in Patch : results[p] = "none"
         THEN /\ main' = "raised"
              /\ UNCHANGED report
         ELSE /\ main' = "finished"
              /\ report' = results
    /\ UNCHANGED <<nextIx, future, waitedFor, done, results, broken>>

-----------------------------------------------------------------------------
\* A pool worker takes the oldest queued task.
TakeTask(p) ==
    /\ ~broken
    /\ future[p] = "queued"
    /\ \A q \in Patch : future[q] = "queued" => p <= q
    /\ Cardinality(Busy) < Workers
    /\ future' = [future EXCEPT ![p] = "running"]
    /\ UNCHANGED <<main, nextIx, waitedFor, done, results, broken, report>>

\* The task returned a StageResult ("ok") or raised ("failed").
FinishTask(p, end) ==
    /\ future[p] = "running"
    /\ future' = [future EXCEPT ![p] = end]
    /\ UNCHANGED <<main, nextIx, waitedFor, done, results, broken, report>>

\* Mutant of WorkerDies: only the futures of running tasks fail.
WorkerDiesAlone ==
    /\ ProcessPool /\ ~broken
    /\ broken' = TRUE
    /\ future' = [p \in Patch |-> IF p \in Busy THEN "failed" ELSE future[p]]
    /\ UNCHANGED <<main, nextIx, waitedFor, done, results, report>>

\* A pool process dies, busy or idle: BrokenProcessPool on every unfinished
\* future.
WorkerDies ==
    /\ ProcessPool /\ ~broken
    /\ broken' = TRUE
    /\ future' = [p \in Patch |-> IF p \in InPool THEN "failed" ELSE future[p]]
    /\ UNCHANGED <<main, nextIx, waitedFor, done, results, report>>

-----------------------------------------------------------------------------
Main ==
    \/ Fill
    \/ EndFill
    \/ \E batch \in SUBSET waitedFor : WaitReturns(batch)
    \/ \E p \in done : Collect(p)
    \/ EndWait
    \/ Publish

Pool ==
    \/ \E p \in Patch : TakeTask(p)
    \/ \E p \in Patch, end \in Finished : FinishTask(p, end)

\* The stage has ended; the process goes on to the next stage or exits.
Ended == main \in {"finished", "raised"} /\ UNCHANGED sweepVars

SweepNext == Main \/ Pool \/ WorkerDies \/ Ended

\* The main thread and the pool keep running; nothing makes a worker die.
Fairness == WF_sweepVars(Main) /\ WF_sweepVars(Pool)

SweepSpec == SweepInit /\ [][SweepNext]_sweepVars /\ Fairness

-----------------------------------------------------------------------------
SweepTypeOK ==
    /\ main \in {"fill", "wait", "collect", "publish", "finished", "raised"}
    /\ nextIx \in 1..(N + 1)
    /\ future \in [Patch -> {"none", "queued", "running"} \union Finished]
    /\ waitedFor \in SUBSET Patch
    /\ done \in SUBSET Patch
    /\ results \in [Patch -> {"none", "completed", "failed"}]
    /\ broken \in BOOLEAN
    /\ report \in [Patch -> {"none", "completed", "failed"}]

(* The window never has more than stage_active_limit patches in the pool,  *)
(* whatever the order in which futures finish and are collected: this is   *)
(* the bound the stage-2 CPU budget (stages.py:1224-1239) relies on.       *)
WindowBound == Cardinality(InPool) <= Limit

(* When the wait loop ends every patch has a result, so that the lookup    *)
(* results_by_name[patch_dir.name] cannot fail (stages.py:1337-1338): the  *)
(* window is refilled until patch_iter is exhausted, even when several     *)
(* futures finish in one wait or fail.                                     *)
NoPatchLost == main = "publish" => \A p \in Patch : results[p] # "none"

(* The only way run_pipeline leaves the sweep by an exception is a dead    *)
(* process pool.                                                           *)
RaisesOnlyWhenPoolDied == main = "raised" => broken

(* A published report has one entry per patch, in dataset order, with the  *)
(* status of that patch's own future.                                      *)
ReportFaithful ==
    main = "finished" =>
        \A p \in Patch : future[p] \in Finished /\ report[p] = Status(p)

\* Every sweep ends.
SweepEnds == <>(main \in {"finished", "raised"})

-----------------------------------------------------------------------------
(* The scheduler implements the promise stated in PatchSweep.              *)
PhaseOf(f) ==
    CASE f = "none" -> "waiting"
      [] f \in {"queued", "running"} -> "active"
      [] OTHER -> f

AbstractPhase == [p \in Patch |-> PhaseOf(future[p])]

AbstractOutcome ==
    CASE main = "finished" -> "published"
      [] main = "raised"   -> "aborted"
      [] OTHER           -> "open"

Sweep == INSTANCE PatchSweep WITH
    phase <- AbstractPhase, poolUp <- ~broken, outcome <- AbstractOutcome

(* Every step of the scheduler is a step of PatchSweep or a stutter: each  *)
(* patch is processed at most once, at most Limit at a time, and results   *)
(* are published all together.                                             *)
ImplementsSweep == Sweep!Spec
=============================================================================
