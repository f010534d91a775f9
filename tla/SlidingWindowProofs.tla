------------------------- MODULE SlidingWindowProofs -------------------------
(***************************************************************************)
(* Proofs about the sliding-window scheduler, for every number of patches, *)
(* window, pool size and pool kind.                                        *)
(***************************************************************************)
EXTENDS SlidingWindow, FiniteSetTheorems, TLAPS

\* Submission follows dataset order, and a submitted future is pending,
\* returned by wait, or collected, one of the three.
Tracking ==
    /\ \A p \in Patch : p >= nextIx => future[p] = "none"
    /\ main # "raised" => \A p \in Patch : p < nextIx => future[p] # "none"
    /\ \A p \in Patch : future[p] # "none" =>
           p \in waitedFor \union done \/ results[p] # "none"
    /\ \A p \in waitedFor : future[p] # "none"
    /\ waitedFor \intersect done = {}
    /\ InPool \subseteq waitedFor
    /\ \A p \in done : future[p] \in Finished
    /\ \A p \in Patch : results[p] # "none" =>
           /\ future[p] \in Finished
           /\ results[p] = Status(p)

\* What is outstanding never exceeds the window, and it is empty only once
\* patch_iter is exhausted.
Window ==
    /\ Cardinality(waitedFor \union done) <= Limit
    /\ main = "fill" => waitedFor = 1..(nextIx - 1) /\ done = {} /\ nextIx <= Limit + 1
    /\ main \in {"wait", "publish", "finished"} => done = {}
    /\ main \in {"publish", "finished"} => waitedFor = {}
    /\ main \in {"wait", "collect", "publish", "finished"} /\ waitedFor \union done = {}
           => nextIx > N

\* The strengthening of the safety properties that every step preserves.
IInv ==
    /\ SweepTypeOK
    /\ Tracking
    /\ Window
    /\ RaisesOnlyWhenPoolDied
    /\ ReportFaithful

-----------------------------------------------------------------------------
\* Any set of patches is finite and has a natural cardinality.
LEMMA PatchSets ==
    ASSUME NEW S \in SUBSET Patch
    PROVE  IsFiniteSet(S) /\ Cardinality(S) \in Nat
<1>1. IsFiniteSet(Patch)
  BY WindowAssumption, FS_Interval DEF Patch
<1>2. QED
  BY <1>1, FS_Subset, FS_CardinalityType

\* The initial state satisfies the inductive invariant.
LEMMA InitIInv == SweepInit => IInv
<1> SUFFICES ASSUME SweepInit PROVE IInv
  OBVIOUS
<1> USE WindowAssumption DEF SweepInit
<1>1. SweepTypeOK
  <2>1. broken \in BOOLEAN
    BY Zenon
  <2>2. QED
    BY <2>1 DEF SweepTypeOK, Patch, Finished
<1>2. Tracking
  BY DEF Tracking, InPool, Patch
<1>3. Window
  <2>1. Cardinality(waitedFor \union done) = 0
    BY FS_EmptySet
  <2>2. 1..(nextIx - 1) = {}
    OBVIOUS
  <2>3. QED
    BY <2>1, <2>2 DEF Window
<1>4. QED
  BY <1>1, <1>2, <1>3 DEF IInv, RaisesOnlyWhenPoolDied, ReportFaithful

\* WindowBound and NoPatchLost are consequences of the inductive invariant.
LEMMA IInvImplies == IInv => WindowBound /\ NoPatchLost
<1> SUFFICES ASSUME IInv PROVE WindowBound /\ NoPatchLost
  OBVIOUS
<1> USE DEF IInv
<1>1. WindowBound
  <2>1. /\ InPool \subseteq waitedFor \union done
        /\ waitedFor \union done \in SUBSET Patch
    BY DEF Tracking, SweepTypeOK
  <2>2. Cardinality(InPool) <= Cardinality(waitedFor \union done)
    BY <2>1, PatchSets, FS_Subset
  <2>3. Cardinality(waitedFor \union done) <= Limit
    BY DEF Window
  <2>4. QED
    BY <2>1, <2>2, <2>3, PatchSets, WindowAssumption DEF WindowBound, InPool
<1>2. NoPatchLost
  <2> SUFFICES ASSUME main = "publish", NEW p \in Patch PROVE results[p] # "none"
    BY DEF NoPatchLost
  <2>1. waitedFor \union done = {} /\ nextIx > N
    BY DEF Window
  <2>2. p < nextIx
    BY <2>1, WindowAssumption DEF Patch, SweepTypeOK
  <2>3. QED
    BY <2>1, <2>2 DEF Tracking
<1>3. QED
  BY <1>1, <1>2

-----------------------------------------------------------------------------
\* Submitting the next patch keeps every part of the invariant that speaks of
\* the pool, provided there was room for it.
LEMMA FillStep == IInv /\ Fill => IInv'
<1> SUFFICES ASSUME IInv, Fill PROVE IInv'
  OBVIOUS
<1> USE WindowAssumption
<1>0. /\ nextIx \in Nat /\ nextIx <= N /\ nextIx <= Limit /\ nextIx \in Patch
      /\ main = "fill" /\ nextIx' = nextIx + 1
      /\ done = {} /\ waitedFor = 1..(nextIx - 1)
      /\ UNCHANGED <<done, results, broken, report>>
  BY DEF IInv, SweepTypeOK, Patch, Fill, SubmitNext, AtMost, Window
<1>1. \/ /\ broken /\ main' = "raised" /\ waitedFor' = waitedFor /\ future' = future
      \/ /\ ~broken /\ main' = "fill"
         /\ future' = [future EXCEPT ![nextIx] = "queued"]
         /\ waitedFor' = waitedFor \union {nextIx}
  BY <1>0 DEF Fill, SubmitNext
<1>2. SweepTypeOK'
  <2> USE DEF IInv, SweepTypeOK, Patch, Finished
  <2>1. nextIx' \in 1..(N + 1)
    BY <1>0
  <2>2. future' \in [Patch -> {"none", "queued", "running"} \union Finished]
    BY <1>0, <1>1
  <2>3. waitedFor' \in SUBSET Patch
    BY <1>0, <1>1
  <2>4. main' \in {"fill", "wait", "collect", "publish", "finished", "raised"}
    BY <1>1
  <2>5. QED
    BY <1>0, <2>1, <2>2, <2>3, <2>4
<1>3. Tracking'
  <2>1. nextIx \notin waitedFor /\ future[nextIx] = "none" /\ results[nextIx] = "none"
    BY <1>0 DEF IInv, Tracking, Finished
  <2>2. CASE broken
    <3>1. future' = future /\ waitedFor' = waitedFor /\ main' = "raised"
      BY <1>1, <2>2
    <3>2. QED
      BY <1>0, <3>1 DEF IInv, Tracking, InPool, Status, Patch
  <2>3. CASE ~broken
    <3>1. /\ future' = [future EXCEPT ![nextIx] = "queued"]
          /\ waitedFor' = waitedFor \union {nextIx}
      BY <1>1, <2>3
    <3>2. \A p \in Patch : future'[p] = IF p = nextIx THEN "queued" ELSE future[p]
      BY <3>1 DEF IInv, SweepTypeOK
    <3>3. InPool' \subseteq waitedFor'
      BY <3>1, <3>2 DEF IInv, Tracking, InPool
    <3>4. \A p \in Patch : (p >= nextIx' => future'[p] = "none")
                           /\ (p < nextIx' => future'[p] # "none")
      BY <1>0, <3>2 DEF IInv, Tracking, Patch
    <3>5. \A p \in Patch : results'[p] # "none" =>
             future'[p] \in Finished /\ results'[p] = Status(p)'
      BY <1>0, <3>2, <2>1 DEF IInv, Tracking, Status
    <3>6. /\ \A p \in Patch : future'[p] # "none" =>
                p \in waitedFor' \union done' \/ results'[p] # "none"
          /\ \A p \in waitedFor' : future'[p] # "none"
      BY <1>0, <3>1, <3>2 DEF IInv, Tracking, SweepTypeOK
    <3>7. done' = {}
      BY <1>0
    <3>8. QED
      BY <3>3, <3>4, <3>5, <3>6, <3>7 DEF Tracking
  <2>4. QED
    BY <2>2, <2>3
<1>4. Window'
  <2>1. CASE broken
    BY <1>0, <1>1, <2>1 DEF IInv, Window
  <2>2. CASE ~broken
    <3>0. (1..(nextIx - 1)) \union {nextIx} = 1..nextIx
      BY <1>0 DEF Patch
    <3>1. waitedFor' = 1..nextIx /\ done' = {} /\ main' = "fill"
      BY <1>0, <1>1, <2>2, <3>0
    <3>2. Cardinality(1..nextIx) = nextIx
      BY <1>0, FS_Interval
    <3>3. waitedFor' \union done' = 1..nextIx
      BY <3>1
    <3>4. QED
      BY <1>0, <3>1, <3>2, <3>3 DEF Window
  <2>3. QED
    BY <2>1, <2>2
<1>5. RaisesOnlyWhenPoolDied' /\ ReportFaithful'
  BY <1>0, <1>1 DEF RaisesOnlyWhenPoolDied, ReportFaithful
<1>6. QED
  BY <1>2, <1>3, <1>4, <1>5 DEF IInv

\* Recording one result and submitting one more patch: one leaves the window
\* before one enters it.
LEMMA CollectStep ==
    ASSUME IInv, NEW p \in done, Collect(p)
    PROVE  IInv'
<1> USE WindowAssumption
<1>0. /\ p \in Patch /\ main = "collect" /\ nextIx \in 1..(N + 1)
      /\ results' = [results EXCEPT ![p] = Status(p)]
      /\ done' = done \ {p}
      /\ UNCHANGED <<broken, report>>
      /\ future[p] \in Finished /\ p \notin waitedFor
  BY DEF IInv, SweepTypeOK, Tracking, Collect
<1>1. \/ /\ nextIx > N
         /\ main' = (IF done = {p} THEN "wait" ELSE "collect")
         /\ UNCHANGED <<nextIx, future, waitedFor>>
      \/ /\ nextIx \in Patch /\ broken /\ main' = "raised" /\ nextIx' = nextIx + 1
         /\ UNCHANGED <<future, waitedFor>>
      \/ /\ nextIx \in Patch /\ ~broken /\ nextIx' = nextIx + 1
         /\ main' = (IF done = {p} THEN "wait" ELSE "collect")
         /\ future' = [future EXCEPT ![nextIx] = "queued"]
         /\ waitedFor' = waitedFor \union {nextIx}
  BY <1>0 DEF Collect, SubmitNext, Patch
<1>2. SweepTypeOK'
  <2> USE DEF IInv, SweepTypeOK, Finished
  <2>1. nextIx' \in 1..(N + 1)
    BY <1>0, <1>1 DEF Patch
  <2>2. future' \in [Patch -> {"none", "queued", "running"} \union Finished]
    BY <1>1
  <2>3. waitedFor' \in SUBSET Patch /\ done' \in SUBSET Patch
    BY <1>0, <1>1
  <2>4. main' \in {"fill", "wait", "collect", "publish", "finished", "raised"}
    BY <1>1
  <2>5. results' \in [Patch -> {"none", "completed", "failed"}]
    BY <1>0 DEF Status
  <2>6. QED
    BY <1>0, <2>1, <2>2, <2>3, <2>4, <2>5
<1>3. \A q \in Patch : results'[q] = IF q = p THEN Status(p) ELSE results[q]
  BY <1>0 DEF IInv, SweepTypeOK
<1>4. nextIx \in Patch => future[nextIx] = "none"
  BY <1>0 DEF IInv, Tracking, Patch
<1>5. \A q \in Patch : future'[q] = IF future' # future /\ q = nextIx THEN "queued" ELSE future[q]
  BY <1>1 DEF IInv, SweepTypeOK
<1>6. Status(p) # "none"
  BY DEF Status
<1>7. Tracking'
  <2>1. /\ \A q \in Patch : q >= nextIx' => future'[q] = "none"
        /\ main' # "raised" => \A q \in Patch : q < nextIx' => future'[q] # "none"
    <3>1. CASE future' = future /\ main' # "raised"
      <4>1. nextIx' = nextIx /\ main # "raised"
        BY <1>0, <1>1, <1>4, <3>1 DEF IInv, SweepTypeOK
      <4>2. QED
        BY <3>1, <4>1 DEF IInv, Tracking
    <3>2. CASE main' = "raised"
      BY <1>0, <1>1, <3>2 DEF IInv, Tracking, Patch
    <3>3. CASE future' # future
      <4>1. nextIx' = nextIx + 1 /\ main # "raised"
        BY <1>0, <1>1, <3>3
      <4>2. QED
        BY <1>0, <1>5, <3>3, <4>1 DEF IInv, Tracking, Patch
    <3>4. QED
      BY <3>1, <3>2, <3>3
  <2>2. \A q \in Patch : future'[q] # "none" =>
            q \in waitedFor' \union done' \/ results'[q] # "none"
    <3> SUFFICES ASSUME NEW q \in Patch, future'[q] # "none", results'[q] = "none"
                 PROVE  q \in waitedFor' \union done'
      OBVIOUS
    <3>1. q # p /\ results[q] = "none"
      BY <1>3, <1>6
    <3>2. CASE future[q] # "none"
      BY <1>0, <1>1, <3>1, <3>2 DEF IInv, Tracking
    <3>3. CASE future[q] = "none"
      BY <1>1, <1>5, <3>3
    <3>4. QED
      BY <3>2, <3>3
  <2>3. \A q \in waitedFor' : future'[q] # "none"
    BY <1>0, <1>1, <1>5 DEF IInv, Tracking, SweepTypeOK
  <2>4. waitedFor' \intersect done' = {} /\ \A q \in done' : future'[q] \in Finished
    BY <1>0, <1>1, <1>4, <1>5 DEF IInv, Tracking, SweepTypeOK, Finished
  <2>5. InPool' \subseteq waitedFor'
    BY <1>1, <1>5 DEF IInv, Tracking, InPool
  <2>6. \A q \in Patch : results'[q] # "none" =>
            future'[q] \in Finished /\ results'[q] = Status(q)'
    <3> SUFFICES ASSUME NEW q \in Patch, results'[q] # "none"
                 PROVE  future'[q] \in Finished /\ results'[q] = Status(q)'
      OBVIOUS
    <3>1. future[q] \in Finished /\ results'[q] = Status(q)
      BY <1>0, <1>3 DEF IInv, Tracking
    <3>2. future'[q] = future[q]
      BY <1>1, <1>4, <1>5, <3>1 DEF Finished
    <3>3. QED
      BY <3>1, <3>2 DEF Status
  <2>7. QED
    BY <2>1, <2>2, <2>3, <2>4, <2>5, <2>6 DEF Tracking, Status
<1>8. Window'
  <2> DEFINE U == waitedFor \union done
  <2>1. IsFiniteSet(U) /\ Cardinality(U) <= Limit /\ Cardinality(U) \in Nat /\ p \in U
    BY PatchSets DEF IInv, Window, SweepTypeOK
  <2>2. IsFiniteSet(U \ {p}) /\ Cardinality(U \ {p}) = Cardinality(U) - 1
    BY <2>1, FS_RemoveElement
  <2>3. /\ IsFiniteSet((U \ {p}) \union {nextIx})
        /\ Cardinality((U \ {p}) \union {nextIx}) <= Limit
    BY <2>1, <2>2, FS_AddElement
  <2>4. waitedFor' \union done' \subseteq (U \ {p}) \union {nextIx}
    BY <1>0, <1>1
  <2>5. Cardinality(waitedFor' \union done') <= Limit
    <3>1. /\ Cardinality(waitedFor' \union done') <= Cardinality((U \ {p}) \union {nextIx})
          /\ Cardinality((U \ {p}) \union {nextIx}) \in Nat
          /\ Cardinality(waitedFor' \union done') \in Nat
      BY <2>3, <2>4, FS_Subset, FS_CardinalityType
    <3>2. QED
      BY <2>3, <3>1
  <2>6. main' \in {"wait", "collect", "raised"} /\ (main' = "wait" => done' = {})
    BY <1>0, <1>1
  <2>7. main' \in {"wait", "collect"} /\ waitedFor' \union done' = {} => nextIx' > N
    BY <1>0, <1>1
  <2>8. QED
    BY <2>5, <2>6, <2>7 DEF Window
<1>9. RaisesOnlyWhenPoolDied' /\ ReportFaithful'
  BY <1>0, <1>1 DEF RaisesOnlyWhenPoolDied, ReportFaithful
<1>10. QED
  BY <1>2, <1>7, <1>8, <1>9 DEF IInv

\* The main thread's remaining steps move futures between pending, done and
\* results without touching the pool.
LEMMA MainStep ==
    ASSUME IInv, \/ EndFill
                 \/ \E batch \in SUBSET waitedFor : WaitReturns(batch)
                 \/ EndWait
                 \/ Publish
    PROVE  IInv'
<1> USE WindowAssumption
<1>1. CASE EndFill
  <2>0. main = "fill" /\ main' = "wait" /\ nextIx \in Nat /\ done = {} /\ waitedFor = 1..(nextIx - 1)
    BY <1>1 DEF EndFill, IInv, SweepTypeOK, Window
  <2>1. waitedFor = {} => nextIx > N
    <3>1. nextIx > AtMost(Limit, N)
      BY <1>1 DEF EndFill
    <3>2. 1 \in 1..(nextIx - 1) \/ nextIx <= 1
      BY <2>0
    <3>3. QED
      BY <2>0, <3>1, <3>2 DEF AtMost
  <2>2. UNCHANGED <<nextIx, future, waitedFor, done, results, broken, report>>
    BY <1>1 DEF EndFill
  <2>3. QED
    BY <2>0, <2>1, <2>2
       DEF IInv, SweepTypeOK, Tracking, Window, RaisesOnlyWhenPoolDied, ReportFaithful,
           InPool, Status
<1>2. ASSUME NEW batch \in SUBSET waitedFor, WaitReturns(batch)
      PROVE  IInv'
  <2>0. /\ main = "wait" /\ main' = "collect" /\ done = {} /\ batch # {}
        /\ \A p \in batch : future[p] \in Finished
        /\ done' = batch /\ waitedFor' = waitedFor \ batch
        /\ UNCHANGED <<nextIx, future, results, broken, report>>
    BY <1>2 DEF WaitReturns, IInv, Window
  <2>1. waitedFor' \union done' = waitedFor \union done
    BY <2>0
  <2>2. Window'
    BY <2>0, <2>1 DEF IInv, Window
  <2>3. SweepTypeOK'
    BY <2>0 DEF IInv, SweepTypeOK
  <2>4. Tracking'
    <3>1. InPool' \subseteq waitedFor'
      BY <2>0 DEF IInv, Tracking, InPool, Finished
    <3>2. \A p \in Patch : future'[p] # "none" =>
              p \in waitedFor' \union done' \/ results'[p] # "none"
      BY <2>0, <2>1 DEF IInv, Tracking
    <3>3. QED
      BY <2>0, <3>1, <3>2 DEF IInv, Tracking, Status
  <2>5. QED
    BY <2>0, <2>2, <2>3, <2>4 DEF IInv, RaisesOnlyWhenPoolDied, ReportFaithful
<1>3. CASE EndWait
  <2>1. /\ main = "wait" /\ main' = "publish" /\ waitedFor = {} /\ done = {} /\ nextIx > N
        /\ UNCHANGED <<nextIx, future, waitedFor, done, results, broken, report>>
    BY <1>3 DEF EndWait, IInv, Window
  <2>2. QED
    BY <2>1
       DEF IInv, SweepTypeOK, Tracking, Window, RaisesOnlyWhenPoolDied, ReportFaithful,
           InPool, Status
<1>4. CASE Publish
  <2>1. /\ main = "publish" /\ \A p \in Patch : results[p] # "none"
    BY <1>4, IInvImplies DEF Publish, NoPatchLost
  <2>2. /\ main' = "finished" /\ report' = results
        /\ UNCHANGED <<nextIx, future, waitedFor, done, results, broken>>
    BY <1>4, <2>1 DEF Publish
  <2>3. ReportFaithful'
    BY <2>1, <2>2 DEF ReportFaithful, IInv, Tracking, Status
  <2>4. QED
    BY <2>1, <2>2, <2>3
       DEF IInv, SweepTypeOK, Tracking, Window, RaisesOnlyWhenPoolDied, InPool, Status
<1>5. QED
  BY <1>1, <1>2, <1>3, <1>4

\* The pool moves a future forward; the window does not see it.
LEMMA PoolStep ==
    ASSUME IInv, Pool \/ WorkerDies
    PROVE  IInv'
<1> SUFFICES ASSUME /\ UNCHANGED <<main, nextIx, waitedFor, done, results, report>>
                    /\ broken' \in BOOLEAN /\ (broken => broken')
                    /\ future' \in [Patch -> {"none", "queued", "running"} \union Finished]
                    /\ \A p \in Patch :
                          \/ future'[p] = future[p]
                          \/ /\ future[p] \in {"queued", "running"}
                             /\ future'[p] \in {"running", "ok", "failed"}
             PROVE  IInv'
  <2>1. ASSUME NEW p \in Patch, TakeTask(p) PROVE IInv'
    BY <2>1 DEF TakeTask, IInv, SweepTypeOK
  <2>2. ASSUME NEW p \in Patch, NEW end \in Finished, FinishTask(p, end) PROVE IInv'
    BY <2>2 DEF FinishTask, IInv, SweepTypeOK, Finished
  <2>3. ASSUME WorkerDies PROVE IInv'
    BY <2>3 DEF WorkerDies, IInv, SweepTypeOK, Finished, InPool
  <2>4. QED
    BY <2>1, <2>2, <2>3 DEF Pool
<1>1. SweepTypeOK' /\ Window' /\ RaisesOnlyWhenPoolDied'
  BY DEF IInv, SweepTypeOK, Window, RaisesOnlyWhenPoolDied
<1>2. \A p \in Patch : future[p] \in Finished \union {"none"} => future'[p] = future[p]
  BY DEF Finished
<1>3. \A p \in Patch : (future'[p] = "none") <=> (future[p] = "none")
  OBVIOUS
<1>4. Tracking'
  <2>1. /\ \A p \in Patch : p >= nextIx' => future'[p] = "none"
        /\ main' # "raised" => \A p \in Patch : p < nextIx' => future'[p] # "none"
        /\ \A p \in Patch : future'[p] # "none" =>
               p \in waitedFor' \union done' \/ results'[p] # "none"
        /\ \A p \in waitedFor' : future'[p] # "none"
        /\ waitedFor' \intersect done' = {}
    BY <1>3 DEF IInv, Tracking, SweepTypeOK
  <2>2. InPool' \subseteq waitedFor'
    BY DEF IInv, Tracking, InPool
  <2>3. \A p \in done' : future'[p] \in Finished
    BY <1>2 DEF IInv, Tracking, SweepTypeOK
  <2>4. \A p \in Patch : results'[p] # "none" =>
            future'[p] \in Finished /\ results'[p] = Status(p)'
    BY <1>2 DEF IInv, Tracking, Status
  <2>5. QED
    BY <2>1, <2>2, <2>3, <2>4 DEF Tracking, Status
<1>5. ReportFaithful'
  BY <1>2 DEF IInv, ReportFaithful, Status
<1>6. QED
  BY <1>1, <1>4, <1>5 DEF IInv

LEMMA StepIInv == IInv /\ [SweepNext]_sweepVars => IInv'
<1> SUFFICES ASSUME IInv, [SweepNext]_sweepVars PROVE IInv'
  OBVIOUS
<1>1. CASE Main
  BY <1>1, FillStep, CollectStep, MainStep DEF Main
<1>2. CASE Pool \/ WorkerDies
  BY <1>2, PoolStep
<1>3. CASE UNCHANGED sweepVars
  BY <1>3 DEF sweepVars, IInv, SweepTypeOK, Tracking, Window, RaisesOnlyWhenPoolDied, ReportFaithful,
              InPool, Status
<1>4. QED
  BY <1>1, <1>2, <1>3 DEF SweepNext, Ended

(* Every reachable state of the scheduler satisfies the inductive invariant. *)
THEOREM Invariance == SweepSpec => []IInv
BY InitIInv, StepIInv, PTL DEF SweepSpec

(* The scheduler is safe for any number of patches and any window: it never  *)
(* has more than stage_active_limit patches in the pool, never loses a       *)
(* patch before publishing, raises only when the pool died, and publishes    *)
(* each patch's own status.                                                  *)
THEOREM Safety ==
    SweepSpec => [](SweepTypeOK /\ WindowBound /\ NoPatchLost /\ RaisesOnlyWhenPoolDied /\ ReportFaithful)
<1>1. IInv => SweepTypeOK /\ WindowBound /\ NoPatchLost /\ RaisesOnlyWhenPoolDied /\ ReportFaithful
  BY IInvImplies DEF IInv
<1>2. QED
  BY <1>1, Invariance, PTL

(* A report that is published has one entry per patch, with the status of  *)
(* that patch's own future, in whatever order the pool finished them.      *)
THEOREM Report == SweepSpec => []ReportFaithful
<1>1. IInv => ReportFaithful
  BY DEF IInv
<1>2. QED
  BY <1>1, Invariance, PTL

-----------------------------------------------------------------------------
\* A patch is active in the promise exactly while its future is in the pool.
LEMMA PhaseTable ==
    /\ PhaseOf("none") = "waiting"
    /\ \A f : (f \in {"queued", "running"}) => PhaseOf(f) = "active"
    /\ \A f \in Finished : PhaseOf(f) = f
<1>1. PhaseOf("none") = "waiting" /\ PhaseOf("queued") = "active" /\ PhaseOf("running") = "active"
      /\ PhaseOf("ok") = "ok" /\ PhaseOf("failed") = "failed"
  BY DEF PhaseOf
<1>2. QED
  BY <1>1 DEF Finished

LEMMA Mapping ==
    ASSUME SweepTypeOK
    PROVE  /\ Sweep!Active = InPool
           /\ Sweep!Ended = {p \in Patch : future[p] \in Finished}
           /\ Sweep!Patch = Patch
<1>1. Sweep!Patch = Patch
  BY DEF Sweep!Patch, Patch
<1>2. \A p \in Patch : /\ AbstractPhase[p] = "active" <=> future[p] \in {"queued", "running"}
                       /\ AbstractPhase[p] \in Finished <=> future[p] \in Finished
  BY PhaseTable DEF AbstractPhase, SweepTypeOK, Finished
<1>3. QED
  BY <1>1, <1>2 DEF Sweep!Active, Sweep!Ended, InPool, Finished

\* The instance counts with the same operator.
LEMMA SameCardinality == \A S : Sweep!Cardinality(S) = Cardinality(S)
BY DEF Sweep!Cardinality, Cardinality

\* Whenever a patch is submitted there is room for it in the window.
LEMMA RoomToSubmit ==
    ASSUME IInv, Fill \/ \E p \in done : Collect(p)
    PROVE  Cardinality(InPool) < Limit
<1> USE WindowAssumption
<1>0. /\ InPool \subseteq waitedFor /\ waitedFor \in SUBSET Patch /\ done \in SUBSET Patch
      /\ InPool \in SUBSET Patch
  BY DEF IInv, Tracking, SweepTypeOK, InPool
<1>1. Cardinality(InPool) <= Cardinality(waitedFor)
  BY <1>0, PatchSets, FS_Subset
<1>2. Cardinality(waitedFor) < Limit
  <2>1. CASE Fill
    <3>1. waitedFor = 1..(nextIx - 1) /\ nextIx <= Limit /\ nextIx \in 1..(N + 1)
      BY <2>1 DEF Fill, IInv, Window, SweepTypeOK, AtMost
    <3>2. Cardinality(waitedFor) = nextIx - 1
      BY <3>1, FS_Interval
    <3>3. QED
      BY <3>1, <3>2
  <2>2. ASSUME NEW p \in done, Collect(p) PROVE Cardinality(waitedFor) < Limit
    <3>1. p \notin waitedFor /\ p \in waitedFor \union done
      BY DEF IInv, Tracking
    <3>2. /\ IsFiniteSet(waitedFor \union done)
          /\ Cardinality(waitedFor \union done) <= Limit
          /\ Cardinality(waitedFor \union done) \in Nat
      BY <1>0, PatchSets DEF IInv, Window
    <3>3. /\ waitedFor \subseteq (waitedFor \union done) \ {p}
          /\ IsFiniteSet((waitedFor \union done) \ {p})
          /\ Cardinality((waitedFor \union done) \ {p}) = Cardinality(waitedFor \union done) - 1
      BY <3>1, <3>2, FS_RemoveElement
    <3>4. Cardinality(waitedFor) <= Cardinality((waitedFor \union done) \ {p})
      BY <3>3, FS_Subset
    <3>5. QED
      BY <1>0, <3>2, <3>3, <3>4, PatchSets
  <2>3. QED
    BY <2>1, <2>2
<1>3. QED
  BY <1>0, <1>1, <1>2, PatchSets

LEMMA InitRefines == SweepInit => Sweep!Init
<1> SUFFICES ASSUME SweepInit PROVE Sweep!Init
  OBVIOUS
<1>1. broken \in BOOLEAN
  BY WindowAssumption, Zenon DEF SweepInit
<1>2. AbstractPhase = [p \in Patch |-> "waiting"]
  BY PhaseTable DEF SweepInit, AbstractPhase
<1>3. AbstractOutcome = "open"
  BY DEF SweepInit, AbstractOutcome
<1>4. Sweep!Patch = Patch
  BY DEF Sweep!Patch, Patch
<1>5. QED
  BY <1>1, <1>2, <1>3, <1>4 DEF Sweep!Init

\* A step that leaves the pool and the outcome alone is a stutter of the promise.
LEMMA Stutter ==
    ASSUME UNCHANGED <<future, broken>>, AbstractOutcome' = AbstractOutcome
    PROVE  UNCHANGED Sweep!vars
BY DEF Sweep!vars, AbstractPhase

\* Submitting the next patch starts it, raising aborts the sweep.
LEMMA SubmitRefines ==
    ASSUME IInv, Fill \/ \E p \in done : Collect(p)
    PROVE  [Sweep!Next]_(Sweep!vars)
<1>0. /\ nextIx \in 1..(N + 1) /\ main \in {"fill", "collect"} /\ AbstractOutcome = "open"
      /\ UNCHANGED broken
  BY DEF IInv, SweepTypeOK, Fill, Collect, AbstractOutcome
<1>1. \/ UNCHANGED future /\ main' \in {"fill", "wait", "collect"}
      \/ UNCHANGED future /\ main' = "raised" /\ broken
      \/ /\ nextIx \in Patch /\ ~broken /\ main' \in {"fill", "wait", "collect"}
         /\ future' = [future EXCEPT ![nextIx] = "queued"]
  BY <1>0, WindowAssumption DEF Fill, Collect, SubmitNext, Patch
<1>2. CASE UNCHANGED future /\ main' \in {"fill", "wait", "collect"}
  <2>1. AbstractOutcome' = AbstractOutcome
    BY <1>0, <1>2 DEF AbstractOutcome
  <2>2. QED
    BY <1>0, <1>2, <2>1, Stutter
<1>3. CASE UNCHANGED future /\ main' = "raised" /\ broken
  <2>1. AbstractPhase' = AbstractPhase /\ AbstractOutcome' = "aborted"
    BY <1>3 DEF AbstractPhase, AbstractOutcome
  <2>2. Sweep!Abort
    BY <1>0, <1>3, <2>1 DEF Sweep!Abort
  <2>3. QED
    BY <2>2 DEF Sweep!Next
<1>4. CASE /\ nextIx \in Patch /\ ~broken /\ main' \in {"fill", "wait", "collect"}
           /\ future' = [future EXCEPT ![nextIx] = "queued"]
  <2>1. future[nextIx] = "none" /\ future \in [Patch -> {"none", "queued", "running"} \union Finished]
    BY <1>4, WindowAssumption DEF IInv, Tracking, SweepTypeOK, Patch
  <2>2. AbstractPhase[nextIx] = "waiting"
    BY <1>4, <2>1, PhaseTable DEF AbstractPhase
  <2>3. AbstractPhase' = [AbstractPhase EXCEPT ![nextIx] = "active"]
    BY <1>4, <2>1, PhaseTable DEF AbstractPhase
  <2>4. AbstractOutcome' = "open"
    BY <1>4 DEF AbstractOutcome
  <2>5. Cardinality(Sweep!Active) < Limit
    BY RoomToSubmit, Mapping DEF IInv
  <2>6. Sweep!Start(nextIx)
    <3>1. (~broken)' = ~broken
      BY <1>0
    <3>2. QED
      BY <1>0, <1>4, <2>2, <2>3, <2>4, <2>5, <3>1, SameCardinality DEF Sweep!Start
  <2>7. nextIx \in Sweep!Patch
    BY <1>4, Mapping DEF IInv
  <2>8. QED
    BY <2>6, <2>7 DEF Sweep!Next
<1>5. QED
  BY <1>1, <1>2, <1>3, <1>4

\* The other steps of the main thread are invisible, except for publishing.
LEMMA MainRefines ==
    ASSUME IInv, \/ EndFill
                 \/ \E batch \in SUBSET waitedFor : WaitReturns(batch)
                 \/ EndWait
                 \/ Publish
    PROVE  [Sweep!Next]_(Sweep!vars)
<1>1. ASSUME \/ EndFill
             \/ \E batch \in SUBSET waitedFor : WaitReturns(batch)
             \/ EndWait
      PROVE  UNCHANGED Sweep!vars
  <2>1. /\ UNCHANGED <<future, broken>>
        /\ AbstractOutcome' = AbstractOutcome
    BY <1>1 DEF EndFill, WaitReturns, EndWait, AbstractOutcome
  <2>2. QED
    BY <2>1, Stutter
<1>2. CASE Publish
  <2>1. /\ main = "publish" /\ \A p \in Patch : results[p] # "none"
    BY <1>2, IInvImplies DEF Publish, NoPatchLost
  <2>2. /\ main' = "finished" /\ UNCHANGED <<future, broken>>
    BY <1>2, <2>1 DEF Publish
  <2>3. \A p \in Patch : future[p] \in Finished
    BY <2>1 DEF IInv, Tracking
  <2>4. Sweep!Ended = Sweep!Patch
    BY <2>3, Mapping DEF IInv
  <2>5. /\ AbstractPhase' = AbstractPhase
        /\ AbstractOutcome = "open" /\ AbstractOutcome' = "published"
    BY <2>1, <2>2 DEF AbstractPhase, AbstractOutcome
  <2>6. Sweep!Publish
    BY <2>2, <2>4, <2>5 DEF Sweep!Publish
  <2>7. QED
    BY <2>6 DEF Sweep!Next
<1>3. QED
  BY <1>1, <1>2

\* Taking a task is invisible; finishing it ends the patch; a dead worker
\* ends every patch in the pool at once.
LEMMA PoolRefines ==
    ASSUME IInv, Pool \/ WorkerDies
    PROVE  [Sweep!Next]_(Sweep!vars)
<1>0. future \in [Patch -> {"none", "queued", "running"} \union Finished] /\ SweepTypeOK
  BY DEF IInv, SweepTypeOK
<1>1. ASSUME NEW p \in Patch, TakeTask(p)
      PROVE  UNCHANGED Sweep!vars
  <2>1. AbstractPhase' = AbstractPhase
    BY <1>0, <1>1, PhaseTable DEF TakeTask, AbstractPhase
  <2>2. UNCHANGED <<broken, AbstractOutcome>>
    BY <1>1 DEF TakeTask, AbstractOutcome
  <2>3. QED
    BY <2>1, <2>2 DEF Sweep!vars
<1>2. ASSUME NEW p \in Patch, NEW end \in Finished, FinishTask(p, end)
      PROVE  Sweep!Next
  <2>1. AbstractPhase[p] = "active"
    BY <1>2, PhaseTable DEF FinishTask, AbstractPhase
  <2>2. AbstractPhase' = [AbstractPhase EXCEPT ![p] = end]
    BY <1>0, <1>2, PhaseTable DEF FinishTask, AbstractPhase
  <2>3. UNCHANGED <<broken, AbstractOutcome>>
    BY <1>2 DEF FinishTask, AbstractOutcome
  <2>4. Sweep!End(p, end)
    BY <2>1, <2>2, <2>3 DEF Sweep!End
  <2>5. p \in Sweep!Patch
    BY <1>0, Mapping
  <2>6. QED
    BY <2>4, <2>5 DEF Sweep!Next, Finished
<1>3. ASSUME WorkerDies
      PROVE  Sweep!Next
  <2>1. ~broken /\ broken' /\ AbstractOutcome' = AbstractOutcome
    BY <1>3 DEF WorkerDies, AbstractOutcome
  <2>2. future' = [p \in Patch |-> IF p \in InPool THEN "failed" ELSE future[p]]
    BY <1>3 DEF WorkerDies
  <2>3. AbstractPhase' = [p \in Patch |-> IF p \in InPool THEN "failed" ELSE AbstractPhase[p]]
    BY <2>2, PhaseTable DEF AbstractPhase, Finished
  <2>4. Sweep!Active = InPool /\ Sweep!Patch = Patch
    BY <1>0, Mapping
  <2>5. Sweep!LosePool
    BY <2>1, <2>3, <2>4 DEF Sweep!LosePool
  <2>6. QED
    BY <2>5 DEF Sweep!Next
<1>4. QED
  BY <1>1, <1>2, <1>3 DEF Pool

(* The scheduler implements the promise of PatchSweep for any number of      *)
(* patches and any window: each patch is started at most once and never more *)
(* than Limit of them together, and the stage ends by publishing every       *)
(* patch's result at once or, after the pool died, by raising.               *)
THEOREM Refinement == SweepSpec => ImplementsSweep
<1>1. IInv /\ [SweepNext]_sweepVars => [Sweep!Next]_(Sweep!vars)
  <2> SUFFICES ASSUME IInv, [SweepNext]_sweepVars PROVE [Sweep!Next]_(Sweep!vars)
    OBVIOUS
  <2>1. CASE Main
    BY <2>1, SubmitRefines, MainRefines DEF Main
  <2>2. CASE Pool \/ WorkerDies
    BY <2>2, PoolRefines
  <2>3. CASE UNCHANGED sweepVars
    BY <2>3, Stutter DEF sweepVars, AbstractOutcome
  <2>4. QED
    BY <2>1, <2>2, <2>3 DEF SweepNext, Ended
<1>2. QED
  BY <1>1, InitRefines, Invariance, PTL DEF SweepSpec, ImplementsSweep, Sweep!Spec
=============================================================================
