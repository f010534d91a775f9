------------------------- MODULE MergedStagesProofs -------------------------
(***************************************************************************)
(* Proofs about the merged stages, for every plan of a user: any number of *)
(* writes, edits and stops, any start and end steps, any corrections, with *)
(* merged stages in the driver's process or in processes of their own.     *)
(***************************************************************************)
EXTENDS MergedStages, TLAPS

Busy == {"begin", "invert", "finalqc", "write", "mark", "commit"}
AtWork == Busy \ {"begin"}

\* Where a run is, and which job it is at.
Control ==
    /\ pc = "idle" => stage = 5 /\ first = 5 /\ ctx = "none"
    /\ pc # "idle" => first <= stage
    /\ pc = "export" => stage > last /\ last = 8
    /\ pc \in {"resolve", "record", "decide"} \union Busy => stage <= last
    /\ pc \in {"resolve", "record"} =>
          /\ stage \in {7, 8} /\ ctx = "none"
          /\ phase \in {"phuw2", Target} \/ (phase = "gacos" /\ Target = "gacos_deramp")
    /\ pc = "record" => phase # Target
    /\ pc \in {"decide"} \union Busy => phase = IF stage >= 7 THEN Target ELSE "phuw2"
    /\ pc \in Busy => job = stage \/ (stage = 6 /\ job = 5) \/ (stage = 8 /\ job = 7)
    /\ pc \in {"invert", "finalqc"} => job = 6
    /\ pc = "mark" => job \in {7, 8}
    /\ pc \in {"decide"} \union Busy /\ stage >= 7 => ctx = Target
    /\ ctx # "none" => ctx = Target /\ stage >= 7

\* How often a corrected phase can have been made by now: a stage makes it
\* once, and stage 8 makes it again only when stage 7 left no context.
Rounds == IF stage >= 8 /\ (~SharedContext \/ status[7] = "failed") THEN 2 ELSE 1

\* The corrected phases that may still be made when p is reached.
Ahead(p) ==
    CASE p = "phuw2" -> Corrected
      [] p = "gacos" -> {"gacos_deramp"}
      [] OTHER       -> {}

Rebuilds ==
    /\ \A q \in Corrected : built[q] <= Rounds
    /\ pc \in {"idle", "check"} /\ ctx = "none" /\ stage <= 8 =>
          \A q \in Corrected : built[q] <= Rounds - 1
    /\ pc \in {"decide"} \union Busy /\ stage <= 6 => \A q \in Corrected : built[q] = 0
    /\ pc = "resolve" => \A q \in Ahead(phase) : built[q] <= Rounds - 1
    /\ pc = "record" => \A q \in Ahead(NextPhase(phase)) : built[q] <= Rounds - 1

\* Stamps grow.
Clocked ==
    /\ \A f \in File : stamp[f] <= clock
    /\ \A f, g \in File : from[f].files[g] <= clock

\* The markers of a product that is not suspect tell what it was computed from.
Documented(s) ==
    Product[s] \notin suspect /\ stamp[Product[s]] > 0 =>
        /\ s \in marked /\ Product[s] \in whole
        /\ \A f \in SignedFiles(s, marker[s].phase) :
              from[Product[s]].files[f] = marker[s].files[f]
        /\ \A f \in ReadFiles(s, marker[s].phase) : from[Product[s]].files[f] > 0
        /\ \A f \in File \ ReadFiles(s, marker[s].phase) : from[Product[s]].files[f] = 0
        /\ from[Product[s]].drop = marker[s].drop
        /\ from[Product[s]].qc = marker[s].qc
        /\ s = 5 => marker[s].drop = 0
        /\ s # 6 => marker[s].qc = 0
        /\ s >= 7 => /\ marker[s].phase \in PhaseFile
                     /\ phaseMark[s] = [file  |-> marker[s].phase,
                                        stamp |-> marker[s].files[marker[s].phase]]

Committed == \A s \in Stage : Documented(s)

\* A job that is under way: what it has read is what is there.
Running ==
    /\ pc \in AtWork =>
          /\ Product[job] \in suspect
          /\ Present(ReadFiles(job, phase))
          /\ read.files = Derivation(job, phase).files
          /\ read.qc = Derivation(job, phase).qc
    /\ pc \in {"write", "mark", "commit"} => read.drop = Derivation(job, phase).drop
    /\ pc \in {"mark", "commit"} =>
          /\ Product[job] \in whole /\ from[Product[job]] = read
          /\ stamp[Product[job]] > 0
    /\ pc = "finalqc" => stamp["phuw2"] > 0
    /\ pc = "commit" /\ job \in {7, 8} =>
          phaseMark[job] = [file |-> phase, stamp |-> stamp[phase]]
    /\ pc \in {"finalqc", "write", "commit"} /\ job = 6 => audit = conf.qc
    /\ pc \in Busy /\ job = 8 => PhaseCurrent(7, phase)

\* The corrected phase q, and p with what it was made from, belong to the
\* phuw2 and the merged files of now.
Link(q) ==
    /\ stamp[q] > 0
    /\ from[q].files = Stamps({SourceOf(q), "merged"})
    /\ record[q] = from[q].files

Chained(p) ==
    /\ p \in Corrected => Link(p)
    /\ p = "gacos_deramp" => Link("gacos")

Chain ==
    /\ pc \in {"resolve", "record", "decide"} \union Busy => Chained(phase)
    /\ ctx # "none" => Chained(ctx)
    /\ pc = "record" =>
          LET q == NextPhase(phase) IN
          /\ stamp[q] > 0 /\ q \in suspect
          /\ from[q].files = Stamps({phase, "merged"})

\* A cache record is never newer than the product beside it, and the product
\* never newer than its sources.
Recorded ==
    \A q \in Corrected :
        /\ \A f \in {SourceOf(q), "merged"} :
              /\ record[q][f] <= from[q].files[f]
              /\ from[q].files[f] <= stamp[f] \/ stamp[f] = 0
              /\ stamp[q] > 0 => from[q].files[f] > 0
        /\ from[q].files["merged"] <= stamp["merged"]
        /\ record[q][SourceOf(q)] = 0 => record[q]["merged"] = 0
        /\ \A f \in File \ {SourceOf(q), "merged"} : record[q][f] = 0 /\ from[q].files[f] = 0
        /\ stamp[q] > 0 /\ q \notin suspect => q \in whole

\* An SCLA made from a corrected phase that is still there was made from
\* the phuw2 which that one was made from.
Lineage ==
    LET fs == from["scla"].files IN
    /\ \A q \in {"gacos", "deramp"} :
          fs[q] # 0 /\ fs[q] = stamp[q] => fs["phuw2"] = from[q].files["phuw2"]
    /\ /\ fs["gacos_deramp"] # 0 /\ fs["gacos_deramp"] = stamp["gacos_deramp"]
       /\ from["gacos_deramp"].files["gacos"] = stamp["gacos"]
       => fs["phuw2"] = from["gacos"].files["phuw2"]

Data == Clocked /\ Committed /\ Running /\ Chain /\ Recorded /\ Lineage

IInv == TypeOK /\ Control /\ Rebuilds /\ Data

-----------------------------------------------------------------------------
\* What the assumption says of the plan that is explored.
LEMMA Plan ==
    ASSUME TypeOK
    PROVE  /\ MaxStamp \in Nat \ {0} /\ MaxEdits \in Nat /\ MaxStops \in Nat
           /\ FirstSteps \subseteq Stage /\ LastSteps \subseteq Stage
           /\ Corrections \subseteq {"gacos", "deramp"}
           /\ SharedContext \in BOOLEAN
BY MergedAssumption DEF TypeOK, MaxStamp, MaxEdits, MaxStops, FirstSteps, LastSteps,
                        Corrections, SharedContext, Stage

LEMMA Stages == \A s \in Stage : s = 5 \/ s = 6 \/ s = 7 \/ s = 8
BY DEF Stage

LEMMA Products ==
    /\ Product[5] = "merged" /\ Product[6] = "phuw2" /\ Product[7] = "scla" /\ Product[8] = "scn"
    /\ \A s \in Stage : Product[s] \in File
    /\ \A s, t \in Stage : Product[s] = Product[t] => s = t
<1>1. Product[5] = "merged" /\ Product[6] = "phuw2" /\ Product[7] = "scla" /\ Product[8] = "scn"
  BY DEF Product, Stage
<1>. QED
  BY <1>1, Stages DEF File, PhaseFile

\* No stage reads its own product, or one of a later stage.
LEMMA Reads ==
    ASSUME NEW s \in Stage, NEW ph \in PhaseFile
    PROVE  /\ ReadFiles(s, ph) \subseteq File /\ SignedFiles(s, ph) \subseteq ReadFiles(s, ph)
           /\ Product[s] \notin ReadFiles(s, ph)
           /\ s # 7 => SignedFiles(s, ph) = ReadFiles(s, ph)
           /\ \A f \in ReadFiles(7, ph) \ SignedFiles(7, ph) : f = "phuw2"
<1>1. CASE s = 5
  BY <1>1, Products DEF ReadFiles, SignedFiles, File, PhaseFile, Corrected
<1>2. CASE s = 6
  BY <1>2, Products DEF ReadFiles, SignedFiles, File, PhaseFile, Corrected
<1>3. CASE s = 7
  BY <1>3, Products DEF ReadFiles, SignedFiles, File, PhaseFile, Corrected
<1>4. CASE s = 8
  BY <1>4, Products DEF ReadFiles, SignedFiles, File, PhaseFile, Corrected
<1>. QED
  BY <1>1, <1>2, <1>3, <1>4, Stages DEF ReadFiles, SignedFiles

LEMMA Targets ==
    ASSUME TypeOK
    PROVE  /\ Target \in PhaseFile
           /\ Target = "phuw2" <=> conf.corr = {}
           /\ Target = "gacos" <=> conf.corr = {"gacos"}
           /\ Target = "deramp" <=> conf.corr = {"deramp"}
           /\ Target = "gacos_deramp" <=> conf.corr = {"gacos", "deramp"}
<1>1. conf.corr \subseteq {"gacos", "deramp"}
  BY Plan DEF TypeOK, Config
<1>2. conf.corr = {} \/ conf.corr = {"gacos"} \/ conf.corr = {"deramp"} \/ conf.corr = {"gacos", "deramp"}
  BY <1>1
<1>3. CASE conf.corr = {}
  BY <1>3 DEF Target, PhaseFile
<1>4. CASE conf.corr = {"gacos"}
  BY <1>4 DEF Target, PhaseFile, Corrected
<1>5. CASE conf.corr = {"deramp"}
  BY <1>5 DEF Target, PhaseFile, Corrected
<1>6. CASE conf.corr = {"gacos", "deramp"}
  <2>1. conf.corr # {} /\ conf.corr # {"gacos"} /\ conf.corr # {"deramp"}
    BY <1>6
  <2>. QED
    BY <1>6, <2>1 DEF Target, PhaseFile, Corrected
<1>. QED
  BY <1>2, <1>3, <1>4, <1>5, <1>6

\* The steps to the phase product.
LEMMA NextPhases ==
    ASSUME TypeOK, Control, pc \in {"resolve", "record"}, phase # Target
    PROVE  /\ NextPhase(phase) \in Corrected
           /\ SourceOf(NextPhase(phase)) = phase
           /\ \/ phase = "phuw2" /\ NextPhase(phase) = "gacos" /\ Target \in {"gacos", "gacos_deramp"}
              \/ phase = "phuw2" /\ NextPhase(phase) = "deramp" /\ Target = "deramp"
              \/ phase = "gacos" /\ NextPhase(phase) = "gacos_deramp" /\ Target = "gacos_deramp"
<1>1. \/ phase = "phuw2"
      \/ phase = "gacos" /\ Target = "gacos_deramp"
  BY DEF Control
<1>2. CASE phase = "phuw2"
  <2>1. CASE "gacos" \in conf.corr
    <3>1. Target \in {"gacos", "gacos_deramp"}
      BY <1>2, <2>1, Targets DEF PhaseFile, Corrected
    <3>. QED
      BY <1>2, <2>1, <3>1 DEF NextPhase, SourceOf, Corrected
  <2>2. CASE "gacos" \notin conf.corr
    <3>1. Target = "deramp"
      BY <1>2, <2>2, Targets DEF PhaseFile, Corrected
    <3>. QED
      BY <1>2, <2>2, <3>1 DEF NextPhase, SourceOf, Corrected
  <2>. QED
    BY <2>1, <2>2
<1>3. CASE phase = "gacos" /\ Target = "gacos_deramp"
  BY <1>3 DEF NextPhase, SourceOf, Corrected
<1>. QED
  BY <1>1, <1>2, <1>3

LEMMA StampsType ==
    ASSUME TypeOK, NEW names
    PROVE  Stamps(names) \in [File -> 0..MaxStamp]
BY Plan DEF TypeOK, Stamps

LEMMA SignedRecord ==
    ASSUME NEW a \in [File -> 0..MaxStamp], NEW d \in 0..1, NEW q \in 0..1,
           NEW c \in SUBSET Corrections, NEW b \in BOOLEAN, NEW p \in PhaseFile \union {"none"}
    PROVE  [files |-> a, drop |-> d, qc |-> q, corr |-> c, rebuild |-> b, phase |-> p] \in Signed
BY DEF Signed

LEMMA Sources ==
    ASSUME TypeOK, NEW s \in Stage, NEW ph \in PhaseFile
    PROVE  Derivation(s, ph) \in Source /\ Signature(s, ph) \in Signed
<1>1. drop \in 0..1 /\ conf.qc \in 0..1 /\ conf.corr \in SUBSET Corrections /\ conf.rebuild \in BOOLEAN
  BY DEF TypeOK, Config
<1>2. Stamps(ReadFiles(s, ph)) \in [File -> 0..MaxStamp] /\ Stamps(SignedFiles(s, ph)) \in [File -> 0..MaxStamp]
  BY StampsType
<1>3. Derivation(s, ph) \in Source
  BY <1>1, <1>2 DEF Derivation, Source
<1>4. /\ (IF s = 5 THEN 0 ELSE drop) \in 0..1 /\ (IF s = 6 THEN conf.qc ELSE 0) \in 0..1
      /\ (IF s < 7 THEN {} ELSE conf.corr) \in SUBSET Corrections
      /\ (IF s < 7 THEN "none" ELSE ph) \in PhaseFile \union {"none"}
  BY <1>1
<1>5. (IF s < 7 THEN FALSE ELSE conf.rebuild) \in BOOLEAN
  BY <1>1, Zenon
<1>6. Signature(s, ph) \in Signed
  BY <1>2, <1>4, <1>5, SignedRecord DEF Signature
<1>. QED
  BY <1>3, <1>6

LEMMA Nothings ==
    ASSUME TypeOK
    PROVE  Nothing \in Source /\ NoFiles \in [File -> 0..MaxStamp]
BY Plan DEF Nothing, NoFiles, Source

-----------------------------------------------------------------------------
\* Types.

\* The plan never changes, and so the bounds and types do not.
LEMMA SameBounds ==
    ASSUME UNCHANGED setup
    PROVE  /\ UNCHANGED <<MaxStamp, MaxEdits, MaxStops, FirstSteps, LastSteps, Corrections,
                          SharedContext, Source, Signed, Config>>
BY DEF MaxStamp, MaxEdits, MaxStops, FirstSteps, LastSteps, Corrections, SharedContext, Source,
       Signed, Config

\* What a write of file f does.
LEMMA Writes ==
    ASSUME TypeOK, NEW f \in File, NEW source \in Source, NEW complete, Write(f, source, complete)
    PROVE  /\ clock \in Nat /\ clock' = clock + 1 /\ clock' \in 0..MaxStamp
           /\ stamp' \in [File -> 0..MaxStamp] /\ stamp'[f] = clock + 1
           /\ \A g \in File \ {f} : stamp'[g] = stamp[g]
           /\ from' \in [File -> Source] /\ from'[f] = source
           /\ \A g \in File \ {f} : from'[g] = from[g]
           /\ whole' \subseteq File
           /\ \A g \in File \ {f} : g \in whole' <=> g \in whole
           /\ complete => f \in whole'
<1>1. /\ clock \in Nat /\ clock' = clock + 1 /\ clock' \in 0..MaxStamp
      /\ stamp' = [stamp EXCEPT ![f] = clock'] /\ from' = [from EXCEPT ![f] = source]
  BY Plan DEF TypeOK, Write
<1>2. /\ whole' \subseteq File /\ \A g \in File \ {f} : g \in whole' <=> g \in whole
      /\ complete => f \in whole'
  BY DEF TypeOK, Write
<1>. QED
  BY <1>1, <1>2 DEF TypeOK

\* What the next phase product may still cost.
LEMMA OneMore ==
    ASSUME TypeOK, Control, Rebuilds, pc = "resolve", phase # Target
    PROVE  /\ NextPhase(phase) \in Ahead(phase)
           /\ NextPhase(phase) \notin Ahead(NextPhase(phase))
           /\ Ahead(NextPhase(phase)) \subseteq Ahead(phase)
           /\ Rounds \in 1..2
           /\ built[NextPhase(phase)] \in 0..1 /\ built[NextPhase(phase)] <= Rounds - 1
<1>1. /\ NextPhase(phase) \in Ahead(phase)
      /\ NextPhase(phase) \notin Ahead(NextPhase(phase))
      /\ Ahead(NextPhase(phase)) \subseteq Ahead(phase)
  BY NextPhases DEF Ahead, Corrected
<1>2. Rounds \in 1..2
  BY DEF Rounds
<1>3. built[NextPhase(phase)] \in 0..2
  BY NextPhases DEF TypeOK
<1>4. built[NextPhase(phase)] <= Rounds - 1
  BY <1>1 DEF Rebuilds
<1>. QED
  BY <1>1, <1>2, <1>3, <1>4

Moving ==
    \/ \E i \in FirstSteps, j \in LastSteps : i <= j /\ StartRun(i, j)
    \/ Enter \/ ReuseProduct \/ Resolved \/ Skip \/ Recompute \/ FailStage
    \/ EndLoop \/ Export \/ Crash

\* These steps touch no file, marker or setting.
LEMMA MovingKeeps ==
    ASSUME Moving
    PROVE  UNCHANGED <<conf, drop, stamp, whole, clock, from, marked, marker, phaseMark, record,
                       audit, suspect>>
BY DEF Moving, StartRun, Enter, ReuseProduct, Resolved, Skip, Recompute, FailStage, EndLoop,
       Export, Crash, files, marks

LEMMA MovingType ==
    ASSUME TypeOK, Control, Moving, UNCHANGED setup
    PROVE  TypeOK'
<1>. USE SameBounds, Plan
<1>1. ASSUME NEW i \in FirstSteps, NEW j \in LastSteps, StartRun(i, j) PROVE TypeOK'
  BY <1>1 DEF TypeOK, StartRun, files, marks, bounds, Stage
<1>2. CASE Enter
  BY <1>2 DEF TypeOK, Enter, files, marks, bounds, PhaseFile
<1>3. CASE ReuseProduct
  <2>1. phase' \in PhaseFile
    BY <1>3, NextPhases DEF ReuseProduct, PhaseFile
  <2>. QED
    BY <1>3, <2>1 DEF TypeOK, ReuseProduct, files, marks, bounds
<1>4. CASE Resolved
  BY <1>4 DEF TypeOK, Resolved, files, marks, bounds
<1>5. CASE Skip
  <2>1. stage \in Stage
    BY <1>5 DEF Skip, Control, TypeOK, Stage
  <2>. QED
    BY <1>5, <2>1, Nothings DEF TypeOK, Skip, Advance, files, marks, bounds, PhaseFile, Stage
<1>6. CASE Recompute
  BY <1>6 DEF TypeOK, Recompute, files, marks, bounds, Control, Stage
<1>7. CASE FailStage
  <2>1. stage \in Stage /\ stage <= last
    BY <1>7 DEF FailStage, Control, TypeOK, Stage, Busy
  <2>2. stops' \in 0..MaxStops
    BY <1>7 DEF FailStage, TypeOK
  <2>. QED
    BY <1>7, <2>1, <2>2, Nothings DEF TypeOK, FailStage, Advance, files, marks, bounds, PhaseFile, Stage
<1>8. CASE EndLoop
  BY <1>8, Nothings DEF TypeOK, EndLoop, Leave, files, marks, bounds, PhaseFile, Stage
<1>9. CASE Export
  BY <1>9, Nothings DEF TypeOK, Export, Leave, files, marks, bounds, PhaseFile, Stage
<1>10. CASE Crash
  <2>1. stops' \in 0..MaxStops
    BY <1>10 DEF Crash, TypeOK
  <2>. QED
    BY <1>10, <2>1, Nothings DEF TypeOK, Crash, Leave, files, marks, bounds, PhaseFile, Stage
<1>. QED
  BY <1>1, <1>2, <1>3, <1>4, <1>5, <1>6, <1>7, <1>8, <1>9, <1>10 DEF Moving

\* A phase product is made.
LEMMA MakingType ==
    ASSUME TypeOK, Control, Rebuilds, UNCHANGED setup, MakeProduct \/ RecordProduct
    PROVE  TypeOK'
<1>. USE SameBounds, Plan
<1>1. CASE MakeProduct
  <2>. DEFINE q == NextPhase(phase)
              source == [Nothing EXCEPT !.files = Stamps({phase, "merged"})]
  <2>1. q \in Corrected /\ q \in File /\ source \in Source
    BY <1>1, NextPhases, Nothings, StampsType DEF MakeProduct, File, PhaseFile, Source, Nothing
  <2>2. Write(q, source, q = "gacos")
    BY <1>1 DEF MakeProduct
  <2>3. /\ clock' \in 0..MaxStamp /\ stamp' \in [File -> 0..MaxStamp]
        /\ from' \in [File -> Source] /\ whole' \subseteq File
    BY <2>1, <2>2, Writes
  <2>4. built' \in [Corrected -> 0..2]
    <3>1. built[q] \in 0..1
      BY <1>1, OneMore DEF MakeProduct
    <3>. QED
      BY <1>1, <2>1, <3>1 DEF MakeProduct, TypeOK
  <2>5. suspect' \subseteq File
    BY <1>1, <2>1 DEF MakeProduct, TypeOK
  <2>. QED
    BY <1>1, <2>3, <2>4, <2>5 DEF TypeOK, MakeProduct, marks, bounds
<1>2. CASE RecordProduct
  <2>. DEFINE q == NextPhase(phase)
  <2>1. q \in Corrected /\ q \in File /\ q \in PhaseFile
    BY <1>2, NextPhases DEF RecordProduct, File, PhaseFile, Control
  <2>2. from[q].files \in [File -> 0..MaxStamp]
    BY <2>1 DEF TypeOK, Source
  <2>3. record' \in [Corrected -> [File -> 0..MaxStamp]]
    BY <1>2, <2>1, <2>2 DEF TypeOK, RecordProduct
  <2>. QED
    BY <1>2, <2>1, <2>3 DEF TypeOK, RecordProduct, bounds
<1>. QED
  BY <1>1, <1>2

\* Jobs of stages 5, 7 and 8.
LEMMA JobType ==
    ASSUME TypeOK, Control, UNCHANGED setup, BeginJob \/ FinishJob \/ MarkPhase \/ Commit
    PROVE  TypeOK'
<1>. USE SameBounds, Plan
<1>0. job \in Stage /\ Product[job] \in File /\ phase \in PhaseFile /\ read \in Source
  BY Products DEF TypeOK
<1>1. CASE BeginJob
  <2>1. /\ clock' \in 0..MaxStamp /\ stamp' \in [File -> 0..MaxStamp]
        /\ from' \in [File -> Source] /\ whole' \subseteq File
    <3>1. CASE Write(Product[job], Nothing, FALSE)
      BY <1>0, <3>1, Writes, Nothings
    <3>2. CASE whole' = whole \ {Product[job]} /\ UNCHANGED <<stamp, clock, from>>
      BY <3>2 DEF TypeOK
    <3>. QED
      BY <1>1, <3>1, <3>2 DEF BeginJob
  <2>2. read' \in Source
    BY <1>0, <1>1, Sources DEF BeginJob
  <2>3. suspect' \subseteq File
    BY <1>0, <1>1 DEF BeginJob, TypeOK
  <2>. QED
    BY <1>1, <2>1, <2>2, <2>3 DEF TypeOK, BeginJob, marks, bounds
<1>2. CASE FinishJob
  <2>1. /\ clock' \in 0..MaxStamp /\ stamp' \in [File -> 0..MaxStamp]
        /\ from' \in [File -> Source] /\ whole' \subseteq File
    <3>1. Write(Product[job], read, TRUE)
      BY <1>2 DEF FinishJob
    <3>. QED
      BY <1>0, <3>1, Writes
  <2>. QED
    BY <1>2, <2>1 DEF TypeOK, FinishJob, marks, bounds
<1>3. CASE MarkPhase
  <2>1. stamp[phase] \in 0..MaxStamp
    BY <1>0 DEF TypeOK, File
  <2>2. phaseMark' \in [{7, 8} -> [file : PhaseFile \union {"none"}, stamp : 0..MaxStamp]]
    BY <1>0, <1>3, <2>1 DEF TypeOK, MarkPhase
  <2>. QED
    BY <1>3, <2>2 DEF TypeOK, MarkPhase, files, bounds
<1>4. CASE Commit
  <2>1. marked' \subseteq Stage /\ marker' \in [Stage -> Signed] /\ suspect' \subseteq File
    BY <1>0, <1>4, Sources DEF TypeOK, Commit
  <2>2. CASE job = stage
    <3>1. stage \in Stage
      BY <1>0, <2>2
    <3>. QED
      BY <1>4, <2>1, <2>2, <3>1, Nothings DEF TypeOK, Commit, Advance, files, bounds, PhaseFile, Stage
  <2>3. CASE job # stage
    <3>1. stage \in Stage
      BY <1>4, <2>3 DEF Control, Commit, Busy, Stage
    <3>. QED
      BY <1>4, <2>1, <2>3, <3>1 DEF TypeOK, Commit, files, bounds
  <2>. QED
    BY <2>2, <2>3
<1>. QED
  BY <1>1, <1>2, <1>3, <1>4

\* Stage 6.
Unwrapping ==
    \/ \E d \in 0..1 : BeginUnwrap(d)
    \/ FirstInversion
    \/ \E d \in 0..1 : FinalQC(d)
    \/ SecondInversion

LEMMA UnwrapType ==
    ASSUME TypeOK, UNCHANGED setup, Unwrapping
    PROVE  TypeOK'
<1>. USE SameBounds, Plan
<1>0. "phuw2" \in File /\ 6 \in Stage /\ phase \in PhaseFile /\ read \in Source /\ conf.qc \in 0..1
  BY DEF TypeOK, File, PhaseFile, Stage, Config
<1>1. ASSUME NEW d \in 0..1, BeginUnwrap(d) PROVE TypeOK'
  <2>1. /\ stamp' \in [File -> 0..MaxStamp] /\ from' \in [File -> Source]
        /\ whole' \subseteq File /\ suspect' \subseteq File
    BY <1>0, <1>1, Nothings DEF BeginUnwrap, TypeOK
  <2>2. read' \in Source
    BY <1>0, <1>1, Sources DEF BeginUnwrap
  <2>. QED
    BY <1>1, <2>1, <2>2 DEF TypeOK, BeginUnwrap, marks, bounds
<1>2. CASE FirstInversion
  <2>1. /\ clock' \in 0..MaxStamp /\ stamp' \in [File -> 0..MaxStamp]
        /\ from' \in [File -> Source] /\ whole' \subseteq File
    <3>1. Write("phuw2", Nothing, FALSE)
      BY <1>2 DEF FirstInversion
    <3>. QED
      BY <1>0, <3>1, Writes, Nothings
  <2>. QED
    BY <1>0, <1>2, <2>1 DEF TypeOK, FirstInversion, bounds
<1>3. ASSUME NEW d \in 0..1, FinalQC(d) PROVE TypeOK'
  <2>1. \A e \in 0..1 : [read EXCEPT !.drop = e] \in Source
    BY <1>0 DEF Source
  <2>2. from' \in [File -> Source] /\ whole' \subseteq File
    <3>. DEFINE all == [read EXCEPT !.drop = 0]
    <3>1. \/ from' = from /\ whole' = whole
          \/ from' = [from EXCEPT !["phuw2"] = all] /\ whole' = whole \union {"phuw2"}
      BY <1>3 DEF FinalQC
    <3>2. all \in Source
      BY <2>1
    <3>. HIDE DEF all
    <3>. QED
      BY <1>0, <3>1, <3>2 DEF TypeOK
  <2>. QED
    BY <1>3, <2>1, <2>2 DEF TypeOK, FinalQC, marks, bounds
<1>4. CASE SecondInversion
  <2>1. /\ clock' \in 0..MaxStamp /\ stamp' \in [File -> 0..MaxStamp]
        /\ from' \in [File -> Source] /\ whole' \subseteq File
    <3>1. Write("phuw2", read, TRUE)
      BY <1>4 DEF SecondInversion
    <3>. QED
      BY <1>0, <3>1, Writes
  <2>. QED
    BY <1>4, <2>1 DEF TypeOK, SecondInversion, marks, bounds
<1>. QED
  BY <1>1, <1>2, <1>3, <1>4 DEF Unwrapping

Editing == (\E c \in Config : EditConfig(c)) \/ ReplacePatches

LEMMA EditType ==
    ASSUME TypeOK, UNCHANGED setup, Editing
    PROVE  TypeOK'
<1>. USE SameBounds, Plan
<1>1. ASSUME NEW c \in Config, EditConfig(c) PROVE TypeOK'
  <2>1. edits' \in 0..MaxEdits
    BY <1>1 DEF EditConfig, TypeOK
  <2>. QED
    BY <1>1, <2>1 DEF TypeOK, EditConfig, run, files, marks
<1>2. CASE ReplacePatches
  <2>1. /\ clock' \in 0..MaxStamp /\ stamp' \in [File -> 0..MaxStamp]
        /\ from' \in [File -> Source] /\ whole' \subseteq File
    <3>1. Write("patch", Nothing, TRUE) /\ "patch" \in File
      BY <1>2 DEF ReplacePatches, File
    <3>. QED
      BY <3>1, Writes, Nothings
  <2>2. edits' \in 0..MaxEdits
    BY <1>2 DEF ReplacePatches, TypeOK
  <2>. QED
    BY <1>2, <2>1, <2>2 DEF TypeOK, ReplacePatches, run, marks
<1>. QED
  BY <1>1, <1>2 DEF Editing

\* All steps.
LEMMA NextCases ==
    Next => /\ UNCHANGED setup
            /\ \/ Moving \/ MakeProduct \/ RecordProduct \/ BeginJob \/ FinishJob
               \/ Unwrapping \/ MarkPhase \/ Commit \/ Editing
BY DEF Next, Run, User, Moving, Unwrapping, Editing

-----------------------------------------------------------------------------
\* Control.

LEMMA SameTarget == ASSUME conf' = conf PROVE Target' = Target
BY DEF Target

\* After a stage the run is at a later one; what the driver knows of the
\* phase is kept, or forgotten.
LEMMA Advances ==
    ASSUME TypeOK, Control, pc \in {"resolve", "record", "decide"} \union Busy,
           NEW result, Advance(result), conf' = conf
    PROVE  /\ Control' /\ pc' = "check" /\ first' = first /\ last' = last /\ built' = built
           /\ stage' > stage /\ (result # "failed" => stage' = stage + 1)
           /\ (stage # 5 => stage' = stage + 1)
           /\ (result # "failed" => ctx' = IF SharedContext THEN ctx ELSE "none")
           /\ ctx' \in {ctx, "none"}
<1>1. stage \in Stage /\ first \in Stage /\ last \in Stage /\ first <= stage /\ stage <= last
  BY DEF TypeOK, Control, Busy, Stage
<1>2. /\ pc' = "check" /\ first' = first /\ last' = last /\ built' = built
      /\ ctx' = IF SharedContext THEN ctx ELSE "none"
      /\ stage' = IF stage = 5 /\ result = "failed" THEN last + 1 ELSE stage + 1
  BY DEF Advance
<1>3. stage' > stage /\ stage' \in Nat
  BY <1>1, <1>2 DEF Stage
<1>4. Control'
  BY <1>1, <1>2, <1>3, SameTarget DEF Control, Busy, Stage
<1>. QED
  BY <1>1, <1>2, <1>3, <1>4 DEF Stage

LEMMA MovingControl ==
    ASSUME TypeOK, Control, Moving
    PROVE  Control'
<1>0. Target' = Target
  BY MovingKeeps, SameTarget
<1>1. ASSUME NEW i \in FirstSteps, NEW j \in LastSteps, i <= j, StartRun(i, j) PROVE Control'
  BY <1>0, <1>1, Plan DEF Control, StartRun, Busy, Stage
<1>2. CASE Enter
  <2>1. stage \in Stage
    BY <1>2 DEF Enter, TypeOK, Stage, Control
  <2>. QED
    BY <1>0, <1>2, <2>1 DEF Control, Enter, Busy, Stage
<1>3. CASE ReuseProduct
  BY <1>0, <1>3, NextPhases DEF Control, ReuseProduct, Busy
<1>4. CASE Resolved
  BY <1>0, <1>4 DEF Control, Resolved, Busy
<1>5. CASE Skip
  BY <1>5, MovingKeeps, Advances DEF Skip
<1>6. CASE Recompute
  <2>1. stage \in Stage
    BY <1>6 DEF Recompute, TypeOK, Stage, Control
  <2>. QED
    BY <1>0, <1>6, <2>1 DEF Control, Recompute, Busy, Stage
<1>7. CASE FailStage
  <2>1. pc \in {"resolve", "record", "decide"} \union Busy
    BY <1>7 DEF FailStage, TypeOK, Busy
  <2>. QED
    BY <1>7, <2>1, MovingKeeps, Advances DEF FailStage
<1>8. CASE EndLoop
  BY <1>0, <1>8 DEF Control, EndLoop, Leave, Exportable, Busy
<1>9. CASE Export \/ Crash
  BY <1>0, <1>9 DEF Control, Export, Crash, Leave, Busy
<1>. QED
  BY <1>1, <1>2, <1>3, <1>4, <1>5, <1>6, <1>7, <1>8, <1>9 DEF Moving

LEMMA WorkingControl ==
    ASSUME TypeOK, Control,
           \/ MakeProduct \/ RecordProduct \/ BeginJob \/ FinishJob
           \/ Unwrapping \/ MarkPhase \/ Commit
    PROVE  Control'
<1>0. job \in Stage
  BY DEF TypeOK
<1>1. CASE MakeProduct
  BY <1>1, SameTarget DEF Control, MakeProduct, Busy
<1>2. CASE RecordProduct
  BY <1>2, SameTarget, NextPhases DEF Control, RecordProduct, Busy
<1>3. CASE BeginJob
  BY <1>3, SameTarget DEF Control, BeginJob, Busy
<1>4. CASE FinishJob
  BY <1>0, <1>4, SameTarget, Stages DEF Control, FinishJob, Busy
<1>5. CASE Unwrapping
  <2>1. /\ conf' = conf /\ UNCHANGED <<first, last, stage, job, ctx, phase>>
        /\ \/ pc = "begin" /\ job = 6 /\ pc' = "invert"
           \/ pc = "invert" /\ pc' = "finalqc"
           \/ pc = "finalqc" /\ pc' \in {"commit", "write"}
           \/ pc = "write" /\ pc' = "commit"
    BY <1>5 DEF Unwrapping, BeginUnwrap, FirstInversion, FinalQC, SecondInversion
  <2>. QED
    BY <2>1, SameTarget DEF Control, Busy
<1>6. CASE MarkPhase
  BY <1>6, SameTarget DEF Control, MarkPhase, Busy
<1>7. CASE Commit
  <2>1. CASE job = stage
    BY <1>7, <2>1, Advances DEF Commit, Busy
  <2>2. CASE job # stage
    BY <1>7, <2>2, SameTarget DEF Control, Commit, Busy
  <2>. QED
    BY <2>1, <2>2
<1>. QED
  BY <1>1, <1>2, <1>3, <1>4, <1>5, <1>6, <1>7

LEMMA EditingControl ==
    ASSUME Control, Editing
    PROVE  Control'
BY DEF Control, Editing, EditConfig, ReplacePatches, run, Busy

LEMMA StepControl ==
    ASSUME TypeOK, Control, Next
    PROVE  Control'
BY NextCases, MovingControl, WorkingControl, EditingControl

-----------------------------------------------------------------------------
\* How often a corrected phase is made.

LEMMA SameRounds ==
    ASSUME UNCHANGED <<setup, stage, status>>
    PROVE  Rounds' = Rounds
BY SameBounds DEF Rounds

LEMMA AdvancesRebuilds ==
    ASSUME TypeOK, Control, Rebuilds, pc \in {"resolve", "record", "decide"} \union Busy,
           NEW result, Advance(result), conf' = conf, setup' = setup,
           result # "failed" => pc \in {"decide"} \union Busy
    PROVE  Rebuilds'
<1>1. /\ pc' = "check" /\ built' = built /\ stage' > stage /\ stage \in Stage /\ stage' \in Nat
      /\ (stage # 5 => stage' = stage + 1) /\ ctx' \in {ctx, "none"}
      /\ (result # "failed" => ctx' = IF SharedContext THEN ctx ELSE "none")
  <2>1. stage \in Stage
    BY DEF TypeOK, Control, Busy, Stage
  <2>. QED
    BY <2>1, Advances DEF Advance, TypeOK, Stage
<1>2. status' = [status EXCEPT ![stage] = result]
  BY DEF Advance
<1>3. \A q \in Corrected : built[q] \in 0..2
  BY DEF TypeOK
<1>4. Rounds \in 1..2 /\ Rounds' \in 1..2 /\ (stage <= 7 => Rounds = 1)
  BY <1>1 DEF Rounds, Stage
<1>5. stage = 8 => Rounds' = Rounds
  BY <1>1, <1>2, SameBounds DEF Rounds, TypeOK, Stage
<1>6. \A q \in Corrected : built'[q] <= Rounds'
  <2>1. stage = 8 \/ stage <= 7
    BY <1>1 DEF Stage
  <2>. QED
    BY <2>1, <1>1, <1>3, <1>4, <1>5 DEF Rebuilds
<1>7. ASSUME ctx' = "none", stage' <= 8, NEW q \in Corrected
      PROVE  built[q] <= Rounds' - 1
  <2>1. CASE stage <= 6
    <3>1. pc \in {"decide"} \union Busy
      BY <2>1 DEF Control
    <3>. QED
      BY <2>1, <3>1, <1>4 DEF Rebuilds
  <2>2. CASE stage = 7
    <3>1. stage' = 8
      BY <1>1, <2>2
    <3>2. status'[7] = result
      BY <1>2, <2>2 DEF TypeOK, Stage
    <3>3. ~SharedContext \/ result = "failed"
      <4> SUFFICES ASSUME SharedContext, result # "failed" PROVE FALSE
        BY Plan
      <4>1. ctx' = ctx /\ ctx = Target
        BY <1>1, <2>2 DEF Control
      <4>. QED
        BY <1>7, <4>1, Targets DEF PhaseFile, Corrected
    <3>4. Rounds' = 2
      BY <3>1, <3>2, <3>3, SameBounds DEF Rounds
    <3>5. built[q] <= 1
      BY <1>4, <2>2 DEF Rebuilds
    <3>. QED
      BY <3>4, <3>5, <1>3
  <2>. QED
    BY <1>1, <1>7, <2>1, <2>2 DEF Stage
<1>. QED
  BY <1>1, <1>6, <1>7 DEF Rebuilds, Busy

LEMMA MovingRebuilds ==
    ASSUME TypeOK, Control, Rebuilds, Moving, setup' = setup
    PROVE  Rebuilds'
<1>0. \A q \in Corrected : built[q] \in 0..2
  BY DEF TypeOK
<1>1. ASSUME NEW i \in FirstSteps, NEW j \in LastSteps, StartRun(i, j) PROVE Rebuilds'
  <2>1. Rounds = 1 /\ \A q \in Corrected : built[q] <= 0
    BY <1>1 DEF StartRun, Control, Rebuilds, Rounds
  <2>2. Rounds' \in 1..2
    BY DEF Rounds
  <2>. QED
    BY <1>0, <1>1, <2>1, <2>2 DEF StartRun, Rebuilds, Busy
<1>2. CASE Enter
  <2>1. Rounds' = Rounds /\ ctx' = ctx /\ built' = built /\ stage' = stage /\ stage \in Stage
    BY <1>2, SameRounds DEF Enter, TypeOK, Control, Stage
  <2>2. \A q \in Ahead(phase') : q \in Corrected
    BY DEF Ahead, Corrected
  <2>3. CASE pc' = "resolve"
    BY <1>2, <2>1, <2>2, <2>3 DEF Enter, Rebuilds, Busy, Stage
  <2>4. CASE pc' = "decide"
    <3>1. ASSUME stage <= 6, NEW q \in Corrected PROVE built[q] = 0
      <4>1. ctx = "none" /\ Rounds = 1
        BY <2>1, <3>1 DEF Control, Rounds, Stage
      <4>2. built[q] <= Rounds - 1
        BY <1>2, <2>1, <3>1, <4>1 DEF Enter, Rebuilds, Stage
      <4>. QED
        BY <1>0, <4>1, <4>2
    <3>. QED
      BY <2>1, <2>4, <3>1 DEF Rebuilds, Busy
  <2>. QED
    BY <1>2, <2>3, <2>4 DEF Enter
<1>3. CASE ReuseProduct
  <2>1. Rounds' = Rounds
    BY <1>3, SameRounds DEF ReuseProduct
  <2>2. Ahead(NextPhase(phase)) \subseteq Ahead(phase) /\ phase' = NextPhase(phase)
    BY <1>3, OneMore DEF ReuseProduct
  <2>3. Ahead(phase') \subseteq Ahead(phase)
    BY <2>2
  <2>. QED
    BY <1>3, <2>1, <2>3 DEF ReuseProduct, Rebuilds, Busy
<1>4. CASE Resolved
  BY <1>4, SameRounds DEF Resolved, Rebuilds, Control, Busy
<1>5. CASE Skip
  BY <1>5, MovingKeeps, AdvancesRebuilds DEF Skip
<1>6. CASE Recompute
  BY <1>6, SameRounds DEF Recompute, Rebuilds, Busy
<1>7. CASE FailStage
  <2>1. pc \in {"resolve", "record", "decide"} \union Busy
    BY <1>7 DEF FailStage, TypeOK, Busy
  <2>. QED
    BY <1>7, <2>1, MovingKeeps, AdvancesRebuilds DEF FailStage
<1>8. ASSUME Leave PROVE Rebuilds'
  <2>1. stage' = 5 /\ Rounds' = 1 /\ pc' = "idle" /\ \A q \in Corrected : built'[q] = 0
    BY <1>8 DEF Leave, Rounds
  <2>. QED
    BY <2>1 DEF Rebuilds, Busy
<1>9. CASE EndLoop
  <2>1. CASE Exportable
    BY <1>9, <2>1, SameRounds DEF EndLoop, Rebuilds, Busy
  <2>2. CASE ~Exportable
    BY <1>8, <1>9, <2>2 DEF EndLoop
  <2>. QED
    BY <2>1, <2>2
<1>10. CASE Export \/ Crash
  BY <1>8, <1>10 DEF Export, Crash
<1>. QED
  BY <1>1, <1>2, <1>3, <1>4, <1>5, <1>6, <1>7, <1>9, <1>10 DEF Moving

LEMMA StepRebuilds ==
    ASSUME TypeOK, Control, Rebuilds, Next
    PROVE  Rebuilds'
<1>0. setup' = setup
  BY NextCases
<1>1. CASE Moving
  BY <1>0, <1>1, MovingRebuilds
<1>2. CASE MakeProduct
  <2>. DEFINE q == NextPhase(phase)
  <2>1. /\ q \in Corrected /\ q \notin Ahead(q) /\ Ahead(q) \subseteq Ahead(phase)
        /\ built[q] <= Rounds - 1 /\ built[q] \in 0..1 /\ Rounds \in 1..2
    BY <1>2, OneMore, NextPhases DEF MakeProduct
  <2>2. Rounds' = Rounds /\ phase' = phase /\ NextPhase(phase)' = q
    BY <1>0, <1>2, SameRounds DEF MakeProduct, NextPhase
  <2>3. \A r \in Corrected : built'[r] = IF r = q THEN built[q] + 1 ELSE built[r]
    BY <1>2, <2>1 DEF MakeProduct, TypeOK
  <2>4. pc = "resolve" /\ pc' = "record" /\ \A r \in Ahead(q) : r \in Corrected /\ r # q
    BY <1>2, <2>1 DEF MakeProduct, Ahead, Corrected
  <2>. HIDE DEF q
  <2>5. \A r \in Corrected : built'[r] <= Rounds
    BY <2>1, <2>3 DEF Rebuilds
  <2>6. \A r \in Ahead(q) : built'[r] <= Rounds - 1
    BY <2>1, <2>3, <2>4 DEF Rebuilds
  <2>. QED
    BY <2>2, <2>4, <2>5, <2>6 DEF Rebuilds, Busy
<1>3. CASE RecordProduct
  <2>1. Rounds' = Rounds /\ phase' = NextPhase(phase)
    BY <1>0, <1>3, SameRounds DEF RecordProduct
  <2>2. \A r \in Ahead(phase') : built[r] <= Rounds - 1
    BY <1>3, <2>1 DEF Rebuilds, RecordProduct
  <2>. QED
    BY <1>3, <2>1, <2>2 DEF RecordProduct, Rebuilds, Busy
<1>4. CASE BeginJob \/ FinishJob \/ Unwrapping \/ MarkPhase
  <2>1. /\ pc \in Busy /\ pc' \in Busy /\ UNCHANGED <<stage, status, built>>
    BY <1>4 DEF BeginJob, FinishJob, Unwrapping, MarkPhase, BeginUnwrap, FirstInversion,
                FinalQC, SecondInversion, Busy
  <2>. QED
    BY <1>0, <2>1, SameRounds DEF Rebuilds, Busy
<1>5. CASE Commit
  <2>1. CASE job = stage
    BY <1>0, <1>5, <2>1, AdvancesRebuilds DEF Commit, Busy
  <2>2. CASE job # stage
    BY <1>0, <1>5, <2>2, SameRounds DEF Commit, Rebuilds, Busy
  <2>. QED
    BY <2>1, <2>2
<1>6. CASE Editing
  <2>1. UNCHANGED <<pc, stage, status, built, ctx, phase>> /\ pc = "idle"
    BY <1>6 DEF Editing, EditConfig, ReplacePatches, run
  <2>. QED
    BY <1>0, <2>1, SameRounds DEF Rebuilds, Busy
<1>. QED
  BY NextCases, <1>1, <1>2, <1>3, <1>4, <1>5, <1>6

-----------------------------------------------------------------------------
\* Data.

\* What a step leaves alone.
LEMMA DocumentedSame ==
    ASSUME NEW s \in Stage, Documented(s), NEW f, f = Product[s],
           stamp'[f] = stamp[f], from'[f] = from[f], f \in whole => f \in whole',
           f \in suspect => f \in suspect', s \in marked => s \in marked',
           marker'[s] = marker[s], s >= 7 => phaseMark'[s] = phaseMark[s]
    PROVE  Documented(s)'
BY DEF Documented

LEMMA LinkSame ==
    ASSUME NEW q \in Corrected, Link(q), from'[q] = from[q], record'[q] = record[q],
           \A f \in PhaseFile \union {"merged"} : stamp'[f] = stamp[f]
    PROVE  Link(q)'
<1>1. SourceOf(q) \in PhaseFile /\ q \in PhaseFile
  BY DEF SourceOf, PhaseFile, Corrected
<1>2. Stamps({SourceOf(q), "merged"})' = Stamps({SourceOf(q), "merged"})
  BY <1>1 DEF Stamps
<1>. QED
  BY <1>1, <1>2 DEF Link

LEMMA ChainedSame ==
    ASSUME NEW p \in PhaseFile, Chained(p),
           \A q \in Corrected : from'[q] = from[q] /\ record'[q] = record[q],
           \A f \in PhaseFile \union {"merged"} : stamp'[f] = stamp[f]
    PROVE  Chained(p)'
<1>1. "gacos" \in Corrected
  BY DEF Corrected
<1>. QED
  BY <1>1, LinkSame DEF Chained

LEMMA NoChain == Chained("phuw2")
BY DEF Chained, Corrected

\* The files and what is known of them.
LEMMA FileTypes ==
    ASSUME TypeOK
    PROVE  /\ clock \in Nat
           /\ \A f \in File : stamp[f] \in Nat /\ from[f] \in Source
           /\ \A f, g \in File : from[f].files[g] \in Nat
           /\ \A q \in Corrected : /\ q \in File /\ q \in PhaseFile /\ SourceOf(q) \in PhaseFile
                                   /\ SourceOf(q) # q /\ SourceOf(q) # "merged"
           /\ PhaseFile \subseteq File /\ "merged" \in File /\ "phuw2" \in PhaseFile
           /\ \A q \in Corrected, f \in File : record[q][f] \in Nat
           /\ \A q \in Corrected : record[q] \in [File -> 0..MaxStamp]
           /\ \A f \in File : from[f].files \in [File -> 0..MaxStamp]
<1>1. 0..MaxStamp \subseteq Nat
  BY Plan
<1>2. /\ stamp \in [File -> 0..MaxStamp] /\ from \in [File -> Source] /\ clock \in 0..MaxStamp
      /\ record \in [Corrected -> [File -> 0..MaxStamp]]
  BY DEF TypeOK
<1>3. \A f \in File : from[f].files \in [File -> 0..MaxStamp]
  BY <1>2 DEF Source
<1>4. \A f, g \in File : from[f].files[g] \in Nat
  BY <1>1, <1>3
<1>5. /\ \A q \in Corrected : /\ q \in File /\ q \in PhaseFile /\ SourceOf(q) \in PhaseFile
                              /\ SourceOf(q) # q /\ SourceOf(q) # "merged"
      /\ PhaseFile \subseteq File /\ "merged" \in File /\ "phuw2" \in PhaseFile
  BY DEF File, PhaseFile, Corrected, SourceOf
<1>6. \A q \in Corrected, f \in File : record[q][f] \in Nat
  BY <1>1, <1>2
<1>. QED
  BY <1>1, <1>2, <1>3, <1>4, <1>5, <1>6

\* A product whose cache record matches its sources was made from them.
LEMMA Reused ==
    ASSUME TypeOK, Recorded, NEW q \in Corrected, stamp[q] > 0,
           record[q] = Stamps({SourceOf(q), "merged"})
    PROVE  from[q].files = record[q]
<1>. DEFINE p == SourceOf(q)
            fs == from[q].files
            rec == record[q]
<1>0. /\ p \in File /\ "merged" \in File /\ q \in File
      /\ fs \in [File -> 0..MaxStamp] /\ rec \in [File -> 0..MaxStamp]
      /\ \A f \in File : stamp[f] \in Nat /\ fs[f] \in Nat /\ rec[f] \in Nat
  BY FileTypes
<1>1. \A f \in File : rec[f] = IF f \in {p, "merged"} THEN stamp[f] ELSE 0
  BY DEF Stamps
<1>2. /\ \A f \in {p, "merged"} : rec[f] <= fs[f] /\ (fs[f] <= stamp[f] \/ stamp[f] = 0) /\ fs[f] > 0
      /\ fs["merged"] <= stamp["merged"] /\ (rec[p] = 0 => rec["merged"] = 0)
      /\ \A f \in File \ {p, "merged"} : rec[f] = 0 /\ fs[f] = 0
  BY DEF Recorded
<1>. HIDE DEF p, fs, rec
<1>3. rec["merged"] = stamp["merged"] /\ rec[p] = stamp[p]
  BY <1>0, <1>1
<1>4. fs["merged"] = rec["merged"] /\ rec["merged"] > 0
  BY <1>0, <1>2, <1>3
<1>5. fs[p] = rec[p]
  BY <1>0, <1>2, <1>3, <1>4
<1>6. \A f \in File : fs[f] = rec[f]
  BY <1>2, <1>4, <1>5
<1>7. fs = rec
  BY <1>0, <1>6
<1>. QED
  BY <1>7 DEF fs, rec

LEMMA MovingData ==
    ASSUME TypeOK, Control, Data, Moving
    PROVE  Data'
<1>0. /\ UNCHANGED <<conf, drop, stamp, whole, clock, from, marked, marker, phaseMark, record,
                     audit, suspect>>
      /\ \A q : Link(q) => Link(q)'
      /\ \A p : Chained(p) => Chained(p)'
  BY MovingKeeps DEF Chained, Link, Stamps
<1>1. Clocked' /\ Committed' /\ Recorded' /\ Lineage'
  BY <1>0 DEF Data, Clocked, Committed, Documented, Recorded, Lineage
<1>2. CASE Recompute
  <2>1. Running'
    <3>1. job' = 8 => stage = 8 /\ PhaseCurrent(7, phase)
      BY <1>2 DEF Recompute
    <3>2. PhaseCurrent(7, phase) => PhaseCurrent(7, phase)'
      BY <1>0, <1>2 DEF PhaseCurrent, Recompute
    <3>. QED
      BY <1>2, <3>1, <3>2 DEF Recompute, Running, Busy, AtWork
  <2>2. Chain'
    BY <1>0, <1>2 DEF Recompute, Data, Chain, Busy
  <2>. QED
    BY <1>1, <2>1, <2>2 DEF Data
<1>3. CASE ~Recompute
  <2>1. pc' \in {"idle", "check", "resolve", "decide", "export"}
    BY <1>3 DEF Moving, StartRun, Enter, ReuseProduct, Resolved, Skip, FailStage,
       EndLoop, Export, Crash, Advance, Leave
  <2>2. Running'
    BY <2>1 DEF Running, Busy, AtWork
  <2>3. Chain'
    <3>1. CASE \E i \in FirstSteps, j \in LastSteps : StartRun(i, j)
      BY <1>0, <3>1 DEF StartRun, Data, Chain, Busy
    <3>2. CASE Enter
      BY <1>0, <3>2, NoChain DEF Enter, Data, Chain, Busy
    <3>3. CASE ReuseProduct
      <4>. DEFINE q == NextPhase(phase)
      <4>1. /\ q \in Corrected /\ SourceOf(q) = phase /\ (q = "gacos_deramp" => phase = "gacos")
            /\ stamp[q] > 0 /\ record[q] = Stamps({phase, "merged"}) /\ Chained(phase)
        BY <3>3, NextPhases DEF ReuseProduct, Reusable, Data, Chain
      <4>2. Link(q)
        <5>1. record[q] = Stamps({SourceOf(q), "merged"}) /\ stamp[q] > 0 /\ q \in Corrected
          BY <4>1
        <5>. HIDE DEF q
        <5>2. from[q].files = record[q]
          BY <5>1, Reused DEF Data
        <5>. QED
          BY <5>1, <5>2 DEF Link
      <4>3. q = "gacos_deramp" => Link("gacos")
        BY <3>3, <4>1, NextPhases DEF ReuseProduct, Chained, Corrected
      <4>4. Chained(q)
        BY <4>2, <4>3 DEF Chained
      <4>5. phase' = q /\ pc' = "resolve" /\ ctx' = "none"
        BY <3>3 DEF ReuseProduct, Control
      <4>. QED
        BY <1>0, <4>4, <4>5 DEF Chain, Busy
    <3>4. CASE Resolved
      BY <1>0, <3>4 DEF Resolved, Data, Chain, Busy
    <3>5. CASE Skip \/ FailStage
      BY <1>0, <3>5 DEF Skip, FailStage, Advance, Data, Chain, Busy
    <3>6. CASE EndLoop \/ Export \/ Crash
      BY <1>0, <3>6 DEF EndLoop, Export, Crash, Leave, Data, Chain, Busy
    <3>. QED
      BY <1>3, <3>1, <3>2, <3>3, <3>4, <3>5, <3>6 DEF Moving
  <2>. QED
    BY <1>1, <2>2, <2>3 DEF Data
<1>. QED
  BY <1>2, <1>3

\* A step of a job: the file f is written, or about to be.
Touches(f) ==
    /\ f \in suspect' /\ suspect \subseteq suspect'
    /\ \A g \in File \ {f} : /\ stamp'[g] = stamp[g] /\ from'[g] = from[g]
                             /\ g \in whole => g \in whole'
                             /\ g \in suspect' => g \in suspect
    /\ \/ stamp'[f] = stamp[f] /\ clock' = clock
       \/ stamp'[f] = clock + 1 /\ clock' = clock + 1
       \/ f = "phuw2" /\ stamp'[f] = 0 /\ clock' = clock
    /\ \A g \in File : from'[f].files[g] \in 0..clock

\* Such a step leaves the rest of the files and their markers in order.
LEMMA Touching ==
    ASSUME TypeOK, Control, Data, pc \in Busy, pc' \in Busy, Touches(Product[job]),
           UNCHANGED <<stage, job, phase, ctx, conf, marked, marker, phaseMark, record>>
    PROVE  /\ Clocked' /\ Committed' /\ Chain' /\ Recorded'
           /\ (job # 7 => Lineage')
<1>. PICK f \in File : f = Product[job]
  BY Products DEF TypeOK
<1>0. /\ Touches(f) /\ f \in {"merged", "phuw2", "scla", "scn"} /\ f \notin Corrected
      /\ f \in {"merged", "phuw2"} => phase = "phuw2" /\ ctx = "none"
  <2>1. job \in Stage /\ Touches(f)
    BY DEF TypeOK
  <2>2. f \in {"merged", "phuw2", "scla", "scn"} /\ f \notin Corrected
    BY <2>1, Products, Stages DEF Corrected
  <2>3. ASSUME f \in {"merged", "phuw2"} PROVE stage \in 5..6
    <3>1. job \in {5, 6}
      BY <2>1, <2>3, Products, Stages
    <3>. QED
      BY <3>1 DEF Control, TypeOK
  <2>4. f \in {"merged", "phuw2"} => phase = "phuw2" /\ ctx = "none"
    BY <2>3 DEF Control
  <2>. QED
    BY <2>1, <2>2, <2>4
<1>1. Clocked'
  <2>1. \A g \in File : stamp[g] <= clock /\ \A h \in File : from[g].files[h] <= clock
    BY DEF Data, Clocked
  <2>2. \A g \in File : stamp'[g] <= clock' /\ \A h \in File : from'[g].files[h] <= clock'
    <3>1. ASSUME NEW g \in File, NEW h \in File PROVE from'[g].files[h] <= clock'
      BY <1>0, <2>1, FileTypes DEF Touches
    <3>2. ASSUME NEW g \in File PROVE stamp'[g] <= clock'
      BY <1>0, <2>1, FileTypes DEF Touches
    <3>. QED
      BY <3>1, <3>2
  <2>. QED
    BY <2>2 DEF Clocked
<1>2. Committed'
  <2>1. ASSUME NEW s \in Stage PROVE Documented(s)'
    <3>1. CASE s = job
      BY <1>0, <3>1 DEF Documented, Touches
    <3>2. CASE s # job
      <4>1. Product[s] \in File \ {f}
        BY <3>2, Products DEF TypeOK
      <4>. QED
        BY <1>0, <4>1, DocumentedSame DEF Touches, Data, Committed
    <3>. QED
      BY <3>1, <3>2
  <2>. QED
    BY <2>1 DEF Committed
<1>3. Chain'
  <2>1. CASE f \in {"merged", "phuw2"}
    <3>1. Chained("phuw2")'
      BY DEF Chained, Corrected
    <3>. QED
      BY <1>0, <2>1, <3>1 DEF Chain, Busy
  <2>2. CASE f \in {"scla", "scn"}
    <3>1. ASSUME NEW p \in PhaseFile, Chained(p) PROVE Chained(p)'
      <4>1. /\ \A g \in PhaseFile \union {"merged"} : stamp'[g] = stamp[g]
            /\ \A q \in Corrected : from'[q] = from[q]
        BY <1>0, <2>2 DEF Touches, File, PhaseFile, Corrected
      <4>. QED
        BY <3>1, <4>1, ChainedSame
    <3>2. Chained(phase) /\ phase \in PhaseFile /\ (ctx # "none" => Chained(ctx) /\ ctx \in PhaseFile)
      BY DEF Data, Chain, TypeOK
    <3>3. PICK z \in PhaseFile : z = phase
      BY <3>2
    <3>4. Chained(phase)'
      BY <3>1, <3>2, <3>3
    <3>5. ctx # "none" => Chained(ctx)'
      <4>1. CASE ctx = "none"
        BY <4>1
      <4>2. CASE ctx # "none"
        <5>1. PICK y \in PhaseFile : y = ctx
          BY <3>2, <4>2
        <5>. QED
          BY <3>1, <3>2, <4>2, <5>1
      <4>. QED
        BY <4>1, <4>2
    <3>. QED
      BY <3>4, <3>5 DEF Chain, Busy
  <2>. QED
    BY <1>0, <2>1, <2>2
<1>4. Recorded'
  <2>1. ASSUME NEW q \in Corrected
        PROVE  /\ from'[q] = from[q] /\ record'[q] = record[q] /\ stamp'[q] = stamp[q]
               /\ q \in whole => q \in whole'
               /\ q \in suspect => q \in suspect'
    BY <1>0, FileTypes DEF Touches
  <2>2. ASSUME NEW q \in Corrected, NEW g \in {SourceOf(q), "merged"}
        PROVE  /\ from[q].files[g] <= stamp'[g] \/ stamp'[g] = 0
               /\ g = "merged" => from[q].files[g] <= stamp'[g]
    <3>1. /\ from[q].files[g] <= stamp[g] \/ stamp[g] = 0
          /\ g = "merged" => from[q].files[g] <= stamp[g]
      BY DEF Data, Recorded
    <3>2. g \in File /\ from[q].files[g] \in Nat /\ clock \in Nat
      BY FileTypes
    <3>3. from[q].files[g] <= clock
      BY <3>2, FileTypes DEF Data, Clocked
    <3>4. CASE g # f
      BY <1>0, <3>1, <3>2, <3>4 DEF Touches
    <3>5. CASE g = f
      BY <1>0, <3>1, <3>2, <3>3, <3>5 DEF Touches
    <3>. QED
      BY <3>4, <3>5
  <2>. QED
    BY <2>1, <2>2 DEF Data, Recorded
<1>5. ASSUME job # 7 PROVE Lineage'
  <2>1. f # "scla"
    BY <1>5, Products DEF TypeOK, Stage
  <2>2. \A g \in Corrected \union {"scla"} : stamp'[g] = stamp[g] /\ from'[g] = from[g]
    BY <1>0, <2>1, FileTypes DEF Touches, File
  <2>. QED
    BY <2>2 DEF Data, Lineage, Corrected
<1>. QED
  BY <1>1, <1>2, <1>3, <1>4, <1>5

\* Reading the files that a job reads, while only its product is touched.
LEMMA ReadsKept ==
    ASSUME TypeOK, NEW s \in Stage, NEW ph \in PhaseFile,
           \A g \in File \ {Product[s]} : stamp'[g] = stamp[g]
    PROVE  /\ \A g \in ReadFiles(s, ph) : stamp'[g] = stamp[g]
           /\ Stamps(ReadFiles(s, ph))' = Stamps(ReadFiles(s, ph))
           /\ Present(ReadFiles(s, ph))' <=> Present(ReadFiles(s, ph))
<1>1. \A g \in ReadFiles(s, ph) : g \in File \ {Product[s]}
  BY Reads
<1>. QED
  BY <1>1 DEF Stamps, Present

\* What the code that writes the product of job has read, and what is there.
Reading ==
    /\ Product[job] \in suspect
    /\ Present(ReadFiles(job, phase))
    /\ read.files = Derivation(job, phase).files
    /\ read.qc = Derivation(job, phase).qc

LEMMA ReadingKept ==
    ASSUME TypeOK, UNCHANGED <<job, phase, conf>>, Product[job] \in suspect',
           \A g \in File \ {Product[job]} : stamp'[g] = stamp[g],
           \/ Reading /\ read'.files = read.files /\ read'.qc = read.qc
           \/ /\ Present(ReadFiles(job, phase))
              /\ read'.files = Derivation(job, phase).files
              /\ read'.qc = Derivation(job, phase).qc
    PROVE  Reading'
<1>. PICK s \in Stage, ph \in PhaseFile : s = job /\ ph = phase
  BY DEF TypeOK
<1>1. /\ Stamps(ReadFiles(s, ph))' = Stamps(ReadFiles(s, ph))
      /\ Present(ReadFiles(s, ph))' <=> Present(ReadFiles(s, ph))
  BY ReadsKept
<1>2. /\ Present(ReadFiles(s, ph))
      /\ read'.files = Stamps(ReadFiles(s, ph))
      /\ read'.qc = IF s = 6 THEN conf.qc ELSE 0
  BY DEF Reading, Derivation
<1>3. /\ Derivation(s, ph)'.files = Stamps(ReadFiles(s, ph))'
      /\ Derivation(s, ph)'.qc = IF s = 6 THEN conf'.qc ELSE 0
  BY DEF Derivation
<1>4. /\ Present(ReadFiles(s, ph))'
      /\ read'.files = Derivation(s, ph)'.files /\ read'.qc = Derivation(s, ph)'.qc
  BY <1>1, <1>2, <1>3
<1>5. s = job' /\ ph = phase'
  OBVIOUS
<1>. QED
  BY <1>4, <1>5 DEF Reading

LEMMA RunningReads ==
    Running <=>
    /\ pc \in AtWork => Reading
    /\ pc \in {"write", "mark", "commit"} => read.drop = Derivation(job, phase).drop
    /\ pc \in {"mark", "commit"} =>
          /\ Product[job] \in whole /\ from[Product[job]] = read
          /\ stamp[Product[job]] > 0
    /\ pc = "finalqc" => stamp["phuw2"] > 0
    /\ pc = "commit" /\ job \in {7, 8} =>
          phaseMark[job] = [file |-> phase, stamp |-> stamp[phase]]
    /\ pc \in {"finalqc", "write", "commit"} /\ job = 6 => audit = conf.qc
    /\ pc \in Busy /\ job = 8 => PhaseCurrent(7, phase)
BY DEF Running, Reading

\* The drop list that a job reads.
LEMMA DropRead ==
    Derivation(job, phase).drop = IF job = 5 THEN 0 ELSE drop
BY DEF Derivation

\* The phase marker of stage 7 that stage 8 relies on.
LEMMA CurrentKept ==
    ASSUME TypeOK, UNCHANGED phase, stamp'[phase] = stamp[phase], phaseMark'[7] = phaseMark[7]
    PROVE  PhaseCurrent(7, phase)' <=> PhaseCurrent(7, phase)
BY DEF PhaseCurrent

LEMMA StampsNat ==
    ASSUME TypeOK, NEW names
    PROVE  \A g \in File : Stamps(names)[g] \in Nat /\ NoFiles[g] = 0
BY FileTypes DEF Stamps, NoFiles

LEMMA StampsBelow ==
    ASSUME TypeOK, Clocked, NEW names
    PROVE  \A g \in File : Stamps(names)[g] \in 0..clock
<1>1. \A g \in File : stamp[g] \in Nat /\ stamp[g] <= clock /\ clock \in Nat
  BY FileTypes DEF Clocked
<1>. QED
  BY <1>1 DEF Stamps

LEMMA BeginJobData ==
    ASSUME TypeOK, Control, Data, BeginJob
    PROVE  Data'
<1>. DEFINE f == Product[job]
<1>0. /\ f \in File /\ job \in Stage /\ phase \in PhaseFile /\ phase \in File /\ job # 6
      /\ clock \in Nat /\ clock' \in Nat
      /\ pc \in Busy /\ pc' \in Busy
      /\ UNCHANGED <<stage, job, phase, ctx, conf, marked, marker, phaseMark, record>>
  BY Products, FileTypes DEF TypeOK, BeginJob, Busy, marks, Write
<1>1. /\ \A g \in File \ {f} : stamp'[g] = stamp[g] /\ from'[g] = from[g] /\ (g \in whole => g \in whole')
      /\ \/ stamp'[f] = clock + 1 /\ clock' = clock + 1 /\ from'[f] = Nothing
         \/ stamp' = stamp /\ clock' = clock /\ from' = from
  <2>1. CASE Write(f, Nothing, FALSE)
    BY <1>0, <2>1, Writes, Nothings
  <2>2. CASE whole' = whole \ {f} /\ UNCHANGED <<stamp, clock, from>>
    BY <2>2
  <2>. QED
    BY <2>1, <2>2 DEF BeginJob
<1>2. \A g \in File : from'[f].files[g] \in 0..clock
  <2>1. \A g \in File : from[f].files[g] \in 0..clock
    BY <1>0, FileTypes DEF Data, Clocked
  <2>2. \A g \in File : Nothing.files[g] \in 0..clock
    BY <1>0 DEF Nothing, NoFiles
  <2>. QED
    BY <1>1, <2>1, <2>2
<1>3. suspect' = suspect \union {f}
  BY DEF BeginJob
<1>4. Touches(f)
  BY <1>0, <1>1, <1>2, <1>3 DEF Touches
<1>5. Clocked' /\ Committed' /\ Chain' /\ Recorded' /\ (job # 7 => Lineage')
  BY <1>0, <1>4, Touching
<1>6. ASSUME job = 7 PROVE Lineage'
  <2>1. f = "scla"
    BY <1>6, Products
  <2>2. from'["scla"] = from["scla"] \/ from'["scla"].files = NoFiles
    BY <1>1, <2>1 DEF Nothing
  <2>3. \A g \in Corrected : from'[g] = from[g] /\ stamp'[g] = stamp[g] /\ NoFiles[g] = 0
    BY <1>1, <2>1, FileTypes DEF NoFiles, Corrected
  <2>. QED
    BY <2>2, <2>3 DEF Data, Lineage, Corrected
<1>7. Running'
  <2>1. Reading'
    BY <1>0, <1>1, <1>3, ReadingKept DEF BeginJob
  <2>2. pc' = "write" /\ job' = job /\ phase' = phase
    BY DEF BeginJob
  <2>3. read'.drop = Derivation(job, phase).drop
    BY DEF BeginJob
  <2>4. Derivation(job, phase)'.drop = Derivation(job, phase).drop
    BY <1>0 DEF Derivation, BeginJob
  <2>5. job = 8 => PhaseCurrent(7, phase)'
    <3>1. ASSUME job = 8 PROVE stamp'[phase] = stamp[phase]
      <4>1. phase # f
        BY <1>0, <3>1, Products DEF PhaseFile, Corrected
      <4>. QED
        BY <1>0, <1>1, <4>1
    <3>2. job = 8 => PhaseCurrent(7, phase)
      BY <1>0 DEF Data, Running
    <3>. QED
      BY <1>0, <3>1, <3>2, CurrentKept
  <2>6. read'.drop = Derivation(job, phase)'.drop
    BY <2>3, <2>4
  <2>. QED
    BY <1>0, <2>1, <2>2, <2>5, <2>6 DEF Running, Reading
<1>. QED
  BY <1>5, <1>6, <1>7 DEF Data

\* An SCLA that was made from a corrected phase, made from the phuw2 of now.
LEMMA LineageMade ==
    ASSUME TypeOK, Chained(phase), from'["scla"].files = Stamps({"merged", "phuw2", phase}),
           \A g \in Corrected : from'[g] = from[g] /\ stamp'[g] = stamp[g]
    PROVE  Lineage'
<1>. DEFINE fs == from'["scla"].files
<1>0. \A g \in File : fs[g] = IF g \in {"merged", "phuw2", phase} THEN stamp[g] ELSE 0
  BY DEF Stamps
<1>1. /\ phase \in PhaseFile
      /\ {"phuw2", "gacos", "deramp", "gacos_deramp"} \subseteq File
      /\ {"gacos", "deramp", "gacos_deramp"} = Corrected
  BY DEF TypeOK, File, PhaseFile, Corrected
<1>2. fs["phuw2"] = stamp["phuw2"]
  BY <1>0, <1>1
<1>3. ASSUME NEW q \in {"gacos", "deramp"}, Link(q)
      PROVE  from[q].files["phuw2"] = stamp["phuw2"]
  BY <1>1, <1>3 DEF Link, Stamps, SourceOf
<1>4. ASSUME NEW q \in {"gacos", "deramp"}, fs[q] # 0
      PROVE  fs["phuw2"] = from[q].files["phuw2"]
  <2>1. q = phase
    BY <1>0, <1>1, <1>4
  <2>. QED
    BY <1>1, <1>2, <1>3, <2>1 DEF Chained
<1>5. ASSUME fs["gacos_deramp"] # 0
      PROVE  fs["phuw2"] = from["gacos"].files["phuw2"]
  <2>1. phase = "gacos_deramp"
    BY <1>0, <1>1, <1>5
  <2>. QED
    BY <1>2, <1>3, <2>1 DEF Chained
<1>. HIDE DEF fs
<1>6. \A g \in Corrected : from'[g] = from[g] /\ stamp'[g] = stamp[g]
  OBVIOUS
<1>7. /\ \A q \in {"gacos", "deramp"} :
            fs[q] # 0 /\ fs[q] = stamp'[q] => fs["phuw2"] = from'[q].files["phuw2"]
      /\ fs["gacos_deramp"] # 0 => fs["phuw2"] = from'["gacos"].files["phuw2"]
  BY <1>1, <1>4, <1>5, <1>6
<1>. QED
  BY <1>7 DEF Lineage, fs

LEMMA FinishJobData ==
    ASSUME TypeOK, Control, Data, FinishJob
    PROVE  Data'
<1>. DEFINE f == Product[job]
<1>0. /\ f \in File /\ job \in Stage /\ phase \in PhaseFile /\ phase \in File /\ job # 6
      /\ clock \in Nat /\ read \in Source
      /\ pc = "write" /\ pc \in Busy /\ pc \in AtWork /\ pc' \in Busy
      /\ pc' = (IF job = 5 THEN "commit" ELSE "mark")
      /\ UNCHANGED <<stage, job, phase, ctx, conf, drop, read, suspect,
                     marked, marker, phaseMark, record>>
  BY Products, FileTypes DEF TypeOK, FinishJob, Busy, AtWork, marks
<1>1. /\ \A g \in File \ {f} : stamp'[g] = stamp[g] /\ from'[g] = from[g] /\ (g \in whole => g \in whole')
      /\ stamp'[f] = clock + 1 /\ clock' = clock + 1 /\ from'[f] = read /\ f \in whole'
  <2>1. Write(f, read, TRUE)
    BY DEF FinishJob
  <2>. QED
    BY <1>0, <2>1, Writes
<1>2. /\ Reading
      /\ read.files = Stamps(ReadFiles(job, phase)) /\ f \in suspect
      /\ read.drop = Derivation(job, phase).drop
  BY <1>0 DEF Data, Running, Reading, Derivation
<1>3. Touches(f)
  <2>1. \A g \in File : from'[f].files[g] \in 0..clock
    BY <1>1, <1>2, StampsBelow DEF Data
  <2>. QED
    BY <1>0, <1>1, <1>2, <2>1 DEF Touches
<1>4. Clocked' /\ Committed' /\ Chain' /\ Recorded' /\ (job # 7 => Lineage')
  BY <1>0, <1>3, Touching
<1>5. ASSUME job = 7 PROVE Lineage'
  <2>1. f = "scla" /\ from'["scla"].files = Stamps({"merged", "phuw2", phase})
    BY <1>1, <1>2, <1>5, Products DEF ReadFiles
  <2>2. \A g \in Corrected : from'[g] = from[g] /\ stamp'[g] = stamp[g]
    BY <1>1, <2>1, FileTypes DEF Corrected
  <2>. QED
    BY <1>0, <2>1, <2>2, LineageMade DEF Data, Chain
<1>6. Running'
  <2>1. Reading'
    BY <1>0, <1>1, <1>2, ReadingKept
  <2>2. Derivation(job, phase)'.drop = Derivation(job, phase).drop
    BY <1>0 DEF Derivation
  <2>3. read'.drop = Derivation(job, phase)'.drop
    BY <1>0, <1>2, <2>2
  <2>4. Product[job'] \in whole' /\ from'[Product[job']] = read' /\ stamp'[Product[job']] > 0
    BY <1>0, <1>1
  <2>5. job = 8 => PhaseCurrent(7, phase)'
    <3>1. ASSUME job = 8 PROVE stamp'[phase] = stamp[phase]
      <4>1. phase # f
        BY <1>0, <3>1, Products DEF PhaseFile, Corrected
      <4>. QED
        BY <1>0, <1>1, <4>1
    <3>2. job = 8 => PhaseCurrent(7, phase)
      BY <1>0 DEF Data, Running
    <3>. QED
      BY <1>0, <3>1, <3>2, CurrentKept
  <2>. QED
    BY <1>0, <2>1, <2>3, <2>4, <2>5 DEF Running, Reading
<1>. QED
  BY <1>4, <1>5, <1>6 DEF Data

LEMMA UnwrapData ==
    ASSUME TypeOK, Control, Data, Unwrapping
    PROVE  Data'
<1>0. /\ job = 6 /\ Product[job] = "phuw2" /\ "phuw2" \in File /\ 6 \in Stage
      /\ phase \in PhaseFile /\ clock \in Nat /\ read \in Source /\ pc \in Busy
      /\ ReadFiles(6, phase) = {"merged"} /\ "merged" # "phuw2" /\ "merged" \in File
      /\ UNCHANGED <<stage, job, phase, ctx, conf, marked, marker, phaseMark, record>>
  <2>1. job = 6 /\ pc \in Busy /\ UNCHANGED <<stage, job, phase, ctx, conf, marked, marker, phaseMark, record>>
    BY DEF Control, Unwrapping, BeginUnwrap, FirstInversion, FinalQC, SecondInversion, marks, Busy
  <2>. QED
    BY <2>1, Products, FileTypes DEF TypeOK, ReadFiles, Stage, File
<1>1. \A g \in File : /\ from["phuw2"].files[g] \in 0..clock
                      /\ Nothing.files[g] \in 0..clock
  BY <1>0, FileTypes DEF Data, Clocked, Nothing, NoFiles
<1>2. pc \in AtWork => /\ Reading /\ "phuw2" \in suspect
                       /\ \A g \in File : read.files[g] \in 0..clock
  <2>1. ASSUME pc \in AtWork
        PROVE  Reading /\ "phuw2" \in suspect /\ read.files = Stamps(ReadFiles(job, phase))
    BY <1>0, <2>1 DEF Data, Running, Reading, Derivation
  <2>. QED
    BY <2>1, StampsBelow DEF Data
<1>3. ASSUME Touches("phuw2"), pc' \in AtWork, Reading',
             pc' \in {"write", "commit"} => read'.drop = drop',
             pc' # "mark",
             pc' = "commit" => "phuw2" \in whole' /\ from'["phuw2"] = read' /\ stamp'["phuw2"] > 0,
             pc' = "finalqc" => stamp'["phuw2"] > 0,
             pc' \in {"finalqc", "write", "commit"} => audit' = conf.qc
      PROVE  Data'
  <2>1. Clocked' /\ Committed' /\ Chain' /\ Recorded' /\ Lineage'
    BY <1>0, <1>3, Touching DEF AtWork
  <2>2. Derivation(job, phase)'.drop = drop'
    BY <1>0 DEF Derivation
  <2>3. Running'
    BY <1>0, <1>3, <2>2 DEF Running, Reading, AtWork
  <2>. QED
    BY <2>1, <2>3 DEF Data
<1>4. ASSUME NEW d \in 0..1, BeginUnwrap(d) PROVE Data'
  <2>1. /\ \A g \in File \ {"phuw2"} : stamp'[g] = stamp[g] /\ from'[g] = from[g]
                                        /\ (g \in whole => g \in whole')
        /\ stamp'["phuw2"] = 0 /\ clock' = clock /\ from'["phuw2"] = Nothing
        /\ pc' = "invert" /\ suspect' = suspect \union {"phuw2"}
        /\ Present({"merged"}) /\ read' = Derivation(6, phase)
    BY <1>0, <1>4 DEF BeginUnwrap, TypeOK
  <2>2. Touches("phuw2")
    BY <1>0, <1>1, <2>1 DEF Touches
  <2>3. Reading'
    BY <1>0, <2>1, ReadingKept
  <2>. QED
    BY <1>3, <2>1, <2>2, <2>3 DEF AtWork, Busy
<1>5. CASE FirstInversion
  <2>1. Write("phuw2", Nothing, FALSE)
    BY <1>5 DEF FirstInversion
  <2>2. /\ \A g \in File \ {"phuw2"} : stamp'[g] = stamp[g] /\ from'[g] = from[g]
                                        /\ (g \in whole => g \in whole')
        /\ stamp'["phuw2"] = clock + 1 /\ clock' = clock + 1 /\ from'["phuw2"] = Nothing
    BY <1>0, <2>1, Writes, Nothings
  <2>3. pc = "invert" /\ pc' = "finalqc" /\ audit' = conf.qc /\ read' = read /\ suspect' = suspect
    BY <1>5 DEF FirstInversion
  <2>4. Touches("phuw2")
    BY <1>0, <1>1, <1>2, <2>2, <2>3 DEF Touches, AtWork, Busy
  <2>5. Reading'
    BY <1>0, <1>2, <2>2, <2>3, ReadingKept DEF AtWork, Busy
  <2>. QED
    BY <1>0, <1>3, <2>2, <2>3, <2>4, <2>5 DEF AtWork, Busy
<1>6. ASSUME NEW d \in 0..1, FinalQC(d) PROVE Data'
  <2>1. /\ pc = "finalqc" /\ pc' = (IF d = 0 THEN "commit" ELSE "write")
        /\ drop' = d /\ stamp' = stamp /\ clock' = clock /\ suspect' = suspect /\ audit' = audit
        /\ read' = [read EXCEPT !.drop = d]
        /\ IF d = 0 THEN /\ whole' = whole \union {"phuw2"}
                         /\ from' = [from EXCEPT !["phuw2"] = [read EXCEPT !.drop = 0]]
                    ELSE UNCHANGED <<whole, from>>
    BY <1>6 DEF FinalQC, marks
  <2>2. read'.files = read.files /\ read'.qc = read.qc /\ read'.drop = d
    BY <1>0, <2>1 DEF Source
  <2>3. /\ \A g \in File \ {"phuw2"} : from'[g] = from[g] /\ (g \in whole => g \in whole')
        /\ d = 0 => from'["phuw2"] = read' /\ "phuw2" \in whole'
        /\ d # 0 => from'["phuw2"] = from["phuw2"]
    BY <1>0, <2>1 DEF TypeOK
  <2>4. \A g \in File : from'["phuw2"].files[g] \in 0..clock
    BY <1>1, <1>2, <2>1, <2>2, <2>3 DEF AtWork, Busy
  <2>5. Touches("phuw2")
    BY <1>0, <1>2, <2>1, <2>3, <2>4 DEF Touches, AtWork, Busy
  <2>6. Reading'
    BY <1>0, <1>2, <2>1, <2>2, ReadingKept DEF AtWork, Busy
  <2>7. audit = conf.qc /\ stamp["phuw2"] > 0
    BY <1>0, <2>1 DEF Data, Running
  <2>. QED
    BY <1>3, <2>1, <2>2, <2>3, <2>5, <2>6, <2>7 DEF AtWork, Busy
<1>7. CASE SecondInversion
  <2>1. Write("phuw2", read, TRUE)
    BY <1>7 DEF SecondInversion
  <2>2. /\ \A g \in File \ {"phuw2"} : stamp'[g] = stamp[g] /\ from'[g] = from[g]
                                        /\ (g \in whole => g \in whole')
        /\ stamp'["phuw2"] = clock + 1 /\ clock' = clock + 1 /\ from'["phuw2"] = read
        /\ "phuw2" \in whole'
    BY <1>0, <2>1, Writes
  <2>3. /\ pc = "write" /\ pc' = "commit" /\ audit' = audit /\ read' = read /\ suspect' = suspect
        /\ drop' = drop
    BY <1>7 DEF SecondInversion, marks
  <2>4. Touches("phuw2")
    BY <1>0, <1>2, <2>2, <2>3 DEF Touches, AtWork, Busy
  <2>5. Reading'
    BY <1>0, <1>2, <2>2, <2>3, ReadingKept DEF AtWork, Busy
  <2>6. audit = conf.qc /\ read.drop = drop
    BY <1>0, <2>3, DropRead DEF Data, Running
  <2>. QED
    BY <1>0, <1>3, <2>2, <2>3, <2>4, <2>5, <2>6 DEF AtWork, Busy
<1>. QED
  BY <1>4, <1>5, <1>6, <1>7 DEF Unwrapping

LEMMA MarkPhaseData ==
    ASSUME TypeOK, Control, Data, MarkPhase
    PROVE  Data'
<1>0. /\ job \in {7, 8} /\ pc = "mark" /\ pc' = "commit" /\ phase \in PhaseFile
      /\ UNCHANGED <<stage, job, phase, ctx, conf, drop, read, suspect, audit, stamp, whole, clock,
                     from, marked, marker, record>>
      /\ phaseMark'[job] = [file |-> phase, stamp |-> stamp[phase]]
      /\ \A s \in {7, 8} \ {job} : phaseMark'[s] = phaseMark[s]
  BY DEF MarkPhase, Control, TypeOK, files
<1>1. /\ \A p : Chained(p) => Chained(p)'
      /\ Clocked' /\ Recorded' /\ Lineage'
  BY <1>0 DEF Chained, Link, Stamps, Data, Clocked, Recorded, Lineage
<1>2. Reading /\ Product[job] \in suspect
  BY <1>0 DEF Data, Running, Reading, AtWork, Busy
<1>3. Committed'
  <2>1. ASSUME NEW s \in Stage PROVE Documented(s)'
    <3>1. CASE s = job
      BY <1>0, <1>2, <3>1 DEF Documented
    <3>2. CASE s # job
      <4>1. s >= 7 => phaseMark'[s] = phaseMark[s]
        BY <1>0, <3>2, Stages
      <4>. QED
        BY <1>0, <4>1, DocumentedSame DEF Data, Committed
    <3>. QED
      BY <3>1, <3>2
  <2>. QED
    BY <2>1 DEF Committed
<1>4. Chain'
  <2>1. Chained(phase)' /\ ctx' = ctx /\ (ctx # "none" => Chained(ctx)')
    BY <1>0, <1>1 DEF Data, Chain, Busy
  <2>. QED
    BY <1>0, <2>1 DEF Chain, Busy
<1>5. Running'
  <2>1. Reading'
    BY <1>0, <1>2, ReadingKept
  <2>2. Derivation(job, phase)'.drop = Derivation(job, phase).drop
    BY <1>0 DEF Derivation
  <2>3. read'.drop = Derivation(job, phase)'.drop
    BY <1>0, <2>2 DEF Data, Running
  <2>4. Product[job] \in whole /\ from[Product[job]] = read /\ stamp[Product[job]] > 0
    BY <1>0 DEF Data, Running
  <2>5. job = 8 => PhaseCurrent(7, phase)'
    BY <1>0, CurrentKept DEF Data, Running, Busy
  <2>. QED
    BY <1>0, <2>1, <2>3, <2>4, <2>5 DEF Running, Reading
<1>. QED
  BY <1>1, <1>3, <1>4, <1>5 DEF Data

\* The markers that a committed job leaves.
LEMMA CommitDocuments ==
    ASSUME TypeOK, Control, Data, Commit
    PROVE  /\ Committed'
           /\ job = 7 /\ job # stage => PhaseCurrent(7, phase)'
<1>0. /\ job \in Stage /\ pc = "commit" /\ pc \in Busy /\ pc \in AtWork /\ phase \in PhaseFile
      /\ Product[job] \in File
      /\ UNCHANGED <<conf, drop, stamp, whole, from, phaseMark>>
      /\ suspect' = suspect \ {Product[job]} /\ marked' = marked \union {job}
      /\ marker' = [marker EXCEPT ![job] = Signature(job, phase)]
  BY Products DEF Commit, TypeOK, Busy, AtWork, files
<1>. PICK j \in Stage, ph \in PhaseFile : j = job /\ ph = phase
  BY <1>0
<1>. DEFINE f == Product[j]
            sig == Signature(j, ph)
<1>1. /\ Present(ReadFiles(j, ph)) /\ f \in whole /\ from[f] = read
      /\ from[f].files = Stamps(ReadFiles(j, ph))
      /\ from[f].drop = (IF j = 5 THEN 0 ELSE drop)
      /\ from[f].qc = (IF j = 6 THEN conf.qc ELSE 0)
      /\ (j \in {7, 8} => phaseMark[j] = [file |-> ph, stamp |-> stamp[ph]])
  BY <1>0 DEF Data, Running, Derivation
<1>2. /\ sig.files = Stamps(SignedFiles(j, ph)) /\ sig.drop = (IF j = 5 THEN 0 ELSE drop)
      /\ sig.qc = (IF j = 6 THEN conf.qc ELSE 0)
      /\ (j < 7 => sig.phase = "none") /\ (j >= 7 => sig.phase = ph)
  BY Stages DEF Signature
<1>3. SignedFiles(j, sig.phase) = SignedFiles(j, ph) /\ ReadFiles(j, sig.phase) = ReadFiles(j, ph)
  <2>1. CASE j < 7
    <3>1. j = 5 \/ j = 6
      BY <2>1, Stages
    <3>. QED
      BY <3>1 DEF SignedFiles, ReadFiles
  <2>2. CASE j >= 7
    BY <1>2, <2>2
  <2>. QED
    BY <2>1, <2>2 DEF Stage
<1>4. marker'[j] = sig /\ \A s \in Stage \ {j} : marker'[s] = marker[s]
  BY <1>0 DEF TypeOK
<1>. HIDE DEF sig
<1>5. Documented(j)'
  <2>1. j \in marked' /\ f \in whole'
    BY <1>0, <1>1
  <2>2. SignedFiles(j, ph) \subseteq ReadFiles(j, ph) /\ ReadFiles(j, ph) \subseteq File
    BY Reads
  <2>3. \A g \in SignedFiles(j, ph) : from[f].files[g] = sig.files[g]
    BY <1>1, <1>2, <2>2 DEF Stamps
  <2>4. \A g \in ReadFiles(j, ph) : from[f].files[g] > 0
    BY <1>1, <2>2 DEF Stamps, Present
  <2>5. \A g \in File \ ReadFiles(j, ph) : from[f].files[g] = 0
    BY <1>1 DEF Stamps
  <2>6. j >= 7 => /\ sig.phase \in PhaseFile
                  /\ phaseMark[j] = [file |-> sig.phase, stamp |-> sig.files[sig.phase]]
    <3>1. ASSUME j >= 7 PROVE sig.files[ph] = stamp[ph] /\ j \in {7, 8} /\ sig.phase = ph
      <4>1. j \in {7, 8} /\ ph \in SignedFiles(j, ph) /\ ph \in File
        BY <3>1, Stages DEF SignedFiles, File
      <4>. QED
        BY <1>2, <3>1, <4>1 DEF Stamps
    <3>. QED
      BY <1>1, <3>1
  <2>7. (j = 5 => sig.drop = 0) /\ (j # 6 => sig.qc = 0)
    BY <1>2
  <2>8. from[f].drop = sig.drop /\ from[f].qc = sig.qc
    BY <1>1, <1>2
  <2>. QED
    BY <1>0, <1>3, <1>4, <2>1, <2>3, <2>4, <2>5, <2>6, <2>7, <2>8 DEF Documented
<1>6. ASSUME NEW s \in Stage, s # j PROVE Documented(s)'
  <2>1. Product[s] # Product[j]
    BY <1>6, Products
  <2>. QED
    BY <1>0, <1>4, <1>6, <2>1, DocumentedSame DEF Data, Committed
<1>7. Committed'
  BY <1>5, <1>6 DEF Committed
<1>8. ASSUME j = 7 PROVE PhaseCurrent(7, ph)'
  <2>1. stamp[ph] > 0
    BY <1>1, <1>8 DEF Present, ReadFiles
  <2>2. phaseMark[7] = [file |-> ph, stamp |-> stamp[ph]] /\ ph # "none"
    BY <1>1, <1>8 DEF PhaseFile, Corrected
  <2>. QED
    BY <1>0, <2>1, <2>2 DEF PhaseCurrent, NoMark
<1>9. job = 7 /\ job # stage => PhaseCurrent(7, phase)'
  <2>1. job # stage => phase' = phase
    BY DEF Commit
  <2>. QED
    BY <1>8, <2>1 DEF PhaseCurrent
<1>. QED
  BY <1>7, <1>9

LEMMA CommitData ==
    ASSUME TypeOK, Control, Data, Commit
    PROVE  Data'
<1>0. /\ job \in Stage /\ pc = "commit" /\ pc \in Busy
      /\ UNCHANGED <<conf, drop, stamp, whole, clock, from, record, phaseMark, audit>>
      /\ suspect' = suspect \ {Product[job]} /\ Product[job] \notin Corrected
      /\ \A p : Chained(p) => Chained(p)'
  <2>1. job \in Stage /\ Product[job] \notin Corrected
    BY Products, Stages DEF TypeOK, Corrected
  <2>. QED
    BY <2>1 DEF Commit, Busy, files, Chained, Link, Stamps
<1>1. Clocked' /\ Recorded' /\ Lineage'
  BY <1>0 DEF Data, Clocked, Recorded, Lineage
<1>2. Chain'
  <2>1. CASE job = stage
    BY <1>0, <2>1 DEF Commit, Advance, Data, Chain, Busy
  <2>2. CASE job # stage
    BY <1>0, <2>2 DEF Commit, Data, Chain, Busy
  <2>. QED
    BY <2>1, <2>2
<1>3. Running'
  <2>1. CASE job = stage
    BY <2>1 DEF Commit, Advance, Running, Busy, AtWork
  <2>2. CASE job # stage
    <3>1. pc' = "begin" /\ job' = stage
      BY <2>2 DEF Commit
    <3>2. job' = 8 => job = 7
      BY <1>0, <2>2, <3>1 DEF Control, TypeOK
    <3>. QED
      BY <2>2, <3>1, <3>2, CommitDocuments DEF Running, Busy, AtWork
  <2>. QED
    BY <2>1, <2>2
<1>. QED
  BY <1>1, <1>2, <1>3, CommitDocuments DEF Data

LEMMA MakeProductData ==
    ASSUME TypeOK, Control, Data, MakeProduct
    PROVE  Data'
<1>. PICK q \in Corrected : q = NextPhase(phase)
  BY NextPhases DEF MakeProduct
<1>. DEFINE made == Stamps({phase, "merged"})
            source == [Nothing EXCEPT !.files = made]
<1>0. /\ q \in File /\ SourceOf(q) = phase /\ phase \in PhaseFile /\ phase \in File /\ phase # q
      /\ phase \in {"phuw2", "gacos"} /\ (q = "gacos_deramp" => phase = "gacos")
      /\ (phase = "gacos" => q = "gacos_deramp") /\ "merged" \in File /\ "merged" # q
      /\ ctx = "none" /\ pc = "resolve" /\ clock \in Nat
  BY NextPhases, FileTypes DEF MakeProduct, TypeOK, Control, File
<1>1. /\ UNCHANGED <<stage, job, phase, ctx, conf, drop, audit, marked, marker, phaseMark, record>>
      /\ pc' = "record" /\ suspect' = suspect \union {q}
      /\ stamp[phase] > 0 /\ stamp["merged"] > 0 /\ NextPhase(phase)' = q
  BY DEF MakeProduct, marks, Present, NextPhase
<1>2. source \in Source /\ source.files = made
  BY Nothings, StampsType DEF Nothing, Source
<1>3. /\ clock' = clock + 1 /\ stamp'[q] = clock + 1 /\ from'[q].files = made
      /\ \A g \in File \ {q} : stamp'[g] = stamp[g] /\ from'[g] = from[g] /\ (g \in whole => g \in whole')
  <2>1. Write(q, source, q = "gacos")
    BY DEF MakeProduct
  <2>. HIDE DEF source
  <2>. QED
    BY <1>0, <1>2, <2>1, Writes
<1>4. /\ made[phase] = stamp[phase] /\ made["merged"] = stamp["merged"]
      /\ \A g \in File : made[g] \in 0..clock /\ (g \notin {phase, "merged"} => made[g] = 0)
  <2>1. \A g \in File : made[g] \in 0..clock
    BY StampsBelow DEF Data
  <2>. QED
    BY <1>0, <2>1 DEF Stamps
<1>. HIDE DEF made, source
<1>5. /\ \A g \in File : stamp[g] \in Nat /\ stamp[g] <= clock
      /\ \A g, h \in File : from[g].files[h] \in Nat /\ from[g].files[h] <= clock
  BY FileTypes DEF Data, Clocked
<1>6. Clocked'
  <2>1. ASSUME NEW g \in File PROVE stamp'[g] <= clock'
    BY <1>0, <1>3, <1>5
  <2>2. ASSUME NEW g \in File, NEW h \in File PROVE from'[g].files[h] <= clock'
    BY <1>0, <1>3, <1>4, <1>5
  <2>. QED
    BY <2>1, <2>2 DEF Clocked
<1>7. Committed'
  <2>1. ASSUME NEW s \in Stage PROVE Documented(s)'
    <3>1. Product[s] \in File \ {q}
      BY Products, Stages DEF Corrected
    <3>. QED
      BY <1>1, <1>3, <3>1, DocumentedSame DEF Data, Committed
  <2>. QED
    BY <2>1 DEF Committed
<1>8. Running'
  BY <1>1 DEF Running, Busy, AtWork
<1>9. Chain'
  <2>1. Chained(phase)'
    <3>1. CASE phase = "phuw2"
      BY <1>1, <3>1 DEF Chained, Corrected
    <3>2. CASE phase = "gacos"
      <4>1. Link("gacos") /\ SourceOf("gacos") = "phuw2"
        BY <1>0, <3>2 DEF Data, Chain, Chained, Corrected, SourceOf
      <4>2. /\ stamp'["gacos"] = stamp["gacos"] /\ from'["gacos"] = from["gacos"]
            /\ stamp'["phuw2"] = stamp["phuw2"] /\ stamp'["merged"] = stamp["merged"]
        BY <1>0, <1>3, <3>2 DEF File, PhaseFile, Corrected
      <4>3. Stamps({"phuw2", "merged"})' = Stamps({"phuw2", "merged"})
        BY <4>2 DEF Stamps
      <4>. QED
        BY <1>1, <3>2, <4>1, <4>2, <4>3 DEF Chained, Link
    <3>. QED
      BY <1>0, <3>1, <3>2
  <2>2. Stamps({phase, "merged"})' = made
    <3>1. stamp'[phase] = stamp[phase] /\ stamp'["merged"] = stamp["merged"]
      BY <1>0, <1>3
    <3>. QED
      BY <1>1, <3>1 DEF Stamps, made
  <2>3. stamp'[q] > 0 /\ q \in suspect'
    BY <1>0, <1>1, <1>3
  <2>. QED
    BY <1>0, <1>1, <1>3, <2>1, <2>2, <2>3 DEF Chain, Busy
<1>10. Recorded'
  <2>1. ASSUME NEW r \in Corrected, NEW g \in {SourceOf(r), "merged"}
        PROVE  /\ record'[r][g] <= from'[r].files[g]
               /\ from'[r].files[g] <= stamp'[g] \/ stamp'[g] = 0
               /\ stamp'[r] > 0 => from'[r].files[g] > 0
               /\ g = "merged" => from'[r].files[g] <= stamp'[g]
    <3>1. /\ record[r][g] <= from[r].files[g]
          /\ from[r].files[g] <= stamp[g] \/ stamp[g] = 0
          /\ stamp[r] > 0 => from[r].files[g] > 0
          /\ g = "merged" => from[r].files[g] <= stamp[g]
      BY DEF Data, Recorded
    <3>2. g \in File /\ r \in File /\ from[r].files[g] \in Nat /\ record[r][g] \in Nat /\ stamp[g] \in Nat
      BY FileTypes
    <3>3. CASE r = q
      <4>1. g \in {phase, "merged"} /\ stamp'[g] = stamp[g] /\ made[g] = stamp[g] /\ stamp[g] > 0
        BY <1>0, <1>1, <1>3, <1>4, <3>3
      <4>. QED
        BY <1>1, <1>3, <3>1, <3>2, <3>3, <4>1
    <3>4. CASE r # q
      <4>1. from'[r] = from[r] /\ stamp'[r] = stamp[r] /\ record'[r] = record[r]
        BY <1>1, <1>3, <3>2, <3>4
      <4>2. stamp'[g] = stamp[g] \/ (g = q /\ stamp'[g] = clock + 1)
        BY <1>3, <3>2
      <4>3. g = "merged" => stamp'[g] = stamp[g]
        BY <1>0, <1>3
      <4>4. from[r].files[g] <= clock
        BY <1>5, <3>2
      <4>. QED
        BY <1>0, <3>1, <3>2, <4>1, <4>2, <4>3, <4>4
    <3>. QED
      BY <3>3, <3>4
  <2>2. ASSUME NEW r \in Corrected, NEW g \in File \ {SourceOf(r), "merged"}
        PROVE  record'[r][g] = 0 /\ from'[r].files[g] = 0
    <3>1. record[r][g] = 0 /\ from[r].files[g] = 0
      BY DEF Data, Recorded
    <3>2. CASE r = q
      BY <1>0, <1>1, <1>3, <1>4, <3>1, <3>2
    <3>3. CASE r # q
      BY <1>1, <1>3, <3>1, <3>3, FileTypes
    <3>. QED
      BY <3>2, <3>3
  <2>3. ASSUME NEW r \in Corrected
        PROVE  /\ record'[r][SourceOf(r)] = 0 => record'[r]["merged"] = 0
               /\ stamp'[r] > 0 /\ r \notin suspect' => r \in whole'
    <3>1. CASE r = q
      BY <1>1, <3>1 DEF Data, Recorded
    <3>2. CASE r # q
      BY <1>1, <1>3, <3>2, FileTypes DEF Data, Recorded
    <3>. QED
      BY <3>1, <3>2
  <2>. QED
    BY <2>1, <2>2, <2>3 DEF Recorded
<1>11. Lineage'
  <2>. DEFINE fs == from["scla"].files
  <2>1. from'["scla"] = from["scla"] /\ \A g \in File : fs[g] \in Nat /\ fs[g] # stamp'[q]
    <3>1. "scla" \in File /\ "scla" # q
      BY DEF File, Corrected
    <3>. QED
      BY <1>0, <1>3, <1>5, <3>1
  <2>2. from["gacos_deramp"].files["gacos"] # clock + 1 /\ {"gacos", "deramp", "gacos_deramp"} \subseteq File
    <3>1. {"gacos", "deramp", "gacos_deramp"} \subseteq File
      BY DEF File, PhaseFile, Corrected
    <3>. QED
      BY <1>0, <1>5, <3>1
  <2>. HIDE DEF fs
  <2>3. /\ \A p \in {"gacos", "deramp"} :
              fs[p] # 0 /\ fs[p] = stamp[p] => fs["phuw2"] = from[p].files["phuw2"]
        /\ /\ fs["gacos_deramp"] # 0 /\ fs["gacos_deramp"] = stamp["gacos_deramp"]
           /\ from["gacos_deramp"].files["gacos"] = stamp["gacos"]
           => fs["phuw2"] = from["gacos"].files["phuw2"]
    BY DEF Data, Lineage, fs
  <2>4. /\ \A p \in {"gacos", "deramp"} :
              fs[p] # 0 /\ fs[p] = stamp'[p] => fs["phuw2"] = from'[p].files["phuw2"]
        /\ /\ fs["gacos_deramp"] # 0 /\ fs["gacos_deramp"] = stamp'["gacos_deramp"]
           /\ from'["gacos_deramp"].files["gacos"] = stamp'["gacos"]
           => fs["phuw2"] = from'["gacos"].files["phuw2"]
    <3>1. ASSUME NEW p \in {"gacos", "deramp"}, fs[p] # 0, fs[p] = stamp'[p]
          PROVE  fs["phuw2"] = from'[p].files["phuw2"]
      <4>1. p # q
        BY <2>1, <2>2, <3>1
      <4>. QED
        BY <1>3, <2>2, <2>3, <3>1, <4>1
    <3>2. ASSUME fs["gacos_deramp"] # 0, fs["gacos_deramp"] = stamp'["gacos_deramp"],
                 from'["gacos_deramp"].files["gacos"] = stamp'["gacos"]
          PROVE  fs["phuw2"] = from'["gacos"].files["phuw2"]
      <4>1. q # "gacos_deramp"
        BY <2>1, <2>2, <3>2
      <4>2. q # "gacos"
        BY <1>3, <2>2, <3>2, <4>1
      <4>. QED
        BY <1>3, <2>2, <2>3, <3>2, <4>1, <4>2
    <3>. QED
      BY <3>1, <3>2
  <2>. QED
    BY <2>1, <2>4 DEF Lineage, fs
<1>. QED
  BY <1>6, <1>7, <1>8, <1>9, <1>10, <1>11 DEF Data

LEMMA RecordProductData ==
    ASSUME TypeOK, Control, Data, RecordProduct
    PROVE  Data'
<1>. PICK q \in Corrected : q = NextPhase(phase)
  BY NextPhases DEF RecordProduct, Control
<1>0. /\ q \in File /\ SourceOf(q) = phase /\ phase \in PhaseFile /\ phase # q
      /\ (q = "gacos_deramp" => phase = "gacos")
      /\ ctx = "none" /\ pc = "record" /\ phase # Target
  BY NextPhases, FileTypes DEF RecordProduct, TypeOK, Control
<1>1. /\ UNCHANGED <<stage, job, ctx, conf, drop, audit, marked, marker, phaseMark, stamp, clock, from>>
      /\ pc' = "resolve" /\ phase' = q
      /\ suspect' = suspect \ {q} /\ whole' = whole \union {q}
      /\ record' = [record EXCEPT ![q] = from[q].files]
  BY DEF RecordProduct
<1>2. record'[q] = from[q].files /\ \A r \in Corrected \ {q} : record'[r] = record[r]
  BY <1>1 DEF TypeOK
<1>3. /\ stamp[q] > 0 /\ from[q].files = Stamps({SourceOf(q), "merged"})
      /\ Chained(phase)
  BY <1>0 DEF Data, Chain
<1>4. Clocked' /\ Lineage'
  BY <1>1 DEF Data, Clocked, Lineage
<1>5. Committed'
  <2>1. ASSUME NEW s \in Stage PROVE Documented(s)'
    <3>1. Product[s] \in File \ {q}
      BY Products, Stages DEF Corrected
    <3>. QED
      BY <1>1, <3>1, DocumentedSame DEF Data, Committed
  <2>. QED
    BY <2>1 DEF Committed
<1>6. Running'
  BY <1>1 DEF Running, Busy, AtWork
<1>7. Chain'
  <2>1. Link(q)'
    <3>1. Stamps({SourceOf(q), "merged"})' = Stamps({SourceOf(q), "merged"})
      BY <1>1 DEF Stamps
    <3>. QED
      BY <1>1, <1>2, <1>3, <3>1 DEF Link
  <2>2. q = "gacos_deramp" => Link("gacos")'
    <3>1. ASSUME q = "gacos_deramp" PROVE Link("gacos") /\ record'["gacos"] = record["gacos"]
      BY <1>0, <1>2, <1>3, <3>1 DEF Chained, Corrected
    <3>2. Stamps({SourceOf("gacos"), "merged"})' = Stamps({SourceOf("gacos"), "merged"})
      BY <1>1 DEF Stamps
    <3>. QED
      BY <1>1, <3>1, <3>2 DEF Link
  <2>3. Chained(q)'
    BY <2>1, <2>2 DEF Chained
  <2>. QED
    BY <1>0, <1>1, <2>3 DEF Chain, Busy, Chained
<1>8. Recorded'
  <2>1. ASSUME NEW r \in Corrected, NEW g \in File
        PROVE  record'[r][g] = record[r][g] \/ (r = q /\ record'[r][g] = from[r].files[g])
    BY <1>2
  <2>2. /\ from[q].files[SourceOf(q)] > 0 /\ from[q].files[SourceOf(q)] \in Nat
        /\ from[q].files["merged"] \in Nat
    BY <1>0, <1>3, FileTypes DEF Data, Recorded
  <2>3. ASSUME NEW r \in Corrected
        PROVE  /\ \A f \in {SourceOf(r), "merged"} : record'[r][f] <= from[r].files[f]
               /\ record'[r][SourceOf(r)] = 0 => record'[r]["merged"] = 0
               /\ \A f \in File \ {SourceOf(r), "merged"} : record'[r][f] = 0
               /\ stamp[r] > 0 /\ r \notin suspect' => r \in whole'
    <3>1. CASE r = q
      <4>1. \A f \in {SourceOf(r), "merged"} : record'[r][f] <= from[r].files[f]
        BY <1>2, <3>1, FileTypes
      <4>2. \A f \in File \ {SourceOf(r), "merged"} : from[r].files[f] = 0
        BY DEF Data, Recorded
      <4>. QED
        BY <1>1, <1>2, <2>2, <3>1, <4>1, <4>2
    <3>2. CASE r # q
      BY <1>1, <1>2, <3>2 DEF Data, Recorded
    <3>. QED
      BY <3>1, <3>2
  <2>. QED
    BY <1>1, <2>3 DEF Data, Recorded
<1>. QED
  BY <1>4, <1>5, <1>6, <1>7, <1>8 DEF Data

LEMMA EditingData ==
    ASSUME TypeOK, Control, Data, Editing
    PROVE  Data'
<1>1. ASSUME NEW c \in Config, EditConfig(c) PROVE Data'
  <2>1. /\ pc' = "idle" /\ ctx' = "none"
        /\ UNCHANGED <<drop, stamp, whole, clock, from, marked, marker, phaseMark, record, audit, suspect>>
    BY <1>1 DEF EditConfig, run, files, marks, Control
  <2>. QED
    BY <2>1 DEF Data, Clocked, Committed, Documented, Running, Chain, Recorded, Lineage, Busy, AtWork
<1>2. CASE ReplacePatches
  <2>1. /\ pc' = "idle" /\ ctx' = "none"
        /\ UNCHANGED <<drop, marked, marker, phaseMark, record, audit, suspect>>
    BY <1>2 DEF ReplacePatches, run, marks, Control
  <2>2. /\ clock' = clock + 1 /\ clock \in Nat /\ stamp'["patch"] = clock + 1 /\ from'["patch"] = Nothing
        /\ \A g \in File \ {"patch"} : stamp'[g] = stamp[g] /\ from'[g] = from[g] /\ (g \in whole => g \in whole')
        /\ "patch" \in File
    <3>1. Write("patch", Nothing, TRUE) /\ "patch" \in File
      BY <1>2 DEF ReplacePatches, File
    <3>. QED
      BY <3>1, Writes, Nothings
  <2>3. Clocked'
    <3>1. ASSUME NEW g \in File PROVE stamp'[g] <= clock'
      BY <2>2, FileTypes DEF Data, Clocked
    <3>2. ASSUME NEW g \in File, NEW h \in File PROVE from'[g].files[h] <= clock'
      <4>1. Nothing.files[h] = 0 /\ from[g].files[h] \in Nat /\ from[g].files[h] <= clock
        BY FileTypes DEF Nothing, NoFiles, Data, Clocked
      <4>. QED
        BY <2>2, <4>1
    <3>. QED
      BY <3>1, <3>2 DEF Clocked
  <2>4. Committed'
    <3>1. ASSUME NEW s \in Stage PROVE Documented(s)'
      <4>1. Product[s] \in File \ {"patch"}
        BY Products, Stages
      <4>. QED
        BY <2>1, <2>2, <4>1, DocumentedSame DEF Data, Committed
    <3>. QED
      BY <3>1 DEF Committed
  <2>5. Running' /\ Chain'
    BY <2>1 DEF Running, Chain, Busy, AtWork
  <2>6. \A g \in PhaseFile \union {"merged", "scla"} :
          stamp'[g] = stamp[g] /\ from'[g] = from[g] /\ (g \in whole => g \in whole')
    BY <2>2 DEF File, PhaseFile, Corrected
  <2>7. Recorded'
    <3>1. ASSUME NEW q \in Corrected
          PROVE  /\ from'[q] = from[q] /\ stamp'[q] = stamp[q] /\ (q \in whole => q \in whole')
                 /\ \A g \in {SourceOf(q), "merged"} : stamp'[g] = stamp[g]
      BY <2>6, FileTypes
    <3>. QED
      BY <2>1, <3>1 DEF Data, Recorded
  <2>8. Lineage'
    BY <2>6 DEF Data, Lineage, PhaseFile, Corrected
  <2>. QED
    BY <2>3, <2>4, <2>5, <2>7, <2>8 DEF Data
<1>. QED
  BY <1>1, <1>2 DEF Editing

-----------------------------------------------------------------------------
\* The invariant.

LEMMA Initial == Init => IInv
<1>. SUFFICES ASSUME Init PROVE IInv
  OBVIOUS
<1>0. /\ setup \in Setups
      /\ conf \in Config /\ MaxStamp \in Nat \ {0} /\ MaxEdits \in Nat /\ MaxStops \in Nat
      /\ pc = "idle" /\ first = 5 /\ last = 8 /\ stage = 5 /\ job = 5
      /\ ctx = "none" /\ phase = "phuw2" /\ suspect = {}
  <2>1. conf \in [qc : {0}, corr : SUBSET Corrections, rebuild : {FALSE}]
    BY DEF Init
  <2>2. conf \in Config
    <3>1. {0} \subseteq 0..1 /\ {FALSE} \subseteq BOOLEAN
      OBVIOUS
    <3>2. [qc : {0}, corr : SUBSET Corrections, rebuild : {FALSE}] \subseteq
              [qc : 0..1, corr : SUBSET Corrections, rebuild : BOOLEAN]
      BY <3>1, Zenon
    <3>. QED
      BY <2>1, <3>2 DEF Config
  <2>3. setup \in Setups
    BY DEF Init
  <2>4. /\ pc = "idle" /\ first = 5 /\ last = 8 /\ stage = 5 /\ job = 5
        /\ ctx = "none" /\ phase = "phuw2" /\ suspect = {}
    BY DEF Init
  <2>. QED
    BY <2>2, <2>3, <2>4, MergedAssumption DEF MaxStamp, MaxEdits, MaxStops
<1>1. NoFiles \in [File -> 0..MaxStamp] /\ \A f \in File : NoFiles[f] = 0
  BY <1>0 DEF NoFiles
<1>2. Nothing \in Source /\ Nothing.files = NoFiles
  BY <1>1 DEF Nothing, Source
<1>3. stamp \in [File -> 0..MaxStamp] /\ \A f \in File : stamp[f] = IF f = "patch" THEN 1 ELSE 0
  <2>1. "patch" \in File /\ 1 \in 0..MaxStamp
    BY <1>0 DEF File
  <2>2. stamp = [NoFiles EXCEPT !["patch"] = 1]
    BY DEF Init
  <2>. QED
    BY <1>1, <2>1, <2>2
<1>4. from \in [File -> Source] /\ \A f \in File : from[f] = Nothing
  BY <1>2 DEF Init
<1>5. Unsigned \in Signed
  <2>1. 0 \in 0..1 /\ {} \in SUBSET Corrections /\ "none" \in PhaseFile \union {"none"}
    OBVIOUS
  <2>2. FALSE \in BOOLEAN
    OBVIOUS
  <2>. QED
    BY <1>1, <2>1, <2>2, SignedRecord DEF Unsigned
<1>6. phaseMark \in [{7, 8} -> [file : PhaseFile \union {"none"}, stamp : 0..MaxStamp]]
  BY <1>0 DEF Init, NoMark
<1>7. record \in [Corrected -> [File -> 0..MaxStamp]] /\ \A q \in Corrected : record[q] = NoFiles
  BY <1>1 DEF Init
<1>8. TypeOK
  BY <1>0, <1>2, <1>3, <1>4, <1>5, <1>6, <1>7
     DEF Init, TypeOK, Stage, File, PhaseFile, NoAudit
<1>9. Control
  BY <1>0 DEF Control, Busy
<1>10. Rebuilds
  BY <1>0 DEF Init, Rebuilds, Rounds, Busy
<1>11. Clocked
  <2>1. clock = 1
    BY DEF Init
  <2>. QED
    BY <1>1, <1>2, <1>3, <1>4, <2>1 DEF Clocked
<1>12. Committed
  <2>1. \A s \in Stage : stamp[Product[s]] = 0
    BY <1>3, Products, Stages
  <2>. QED
    BY <2>1 DEF Committed, Documented
<1>13. Running /\ Chain
  BY <1>0 DEF Running, Chain, Busy, AtWork
<1>14. Recorded
  <2>1. \A q \in Corrected : /\ q \in File /\ stamp[q] = 0 /\ SourceOf(q) \in File /\ "merged" \in File
                             /\ stamp[SourceOf(q)] = 0 /\ stamp["merged"] = 0
    BY <1>3 DEF SourceOf, File, PhaseFile, Corrected
  <2>. QED
    BY <1>1, <1>2, <1>4, <1>7, <2>1 DEF Recorded
<1>15. Lineage
  <2>1. {"scla", "gacos", "deramp", "gacos_deramp"} \subseteq File
    BY DEF File, PhaseFile, Corrected
  <2>. QED
    BY <1>1, <1>2, <1>4, <2>1 DEF Lineage
<1>. QED
  BY <1>8, <1>9, <1>10, <1>11, <1>12, <1>13, <1>14, <1>15 DEF IInv, Data

LEMMA Inductive == IInv /\ [Next]_vars => IInv'
<1>. SUFFICES ASSUME IInv, [Next]_vars PROVE IInv'
  OBVIOUS
<1>1. CASE UNCHANGED vars
  BY <1>1, SameBounds
     DEF vars, run, files, marks, bounds, IInv, TypeOK, Control, Rebuilds, Rounds, Ahead, Data,
         Clocked, Committed, Documented, Running, Chain, Chained, Link, Recorded, Lineage, Target,
         NextPhase, PhaseCurrent, Derivation, Stamps, Present
<1>2. CASE Next
  <2>1. Control' /\ Rebuilds' /\ UNCHANGED setup
    BY <1>2, StepControl, StepRebuilds, NextCases DEF IInv
  <2>2. TypeOK'
    BY <1>2, <2>1, NextCases, MovingType, MakingType, JobType, UnwrapType, EditType DEF IInv
  <2>3. Data'
    BY <1>2, NextCases, MovingData, MakeProductData, RecordProductData, BeginJobData, FinishJobData,
       UnwrapData, MarkPhaseData, CommitData, EditingData DEF IInv
  <2>. QED
    BY <2>1, <2>2, <2>3 DEF IInv
<1>. QED
  BY <1>1, <1>2

\* The files, the markers, the cache records and the run fit together at all
\* times, whatever run_pipeline was asked to do and wherever it was stopped.
THEOREM Invariance == Spec => []IInv
<1>1. Init => IInv
  BY Initial
<1>2. IInv /\ [Next]_vars => IInv'
  BY Inductive
<1>. QED
  BY <1>1, <1>2, PTL DEF Spec

-----------------------------------------------------------------------------
\* What skipping a stage says.

\* When a stage would be skipped, its product was computed from the files and
\* settings of now.
LEMMA SkippedIsCurrent ==
    ASSUME IInv, NEW s \in Stage, NEW ph \in PhaseFile, Chained(ph), WouldSkip(s, ph),
           Product[s] \notin suspect
    PROVE  Current(s, ph)
<1>. DEFINE f == Product[s]
            fs == from[f].files
            ws == marker[s].phase
<1>0. f \in File /\ from[f] \in Source /\ fs \in [File -> 0..MaxStamp] /\ ph \in File /\ "phuw2" \in File
  BY Products, FileTypes DEF IInv
<1>1. marker[s] = Signature(s, ph) /\ stamp[f] > 0
  BY DEF WouldSkip
<1>2. /\ marker[s].files = Stamps(SignedFiles(s, ph)) /\ marker[s].drop = (IF s = 5 THEN 0 ELSE drop)
      /\ marker[s].qc = (IF s = 6 THEN conf.qc ELSE 0)
      /\ (s < 7 => ws = "none") /\ (s >= 7 => ws = ph)
  BY <1>1, Stages DEF Signature
<1>3. SignedFiles(s, ws) = SignedFiles(s, ph) /\ ReadFiles(s, ws) = ReadFiles(s, ph)
  <2>1. CASE s < 7
    <3>1. s = 5 \/ s = 6
      BY <2>1, Stages
    <3>. QED
      BY <3>1 DEF SignedFiles, ReadFiles
  <2>2. CASE s >= 7
    BY <1>2, <2>2
  <2>. QED
    BY <2>1, <2>2 DEF Stage
<1>4. /\ f \in whole
      /\ \A g \in SignedFiles(s, ph) : fs[g] = marker[s].files[g]
      /\ \A g \in ReadFiles(s, ph) : fs[g] > 0
      /\ \A g \in File \ ReadFiles(s, ph) : fs[g] = 0
      /\ from[f].drop = marker[s].drop /\ from[f].qc = marker[s].qc
  <2>1. Documented(s)
    BY DEF IInv, Data, Committed
  <2>. QED
    BY <1>1, <1>3, <2>1 DEF Documented
<1>5. SignedFiles(s, ph) \subseteq ReadFiles(s, ph) /\ ReadFiles(s, ph) \subseteq File
  BY Reads
<1>6. \A g \in SignedFiles(s, ph) : fs[g] = stamp[g]
  BY <1>2, <1>4, <1>5 DEF Stamps
<1>7. ASSUME s = 7, ph # "phuw2" PROVE fs["phuw2"] = stamp["phuw2"]
  <2>1. /\ f = "scla" /\ ph \in SignedFiles(s, ph) /\ ph \in ReadFiles(s, ph) /\ ph \in Corrected
    BY <1>7, Products DEF SignedFiles, ReadFiles, PhaseFile
  <2>2. fs[ph] = stamp[ph] /\ fs[ph] # 0
    BY <1>0, <1>4, <1>6, <2>1, FileTypes DEF IInv
  <2>3. Link(ph) /\ (ph = "gacos_deramp" => Link("gacos"))
    BY <2>1 DEF Chained
  <2>4. ASSUME NEW q \in {"gacos", "deramp"}, Link(q) PROVE from[q].files["phuw2"] = stamp["phuw2"]
    BY <1>0, <2>4 DEF Link, Stamps, SourceOf
  <2>5. CASE ph = "gacos_deramp"
    <3>1. from["gacos_deramp"].files["gacos"] = stamp["gacos"]
      BY <2>3, <2>5 DEF Link, Stamps, SourceOf, File, PhaseFile, Corrected
    <3>. QED
      BY <2>1, <2>2, <2>3, <2>4, <2>5, <3>1 DEF IInv, Data, Lineage
  <2>6. CASE ph \in {"gacos", "deramp"}
    BY <2>1, <2>2, <2>3, <2>4, <2>6 DEF IInv, Data, Lineage
  <2>. QED
    BY <2>1, <2>5, <2>6 DEF Corrected
<1>8. \A g \in ReadFiles(s, ph) : fs[g] = stamp[g]
  <2>1. ASSUME NEW g \in ReadFiles(s, ph), g \notin SignedFiles(s, ph) PROVE fs[g] = stamp[g]
    <3>1. s = 7 /\ g = "phuw2" /\ ph # "phuw2"
      BY <2>1, Reads DEF SignedFiles, ReadFiles
    <3>. QED
      BY <1>7, <3>1
  <2>. QED
    BY <1>6, <2>1
<1>9. fs = Stamps(ReadFiles(s, ph))
  BY <1>0, <1>4, <1>8 DEF Stamps
<1>10. from[f] = Derivation(s, ph)
  <2>1. /\ Derivation(s, ph) \in Source
        /\ Derivation(s, ph).files = fs /\ Derivation(s, ph).drop = from[f].drop
        /\ Derivation(s, ph).qc = from[f].qc
    BY <1>2, <1>4, <1>9, Sources DEF Derivation, IInv
  <2>2. \A x, y \in Source : x.files = y.files /\ x.drop = y.drop /\ x.qc = y.qc => x = y
    BY DEF Source
  <2>. QED
    BY <1>0, <2>1, <2>2
<1>. QED
  BY <1>4, <1>10 DEF Current

LEMMA DecidedChained ==
    ASSUME IInv, pc \in {"decide"} \union Busy
    PROVE  stage \in Stage /\ phase \in PhaseFile /\ Chained(phase)
BY DEF IInv, TypeOK, Control, Data, Chain, Busy, Stage

LEMMA HonestInv == IInv => ReuseHonest
<1>. SUFFICES ASSUME IInv, pc = "decide", WouldSkip(stage, phase), Product[stage] \notin suspect
              PROVE  Current(stage, phase)
  BY DEF ReuseHonest, IInv
<1>. QED
  BY DecidedChained, SkippedIsCurrent

LEMMA SharedInv == IInv => RebuildShared
<1>. SUFFICES ASSUME IInv, SharedContext, NEW q \in Corrected, built[q] > 1
              PROVE  \E s \in Stage : status[s] = "failed"
  BY DEF RebuildShared, RebuildOnce
<1>1. built[q] <= Rounds /\ built[q] \in 0..2
  BY DEF IInv, Rebuilds, TypeOK
<1>2. status[7] = "failed" /\ 7 \in Stage
  BY <1>1 DEF Rounds, Stage
<1>. QED
  BY <1>2

-----------------------------------------------------------------------------
\* The report of the run.

\* The stages of this run that are done.
Done(s) == s \in first..(stage - 1) /\ status[s] \in {"completed", "skipped_existing"}

\* A stage that is done would be skipped with the phase file of now.  (With a
\* rebuild stage 8 may make that file again, and then the SCLA.)
At(s) == IF s < 7 THEN "phuw2" ELSE Target

Fresh(s) ==
    /\ s # 7 \/ ~conf.rebuild => WouldSkip(s, At(s)) /\ Chained(At(s))
    /\ s = 7 /\ "scla" \notin suspect =>
          from["scla"].files["merged"] = stamp["merged"] /\ from["scla"].drop = drop

Reported ==
    /\ \A s \in Stage : s >= stage => status[s] = "none"
    /\ \A s \in Stage : s \in first..(stage - 1) => status[s] # "none" \/ status[5] = "failed"
    /\ \A s \in Stage : Done(s) => Fresh(s)
    /\ pc \in Busy => ~Done(job) \/ (job = 7 /\ conf.rebuild)
    /\ pc = "record" => ~Done(7) \/ conf.rebuild
    /\ pc = "export" => Exportable

LEMMA AtPhase ==
    ASSUME TypeOK, NEW s \in Stage
    PROVE  At(s) \in PhaseFile /\ At(s) \in File
BY Targets DEF At, PhaseFile, File

\* A stage stays fresh while what it signs is left alone.
LEMMA FreshKept ==
    ASSUME TypeOK, NEW s \in Stage, Fresh(s), conf' = conf,
           \A g \in SignedFiles(s, At(s)) \union {Product[s]} : stamp'[g] = stamp[g],
           s \in marked => s \in marked', marker'[s] = marker[s],
           s # 5 => drop' = drop, s = 6 => audit' = audit,
           s >= 7 => /\ \A g \in PhaseFile \union {"merged"} : stamp'[g] = stamp[g]
                     /\ \A q \in Corrected : from'[q] = from[q] /\ record'[q] = record[q]
                     /\ phaseMark'[7] = phaseMark[7],
           s = 7 => /\ from'["scla"] = from["scla"]
                    /\ "scla" \in suspect => "scla" \in suspect',
           s = 8 => phaseMark'[8] = phaseMark[8]
    PROVE  Fresh(s)'
<1>. PICK p \in PhaseFile : p = At(s)
  BY AtPhase
<1>1. At(s)' = p
  BY SameTarget DEF At
<1>2. ASSUME WouldSkip(s, p) PROVE WouldSkip(s, p)'
  <2>1. /\ ~Forced(s, p) /\ stamp[Product[s]] > 0 /\ s \in marked /\ marker[s] = Signature(s, p)
        /\ (s = 6 => stamp["merged"] > 0)
    BY <1>2 DEF WouldSkip
  <2>2. Signature(s, p)' = Signature(s, p)
    <3>1. Stamps(SignedFiles(s, p))' = Stamps(SignedFiles(s, p))
      BY DEF Stamps
    <3>2. (IF s = 5 THEN 0 ELSE drop') = (IF s = 5 THEN 0 ELSE drop)
      OBVIOUS
    <3>. QED
      BY <3>1, <3>2, Zenon DEF Signature
  <2>3. s >= 7 => (PhaseCurrent(7, p)' <=> PhaseCurrent(7, p))
    BY DEF PhaseCurrent
  <2>4. s = 8 => (PhaseCurrent(8, p)' <=> PhaseCurrent(8, p))
    BY DEF PhaseCurrent
  <2>5. ~Forced(s, p)'
    BY <2>1, <2>3, <2>4, Stages DEF Forced
  <2>6. stamp'[Product[s]] > 0 /\ s \in marked' /\ marker'[s] = Signature(s, p)'
    BY <2>1, <2>2
  <2>7. s = 6 => stamp'["merged"] > 0
    BY <2>1 DEF SignedFiles
  <2>. QED
    BY <2>5, <2>6, <2>7 DEF WouldSkip
<1>3. ASSUME Chained(p) PROVE Chained(p)'
  <2>1. CASE s < 7
    <3>1. p = "phuw2"
      BY <2>1 DEF At
    <3>. QED
      BY <3>1 DEF Chained, Corrected
  <2>2. CASE s >= 7
    BY <1>3, <2>2, ChainedSame
  <2>. QED
    BY <2>1, <2>2 DEF Stage
<1>4. /\ (s # 7 \/ ~conf.rebuild => WouldSkip(s, p) /\ Chained(p))
      /\ (s = 7 /\ "scla" \notin suspect =>
             from["scla"].files["merged"] = stamp["merged"] /\ from["scla"].drop = drop)
  BY DEF Fresh
<1>5. s # 7 \/ ~conf'.rebuild => WouldSkip(s, p)' /\ Chained(p)'
  BY <1>2, <1>3, <1>4
<1>6. s = 7 /\ "scla" \notin suspect' =>
          from'["scla"].files["merged"] = stamp'["merged"] /\ from'["scla"].drop = drop'
  BY <1>4
<1>. QED
  BY <1>1, <1>5, <1>6 DEF Fresh

\* A stage that has just been skipped or completed is fresh.
LEMMA FreshNow ==
    ASSUME IInv, NEW s \in Stage, WouldSkip(s, At(s)), Chained(At(s))
    PROVE  Fresh(s)
<1>1. ASSUME s = 7, "scla" \notin suspect
      PROVE  from["scla"].files["merged"] = stamp["merged"] /\ from["scla"].drop = drop
  <2>1. PICK p \in PhaseFile : p = At(s)
    BY AtPhase DEF IInv
  <2>2. Product[7] = "scla" /\ Current(7, p)
    BY <1>1, <2>1, Products, SkippedIsCurrent
  <2>3. from["scla"].files = Stamps(ReadFiles(7, p)) /\ from["scla"].drop = drop
    BY <2>2 DEF Current, Derivation
  <2>. QED
    BY <2>3 DEF Stamps, ReadFiles, File
<1>. QED
  BY <1>1 DEF Fresh

\* What a commit makes of the stages.
LEMMA CommitFresh ==
    ASSUME IInv, Commit
    PROVE  /\ \A s \in Stage : s = job /\ job = stage => Fresh(s)'
           /\ \A s \in Stage : s # job /\ Fresh(s) => Fresh(s)'
           /\ \A s \in Stage : s = job /\ s = 7 /\ conf.rebuild => Fresh(s)'
<1>0. /\ job \in Stage /\ pc = "commit" /\ phase \in PhaseFile /\ Chained(phase)
      /\ UNCHANGED <<conf, drop, stamp, whole, clock, from, record, phaseMark, audit>>
      /\ suspect' = suspect \ {Product[job]} /\ marked' = marked \union {job}
      /\ marker' = [marker EXCEPT ![job] = Signature(job, phase)]
      /\ Target' = Target
  BY DecidedChained, SameTarget DEF Commit, Busy, files, IInv, TypeOK
<1>. PICK j \in Stage, p \in PhaseFile : j = job /\ p = phase
  BY <1>0
<1>1. marker'[j] = Signature(j, p) /\ \A s \in Stage \ {j} : marker'[s] = marker[s]
  BY <1>0 DEF IInv, TypeOK
<1>2. /\ Present(ReadFiles(j, p)) /\ stamp[Product[j]] > 0 /\ from[Product[j]] = read
      /\ read.files = Stamps(ReadFiles(j, p)) /\ read.drop = (IF j = 5 THEN 0 ELSE drop)
      /\ (j \in {7, 8} => phaseMark[j] = [file |-> p, stamp |-> stamp[p]])
      /\ (j = 6 => audit = conf.qc) /\ (j = 8 => PhaseCurrent(7, p))
  BY <1>0 DEF IInv, Data, Running, Derivation, AtWork, Busy
<1>3. ASSUME j = 7 PROVE from["scla"].files["merged"] = stamp["merged"] /\ from["scla"].drop = drop
  <2>1. Product[7] = "scla"
    BY Products
  <2>. QED
    BY <1>2, <1>3, <2>1 DEF Stamps, ReadFiles, File
<1>4. ASSUME NEW s \in Stage, s # j, Fresh(s) PROVE Fresh(s)'
  <2>1. s = 7 => Product[j] # "scla"
    BY <1>4, Products
  <2>. QED
    BY <1>0, <1>1, <1>4, <2>1, FreshKept DEF IInv
<1>5. ASSUME j = 7, conf.rebuild PROVE Fresh(j)'
  BY <1>0, <1>3, <1>5 DEF Fresh
<1>6. ASSUME job = stage PROVE Fresh(j)'
  <2>1. p = At(j) /\ At(j)' = p
    BY <1>0, <1>6 DEF At, IInv, Control, Busy, TypeOK, Stage
  <2>2. Chained(p)'
    BY <1>0 DEF Chained, Link, Stamps
  <2>3. Signature(j, p)' = Signature(j, p)
    <3>1. Stamps(SignedFiles(j, p))' = Stamps(SignedFiles(j, p))
      BY <1>0 DEF Stamps
    <3>. QED
      BY <1>0, <3>1, Zenon DEF Signature
  <2>4. p # "none" /\ (j \in {7, 8} => p \in ReadFiles(j, p))
    BY DEF PhaseFile, Corrected, ReadFiles
  <2>5. j \in {7, 8} => PhaseCurrent(j, p)
    BY <1>2, <2>4 DEF PhaseCurrent, NoMark, Present
  <2>6. ~Forced(j, p)
    BY <1>2, <2>5, Stages DEF Forced
  <2>7. ~Forced(j, p)'
    BY <1>0, <2>6 DEF Forced, PhaseCurrent
  <2>8. j = 6 => stamp["merged"] > 0
    BY <1>2 DEF Present, ReadFiles
  <2>9. WouldSkip(j, p)'
    BY <1>0, <1>1, <1>2, <2>3, <2>7, <2>8 DEF WouldSkip
  <2>10. j = 7 /\ "scla" \notin suspect' =>
            from'["scla"].files["merged"] = stamp'["merged"] /\ from'["scla"].drop = drop'
    BY <1>0, <1>3
  <2>. QED
    BY <2>1, <2>2, <2>9, <2>10 DEF Fresh
<1>. QED
  BY <1>4, <1>5, <1>6

\* Jobs under way.
LEMMA WorkingFresh ==
    ASSUME IInv, Reported, NEW s \in Stage, Done(s),
           BeginJob \/ FinishJob \/ Unwrapping \/ MarkPhase
    PROVE  Fresh(s)'
<1>. DEFINE f == Product[job]
<1>0. /\ pc \in Busy /\ UNCHANGED <<conf, marked, marker, record>>
      /\ suspect \subseteq suspect' /\ (job # 6 => drop' = drop /\ audit' = audit)
      /\ \A t \in {7, 8} : t # job => phaseMark'[t] = phaseMark[t]
  BY DEF BeginJob, FinishJob, Unwrapping, BeginUnwrap, FirstInversion, FinalQC, SecondInversion,
         MarkPhase, marks, files, Busy, IInv, Control, TypeOK
<1>1. /\ f \in File /\ \A g \in File \ {f} : stamp'[g] = stamp[g] /\ from'[g] = from[g]
      /\ (job \in {7, 8} => suspect' = suspect \union {f})
  <2>1. job \in Stage /\ f \in File /\ read \in Source /\ TypeOK
    BY Products DEF IInv, TypeOK
  <2>2. CASE BeginJob
    <3>1. CASE Write(f, Nothing, FALSE)
      BY <2>1, <2>2, <3>1, Writes, Nothings DEF BeginJob
    <3>2. CASE whole' = whole \ {f} /\ UNCHANGED <<stamp, clock, from>>
      BY <2>1, <2>2, <3>2 DEF BeginJob
    <3>. QED
      BY <2>2, <3>1, <3>2 DEF BeginJob
  <2>3. CASE FinishJob
    <3>1. Write(f, read, TRUE) /\ suspect' = suspect /\ f \in suspect
      BY <2>3 DEF FinishJob, IInv, Data, Running, AtWork, Busy
    <3>. QED
      BY <2>1, <3>1, Writes
  <2>4. CASE Unwrapping
    <3>1. job = 6 /\ f = "phuw2"
      BY <2>4, Products DEF Unwrapping, BeginUnwrap, FirstInversion, FinalQC, SecondInversion,
                            IInv, Control
    <3>2. ASSUME NEW d \in 0..1, BeginUnwrap(d) PROVE \A g \in File \ {f} : stamp'[g] = stamp[g] /\ from'[g] = from[g]
      BY <3>1, <3>2 DEF BeginUnwrap, IInv, TypeOK
    <3>3. CASE FirstInversion
      <4>1. Write("phuw2", Nothing, FALSE) /\ "phuw2" \in File
        BY <2>1, <3>1, <3>3 DEF FirstInversion
      <4>2. \A g \in File \ {"phuw2"} : stamp'[g] = stamp[g] /\ from'[g] = from[g]
        BY <2>1, <4>1, Writes, Nothings
      <4>. QED
        BY <3>1, <4>1, <4>2
    <3>4. ASSUME NEW d \in 0..1, FinalQC(d) PROVE \A g \in File \ {f} : stamp'[g] = stamp[g] /\ from'[g] = from[g]
      BY <3>1, <3>4 DEF FinalQC, IInv, TypeOK
    <3>5. CASE SecondInversion
      <4>1. Write("phuw2", read, TRUE) /\ "phuw2" \in File
        BY <2>1, <3>1, <3>5 DEF SecondInversion
      <4>2. \A g \in File \ {"phuw2"} : stamp'[g] = stamp[g] /\ from'[g] = from[g]
        BY <2>1, <4>1, Writes
      <4>. QED
        BY <3>1, <4>1, <4>2
    <3>. QED
      BY <2>1, <2>4, <3>1, <3>2, <3>3, <3>4, <3>5 DEF Unwrapping
  <2>5. CASE MarkPhase
    <3>1. stamp' = stamp /\ from' = from /\ suspect' = suspect /\ f \in suspect
      BY <2>5 DEF MarkPhase, files, IInv, Data, Running, AtWork, Busy
    <3>. QED
      BY <2>1, <3>1
  <2>. QED
    BY <2>2, <2>3, <2>4, <2>5
<1>2. /\ Fresh(s) /\ s < stage /\ stage \in Stage /\ job \in Stage
      /\ (s # job \/ (s = 7 /\ job = 7 /\ conf.rebuild))
      /\ (job = stage \/ (stage = 6 /\ job = 5) \/ (stage = 8 /\ job = 7))
  <2>1. stage \in Stage /\ s < stage /\ job \in Stage
    BY <1>0 DEF Done, IInv, Control, TypeOK, Busy, Stage
  <2>. QED
    BY <1>0, <2>1 DEF Reported, IInv, Control
<1>3. CASE s = 7 /\ job = 7 /\ conf.rebuild
  <2>1. "scla" \in suspect' /\ conf'.rebuild
    BY <1>0, <1>1, <1>3, Products
  <2>. QED
    BY <1>3, <2>1 DEF Fresh
<1>4. CASE s # job
  <2>1. s < job
    BY <1>2, <1>4 DEF Stage
  <2>2. Product[s] # f /\ f \notin SignedFiles(s, At(s)) /\ SignedFiles(s, At(s)) \subseteq File
    <3>1. \A p \in PhaseFile : f \notin SignedFiles(s, p) \/ p = f
      <4>1. job \in {6, 7, 8} /\ f \in {"phuw2", "scla", "scn"}
        BY <1>2, <2>1, Products, Stages DEF Stage
      <4>2. s \in {5, 6, 7}
        BY <1>2, <2>1, Stages DEF Stage
      <4>. QED
        BY <4>1, <4>2 DEF SignedFiles
    <3>2. At(s) # f \/ s < 7
      <4>1. s = 7 => f = "scn"
        BY <1>2, <2>1, Products, Stages DEF Stage
      <4>. QED
        BY <1>2, <4>1, AtPhase, Stages DEF PhaseFile, Corrected, IInv
    <3>3. s < 7 => f \notin SignedFiles(s, At(s))
      <4>1. job \in {6, 7, 8} /\ f \in {"phuw2", "scla", "scn"}
        BY <1>2, <2>1, Products, Stages DEF Stage
      <4>. QED
        BY <4>1, Stages DEF SignedFiles
    <3>4. SignedFiles(s, At(s)) \subseteq File
      BY AtPhase, Reads DEF IInv
    <3>. QED
      BY <1>4, <1>2, <3>1, <3>2, <3>3, <3>4, AtPhase, Products DEF IInv, Stage
  <2>3. \A g \in SignedFiles(s, At(s)) \union {Product[s]} : stamp'[g] = stamp[g]
    BY <1>1, <2>2, Products
  <2>4. s # 5 => drop' = drop /\ audit' = audit
    BY <1>0, <1>2, <2>1 DEF Stage
  <2>5. ASSUME s >= 7
        PROVE /\ s = 7 /\ f = "scn" /\ phaseMark'[7] = phaseMark[7]
              /\ \A g \in PhaseFile \union {"merged", "scla"} : stamp'[g] = stamp[g] /\ from'[g] = from[g]
              /\ \A q \in Corrected : from'[q] = from[q] /\ record'[q] = record[q]
    <3>1. s = 7 /\ job = 8 /\ f = "scn"
      BY <1>2, <2>1, <2>5, Products, Stages DEF Stage
    <3>2. \A g \in PhaseFile \union {"merged", "scla"} : g \in File \ {f}
      BY <3>1 DEF File, PhaseFile, Corrected
    <3>3. phaseMark'[7] = phaseMark[7] /\ record' = record
      BY <1>0, <3>1
    <3>4. \A g \in PhaseFile \union {"merged", "scla"} : stamp'[g] = stamp[g] /\ from'[g] = from[g]
      BY <1>1, <3>2
    <3>5. Corrected \subseteq PhaseFile
      BY DEF PhaseFile
    <3>. QED
      BY <3>1, <3>3, <3>4, <3>5
  <2>. QED
    BY <1>0, <1>2, <2>3, <2>4, <2>5, FreshKept DEF IInv
<1>. QED
  BY <1>2, <1>3, <1>4

\* Making and recording the phase product happen in stage 8 only for a rebuild.
LEMMA MakingFresh ==
    ASSUME IInv, Reported, NEW s \in Stage, Done(s), MakeProduct \/ RecordProduct
    PROVE  Fresh(s)' /\ (s = 7 => conf.rebuild)
<1>. PICK q \in Corrected : q = NextPhase(phase)
  BY NextPhases DEF MakeProduct, RecordProduct, IInv, Control
<1>0. /\ Fresh(s) /\ s \in {5, 6, 7} /\ stage \in {7, 8}
      /\ SourceOf(q) = phase /\ pc \in {"resolve", "record"} /\ phase # Target
      /\ \/ phase = "phuw2" /\ q = "gacos" /\ Target \in {"gacos", "gacos_deramp"}
         \/ phase = "phuw2" /\ q = "deramp" /\ Target = "deramp"
         \/ phase = "gacos" /\ q = "gacos_deramp" /\ Target = "gacos_deramp"
  <2>1. pc \in {"resolve", "record"} /\ stage \in {7, 8} /\ phase # Target
    BY DEF MakeProduct, RecordProduct, IInv, Control
  <2>2. s \in {5, 6, 7} /\ Fresh(s)
    BY <2>1, Stages DEF Reported, Done
  <2>. QED
    BY <2>1, <2>2, NextPhases DEF IInv
<1>1. s = 7 => conf.rebuild
  <2>. SUFFICES ASSUME s = 7, ~conf.rebuild PROVE FALSE
    OBVIOUS
  <2>1. Chained(Target)
    BY <1>0 DEF Fresh, At
  <2>2. Link(q)
    BY <1>0, <2>1 DEF Chained
  <2>3. Reusable(phase, q)
    BY <1>0, <2>2 DEF Reusable, Link
  <2>. QED
    BY <1>0, <2>3 DEF MakeProduct, RecordProduct, Reported
<1>2. /\ UNCHANGED <<conf, drop, audit, marked, marker, phaseMark>>
      /\ suspect' \in {suspect \union {q}, suspect \ {q}}
      /\ \A g \in File \ {q} : stamp'[g] = stamp[g] /\ from'[g] = from[g]
  <2>1. CASE MakeProduct
    <3>. DEFINE source == [Nothing EXCEPT !.files = Stamps({phase, "merged"})]
    <3>1. source \in Source
      BY Nothings, StampsType DEF Nothing, Source, IInv
    <3>2. Write(q, source, q = "gacos") /\ q \in File
      BY <2>1, FileTypes DEF MakeProduct, IInv
    <3>. HIDE DEF source
    <3>3. \A g \in File \ {q} : stamp'[g] = stamp[g] /\ from'[g] = from[g]
      BY <3>1, <3>2, Writes DEF IInv
    <3>. QED
      BY <2>1, <3>3 DEF MakeProduct, marks
  <2>2. CASE RecordProduct
    BY <2>2 DEF RecordProduct
  <2>. QED
    BY <2>1, <2>2
<1>3. CASE s = 7
  <2>1. \A g \in {"merged", "scla"} : g \in File \ {q}
    BY DEF File, Corrected
  <2>2. "scla" \notin suspect' => "scla" \notin suspect
    BY <1>2, <2>1
  <2>. QED
    BY <1>0, <1>1, <1>2, <1>3, <2>1, <2>2 DEF Fresh
<1>4. CASE s # 7
  <2>1. s \in {5, 6}
    BY <1>0, <1>4
  <2>2. \A g \in SignedFiles(s, At(s)) \union {Product[s]} : g \in File \ {q}
    BY <2>1, Products DEF SignedFiles, File, PhaseFile, Corrected
  <2>. QED
    BY <1>0, <1>2, <2>1, <2>2, FreshKept DEF IInv
<1>. QED
  BY <1>1, <1>3, <1>4

\* The next stage.
LEMMA AdvancesReported ==
    ASSUME TypeOK, Control, Reported, pc \in {"resolve", "record", "decide"} \union Busy,
           NEW result \in {"completed", "skipped_existing", "failed"}, Advance(result),
           \A s \in Stage : Done(s) => Fresh(s)',
           result # "failed" => \A s \in Stage : s = stage => Fresh(s)'
    PROVE  Reported'
<1>1. /\ stage \in Stage /\ first \in Stage /\ last \in Stage /\ first <= stage /\ stage <= last
  BY DEF TypeOK, Control, Busy, Stage
<1>2. /\ pc' = "check" /\ first' = first
      /\ status' = [status EXCEPT ![stage] = result]
      /\ stage' = IF stage = 5 /\ result = "failed" THEN last + 1 ELSE stage + 1
  BY DEF Advance
<1>3. status'[stage] = result /\ \A s \in Stage : s # stage => status'[s] = status[s]
  BY <1>1, <1>2 DEF TypeOK
<1>4. \A s \in Stage : s >= stage => status[s] = "none"
  BY DEF Reported
<1>5. ASSUME NEW s \in Stage, s >= stage' PROVE status'[s] = "none"
  BY <1>1, <1>2, <1>3, <1>4, <1>5 DEF Stage
<1>6. ASSUME NEW s \in Stage, s \in first'..(stage' - 1)
      PROVE  status'[s] # "none" \/ status'[5] = "failed"
  <2>1. CASE stage = 5 /\ result = "failed"
    BY <1>3, <2>1
  <2>2. CASE ~(stage = 5 /\ result = "failed")
    <3>1. s = stage \/ s \in first..(stage - 1)
      BY <1>1, <1>2, <1>6, <2>2 DEF Stage
    <3>2. CASE s = stage
      BY <1>3, <3>2
    <3>3. CASE s \in first..(stage - 1)
      <4>1. s # stage /\ (status[s] # "none" \/ status[5] = "failed")
        BY <1>1, <3>3 DEF Reported, Stage
      <4>2. status[5] = "failed" => stage # 5
        BY <1>4 DEF Stage
      <4>3. 5 \in Stage
        BY DEF Stage
      <4>. QED
        BY <1>3, <4>1, <4>2, <4>3
    <3>. QED
      BY <3>1, <3>2, <3>3
  <2>. QED
    BY <2>1, <2>2
<1>7. ASSUME NEW s \in Stage, Done(s)' PROVE Fresh(s)'
  <2>1. s \in first..(stage' - 1) /\ status'[s] \in {"completed", "skipped_existing"}
    BY <1>2, <1>7 DEF Done
  <2>2. CASE s = stage
    BY <1>3, <2>1, <2>2
  <2>3. CASE s # stage
    <3>1. status[s] = status'[s] /\ ~(s >= stage)
      BY <1>3, <1>4, <2>1, <2>3
    <3>2. Done(s)
      BY <1>1, <2>1, <3>1 DEF Done, Stage
    <3>. QED
      BY <3>2
  <2>. QED
    BY <2>2, <2>3
<1>. QED
  BY <1>2, <1>5, <1>6, <1>7 DEF Reported, Busy

LEMMA EmptyRange ==
    ASSUME NEW n \in Nat, NEW s \in Stage, s \in n..(n - 1)
    PROVE  FALSE
BY DEF Stage

\* Between runs nothing is reported.
LEMMA IdleReported ==
    ASSUME pc' \in {"idle", "check"}, first' = stage', stage' \in Nat,
           \A s \in Stage : status'[s] = "none"
    PROVE  Reported'
<1>1. \A s \in Stage : ~(s \in first'..(stage' - 1))
  BY EmptyRange
<1>. QED
  BY <1>1 DEF Reported, Done, Busy

LEMMA MovingReported ==
    ASSUME IInv, Reported, Moving
    PROVE  Reported'
<1>0. /\ UNCHANGED <<conf, drop, stamp, whole, clock, from, marked, marker, phaseMark, record,
                     audit, suspect>>
      /\ \A s \in Stage : Fresh(s) => Fresh(s)'
  <2>1. UNCHANGED <<conf, drop, stamp, whole, clock, from, marked, marker, phaseMark, record,
                    audit, suspect>>
    BY MovingKeeps
  <2>. QED
    BY <2>1, FreshKept DEF IInv
<1>1. \A s \in Stage : Done(s) => Fresh(s)'
  BY <1>0 DEF Reported
<1>2. CASE \E i \in FirstSteps, j \in LastSteps : StartRun(i, j)
  <2>1. /\ pc' = "check" /\ first' = stage' /\ stage' \in Nat /\ status' = status
    BY <1>2, Plan DEF StartRun, IInv, Stage
  <2>2. \A s \in Stage : status[s] = "none"
    BY <1>2 DEF StartRun, IInv, Control, Reported, Stage
  <2>. QED
    BY <2>1, <2>2, IdleReported
<1>3. CASE Enter \/ ReuseProduct \/ Resolved
  <2>1. UNCHANGED <<first, stage, status>> /\ pc' \in {"resolve", "decide"}
    BY <1>3 DEF Enter, ReuseProduct, Resolved
  <2>. QED
    BY <1>1, <2>1 DEF Reported, Done, Busy
<1>4. CASE Skip
  <2>1. pc = "decide" /\ WouldSkip(stage, phase) /\ Advance("skipped_existing")
    BY <1>4 DEF Skip
  <2>2. ASSUME NEW s \in Stage, s = stage PROVE Fresh(s)'
    <3>1. phase = At(s)
      BY <2>1, <2>2 DEF IInv, Control, At, Stage
    <3>2. WouldSkip(s, At(s)) /\ Chained(At(s))
      BY <2>1, <2>2, <3>1, DecidedChained
    <3>. QED
      BY <1>0, <3>2, FreshNow
  <2>. QED
    BY <1>1, <2>1, <2>2, AdvancesReported DEF IInv
<1>5. CASE Recompute
  <2>1. /\ pc = "decide" /\ pc' = "begin" /\ UNCHANGED <<first, stage, status>> /\ stage \in Stage
        /\ \/ job' = stage
           \/ stage = 6 /\ job' = 5 /\ stamp["merged"] = 0
           \/ stage = 8 /\ job' = 7 /\ ~PhaseCurrent(7, phase) /\ phase = Target
    <3>1. pc = "decide" /\ pc' = "begin" /\ UNCHANGED <<first, stage, status>> /\ stage \in Stage
      BY <1>5, DecidedChained DEF Recompute
    <3>2. stage = 8 => phase = Target
      BY <3>1 DEF IInv, Control
    <3>3. Present({"merged"}) \/ stamp["merged"] = 0
      BY FileTypes DEF Present, IInv
    <3>. QED
      BY <1>5, <3>1, <3>2, <3>3 DEF Recompute
  <2>2. ~Done(stage)
    BY <2>1 DEF Done, Stage
  <2>3. ASSUME stamp["merged"] = 0 PROVE ~Done(5)
    BY <2>3, Products DEF Reported, Fresh, WouldSkip, Stage
  <2>4. ASSUME ~PhaseCurrent(7, phase), phase = Target PROVE ~Done(7) \/ conf.rebuild
    BY <2>4 DEF Reported, Fresh, WouldSkip, Forced, At, Stage
  <2>5. ~Done(job') \/ (job' = 7 /\ conf.rebuild)
    BY <2>1, <2>2, <2>3, <2>4
  <2>6. ~Done(job)' \/ (job' = 7 /\ conf'.rebuild)
    BY <1>0, <2>1, <2>5 DEF Done
  <2>. QED
    BY <1>1, <2>1, <2>6 DEF Reported, Done
<1>6. CASE FailStage
  <2>1. pc \in {"resolve", "record", "decide"} \union Busy /\ Advance("failed")
    BY <1>6 DEF FailStage, IInv, TypeOK, Busy
  <2>. QED
    BY <1>1, <2>1, AdvancesReported DEF IInv
<1>7. ASSUME Leave PROVE Reported'
  BY <1>7, IdleReported DEF Leave
<1>8. CASE EndLoop
  <2>1. CASE Exportable
    <3>1. UNCHANGED <<first, last, stage, status>> /\ pc' = "export"
      BY <1>8, <2>1 DEF EndLoop
    <3>. QED
      BY <1>1, <2>1, <3>1 DEF Reported, Done, Busy, Exportable
  <2>2. CASE ~Exportable
    BY <1>7, <1>8, <2>2 DEF EndLoop
  <2>. QED
    BY <2>1, <2>2
<1>9. CASE Export \/ Crash
  BY <1>7, <1>9 DEF Export, Crash
<1>. QED
  BY <1>2, <1>3, <1>4, <1>5, <1>6, <1>8, <1>9 DEF Moving

LEMMA StepReported ==
    ASSUME IInv, Reported, Next
    PROVE  Reported'
<1>1. CASE Moving
  BY <1>1, MovingReported
<1>2. CASE MakeProduct \/ RecordProduct
  <2>1. /\ UNCHANGED <<first, stage, status, conf>> /\ pc' \in {"record", "resolve"} /\ stage \in {7, 8}
    BY <1>2 DEF MakeProduct, RecordProduct, IInv, Control
  <2>2. \A s \in Stage : Done(s)' <=> Done(s)
    BY <2>1 DEF Done
  <2>3. Done(7) => conf.rebuild
    BY <1>2, MakingFresh DEF Stage
  <2>4. \A s \in Stage : Done(s) => Fresh(s)'
    BY <1>2, MakingFresh
  <2>5. ~Done(7)' \/ conf'.rebuild
    BY <2>1, <2>3 DEF Done
  <2>. QED
    BY <2>1, <2>2, <2>4, <2>5 DEF Reported, Busy
<1>3. CASE BeginJob \/ FinishJob \/ Unwrapping \/ MarkPhase
  <2>1. /\ UNCHANGED <<first, stage, status, conf, job>> /\ pc \in Busy /\ pc' \in Busy
    BY <1>3 DEF BeginJob, FinishJob, Unwrapping, BeginUnwrap, FirstInversion, FinalQC,
                SecondInversion, MarkPhase, Busy
  <2>2. \A s \in Stage : Done(s)' <=> Done(s)
    BY <2>1 DEF Done
  <2>3. \A s \in Stage : Done(s) => Fresh(s)'
    BY <1>3, WorkingFresh
  <2>4. ~Done(job)' \/ (job' = 7 /\ conf'.rebuild)
    BY <2>1 DEF Reported, Done
  <2>. QED
    BY <2>1, <2>2, <2>3, <2>4 DEF Reported, Busy
<1>4. CASE Commit
  <2>1. ASSUME NEW s \in Stage, Done(s) PROVE Fresh(s)'
    <3>1. Fresh(s) /\ (s # job \/ (s = 7 /\ job = 7 /\ conf.rebuild))
      BY <1>4, <2>1 DEF Reported, Commit, Busy
    <3>. QED
      BY <1>4, <3>1, CommitFresh
  <2>2. CASE job = stage
    <3>1. Advance("completed") /\ pc \in Busy
      BY <1>4, <2>2 DEF Commit, Busy
    <3>. QED
      BY <1>4, <2>1, <2>2, <3>1, CommitFresh, AdvancesReported DEF IInv
  <2>3. CASE job # stage
    <3>1. UNCHANGED <<first, stage, status, conf>> /\ pc' = "begin" /\ job' = stage /\ stage \in Stage
      BY <1>4, <2>3 DEF Commit, IInv, Control, Busy, Stage
    <3>2. \A s \in Stage : Done(s)' <=> Done(s)
      BY <3>1 DEF Done
    <3>3. ~Done(job)'
      BY <3>1 DEF Done, Stage
    <3>. QED
      BY <2>1, <3>1, <3>2, <3>3 DEF Reported
  <2>. QED
    BY <2>2, <2>3
<1>5. CASE Editing
  <2>1. pc' = "idle" /\ first' = stage' /\ stage' = 5 /\ status' = status /\ stage = 5
    BY <1>5 DEF Editing, EditConfig, ReplacePatches, run, IInv, Control
  <2>2. \A s \in Stage : status[s] = "none"
    BY <2>1 DEF Reported, Stage
  <2>. QED
    BY <2>1, <2>2, IdleReported
<1>. QED
  BY NextCases, <1>1, <1>2, <1>3, <1>4, <1>5

Whole == IInv /\ Reported

\* What the report says of the stages that are done holds at all times, too.
LEMMA WholeInv == Spec => []Whole
<1>1. Init => Whole
  <2>. SUFFICES ASSUME Init PROVE Whole
    OBVIOUS
  <2>1. /\ IInv /\ pc = "idle" /\ first = 5 /\ stage = 5
        /\ \A s \in Stage : status[s] = "none"
    BY Initial DEF Init
  <2>2. \A s \in Stage : ~(s \in 5..(5 - 1))
    BY EmptyRange
  <2>3. Reported
    BY <2>1, <2>2 DEF Reported, Done, Busy
  <2>. QED
    BY <2>1, <2>3 DEF Whole
<1>2. Whole /\ [Next]_vars => Whole'
  <2>. SUFFICES ASSUME IInv, Reported, [Next]_vars PROVE Whole'
    BY DEF Whole
  <2>1. IInv'
    BY Inductive
  <2>2. CASE Next
    BY <2>1, <2>2, StepReported DEF Whole
  <2>3. CASE UNCHANGED vars
    <3>1. /\ UNCHANGED <<pc, first, last, stage, job, status, conf, drop, stamp, whole, clock, from,
                         marked, marker, phaseMark, record, audit, suspect>>
      BY <2>3 DEF vars, run, files, marks
    <3>2. \A s \in Stage : Fresh(s) => Fresh(s)'
      BY <3>1, FreshKept DEF IInv
    <3>3. Reported'
      BY <3>1, <3>2 DEF Reported, Done, Exportable
    <3>. QED
      BY <2>1, <3>3 DEF Whole
  <2>. QED
    BY <2>2, <2>3
<1>. QED
  BY <1>1, <1>2, PTL DEF Spec

\* When a run succeeded, all its stages are done.
LEMMA AllDone ==
    ASSUME Whole, Succeeded
    PROVE  /\ \A s \in first..8 : s \in Stage /\ Done(s) /\ Fresh(s)
           /\ 8 \in first..8 /\ Target \in PhaseFile
           /\ WouldSkip(8, Target) /\ Chained(Target)
<1>0. /\ first \in Stage /\ stage \in 5..9 /\ pc = "export" /\ stage > 8 /\ Exportable /\ TypeOK
  BY DEF Whole, IInv, TypeOK, Control, Reported, Succeeded
<1>1. ASSUME NEW s \in first..8 PROVE s \in Stage /\ Done(s) /\ Fresh(s)
  <2>1. s \in Stage /\ s \in first..(stage - 1) /\ 5 \in Stage
    BY <1>0 DEF Stage
  <2>2. status[s] # "none" /\ status[s] # "failed"
    BY <1>0, <2>1 DEF Exportable, Whole, Reported
  <2>3. status[s] \in {"none", "completed", "skipped_existing", "failed"}
    BY <1>0, <2>1 DEF TypeOK
  <2>4. Done(s)
    BY <2>1, <2>2, <2>3 DEF Done
  <2>. QED
    BY <2>1, <2>4 DEF Whole, Reported
<1>2. 8 \in first..8
  BY <1>0 DEF Stage
<1>3. WouldSkip(8, Target) /\ Chained(Target)
  BY <1>1, <1>2 DEF Fresh, At
<1>. QED
  BY <1>0, <1>1, <1>2, <1>3, Targets

\* Before stage 7 the phase file does not matter.
LEMMA NoPhase ==
    ASSUME NEW s \in Stage, s < 7, NEW p, NEW q
    PROVE  (WouldSkip(s, p) <=> WouldSkip(s, q)) /\ (Current(s, p) <=> Current(s, q))
<1>1. s = 5 \/ s = 6
  BY Stages
<1>2. SignedFiles(s, p) = SignedFiles(s, q) /\ ReadFiles(s, p) = ReadFiles(s, q)
  BY <1>1 DEF SignedFiles, ReadFiles
<1>3. Signature(s, p) = Signature(s, q) /\ Derivation(s, p) = Derivation(s, q)
  BY <1>2 DEF Signature, Derivation
<1>4. Forced(s, p) <=> Forced(s, q)
  BY <1>1 DEF Forced
<1>. QED
  BY <1>3, <1>4 DEF WouldSkip, Current

LEMMA RepeatedInv == Whole => RerunSkips
<1>. SUFFICES ASSUME Whole, Succeeded, ~conf.rebuild, NEW s \in first..8
              PROVE  WouldSkip(s, Target)
  BY DEF RerunSkips
<1>1. s \in Stage /\ WouldSkip(s, At(s))
  BY AllDone DEF Fresh
<1>. QED
  BY <1>1, NoPhase DEF At

\* The SCLA that the exported SCN was estimated with.
LEMMA Exported ==
    ASSUME Whole, Succeeded, {"scla", "scn"} \intersect suspect = {}
    PROVE  /\ from["scn"] = Derivation(8, Target) /\ "scn" \in whole
           /\ from["scla"].files[Target] = stamp[Target] /\ stamp[Target] > 0
           /\ \A f \in File \ ReadFiles(7, Target) : from["scla"].files[f] = 0
           /\ from["scla"].qc = 0 /\ "scla" \in whole
<1>. PICK p \in PhaseFile : p = Target
  BY AllDone
<1>0. WouldSkip(8, p) /\ Chained(p) /\ IInv /\ p \in File /\ p # "none"
      /\ Product[7] = "scla" /\ Product[8] = "scn" /\ 7 \in Stage /\ 8 \in Stage
  BY AllDone, Products DEF Whole, File, PhaseFile, Corrected, Stage
<1>1. Current(8, p)
  BY <1>0, SkippedIsCurrent
<1>2. from["scn"] = Derivation(8, p) /\ "scn" \in whole
  BY <1>0, <1>1 DEF Current
<1>3. stamp["scla"] > 0
  <2>1. Documented(8) /\ stamp["scn"] > 0 /\ marker[8].phase = p
    BY <1>0 DEF IInv, Data, Committed, WouldSkip, Signature
  <2>2. from["scn"].files["scla"] > 0
    BY <1>0, <2>1 DEF Documented, ReadFiles
  <2>3. from["scn"].files["scla"] = stamp["scla"]
    BY <1>2 DEF Derivation, Stamps, ReadFiles, File
  <2>. QED
    BY <2>2, <2>3
<1>4. PhaseCurrent(7, p)
  BY <1>0 DEF WouldSkip, Forced
<1>5. /\ marker[7].phase \in PhaseFile /\ "scla" \in whole
      /\ phaseMark[7] = [file |-> marker[7].phase, stamp |-> marker[7].files[marker[7].phase]]
      /\ \A f \in SignedFiles(7, marker[7].phase) : from["scla"].files[f] = marker[7].files[f]
      /\ \A f \in File \ ReadFiles(7, marker[7].phase) : from["scla"].files[f] = 0
      /\ from["scla"].qc = marker[7].qc /\ marker[7].qc = 0
  <2>1. Documented(7)
    BY <1>0 DEF IInv, Data, Committed
  <2>. QED
    BY <1>0, <1>3, <2>1 DEF Documented
<1>6. phaseMark[7] # NoMark
  BY <1>5 DEF NoMark, PhaseFile, Corrected
<1>7. marker[7].phase = p /\ marker[7].files[p] = stamp[p] /\ stamp[p] > 0
  BY <1>4, <1>5, <1>6 DEF PhaseCurrent
<1>8. p \in SignedFiles(7, p)
  BY DEF SignedFiles
<1>. QED
  BY <1>2, <1>5, <1>7, <1>8

LEMMA AgreementInv == Whole => PhaseAgreement
<1>. SUFFICES ASSUME Whole, Succeeded, {"scla", "scn"} \intersect suspect = {}
              PROVE  /\ from["scn"].files["scla"] = stamp["scla"]
                     /\ from["scn"].files[Target] = stamp[Target]
                     /\ \A f \in PhaseFile : f = Target \/ f # "phuw2" =>
                           from["scla"].files[f] = from["scn"].files[f]
  BY DEF PhaseAgreement
<1>1. from["scn"].files = Stamps({"merged", Target, "scla"})
  BY Exported DEF Derivation, ReadFiles
<1>2. Target \in PhaseFile /\ PhaseFile \subseteq File /\ "scla" \in File /\ "scla" \notin PhaseFile
      /\ "merged" \notin PhaseFile
  BY AllDone DEF File, PhaseFile, Corrected
<1>3. /\ from["scn"].files["scla"] = stamp["scla"] /\ from["scn"].files[Target] = stamp[Target]
      /\ \A f \in PhaseFile \ {Target} : from["scn"].files[f] = 0
  BY <1>1, <1>2 DEF Stamps
<1>4. \A f \in PhaseFile \ {Target, "phuw2"} : from["scla"].files[f] = 0
  <2>1. \A f \in PhaseFile \ {Target, "phuw2"} : f \in File \ ReadFiles(7, Target)
    BY <1>2 DEF ReadFiles
  <2>. QED
    BY <2>1, Exported
<1>5. from["scla"].files[Target] = stamp[Target]
  BY Exported
<1>. QED
  BY <1>3, <1>4, <1>5

LEMMA ExportInv == Whole => ExportCurrent
<1>. SUFFICES ASSUME Whole, Succeeded, suspect = {}
              PROVE  /\ \A s \in first..8 : Current(s, Target)
                     /\ \A q \in Applied : q \in whole /\ from[q].files = Stamps({SourceOf(q), "merged"})
  BY DEF ExportCurrent
<1>. PICK p \in PhaseFile : p = Target
  BY AllDone
<1>0. IInv /\ TypeOK /\ Chained(p) /\ p \in File
  BY AllDone, FileTypes DEF Whole, IInv
<1>1. ASSUME NEW s \in first..8, s # 7 PROVE Current(s, p)
  <2>1. s \in Stage /\ WouldSkip(s, At(s)) /\ Chained(At(s)) /\ At(s) \in PhaseFile
    BY <1>0, <1>1, AllDone, AtPhase DEF Fresh
  <2>2. Current(s, At(s))
    BY <1>0, <2>1, SkippedIsCurrent
  <2>. QED
    BY <2>1, <2>2, NoPhase DEF At
<1>2. ASSUME 7 \in first..8 PROVE Current(7, p)
  <2>. DEFINE fs == from["scla"].files
  <2>1. fs["merged"] = stamp["merged"] /\ from["scla"].drop = drop
    BY <1>2, AllDone DEF Fresh
  <2>2. fs[p] = stamp[p] /\ stamp[p] > 0 /\ (\A f \in File \ ReadFiles(7, p) : fs[f] = 0)
        /\ from["scla"].qc = 0 /\ "scla" \in whole
    BY Exported
  <2>3. fs["phuw2"] = stamp["phuw2"]
    <3>1. CASE p = "phuw2"
      BY <2>2, <3>1
    <3>2. CASE p # "phuw2"
      <4>1. p \in Corrected /\ Link(p) /\ (p = "gacos_deramp" => Link("gacos"))
        BY <1>0, <3>2 DEF Chained, PhaseFile
      <4>2. fs[p] # 0
        BY <1>0, <2>2, FileTypes
      <4>3. ASSUME NEW q \in {"gacos", "deramp"}, Link(q) PROVE from[q].files["phuw2"] = stamp["phuw2"]
        BY <4>3 DEF Link, Stamps, SourceOf, File, PhaseFile
      <4>4. CASE p = "gacos_deramp"
        <5>1. from["gacos_deramp"].files["gacos"] = stamp["gacos"]
          BY <4>1, <4>4 DEF Link, Stamps, SourceOf, File, PhaseFile, Corrected
        <5>. QED
          BY <1>0, <2>2, <4>1, <4>2, <4>3, <4>4, <5>1 DEF IInv, Data, Lineage
      <4>5. CASE p \in {"gacos", "deramp"}
        BY <1>0, <2>2, <4>1, <4>2, <4>3, <4>5 DEF IInv, Data, Lineage
      <4>. QED
        BY <4>1, <4>4, <4>5 DEF Corrected
    <3>. QED
      BY <3>1, <3>2
  <2>4. "scla" \in File /\ from["scla"] \in Source /\ fs \in [File -> 0..MaxStamp]
    BY <1>0, FileTypes, Products DEF Stage
  <2>5. \A f \in File : fs[f] = IF f \in {"merged", "phuw2", p} THEN stamp[f] ELSE 0
    BY <2>1, <2>2, <2>3 DEF ReadFiles
  <2>6. fs = Stamps(ReadFiles(7, p))
    BY <2>4, <2>5 DEF Stamps, ReadFiles
  <2>7. from["scla"] = Derivation(7, p)
    <3>1. /\ Derivation(7, p) \in Source
          /\ Derivation(7, p).files = fs /\ Derivation(7, p).drop = drop /\ Derivation(7, p).qc = 0
      BY <1>0, <2>6, Sources DEF Derivation, Stage
    <3>2. \A x, y \in Source : x.files = y.files /\ x.drop = y.drop /\ x.qc = y.qc => x = y
      BY DEF Source
    <3>. QED
      BY <2>1, <2>2, <2>4, <3>1, <3>2
  <2>. QED
    BY <2>2, <2>7, Products DEF Current
<1>3. ASSUME NEW q \in Applied PROVE q \in whole /\ from[q].files = Stamps({SourceOf(q), "merged"})
  <2>1. q \in Corrected /\ Link(q)
    BY <1>0, <1>3 DEF Applied, Chained, Corrected, PhaseFile
  <2>2. q \in whole
    BY <2>1 DEF Link, Whole, IInv, Data, Recorded
  <2>. QED
    BY <2>1, <2>2 DEF Link
<1>. QED
  BY <1>1, <1>2, <1>3

-----------------------------------------------------------------------------
\* The theorems.

\* Every variable keeps its type.
THEOREM Types == Spec => []TypeOK
BY Invariance, PTL DEF IInv

\* A merged stage is skipped only over outputs computed from the files and
\* settings of now, whatever _run_merged_stage did before, whichever settings
\* the user changed and wherever earlier runs were stopped.
THEOREM HonestReuse == Spec => []ReuseHonest
BY Invariance, HonestInv, PTL

\* Within one invocation a corrected phase is made at most once, unless a
\* stage failed, when merged stages share the context of the driver.
THEOREM Shared == Spec => []RebuildShared
BY Invariance, SharedInv, PTL

\* A run of the merged stages that succeeded is skipped as a whole when it is
\* repeated, unless a rebuild is asked for.
THEOREM Repeated == Spec => []RerunSkips
BY WholeInv, RepeatedInv, PTL

\* The exported SCN and the SCLA it was estimated with come from the phase
\* file that the configuration asks for.
THEOREM OnePhase == Spec => []PhaseAgreement
BY WholeInv, AgreementInv, PTL

\* What a successful run exports is current from its first stage on.
THEOREM UpToDate == Spec => []ExportCurrent
BY WholeInv, ExportInv, PTL

=============================================================================
