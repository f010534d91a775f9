-------------------------- MODULE SavedResultsProofs --------------------------
(***************************************************************************)
(* Proofs about what the Python stages find of an earlier run.             *)
(*                                                                         *)
(* First the reuse of patch stages, for every chain length, bound, choice  *)
(* of start steps, editable settings and faults; then runs that go         *)
(* through: that a run which succeeded would be skipped if it were         *)
(* repeated, and that its products are up to date.                         *)
(*                                                                         *)
(* Then the checkpoint of the filtered grid and the drop list of stage 6,  *)
(* for every number of interferograms, every batch size and checkpoint     *)
(* interval, every version of the inputs and every sequence of failures,   *)
(* kills and power failures.                                               *)
(*                                                                         *)
(* Then the two beside each other and beside the sweep of the patches:     *)
(* they share no state, so that what holds of each alone holds here.       *)
(***************************************************************************)
EXTENDS SavedResults, TLAPS

-----------------------------------------------------------------------------
(* Patch stages.                                                           *)

Shared(s)     == SignedFiles[s] \intersect ReadFiles[s]
SharedKeys(s) == SignedKeys[s] \intersect ReadKeys[s]

\* A committed marker of an undisturbed stage tells what its product was
\* computed from.
Committed ==
    \A s \in Stage \ {1} : s \notin suspect /\ s \in marked /\ Product[s] \in present =>
        /\ Product[s] \in whole
        /\ \A f \in Shared(s) : marker[s].files[f] = from[s].files[f]
        /\ \A k \in SharedKeys(s) : marker[s].keys[k] = from[s].keys[k]

\* A stage that has begun and not committed is suspect.
Running ==
    /\ pc \in {"write", "commit"} => stage \in 2..last /\ stage \in suspect
    /\ pc = "commit" => Product[stage] \in whole /\ from[stage] = read

IInv == TypeOK /\ Committed /\ Running

-----------------------------------------------------------------------------
\* Every stage after the first has a product of its own.
LEMMA Products ==
    /\ \A s \in Stage : Product[s] \in File /\ SignedFiles[s] \subseteq File
                        /\ ReadFiles[s] \subseteq File
                        /\ SignedKeys[s] \subseteq Key /\ ReadKeys[s] \subseteq Key
    /\ \A s \in Stage \ {1} : Product[s] \notin {"ps1", "aux1"}
    /\ \A s, t \in Stage : Product[s] = Product[t] => s = t
<1>1. Stage \subseteq 1..5
  BY StagesAssumption DEF Stage
<1>2. \A s \in 1..5 : s = 1 \/ s = 2 \/ s = 3 \/ s = 4 \/ s = 5
  OBVIOUS
<1>3. Product[1] = "ps1" /\ Product[2] = "pm1" /\ Product[3] = "select1"
      /\ Product[4] = "weed1" /\ Product[5] = "ps2"
  BY DEF Product
<1>4. \A s \in 1..5 : SignedFiles[s] \subseteq File /\ ReadFiles[s] \subseteq File
                      /\ SignedKeys[s] \subseteq Key /\ ReadKeys[s] \subseteq Key
  <2>1. SignedFiles[1] = {} /\ SignedFiles[2] = {"ps1", "aux1"} /\ SignedFiles[3] = {"ps1", "pm1"}
        /\ SignedFiles[4] = {"ps1", "pm1", "select1"}
        /\ SignedFiles[5] = {"ps1", "aux1", "pm1", "select1", "weed1"}
    BY DEF SignedFiles
  <2>2. ReadFiles[1] = {} /\ ReadFiles[2] = {"ps1", "aux1"} /\ ReadFiles[3] = {"ps1", "aux1", "pm1"}
        /\ ReadFiles[4] = {"ps1", "aux1", "select1"}
        /\ ReadFiles[5] = {"ps1", "aux1", "pm1", "select1", "weed1"}
    BY DEF ReadFiles
  <2>3. SignedKeys[1] = {} /\ SignedKeys[2] = {"filter"} /\ SignedKeys[3] = {"select"}
        /\ SignedKeys[4] = {"weed"} /\ SignedKeys[5] = {}
    BY DEF SignedKeys
  <2>4. ReadKeys[1] = {} /\ ReadKeys[2] = {"filter"} /\ ReadKeys[3] = {"filter", "select", "drop"}
        /\ ReadKeys[4] = {"weed", "drop"} /\ ReadKeys[5] = {}
    BY DEF ReadKeys
  <2>5. QED
    BY <1>2, <2>1, <2>2, <2>3, <2>4 DEF File, Key
<1>5. \A s \in 1..5 : Product[s] \in File
  BY <1>2, <1>3 DEF File
<1>6. \A s \in 1..5 : s # 1 => Product[s] \notin {"ps1", "aux1"}
  BY <1>2, <1>3
<1>7. \A s, t \in 1..5 : Product[s] = Product[t] => s = t
  BY <1>2, <1>3
<1>8. QED
  BY <1>1, <1>4, <1>5, <1>6, <1>7

\* Signatures and derivations are sources.
LEMMA Sources ==
    ASSUME TypeOK, NEW group, NEW keys
    PROVE  Restricted(group, keys) \in Source
BY StagesAssumption DEF TypeOK, Restricted, Source

LEMMA NothingIsSource == Nothing \in Source
BY StagesAssumption DEF Nothing, Source

LEMMA InitIInv == Init => IInv
<1> SUFFICES ASSUME Init PROVE IInv
  OBVIOUS
<1>1. TypeOK
  BY NothingIsSource, StagesAssumption DEF Init, TypeOK, Stage
<1>2. Committed /\ Running
  BY DEF Init, Committed, Running
<1>3. QED
  BY <1>1, <1>2 DEF IInv

(* An undisturbed stage that would be skipped is complete and was computed *)
(* from the inputs and settings its signature covers.                      *)
LEMMA IInvImplies == IInv => ReuseHonest
<1> SUFFICES ASSUME IInv, NEW s \in Stage \ {1}, WouldSkip(s), s \notin suspect
             PROVE  /\ Product[s] \in whole
                    /\ \A f \in Shared(s) : from[s].files[f] = stamp[f]
                    /\ \A k \in SharedKeys(s) : from[s].keys[k] = settings[k]
  BY DEF ReuseHonest, Shared, SharedKeys
<1>1. marker[s] = Signature(s) /\ s \in marked /\ Product[s] \in present
  BY DEF WouldSkip
<1>2. /\ \A f \in Shared(s) : Signature(s).files[f] = stamp[f]
      /\ \A k \in SharedKeys(s) : Signature(s).keys[k] = settings[k]
  BY Products DEF Signature, Restricted, Shared, SharedKeys
<1>3. QED
  BY <1>1, <1>2 DEF IInv, Committed

-----------------------------------------------------------------------------
\* A step that leaves markers, derivations and suspicion alone, and takes no
\* file away from the complete ones that it leaves present, keeps Committed.
LEMMA CommittedStable ==
    ASSUME Committed, UNCHANGED <<marked, marker, from, suspect>>,
           \A s \in Stage \ {1} : Product[s] \in present' => Product[s] \in present,
           \A s \in Stage \ {1} : Product[s] \in whole /\ Product[s] \in present'
                                  => Product[s] \in whole'
    PROVE  Committed'
BY DEF Committed

\* The steps of a run keep the types.
LEMMA RunType ==
    ASSUME IInv, Run \/ Crash
    PROVE  TypeOK'
<1> USE StagesAssumption DEF Stage
<1>0. TypeOK /\ Running
  BY DEF IInv
<1>advance. ASSUME NEW r \in {"completed", "skipped_existing", "failed"}, Advance(r), stage \in Stage
      PROVE  /\ pc' = "check" /\ stage' \in 1..(Last + 1) /\ read' \in Source
             /\ status' \in [Stage -> {"none", "completed", "skipped_existing", "failed"}]
  <2>1. stage' = stage + 1 /\ stage + 1 \in 1..(Last + 1) /\ pc' = "check" /\ read' = Nothing
    BY <1>advance DEF Advance
  <2>2. status' = [status EXCEPT ![stage] = r]
    BY <1>advance DEF Advance
  <2>3. QED
    BY <1>0, <2>1, <2>2, NothingIsSource DEF TypeOK
<1>leave. ASSUME Leave
       PROVE  /\ pc' = "idle" /\ first' \in Stage /\ last' \in Stage /\ stage' \in 1..(Last + 1)
              /\ read' \in Source
              /\ status' \in [Stage -> {"none", "completed", "skipped_existing", "failed"}]
  BY <1>leave, NothingIsSource DEF Leave
<1>2. CASE Prepare
  BY <1>0, <1>2 DEF Prepare, TypeOK, File
<1>3. CASE PrepareFails \/ EndRun \/ Crash
  <2>1. Leave /\ UNCHANGED <<world, marked, marker, from, suspect>>
    BY <1>3 DEF PrepareFails, EndRun, Crash
  <2>2. UNCHANGED <<settings, present, whole, stamp, clock>>
    BY <2>1 DEF world
  <2>3. QED
    BY <1>0, <1>leave, <2>1, <2>2 DEF TypeOK
<1>4. CASE Skip
  <2>1. stage \in Stage
    BY <1>0, <1>4 DEF Skip, TypeOK
  <2>2. QED
    BY <1>0, <1>advance, <1>4, <2>1 DEF Skip, world, TypeOK
<1>5. CASE BeginStage
  <2>1. stage \in Stage /\ Product[stage] \in File /\ stage \in 2..last
    BY <1>0, <1>5, Products DEF BeginStage, TypeOK
  <2>2. read' \in Source /\ from' \in [Stage -> Source]
    BY <1>0, <1>5, <2>1, Sources, NothingIsSource DEF BeginStage, Derivation, TypeOK
  <2>3. clock' \in 0..MaxStamp /\ stamp' \in [File -> 0..MaxStamp]
    BY <1>0, <1>5, <2>1 DEF BeginStage, TypeOK
  <2>4. present' \subseteq File /\ whole' \subseteq present'
    <3>1. whole' = whole \ {Product[stage]}
      BY <1>5 DEF BeginStage
    <3>2. \/ present' = present
          \/ present' = present \union {"ps2"}
          \/ present' = present \union {Product[stage]}
      BY <1>5, Zenon DEF BeginStage
    <3>3. QED
      BY <1>0, <2>1, <3>1, <3>2 DEF TypeOK, File
  <2>5. pc' = "write" /\ suspect' \subseteq Stage
        /\ UNCHANGED <<first, last, stage, status, settings, marked, marker>>
    BY <1>0, <1>5, <2>1 DEF BeginStage, TypeOK
  <2>6. QED
    BY <1>0, <2>2, <2>3, <2>4, <2>5 DEF TypeOK
<1>6. CASE FinishStage
  <2>1. stage \in Stage /\ Product[stage] \in File
    BY <1>0, <1>6, Products DEF FinishStage, TypeOK, Running
  <2>2. clock' \in 0..MaxStamp /\ stamp' \in [File -> 0..MaxStamp]
    BY <1>0, <1>6, <2>1 DEF FinishStage, TypeOK
  <2>3. QED
    BY <1>0, <1>6, <2>1, <2>2 DEF FinishStage, TypeOK
<1>7. CASE Commit
  <2>1. stage \in Stage
    BY <1>0, <1>7 DEF Commit, TypeOK, Running
  <2>2. marker' \in [Stage -> Source] /\ marked' \subseteq Stage
    BY <1>0, <1>7, <2>1, Sources DEF Commit, Signature, TypeOK
  <2>3. suspect' \subseteq Stage
    BY <1>0, <1>7 DEF Commit, TypeOK
  <2>4. Advance("completed") /\ UNCHANGED <<first, last, world, from>>
    BY <1>7 DEF Commit
  <2>5. QED
    BY <1>0, <1>advance, <2>1, <2>2, <2>3, <2>4 DEF TypeOK, world
<1>8. CASE FailStage
  <2>1. stage \in Stage
    BY <1>0, <1>8 DEF FailStage, TypeOK
  <2>2. Advance("failed") /\ UNCHANGED <<first, last, world, marked, marker, from, suspect>>
    BY <1>8 DEF FailStage
  <2>3. QED
    BY <1>0, <1>advance, <2>1, <2>2 DEF world, TypeOK
<1>9. QED
  BY <1>2, <1>3, <1>4, <1>5, <1>6, <1>7, <1>8 DEF Run

\* The user's steps keep the types.
LEMMA UserType ==
    ASSUME IInv, User
    PROVE  TypeOK'
<1> USE StagesAssumption DEF Stage
<1>0. TypeOK
  BY DEF IInv
<1>1. ASSUME NEW i \in FirstSteps, NEW j \in Stage, i <= j, StartRun(i, j)
      PROVE  TypeOK'
  BY <1>0, <1>1 DEF StartRun, world, TypeOK
<1>2. ASSUME NEW k \in EditableKeys, EditSetting(k)
      PROVE  TypeOK'
  <2>1. k \in Key
    BY DEF Key
  <2>2. settings' \in [Key -> 0..1]
    BY <1>0, <1>2, <2>1 DEF EditSetting, TypeOK
  <2>3. QED
    BY <1>0, <1>2, <2>2 DEF EditSetting, TypeOK
<1>3. ASSUME NEW group \in {{"ps1", "aux1"}, {"aux1"}}, ReplaceStage1(group)
      PROVE  TypeOK'
  BY <1>0, <1>3 DEF ReplaceStage1, TypeOK
<1>4. ASSUME NEW s \in Stage \ {1}, DeleteOutput(s)
      PROVE  TypeOK'
  BY <1>0, <1>4 DEF DeleteOutput, TypeOK
<1>5. QED
  BY <1>1, <1>2, <1>3, <1>4 DEF User

-----------------------------------------------------------------------------
LEMMA RunStep ==
    ASSUME IInv, Run \/ Crash
    PROVE  Committed' /\ Running'
<1>0. TypeOK /\ Committed /\ Running
  BY DEF IInv
<1>1. CASE Prepare
  <2>1. Committed'
    <3>1. /\ UNCHANGED <<marked, marker, from, suspect>>
          /\ present' = present \union {"ps1", "aux1"} /\ whole' = whole \union {"ps1", "aux1"}
      BY <1>1 DEF Prepare
    <3>2. QED
      BY <1>0, <3>1, Products, CommittedStable
  <2>2. Running'
    BY <1>1 DEF Prepare, Running
  <2>3. QED
    BY <2>1, <2>2
<1>2. CASE PrepareFails \/ EndRun \/ Crash
  <2>1. Leave /\ UNCHANGED <<world, marked, marker, from, suspect>>
    BY <1>2 DEF PrepareFails, EndRun, Crash
  <2>2. QED
    BY <1>0, <2>1, CommittedStable DEF Leave, Running, world
<1>3. CASE Skip \/ FailStage
  <2>1. pc' = "check" /\ UNCHANGED <<world, marked, marker, from, suspect>>
    BY <1>3 DEF Skip, FailStage, Advance
  <2>2. QED
    BY <1>0, <2>1, CommittedStable DEF Running, world
<1>4. CASE BeginStage
  <2>1. /\ stage \in Stage \ {1} /\ stage \in 2..last /\ pc' = "write"
        /\ whole' = whole \ {Product[stage]} /\ suspect' = suspect \union {stage}
        /\ from' = [from EXCEPT ![stage] = Nothing]
        /\ UNCHANGED <<stage, last, marked, marker>>
    BY <1>0, <1>4, StagesAssumption DEF BeginStage, TypeOK, Stage
  <2>2. \A s \in Stage \ {1} : s # stage =>
            /\ Product[s] \in present' => Product[s] \in present
            /\ Product[s] \in whole => Product[s] \in whole'
            /\ from'[s] = from[s]
    <3>1. \/ present' = present
          \/ present' = present \union {"ps2"} /\ stage = 5
          \/ present' = present \union {Product[stage]}
      BY <1>4, Zenon DEF BeginStage
    <3>2. stage = 5 => Product[stage] = "ps2"
      BY DEF Product
    <3>3. \A s \in Stage \ {1} : s # stage => Product[s] # Product[stage]
      BY <2>1, Products
    <3>4. QED
      BY <1>0, <2>1, <3>1, <3>2, <3>3 DEF TypeOK
  <2>3. Committed'
    BY <1>0, <2>1, <2>2 DEF Committed, Shared, SharedKeys
  <2>4. Running'
    BY <2>1 DEF Running
  <2>5. QED
    BY <2>3, <2>4
<1>5. CASE FinishStage
  <2>1. /\ stage \in Stage \ {1} /\ stage \in 2..last /\ stage \in suspect
        /\ pc' = "commit" /\ read' = read
        /\ whole' = whole \union {Product[stage]} /\ present' = present \union {Product[stage]}
        /\ from' = [from EXCEPT ![stage] = read]
        /\ UNCHANGED <<stage, last, marked, marker, suspect>>
    BY <1>0, <1>5, StagesAssumption DEF FinishStage, TypeOK, Running, Stage
  <2>2. \A s \in Stage \ {1} : s # stage =>
            /\ Product[s] \in present' => Product[s] \in present
            /\ Product[s] \in whole => Product[s] \in whole'
            /\ from'[s] = from[s]
    BY <1>0, <2>1, Products DEF TypeOK
  <2>3. Committed'
    BY <1>0, <2>1, <2>2 DEF Committed, Shared, SharedKeys
  <2>4. Running'
    BY <1>0, <2>1 DEF Running, TypeOK
  <2>5. QED
    BY <2>3, <2>4
<1>6. CASE Commit
  <2>1. /\ stage \in Stage \ {1} /\ pc' = "check"
        /\ Product[stage] \in whole /\ from[stage] = read
        /\ marked' = marked \union {stage}
        /\ marker' = [marker EXCEPT ![stage] = Signature(stage)]
        /\ suspect' = IF read = Derivation(stage) THEN suspect \ {stage} ELSE suspect
        /\ UNCHANGED <<present, whole, from>>
        /\ stage \in suspect
    BY <1>0, <1>6, StagesAssumption DEF Commit, Advance, TypeOK, Running, world, Stage
  <2>2. ASSUME NEW s \in Stage \ {1}, s \notin suspect', s \in marked', Product[s] \in present'
        PROVE  /\ Product[s] \in whole'
               /\ \A f \in Shared(s) : marker'[s].files[f] = from'[s].files[f]
               /\ \A k \in SharedKeys(s) : marker'[s].keys[k] = from'[s].keys[k]
    <3>1. CASE s = stage
      <4>1. from[s] = Derivation(s)
        BY <2>1, <2>2, <3>1
      <4>2. marker'[s] = Signature(s)
        BY <1>0, <2>1, <3>1 DEF TypeOK
      <4>3. /\ \A f \in Shared(s) : Signature(s).files[f] = stamp[f] /\ Derivation(s).files[f] = stamp[f]
            /\ \A k \in SharedKeys(s) : Signature(s).keys[k] = settings[k]
                                        /\ Derivation(s).keys[k] = settings[k]
        BY Products DEF Signature, Derivation, Restricted, Shared, SharedKeys
      <4>4. QED
        BY <2>1, <3>1, <4>1, <4>2, <4>3
    <3>2. CASE s # stage
      <4>1. s \notin suspect /\ s \in marked /\ Product[s] \in present /\ marker'[s] = marker[s]
        BY <1>0, <2>1, <2>2, <3>2 DEF TypeOK
      <4>2. QED
        BY <1>0, <2>1, <4>1 DEF Committed
    <3>3. QED
      BY <3>1, <3>2
  <2>3. Committed'
    BY <2>2 DEF Committed, Shared, SharedKeys
  <2>4. Running'
    BY <2>1 DEF Running
  <2>5. QED
    BY <2>3, <2>4
<1>7. QED
  BY <1>1, <1>2, <1>3, <1>4, <1>5, <1>6 DEF Run

LEMMA UserStep ==
    ASSUME IInv, User
    PROVE  Committed' /\ Running'
<1>0. TypeOK /\ Committed /\ Running
  BY DEF IInv
<1>1. ASSUME NEW i \in FirstSteps, NEW j \in Stage, StartRun(i, j)
      PROVE  Committed' /\ Running'
  <2>1. pc' \in {"prepare", "check"} /\ UNCHANGED <<world, marked, marker, from, suspect>>
    BY <1>1 DEF StartRun
  <2>2. QED
    BY <1>0, <2>1, CommittedStable DEF Running, world
<1>2. ASSUME NEW k \in EditableKeys, EditSetting(k)
      PROVE  Committed' /\ Running'
  BY <1>0, <1>2, CommittedStable DEF EditSetting, Running
<1>3. ASSUME NEW group \in {{"ps1", "aux1"}, {"aux1"}}, ReplaceStage1(group)
      PROVE  Committed' /\ Running'
  BY <1>0, <1>3, CommittedStable DEF ReplaceStage1, Running
<1>4. ASSUME NEW s \in Stage \ {1}, DeleteOutput(s)
      PROVE  Committed' /\ Running'
  BY <1>0, <1>4, CommittedStable DEF DeleteOutput, Running
<1>5. QED
  BY <1>1, <1>2, <1>3, <1>4 DEF User

LEMMA StepIInv == IInv /\ [Next]_vars => IInv'
<1> SUFFICES ASSUME IInv, [Next]_vars PROVE IInv'
  OBVIOUS
<1>1. CASE Run \/ Crash
  BY <1>1, RunType, RunStep DEF IInv
<1>2. CASE User
  BY <1>2, UserType, UserStep DEF IInv
<1>3. CASE UNCHANGED vars
  BY <1>3 DEF vars, world, IInv, TypeOK, Committed, Running
<1>4. QED
  BY <1>1, <1>2, <1>3 DEF Next

(* Every reachable state satisfies the inductive invariant: a committed      *)
(* marker of a stage that no later attempt disturbed describes its product.  *)
THEOREM Invariance == Spec => []IInv
BY InitIInv, StepIInv, PTL DEF Spec

(* Reuse is honest for every chain, start step, editable setting and fault:  *)
(* a stage that would be skipped, and whose last attempt committed what it   *)
(* read, is complete and computed from the signed inputs and settings of now. *)
THEOREM HonestReuse == Spec => [](TypeOK /\ ReuseHonest)
<1>1. IInv => TypeOK /\ ReuseHonest
  BY IInvImplies DEF IInv
<1>2. QED
  BY <1>1, Invariance, PTL

-----------------------------------------------------------------------------
(* No stage of a run disturbs what an earlier one signed.                  *)

Reported ==
    /\ pc = "prepare" => stage = first
    /\ pc # "idle" => \A s \in first..(stage - 1) :
          status[s] \in {"completed", "skipped_existing"} => WouldSkip(s)

SInv == IInv /\ Reported

\* A stage neither signs nor reads what it or a later stage writes.
LEMMA Upstream ==
    ASSUME NEW t \in Stage \ {1}, NEW s \in 1..t
    PROVE  Product[t] \notin SignedFiles[s] /\ Product[t] \notin ReadFiles[s]
<1>1. t \in 2..5 /\ s \in 1..t
  BY StagesAssumption DEF Stage
<1>2. t = 2 \/ t = 3 \/ t = 4 \/ t = 5
  BY <1>1
<1>3. Product[2] = "pm1" /\ Product[3] = "select1" /\ Product[4] = "weed1" /\ Product[5] = "ps2"
  BY DEF Product
<1>4. SignedFiles[1] = {} /\ SignedFiles[2] = {"ps1", "aux1"} /\ SignedFiles[3] = {"ps1", "pm1"}
      /\ SignedFiles[4] = {"ps1", "pm1", "select1"}
      /\ SignedFiles[5] = {"ps1", "aux1", "pm1", "select1", "weed1"}
  BY DEF SignedFiles
<1>5. ReadFiles[1] = {} /\ ReadFiles[2] = {"ps1", "aux1"} /\ ReadFiles[3] = {"ps1", "aux1", "pm1"}
      /\ ReadFiles[4] = {"ps1", "aux1", "select1"}
      /\ ReadFiles[5] = {"ps1", "aux1", "pm1", "select1", "weed1"}
  BY DEF ReadFiles
<1>6. CASE t = 2
  <2>1. s = 1 \/ s = 2
    BY <1>1, <1>6
  <2>. QED
    BY <2>1, <1>3, <1>4, <1>5, <1>6
<1>7. CASE t = 3
  <2>1. s = 1 \/ s = 2 \/ s = 3
    BY <1>1, <1>7
  <2>. QED
    BY <2>1, <1>3, <1>4, <1>5, <1>7
<1>8. CASE t = 4
  <2>1. s = 1 \/ s = 2 \/ s = 3 \/ s = 4
    BY <1>1, <1>8
  <2>. QED
    BY <2>1, <1>3, <1>4, <1>5, <1>8
<1>9. CASE t = 5
  <2>1. s = 1 \/ s = 2 \/ s = 3 \/ s = 4 \/ s = 5
    BY <1>1, <1>9
  <2>. QED
    BY <2>1, <1>3, <1>4, <1>5, <1>9
<1>. QED
  BY <1>2, <1>6, <1>7, <1>8, <1>9

\* Signatures and derivations depend on the stamps of their files only.
LEMMA SameSignature ==
    ASSUME NEW s, settings' = settings, \A f \in SignedFiles[s] : stamp'[f] = stamp[f]
    PROVE  Signature(s)' = Signature(s)
BY DEF Signature, Restricted

LEMMA SameDerivation ==
    ASSUME NEW s, settings' = settings, \A f \in ReadFiles[s] : stamp'[f] = stamp[f]
    PROVE  Derivation(s)' = Derivation(s)
BY DEF Derivation, Restricted

\* The report's stages are stages.
LEMMA ReportedStages ==
    ASSUME TypeOK, NEW s \in first..(stage - 1)
    PROVE  s \in Stage /\ s < stage /\ stage \in Nat
BY StagesAssumption DEF TypeOK, Stage

\* Writing a product leaves the stages before it skippable.
LEMMA WritingKeepsEarlier ==
    ASSUME TypeOK, NEW t \in Stage \ {1}, NEW s \in Stage, s < t, WouldSkip(s),
           settings' = settings, marked' = marked, marker' = marker,
           present \subseteq present',
           stamp' = [stamp EXCEPT ![Product[t]] = clock']
    PROVE  WouldSkip(s)'
<1>1. s \in 1..t
  BY StagesAssumption DEF Stage
<1>2. \A f \in SignedFiles[s] : f \in File /\ f # Product[t]
  <2>1. Product[t] \notin SignedFiles[s]
    BY <1>1, Upstream
  <2>2. SignedFiles[s] \subseteq File
    BY Products
  <2>. QED
    BY <2>1, <2>2
<1>3. Signature(s)' = Signature(s)
  BY <1>2, SameSignature DEF TypeOK
<1>. QED
  BY <1>3 DEF WouldSkip

LEMMA EmptyRange ==
    ASSUME NEW n \in Nat, NEW m, m = n, NEW s \in n..(m - 1)
    PROVE  FALSE
OBVIOUS

LEMMA ReportedRun ==
    ASSUME SInv, Run \/ Crash
    PROVE  Reported'
<1>0. TypeOK /\ Running /\ Reported
  BY DEF SInv, IInv
<1>1. CASE Prepare
  <2>1. stage' = first' /\ pc' = "check" /\ first' \in Nat
    BY <1>0, <1>1, StagesAssumption DEF Prepare, Reported, TypeOK, Stage
  <2>2. ASSUME NEW s \in first'..(stage' - 1) PROVE FALSE
    BY <2>1, EmptyRange
  <2>. QED
    BY <2>1, <2>2 DEF Reported
<1>2. CASE PrepareFails \/ EndRun \/ Crash
  BY <1>2 DEF PrepareFails, EndRun, Crash, Leave, Reported
<1>3. CASE BeginStage \/ FinishStage
  <2>1. /\ stage \in Stage \ {1} /\ present \subseteq present'
        /\ stamp' = [stamp EXCEPT ![Product[stage]] = clock'] /\ pc' \in {"write", "commit"}
        /\ UNCHANGED <<first, stage, status, settings, marked, marker>> /\ pc # "idle"
    <3>1. CASE BeginStage
      <4>1. \/ present' = present
            \/ present' = present \union {"ps2"}
            \/ present' = present \union {Product[stage]}
        BY <3>1, Zenon DEF BeginStage
      <4>. QED
        BY <1>0, <3>1, <4>1, StagesAssumption DEF BeginStage, TypeOK, Stage
    <3>2. CASE FinishStage
      BY <1>0, <3>2, StagesAssumption DEF FinishStage, TypeOK, Stage, Running
    <3>. QED
      BY <1>3, <3>1, <3>2
  <2>2. ASSUME NEW s \in first..(stage - 1), status[s] \in {"completed", "skipped_existing"}
        PROVE  WouldSkip(s)'
    <3>1. s \in Stage /\ s < stage /\ WouldSkip(s)
      BY <1>0, <2>1, <2>2, ReportedStages DEF Reported
    <3>. QED
      BY <1>0, <2>1, <3>1, WritingKeepsEarlier
  <2>. QED
    BY <2>1, <2>2 DEF Reported
<1>4. CASE Skip \/ Commit \/ FailStage
  <2>1. /\ stage \in Stage /\ pc # "idle" /\ pc' = "check" /\ stage' = stage + 1
        /\ UNCHANGED <<first, settings, present, stamp>>
        /\ \A s \in Stage : s # stage => status'[s] = status[s] /\ marker'[s] = marker[s]
                                         /\ (s \in marked => s \in marked')
    <3>1. stage \in Stage
      BY <1>0, <1>4, StagesAssumption DEF Skip, Commit, FailStage, TypeOK, Running, Stage
    <3>. QED
      BY <1>0, <1>4, <3>1 DEF Skip, Commit, FailStage, Advance, TypeOK, world
  <2>2. \A s \in Stage : Signature(s)' = Signature(s)
    BY <2>1, SameSignature
  <2>3. ASSUME NEW s \in first..stage, s # stage, status[s] \in {"completed", "skipped_existing"}
        PROVE  WouldSkip(s)'
    <3>1. s \in first..(stage - 1)
      BY <1>0, <2>1, <2>3, StagesAssumption DEF TypeOK, Stage
    <3>2. s \in Stage /\ WouldSkip(s)
      BY <1>0, <2>1, <2>3, <3>1, ReportedStages DEF Reported
    <3>. QED
      BY <2>1, <2>2, <2>3, <3>2 DEF WouldSkip
  <2>4. ASSUME NEW t, t = stage, status'[t] \in {"completed", "skipped_existing"}
        PROVE  WouldSkip(t)'
    <3>1. CASE Skip
      BY <2>1, <2>2, <2>4, <3>1 DEF Skip, WouldSkip, world
    <3>2. CASE Commit
      <4>1. /\ t # 1 /\ Product[t] \in present
            /\ marked' = marked \union {t}
            /\ marker'[t] = Signature(t)
        BY <1>0, <2>1, <2>4, <3>2, StagesAssumption DEF Commit, Running, TypeOK, Stage
      <4>. QED
        BY <2>1, <2>2, <2>4, <4>1 DEF WouldSkip
    <3>3. CASE FailStage
      BY <1>0, <2>1, <2>4, <3>3 DEF FailStage, Advance, TypeOK
    <3>. QED
      BY <1>4, <3>1, <3>2, <3>3
  <2>5. stage' - 1 = stage
    BY <2>1, StagesAssumption DEF Stage
  <2>6. ASSUME NEW s \in first..stage, status'[s] \in {"completed", "skipped_existing"}
        PROVE  WouldSkip(s)'
    <3>1. CASE s = stage
      BY <2>4, <2>6, <3>1
    <3>2. CASE s # stage
      <4>1. s \in Stage
        BY <1>0, <2>1, StagesAssumption DEF TypeOK, Stage
      <4>. QED
        BY <2>1, <2>3, <2>6, <3>2, <4>1
    <3>. QED
      BY <3>1, <3>2
  <2>. QED
    BY <2>1, <2>5, <2>6 DEF Reported
<1>. QED
  BY <1>1, <1>2, <1>3, <1>4 DEF Run

LEMMA ReportedUser ==
    ASSUME SInv, User, ~LiveEdits
    PROVE  Reported'
<1>1. ASSUME NEW i \in FirstSteps, NEW j \in Stage, StartRun(i, j)
      PROVE  Reported'
  <2>1. stage' = first' /\ first' \in Nat
    BY <1>1, StagesAssumption DEF StartRun
  <2>2. ASSUME NEW s \in first'..(stage' - 1) PROVE FALSE
    BY <2>1, EmptyRange
  <2>. QED
    BY <2>1, <2>2 DEF Reported
<1>2. ASSUME NEW k \in EditableKeys, EditSetting(k)
      PROVE  Reported'
  BY <1>2 DEF EditSetting, Reported
<1>3. ASSUME NEW group \in {{"ps1", "aux1"}, {"aux1"}}, ReplaceStage1(group)
      PROVE  Reported'
  BY <1>3 DEF ReplaceStage1, Reported
<1>4. ASSUME NEW s \in Stage \ {1}, DeleteOutput(s)
      PROVE  Reported'
  BY <1>4 DEF DeleteOutput, Reported
<1>. QED
  BY <1>1, <1>2, <1>3, <1>4 DEF User

(* When nobody edits settings during a run, a run that succeeded would be  *)
(* skipped in all its stages if it were repeated: for every start step,    *)
(* every history before it, and with stages that may fail.                 *)
THEOREM Repeated == ~LiveEdits => (Spec => []RerunSkips)
<1> SUFFICES ASSUME ~LiveEdits PROVE Spec => []RerunSkips
  OBVIOUS
<1>1. Init => SInv
  BY InitIInv DEF SInv, Init, Reported
<1>2. SInv /\ [Next]_vars => SInv'
  <2> SUFFICES ASSUME SInv, [Next]_vars PROVE SInv'
    OBVIOUS
  <2>1. IInv'
    BY StepIInv DEF SInv
  <2>2. CASE UNCHANGED vars
    BY <2>1, <2>2 DEF SInv, Reported, WouldSkip, Signature, Restricted, vars, world
  <2>. QED
    BY <2>1, <2>2, ReportedRun, ReportedUser DEF SInv, Next
<1>3. SInv => RerunSkips
  <2> SUFFICES ASSUME SInv, CleanRun, NEW s \in first..last PROVE WouldSkip(s)
    BY DEF RerunSkips
  <2>1. s \in first..(stage - 1)
    BY StagesAssumption DEF CleanRun, SInv, IInv, TypeOK, Stage
  <2>. QED
    BY <2>1 DEF CleanRun, SInv, Reported
<1>. QED
  BY <1>1, <1>2, <1>3, PTL DEF Spec

-----------------------------------------------------------------------------
(* Products are up to date.                                                *)

\* Runs that begin at the beginning and in which nothing is raised, on
\* settings that some stage signs.
Orderly ==
    /\ ~LiveEdits /\ ~Failures
    /\ FirstSteps \subseteq {1, 2}
    /\ "drop" \notin EditableKeys

Undisturbed(s) == \A r \in 2..s : r \notin suspect

\* What stage r read of the stage before it is what is there.
Fits(r) ==
    /\ Product[r - 1] \in present
    /\ from[r].files[Product[r - 1]] = stamp[Product[r - 1]]

\* Stages that fit together read the same of what not each of them signs.
Linked ==
    \A s \in 3..Last : Undisturbed(s - 1) /\ (\A r \in 3..s : Fits(r)) =>
        /\ from[s].files["aux1"] = from[s - 1].files["aux1"]
        /\ s = 3 => from[3].keys["filter"] = from[2].keys["filter"]

\* Stamps grow, and a product being written is newer than what was read.
Stamps ==
    /\ \A f \in File : stamp[f] <= clock /\ read.files[f] <= clock
    /\ \A s \in Stage, f \in File : from[s].files[f] <= clock
    /\ \A f \in present : stamp[f] # 0
    /\ pc \in {"write", "commit"} =>
          \A s \in Stage : from[s].files[Product[stage]] # stamp[Product[stage]]

\* What is recorded of a stage is only what it reads.
Shape ==
    /\ \A s \in Stage : /\ \A f \in File \ ReadFiles[s] : from[s].files[f] = 0
                        /\ \A k \in Key \ ReadKeys[s] : from[s].keys[k] = 0
                        /\ from[s].keys["drop"] = 0
    /\ settings["drop"] = 0

\* The files of Stage 1 come together, and a run has them from the start.
Begun ==
    /\ "ps1" \in present <=> "aux1" \in present
    /\ present # {} => "ps1" \in present
    /\ pc = "prepare" => stage = 1
    /\ pc # "idle" => first <= 2
    /\ pc \in {"write", "commit"} => "ps1" \in present /\ read = Derivation(stage)

\* The stages that a run is through with have their products, and unless a
\* write was broken off they are current.
Through ==
    pc \in {"check", "write", "commit"} /\ "ps1" \in present =>
        \A s \in 2..(stage - 1) : /\ Product[s] \in present
                                  /\ Undisturbed(s) => Current(s)

CInv == IInv /\ Linked /\ Stamps /\ Shape /\ Begun /\ Through

\* What the tables say of a stage and the one before it.
LEMMA Tables ==
    ASSUME NEW t \in Stage \ {1}
    PROVE  /\ {"ps1", "aux1"} \subseteq ReadFiles[t]
           /\ t # 2 => Product[t - 1] \in ReadFiles[t] \intersect SignedFiles[t]
           /\ \A f \in ReadFiles[t] : f \in {"ps1", "aux1"} \/ \E r \in 2..(t - 1) : f = Product[r]
           /\ \A f \in ReadFiles[t] \ SignedFiles[t] : f = "aux1" /\ t # 2
           /\ \A k \in ReadKeys[t] \ SignedKeys[t] : k = "drop" \/ (k = "filter" /\ t = 3)
           /\ t = 2 => "filter" \in ReadKeys[t]
           /\ \A k \in SignedKeys[t] : k # "drop"
<1>1. t \in 2..5
  BY StagesAssumption DEF Stage
<1>2. Product[2] = "pm1" /\ Product[3] = "select1" /\ Product[4] = "weed1" /\ Product[5] = "ps2"
  BY DEF Product
<1>3. SignedFiles[2] = {"ps1", "aux1"} /\ SignedFiles[3] = {"ps1", "pm1"}
      /\ SignedFiles[4] = {"ps1", "pm1", "select1"}
      /\ SignedFiles[5] = {"ps1", "aux1", "pm1", "select1", "weed1"}
  BY DEF SignedFiles
<1>4. ReadFiles[2] = {"ps1", "aux1"} /\ ReadFiles[3] = {"ps1", "aux1", "pm1"}
      /\ ReadFiles[4] = {"ps1", "aux1", "select1"}
      /\ ReadFiles[5] = {"ps1", "aux1", "pm1", "select1", "weed1"}
  BY DEF ReadFiles
<1>5. SignedKeys[2] = {"filter"} /\ SignedKeys[3] = {"select"}
      /\ SignedKeys[4] = {"weed"} /\ SignedKeys[5] = {}
  BY DEF SignedKeys
<1>6. ReadKeys[2] = {"filter"} /\ ReadKeys[3] = {"filter", "select", "drop"}
      /\ ReadKeys[4] = {"weed", "drop"} /\ ReadKeys[5] = {}
  BY DEF ReadKeys
<1>7. CASE t = 2
  BY <1>7, <1>3, <1>4, <1>5, <1>6
<1>8. CASE t = 3
  <2>1. Product[t - 1] = "pm1" /\ 2 \in 2..(t - 1)
    BY <1>2, <1>8
  <2>. QED
    BY <2>1, <1>2, <1>8, <1>3, <1>4, <1>5, <1>6
<1>9. CASE t = 4
  <2>1. Product[t - 1] = "select1" /\ 2 \in 2..(t - 1) /\ 3 \in 2..(t - 1)
    BY <1>2, <1>9
  <2>2. /\ {"ps1", "aux1"} \subseteq ReadFiles[t]
        /\ Product[t - 1] \in ReadFiles[t] \intersect SignedFiles[t]
        /\ \A f \in ReadFiles[t] \ SignedFiles[t] : f = "aux1"
    BY <2>1, <1>9, <1>3, <1>4
  <2>3. \A f \in ReadFiles[t] : f \in {"ps1", "aux1"} \/ \E r \in 2..(t - 1) : f = Product[r]
    BY <2>1, <1>2, <1>9, <1>4
  <2>4. /\ \A k \in ReadKeys[t] \ SignedKeys[t] : k = "drop"
        /\ \A k \in SignedKeys[t] : k # "drop"
    BY <1>9, <1>5, <1>6
  <2>. QED
    BY <2>2, <2>3, <2>4, <1>9
<1>10. CASE t = 5
  <2>1. Product[t - 1] = "weed1" /\ 2 \in 2..(t - 1) /\ 3 \in 2..(t - 1) /\ 4 \in 2..(t - 1)
    BY <1>2, <1>10
  <2>2. /\ {"ps1", "aux1"} \subseteq ReadFiles[t]
        /\ Product[t - 1] \in ReadFiles[t] \intersect SignedFiles[t]
        /\ ReadFiles[t] \ SignedFiles[t] = {}
    BY <2>1, <1>10, <1>3, <1>4
  <2>3. \A f \in ReadFiles[t] : f \in {"ps1", "aux1"} \/ \E r \in 2..(t - 1) : f = Product[r]
    BY <2>1, <1>2, <1>10, <1>4
  <2>4. ReadKeys[t] = {} /\ SignedKeys[t] = {}
    BY <1>10, <1>5, <1>6
  <2>. QED
    BY <2>2, <2>3, <2>4, <1>10
<1>. QED
  BY <1>1, <1>7, <1>8, <1>9, <1>10

LEMMA DerivationOf ==
    ASSUME NEW t
    PROVE  /\ \A f \in File : Derivation(t).files[f] = IF f \in ReadFiles[t] THEN stamp[f] ELSE 0
           /\ \A k \in Key : Derivation(t).keys[k] = IF k \in ReadKeys[t] THEN settings[k] ELSE 0
BY DEF Derivation, Restricted

LEMMA SameSource ==
    ASSUME NEW a \in Source, NEW b \in Source,
           \A f \in File : a.files[f] = b.files[f], \A k \in Key : a.keys[k] = b.keys[k]
    PROVE  a = b
<1>1. a.files = b.files /\ a.keys = b.keys
  BY DEF Source
<1>. QED
  BY <1>1 DEF Source

\* Stages up to and with t that are current fit together.
LEMMA CurrentFits ==
    ASSUME IInv, NEW r \in Stage, r - 1 \in Stage \ {1}, Current(r - 1),
           from[r].files[Product[r - 1]] = stamp[Product[r - 1]]
    PROVE  Fits(r)
BY DEF IInv, TypeOK, Current, Fits

(* A stage that is skipped after current ones is current: what it reads    *)
(* and does not sign, the stages before it read in the version of now.     *)
LEMMA CurrentIfSkipped ==
    ASSUME CInv, NEW t \in Stage \ {1}, WouldSkip(t), Undisturbed(t),
           \A s \in 2..(t - 1) : Current(s)
    PROVE  Current(t)
<1>0. TypeOK /\ t \in 2..Last /\ Last \in 2..5
  BY StagesAssumption DEF CInv, IInv, Stage
<1>1. /\ Product[t] \in whole
      /\ \A f \in SignedFiles[t] \intersect ReadFiles[t] : from[t].files[f] = stamp[f]
      /\ \A k \in SignedKeys[t] \intersect ReadKeys[t] : from[t].keys[k] = settings[k]
  <2>1. t \notin suspect
    BY <1>0 DEF Undisturbed
  <2>. QED
    BY <2>1, IInvImplies DEF CInv, ReuseHonest
<1>2. ASSUME t # 2
      PROVE  /\ from[t].files["aux1"] = from[t - 1].files["aux1"]
             /\ t = 3 => from[3].keys["filter"] = from[2].keys["filter"]
  <2>1. t \in 3..Last /\ Undisturbed(t - 1)
    BY <1>0, <1>2 DEF Undisturbed
  <2>2. ASSUME NEW r \in 3..t PROVE Fits(r)
    <3>1. r \in Stage \ {1} /\ r # 2 /\ r - 1 \in Stage \ {1} /\ r - 1 \in 2..(t - 1)
      BY <1>0 DEF Stage
    <3>2. Product[r - 1] \in ReadFiles[r] \intersect SignedFiles[r] /\ Product[r - 1] \in File
      BY <3>1, Tables, Products
    <3>3. from[r].files[Product[r - 1]] = stamp[Product[r - 1]]
      <4>1. CASE r = t
        BY <1>1, <3>2, <4>1
      <4>2. CASE r # t
        <5>1. from[r] = Derivation(r)
          <6>1. r \in 2..(t - 1)
            BY <1>0, <4>2
          <6>. QED
            BY <6>1 DEF Current
        <5>. QED
          BY <3>2, <5>1, DerivationOf
      <4>. QED
        BY <4>1, <4>2
    <3>. QED
      BY <3>1, <3>3, CurrentFits DEF CInv
  <2>. QED
    BY <2>1, <2>2 DEF CInv, Linked
<1>3. ASSUME t # 2 PROVE from[t - 1] = Derivation(t - 1) /\ t - 1 \in Stage \ {1}
  <2>1. t - 1 \in 2..(t - 1) /\ t - 1 \in Stage \ {1}
    BY <1>0, <1>3 DEF Stage
  <2>. QED
    BY <2>1 DEF Current
<1>4. ASSUME NEW f \in File PROVE from[t].files[f] = Derivation(t).files[f]
  <2>1. CASE f \notin ReadFiles[t]
    BY <2>1, DerivationOf DEF CInv, Shape
  <2>2. CASE f \in ReadFiles[t] \intersect SignedFiles[t]
    BY <1>1, <2>2, DerivationOf
  <2>3. CASE f \in ReadFiles[t] \ SignedFiles[t]
    <3>1. f = "aux1" /\ t # 2
      BY <2>3, Tables
    <3>2. "aux1" \in ReadFiles[t - 1]
      BY <1>3, <3>1, Tables
    <3>3. from[t - 1].files["aux1"] = stamp["aux1"]
      BY <1>3, <3>1, <3>2, DerivationOf
    <3>. QED
      BY <1>2, <2>3, <3>1, <3>3, DerivationOf
  <2>. QED
    BY <2>1, <2>2, <2>3
<1>5. ASSUME NEW k \in Key PROVE from[t].keys[k] = Derivation(t).keys[k]
  <2>1. CASE k \notin ReadKeys[t]
    BY <2>1, DerivationOf DEF CInv, Shape
  <2>2. CASE k \in ReadKeys[t] \intersect SignedKeys[t]
    BY <1>1, <2>2, DerivationOf
  <2>3. CASE k = "drop"
    BY <2>3, DerivationOf DEF CInv, Shape
  <2>4. CASE k = "filter" /\ t = 3 /\ k \in ReadKeys[t]
    <3>1. from[2] = Derivation(2) /\ 2 \in Stage \ {1}
      BY <1>3, <2>4
    <3>2. from[2].keys["filter"] = settings["filter"]
      BY <2>4, <3>1, Tables, DerivationOf
    <3>. QED
      BY <1>2, <2>4, <3>2, DerivationOf
  <2>. QED
    BY <2>1, <2>2, <2>3, <2>4, Tables
<1>6. from[t] \in Source /\ Derivation(t) \in Source
  BY <1>0, Sources DEF TypeOK, Derivation
<1>7. from[t] = Derivation(t)
  BY <1>4, <1>5, <1>6, SameSource
<1>. QED
  BY <1>1, <1>7 DEF Current

\* What the steps leave alone.
LEMMA LinkedStable ==
    ASSUME Linked, UNCHANGED <<from, suspect>>,
           \A s \in 2..Last : Product[s] \in present' =>
               Product[s] \in present /\ stamp'[Product[s]] = stamp[Product[s]]
    PROVE  Linked'
<1> SUFFICES ASSUME NEW s \in 3..Last, Undisturbed(s - 1)', \A r \in 3..s : Fits(r)'
             PROVE  /\ from'[s].files["aux1"] = from'[s - 1].files["aux1"]
                    /\ s = 3 => from'[3].keys["filter"] = from'[2].keys["filter"]
  BY DEF Linked
<1>1. Undisturbed(s - 1)
  BY DEF Undisturbed
<1>2. ASSUME NEW r \in 3..s PROVE Fits(r)
  <2>1. r - 1 \in 2..Last
    BY StagesAssumption
  <2>. QED
    BY <2>1 DEF Fits
<1>. QED
  BY <1>1, <1>2 DEF Linked

LEMMA SourceTypes ==
    ASSUME NEW a \in Source, NEW f \in File
    PROVE  a.files[f] \in Nat
BY StagesAssumption DEF Source

LEMMA StampTypes ==
    ASSUME TypeOK
    PROVE  /\ clock \in Nat
           /\ \A f \in File : stamp[f] \in Nat /\ read.files[f] \in Nat
           /\ \A s \in Stage, f \in File : from[s].files[f] \in Nat
<1>1. clock \in Nat /\ \A f \in File : stamp[f] \in Nat
  BY StagesAssumption DEF TypeOK
<1>. QED
  BY <1>1, SourceTypes DEF TypeOK

LEMMA StampsStable ==
    ASSUME TypeOK, Stamps, UNCHANGED <<present, stamp, clock, from>>,
           read' = Nothing, pc' \in {"idle", "check"}
    PROVE  Stamps'
<1>1. \A f \in File : read'.files[f] = 0 /\ 0 <= clock
  BY StagesAssumption DEF Nothing, TypeOK
<1>. QED
  BY <1>1 DEF Stamps

LEMMA CurrentStable ==
    ASSUME NEW s \in Stage \ {1}, Current(s), settings' = settings,
           Product[s] \in whole', from'[s] = from[s],
           \A f \in ReadFiles[s] : stamp'[f] = stamp[f]
    PROVE  Current(s)'
BY SameDerivation DEF Current

LEMMA Early ==
    ASSUME NEW n \in {1, 2}, NEW s \in 2..(n - 1)
    PROVE  FALSE
OBVIOUS

LEMMA PrepareCurrent ==
    ASSUME CInv, Prepare
    PROVE  Linked' /\ Stamps' /\ Shape' /\ Begun' /\ Through'
<1>0. TypeOK /\ Linked /\ Stamps /\ Shape /\ Begun
  BY DEF CInv, IInv
<1>1. Linked'
  <2>1. \A s \in 2..Last : Product[s] \notin {"ps1", "aux1"}
    BY Products DEF Stage
  <2>. QED
    BY <1>0, <2>1, LinkedStable DEF Prepare, TypeOK
<1>2. Stamps'
  <2>1. /\ clock' = clock + 1 /\ pc' = "check" /\ UNCHANGED <<read, from>>
        /\ present' = present \union {"ps1", "aux1"}
        /\ \A f \in File : stamp'[f] = stamp[f] \/ stamp'[f] = clock'
        /\ stamp'["ps1"] = clock' /\ stamp'["aux1"] = clock'
        /\ \A f \in File : f \notin {"ps1", "aux1"} => stamp'[f] = stamp[f]
    BY <1>0 DEF Prepare, TypeOK, File
  <2>2. \A f \in File : stamp'[f] <= clock' /\ read'.files[f] <= clock'
    BY <1>0, <2>1, StampTypes DEF Stamps
  <2>3. \A s \in Stage, f \in File : from'[s].files[f] <= clock'
    BY <1>0, <2>1, StampTypes DEF Stamps
  <2>4. \A f \in present' : stamp'[f] # 0
    BY <1>0, <2>1, StampTypes DEF Stamps, TypeOK
  <2>. QED
    BY <2>1, <2>2, <2>3, <2>4 DEF Stamps
<1>3. Shape'
  BY <1>0 DEF Prepare, Shape
<1>4. Begun'
  BY <1>0 DEF Prepare, Begun
<1>5. Through'
  <2>1. stage' = 1
    BY <1>0 DEF Prepare, Begun
  <2>. QED
    BY <2>1, Early DEF Through
<1>. QED
  BY <1>1, <1>2, <1>3, <1>4, <1>5

LEMMA LeaveCurrent ==
    ASSUME CInv, PrepareFails \/ EndRun \/ Crash
    PROVE  Linked' /\ Stamps' /\ Shape' /\ Begun' /\ Through'
<1>0. TypeOK /\ Linked /\ Stamps /\ Shape /\ Begun
  BY DEF CInv, IInv
<1>1. Leave /\ UNCHANGED <<settings, present, whole, stamp, clock, from, suspect>>
  BY DEF PrepareFails, EndRun, Crash, world
<1>2. Linked'
  BY <1>0, <1>1, LinkedStable
<1>3. Stamps'
  BY <1>0, <1>1, StampsStable DEF Leave
<1>4. Shape' /\ Begun' /\ Through'
  BY <1>0, <1>1 DEF Leave, Shape, Begun, Through
<1>. QED
  BY <1>2, <1>3, <1>4

LEMMA SkipCurrent ==
    ASSUME CInv, Skip
    PROVE  Linked' /\ Stamps' /\ Shape' /\ Begun' /\ Through'
<1>0. TypeOK /\ Linked /\ Stamps /\ Shape /\ Begun /\ Through
  BY DEF CInv, IInv
<1>1. /\ pc = "check" /\ pc' = "check" /\ stage' = stage + 1 /\ read' = Nothing /\ first' = first
      /\ UNCHANGED <<settings, present, whole, stamp, clock, from, suspect>>
      /\ stage \in Stage /\ WouldSkip(stage)
  BY <1>0, StagesAssumption DEF Skip, Advance, world, TypeOK, Stage
<1>2. Linked'
  BY <1>0, <1>1, LinkedStable
<1>3. Stamps'
  BY <1>0, <1>1, StampsStable
<1>4. Shape' /\ Begun'
  BY <1>0, <1>1 DEF Shape, Begun
<1>5. Through'
  <2> SUFFICES ASSUME "ps1" \in present, NEW s \in 2..stage
               PROVE  Product[s] \in present /\ (Undisturbed(s) => Current(s)')
    <3>1. stage' - 1 = stage
      BY <1>1, StagesAssumption DEF Stage
    <3>. QED
      BY <1>1, <3>1 DEF Through, Undisturbed
  <2>1. s \in Stage \ {1}
    BY <1>1, StagesAssumption DEF Stage
  <2>2. CASE s # stage
    <3>1. s \in 2..(stage - 1)
      BY <1>1, <2>2, StagesAssumption DEF Stage
    <3>2. Product[s] \in present /\ (Undisturbed(s) => Current(s))
      BY <1>0, <1>1, <3>1 DEF Through
    <3>3. Current(s) => Product[s] \in whole'
      BY <1>1 DEF Current
    <3>. QED
      BY <1>1, <2>1, <3>2, <3>3, CurrentStable
  <2>3. CASE s = stage
    <3>1. Product[s] \in present
      BY <1>1, <2>3 DEF WouldSkip
    <3>2. ASSUME Undisturbed(s) PROVE Current(s)
      <4>1. ASSUME NEW r \in 2..(s - 1) PROVE Current(r)
        <5>1. Undisturbed(r) /\ r \in 2..(stage - 1)
          BY <2>1, <2>3, <3>2 DEF Undisturbed, Stage
        <5>. QED
          BY <1>0, <1>1, <5>1 DEF Through
      <4>. QED
        BY <1>1, <2>1, <2>3, <3>2, <4>1, CurrentIfSkipped
    <3>3. Current(s) => Product[s] \in whole'
      BY <1>1 DEF Current
    <3>. QED
      BY <1>1, <2>1, <3>1, <3>2, <3>3, CurrentStable
  <2>. QED
    BY <2>2, <2>3
<1>. QED
  BY <1>2, <1>3, <1>4, <1>5

\* Writing the product of stage t, at its beginning or its end.
LEMMA WriteStamps ==
    ASSUME TypeOK, Stamps, NEW t \in Stage \ {1},
           clock' = clock + 1, stamp' = [stamp EXCEPT ![Product[t]] = clock'],
           \A f \in present' : f \in present \/ f = Product[t],
           stage' = t, read' \in Source, from' \in [Stage -> Source],
           \A f \in File : read'.files[f] = 0 \/ read'.files[f] <= clock,
           \A s \in Stage, f \in File : \/ from'[s].files[f] = from[s].files[f]
                                        \/ from'[s].files[f] = 0
                                        \/ from'[s].files[f] <= clock
    PROVE  Stamps'
<1>0. Product[t] \in File /\ clock \in Nat
  BY Products, StampTypes
<1>1. \A f \in File : stamp'[f] = IF f = Product[t] THEN clock + 1 ELSE stamp[f]
  BY <1>0 DEF TypeOK
<1>2. \A f \in File : stamp'[f] <= clock' /\ read'.files[f] <= clock'
  <2>1. \A f \in File : read'.files[f] \in Nat
    BY SourceTypes
  <2>. QED
    BY <1>0, <1>1, <2>1, StampTypes DEF Stamps
<1>3. \A s \in Stage, f \in File : from'[s].files[f] <= clock' /\ from'[s].files[f] # clock + 1
  <2> SUFFICES ASSUME NEW s \in Stage, NEW f \in File
               PROVE  from'[s].files[f] <= clock' /\ from'[s].files[f] # clock + 1
    OBVIOUS
  <2>1. from'[s].files[f] \in Nat /\ from[s].files[f] \in Nat
    BY SourceTypes, StampTypes
  <2>2. from[s].files[f] <= clock
    BY DEF Stamps
  <2>. QED
    BY <1>0, <2>1, <2>2
<1>4. \A f \in present' : stamp'[f] # 0
  BY <1>0, <1>1, StampTypes DEF Stamps, TypeOK
<1>5. \A s \in Stage : from'[s].files[Product[t]] # stamp'[Product[t]]
  BY <1>0, <1>1, <1>3
<1>. QED
  BY <1>2, <1>3, <1>4, <1>5 DEF Stamps

LEMMA WriteThrough ==
    ASSUME TypeOK, Through, NEW t \in Stage \ {1}, t = stage, stage' = stage, settings' = settings,
           pc \in {"check", "write", "commit"}, "ps1" \in present' => "ps1" \in present,
           present \subseteq present',
           stamp' = [stamp EXCEPT ![Product[t]] = clock'], suspect' = suspect \union {t},
           \A s \in Stage \ {1} : s # t => /\ from'[s] = from[s]
                                           /\ Product[s] \in whole => Product[s] \in whole'
    PROVE  Through'
<1> SUFFICES ASSUME "ps1" \in present, NEW s \in 2..(t - 1)
             PROVE  /\ Product[s] \in present'
                    /\ Undisturbed(s)' => Current(s)'
  BY DEF Through
<1>1. s \in Stage \ {1} /\ s # t /\ s \in 1..t
  BY StagesAssumption DEF Stage
<1>2. Product[s] \in present /\ (Undisturbed(s) => Current(s))
  BY DEF Through
<1>3. Undisturbed(s)' => Undisturbed(s)
  BY DEF Undisturbed
<1>4. \A f \in ReadFiles[s] : stamp'[f] = stamp[f]
  <2>1. \A f \in ReadFiles[s] : f \in File /\ f # Product[t]
    BY <1>1, Products, Upstream
  <2>. QED
    BY <2>1 DEF TypeOK
<1>5. Current(s) => Product[s] \in whole'
  BY <1>1 DEF Current
<1>. QED
  BY <1>1, <1>2, <1>3, <1>4, <1>5, CurrentStable

LEMMA BeginCurrent ==
    ASSUME CInv, BeginStage
    PROVE  Linked' /\ Stamps' /\ Shape' /\ Begun' /\ Through'
<1>0. TypeOK /\ Linked /\ Stamps /\ Shape /\ Begun /\ Through
  BY DEF CInv, IInv
<1>1. PICK t \in Stage \ {1} : t = stage
  BY <1>0, StagesAssumption DEF BeginStage, TypeOK, Stage
<1>2. /\ pc = "check" /\ pc' = "write" /\ ReadFiles[t] \subseteq present
      /\ clock' = clock + 1 /\ stamp' = [stamp EXCEPT ![Product[t]] = clock']
      /\ whole' = whole \ {Product[t]} /\ read' = Derivation(t)
      /\ from' = [from EXCEPT ![t] = Nothing] /\ suspect' = suspect \union {t}
      /\ UNCHANGED <<first, stage, settings>>
  BY <1>1 DEF BeginStage
<1>3. Product[t] \in File \ {"ps1", "aux1"} /\ Product[t] \notin ReadFiles[t]
  <2>1. t \in 1..t
    BY <1>1, StagesAssumption DEF Stage
  <2>. QED
    BY <2>1, Products, Upstream
<1>4. present \subseteq present' /\ \A f \in present' : f \in present \/ f = Product[t]
  <2>1. \/ present' = present
        \/ present' = present \union {"ps2"} /\ t = 5
        \/ present' = present \union {Product[t]}
    BY <1>1, Zenon DEF BeginStage
  <2>2. t = 5 => Product[t] = "ps2"
    BY DEF Product
  <2>. QED
    BY <2>1, <2>2
<1>5. Stamps'
  <2>1. \A f \in File : read'.files[f] = 0 \/ read'.files[f] <= clock
    BY <1>0, <1>2, DerivationOf DEF Stamps
  <2>2. \A f \in File : Nothing.files[f] = 0
    BY DEF Nothing
  <2>3. \A s \in Stage, f \in File : from'[s].files[f] = from[s].files[f] \/ from'[s].files[f] = 0
    BY <1>0, <1>2, <2>2 DEF TypeOK
  <2>4. read' \in Source /\ from' \in [Stage -> Source]
    BY StepIInv DEF CInv, IInv, TypeOK, Next, Run
  <2>. QED
    BY <1>0, <1>1, <1>2, <1>4, <2>1, <2>3, <2>4, WriteStamps
<1>6. Linked'
  <2> SUFFICES ASSUME NEW s \in 3..Last, Undisturbed(s - 1)', \A r \in 3..s : Fits(r)'
               PROVE  /\ from'[s].files["aux1"] = from'[s - 1].files["aux1"]
                      /\ s = 3 => from'[3].keys["filter"] = from'[2].keys["filter"]
    BY DEF Linked
  <2>0. s \in Stage \ {1} /\ s - 1 \in Stage \ {1} /\ s - 1 \in 2..(s - 1) /\ s \in 3..s
    BY StagesAssumption DEF Stage
  <2>1. t \notin 2..(s - 1)
    BY <1>2 DEF Undisturbed
  <2>2. s # t
    <3> SUFFICES ASSUME s = t PROVE FALSE
      OBVIOUS
    <3>1. Fits(s)'
      BY <2>0
    <3>2. from'[s].files[Product[s - 1]] = 0 /\ Product[s - 1] \in File
      BY <1>0, <1>2, <2>0, Products DEF TypeOK, Nothing
    <3>3. Product[s - 1] \in present' /\ stamp'[Product[s - 1]] = 0
      BY <3>1, <3>2 DEF Fits
    <3>. QED
      BY <3>3, <1>5 DEF Stamps
  <2>3. from'[s] = from[s] /\ from'[s - 1] = from[s - 1]
    BY <1>0, <1>2, <2>0, <2>1, <2>2 DEF TypeOK
  <2>4. ASSUME NEW r \in 3..s PROVE Fits(r)
    <3>1. r \in Stage /\ r - 1 \in Stage \ {1} /\ r - 1 \in 2..(s - 1) /\ r # t /\ r - 1 # t
      BY <2>0, <2>1, <2>2, StagesAssumption DEF Stage
    <3>2. Product[r - 1] # Product[t] /\ Product[r - 1] \in File
      BY <1>1, <3>1, Products
    <3>3. from'[r] = from[r] /\ stamp'[Product[r - 1]] = stamp[Product[r - 1]]
      BY <1>0, <1>2, <3>1, <3>2 DEF TypeOK
    <3>4. Fits(r)'
      OBVIOUS
    <3>. QED
      BY <1>4, <3>2, <3>3, <3>4 DEF Fits
  <2>5. Undisturbed(s - 1)
    BY <1>2 DEF Undisturbed
  <2>6. s = 3 => from[3].keys["filter"] = from[2].keys["filter"]
    BY <1>0, <2>4, <2>5 DEF Linked
  <2>. QED
    BY <1>0, <2>3, <2>4, <2>5, <2>6 DEF Linked
<1>7. Shape'
  <2>1. \A k \in Key : Nothing.keys[k] = 0
    BY DEF Nothing
  <2>2. \A f \in File : Nothing.files[f] = 0
    BY DEF Nothing
  <2>3. \A s \in Stage : from'[s] = from[s] \/ from'[s] = Nothing
    BY <1>0, <1>2 DEF TypeOK
  <2>4. "drop" \in Key
    BY DEF Key
  <2>. QED
    BY <1>0, <1>2, <2>1, <2>2, <2>3, <2>4 DEF Shape
<1>8. Begun'
  <2>1. {"ps1", "aux1"} \subseteq present
    BY <1>2, Tables
  <2>2. Derivation(t)' = Derivation(t)
    <3>1. \A f \in ReadFiles[t] : f \in File /\ f # Product[t]
      BY <1>1, <1>3, Products
    <3>2. \A f \in ReadFiles[t] : stamp'[f] = stamp[f]
      BY <1>0, <1>2, <3>1 DEF TypeOK
    <3>. QED
      BY <1>2, <3>2, SameDerivation
  <2>3. Derivation(stage)' = Derivation(t)'
    BY <1>1, <1>2 DEF Derivation
  <2>. QED
    BY <1>0, <1>2, <1>4, <2>1, <2>2, <2>3 DEF Begun
<1>9. Through'
  <2>1. \A s \in Stage \ {1} : s # t => /\ from'[s] = from[s]
                                        /\ Product[s] \in whole => Product[s] \in whole'
    BY <1>0, <1>1, <1>2, Products DEF TypeOK
  <2>. QED
    BY <1>0, <1>1, <1>2, <1>3, <1>4, <2>1, WriteThrough
<1>. QED
  BY <1>5, <1>6, <1>7, <1>8, <1>9

LEMMA FinishCurrent ==
    ASSUME CInv, FinishStage
    PROVE  Linked' /\ Stamps' /\ Shape' /\ Begun' /\ Through'
<1>0. TypeOK /\ Linked /\ Stamps /\ Shape /\ Begun /\ Through /\ Running
  BY DEF CInv, IInv
<1>1. PICK t \in Stage \ {1} : t = stage
  BY <1>0, StagesAssumption DEF FinishStage, Running, TypeOK, Stage
<1>2. /\ pc = "write" /\ pc' = "commit" /\ "ps1" \in present
      /\ clock' = clock + 1 /\ stamp' = [stamp EXCEPT ![Product[t]] = clock']
      /\ present' = present \union {Product[t]}
      /\ whole' = whole \union {Product[t]}
      /\ from' = [from EXCEPT ![t] = read] /\ suspect' = suspect /\ t \in suspect
      /\ UNCHANGED <<first, stage, settings, read>>
  BY <1>0, <1>1 DEF FinishStage, Running, Begun
<1>3. read = Derivation(t)
  BY <1>0, <1>1, <1>2 DEF Begun, Derivation
<1>4. Product[t] \in File \ {"ps1", "aux1"} /\ Product[t] \notin ReadFiles[t]
  <2>1. t \in 1..t
    BY <1>1, StagesAssumption DEF Stage
  <2>. QED
    BY <2>1, Products, Upstream
<1>5. Stamps'
  <2>1. \A s \in Stage, f \in File : from'[s].files[f] = from[s].files[f] \/ from'[s].files[f] <= clock
    BY <1>0, <1>2 DEF Stamps, TypeOK
  <2>2. read' \in Source /\ from' \in [Stage -> Source]
    BY <1>0, <1>2 DEF TypeOK
  <2>. QED
    BY <1>0, <1>1, <1>2, <2>1, <2>2, WriteStamps DEF Stamps
<1>6. Linked'
  <2> SUFFICES ASSUME NEW s \in 3..Last, Undisturbed(s - 1)', \A r \in 3..s : Fits(r)'
               PROVE  /\ from'[s].files["aux1"] = from'[s - 1].files["aux1"]
                      /\ s = 3 => from'[3].keys["filter"] = from'[2].keys["filter"]
    BY DEF Linked
  <2>0. s \in Stage \ {1} /\ s - 1 \in Stage \ {1} /\ s - 1 \in 2..(s - 1)
    BY StagesAssumption DEF Stage
  <2>1. t \notin 2..(s - 1)
    BY <1>2 DEF Undisturbed
  <2>2. s - 1 # t /\ from'[s - 1] = from[s - 1]
    BY <1>0, <1>2, <2>0, <2>1 DEF TypeOK
  <2>3. Undisturbed(s - 1)
    BY <1>2 DEF Undisturbed
  <2>4. CASE s # t
    <3>1. ASSUME NEW r \in 3..s PROVE Fits(r)
      <4>1. r \in Stage /\ r - 1 \in Stage \ {1} /\ r # t /\ r - 1 # t
        BY <2>0, <2>1, <2>4, StagesAssumption DEF Stage
      <4>2. Product[r - 1] # Product[t] /\ Product[r - 1] \in File
        BY <1>1, <4>1, Products
      <4>3. from'[r] = from[r] /\ stamp'[Product[r - 1]] = stamp[Product[r - 1]]
        BY <1>0, <1>2, <4>1, <4>2 DEF TypeOK
      <4>4. Fits(r)'
        OBVIOUS
      <4>. QED
        BY <1>2, <4>2, <4>3, <4>4 DEF Fits
    <3>2. from'[s] = from[s]
      BY <1>0, <1>2, <2>0, <2>4 DEF TypeOK
    <3>3. s = 3 => from'[2] = from[2] /\ from'[3] = from[3]
      BY <2>2, <3>2
    <3>. QED
      BY <1>0, <2>2, <2>3, <3>1, <3>2, <3>3 DEF Linked
  <2>5. CASE s = t
    <3>1. from[s - 1] = Derivation(s - 1)
      <4>1. Current(s - 1)
        <5>1. s - 1 \in 2..(stage - 1)
          BY <1>1, <2>0, <2>5
        <5>. QED
          BY <1>0, <1>2, <2>3, <5>1 DEF Through
      <4>. QED
        BY <4>1 DEF Current
    <3>2. from'[s] = Derivation(s)
      BY <1>0, <1>2, <1>3, <2>0, <2>5 DEF TypeOK
    <3>3. "aux1" \in ReadFiles[s] /\ "aux1" \in ReadFiles[s - 1] /\ "aux1" \in File
      BY <2>0, Tables DEF File
    <3>4. from'[s].files["aux1"] = from'[s - 1].files["aux1"]
      BY <2>2, <3>1, <3>2, <3>3, DerivationOf
    <3>5. ASSUME s = 3 PROVE from'[3].keys["filter"] = from'[2].keys["filter"]
      <4>1. "filter" \in ReadKeys[3] /\ "filter" \in ReadKeys[2] /\ "filter" \in Key
        BY DEF ReadKeys, Key
      <4>. QED
        BY <2>2, <3>1, <3>2, <3>5, <4>1, DerivationOf
    <3>. QED
      BY <3>4, <3>5
  <2>. QED
    BY <2>4, <2>5
<1>7. Shape'
  <2>1. \A s \in Stage : from'[s] = IF s = t THEN Derivation(t) ELSE from[s]
    BY <1>0, <1>2, <1>3 DEF TypeOK
  <2>2. "drop" \in Key
    BY DEF Key
  <2>3. ASSUME NEW s \in Stage
        PROVE  /\ \A f \in File \ ReadFiles[s] : from'[s].files[f] = 0
               /\ \A k \in Key \ ReadKeys[s] : from'[s].keys[k] = 0
               /\ from'[s].keys["drop"] = 0
    <3>1. CASE s = t
      BY <1>0, <2>1, <2>2, <3>1, DerivationOf DEF Shape
    <3>2. CASE s # t
      BY <1>0, <2>1, <3>2 DEF Shape
    <3>. QED
      BY <3>1, <3>2
  <2>. QED
    BY <1>0, <1>2, <2>3 DEF Shape
<1>8. Begun'
  <2>1. Derivation(t)' = Derivation(t)
    <3>1. \A f \in ReadFiles[t] : f \in File /\ f # Product[t]
      BY <1>1, <1>4, Products
    <3>2. \A f \in ReadFiles[t] : stamp'[f] = stamp[f]
      BY <1>0, <1>2, <3>1 DEF TypeOK
    <3>. QED
      BY <1>2, <3>2, SameDerivation
  <2>2. Derivation(stage)' = Derivation(t)'
    BY <1>1, <1>2 DEF Derivation
  <2>. QED
    BY <1>0, <1>2, <1>3, <1>4, <2>1, <2>2 DEF Begun
<1>9. Through'
  <2>1. \A s \in Stage \ {1} : s # t => /\ from'[s] = from[s]
                                        /\ Product[s] \in whole => Product[s] \in whole'
    BY <1>0, <1>1, <1>2, Products DEF TypeOK
  <2>2. suspect' = suspect \union {t}
    BY <1>2
  <2>. QED
    BY <1>0, <1>1, <1>2, <1>4, <2>1, <2>2, WriteThrough
<1>. QED
  BY <1>5, <1>6, <1>7, <1>8, <1>9

LEMMA CommitCurrent ==
    ASSUME CInv, Commit
    PROVE  Linked' /\ Stamps' /\ Shape' /\ Begun' /\ Through'
<1>0. TypeOK /\ Linked /\ Stamps /\ Shape /\ Begun /\ Through /\ Running
  BY DEF CInv, IInv
<1>1. PICK t \in Stage \ {1} : t = stage
  BY <1>0, StagesAssumption DEF Commit, Running, TypeOK, Stage
<1>2. /\ pc = "commit" /\ pc' = "check" /\ "ps1" \in present /\ read' = Nothing
      /\ read = Derivation(t) /\ from[t] = Derivation(t) /\ Product[t] \in whole
      /\ suspect' = suspect \ {t} /\ stage' = t + 1
      /\ UNCHANGED <<first, settings, present, whole, stamp, clock, from>>
  <2>1. read = Derivation(t) /\ read = Derivation(stage)
    BY <1>0, <1>1 DEF Commit, Begun, Derivation
  <2>. QED
    BY <1>0, <1>1, <2>1 DEF Commit, Advance, Running, Begun, world
<1>3. Linked'
  <2> SUFFICES ASSUME NEW s \in 3..Last, Undisturbed(s - 1)', \A r \in 3..s : Fits(r)'
               PROVE  /\ from'[s].files["aux1"] = from'[s - 1].files["aux1"]
                      /\ s = 3 => from'[3].keys["filter"] = from'[2].keys["filter"]
    BY DEF Linked
  <2>1. \A r \in 3..s : Fits(r)
    BY <1>2 DEF Fits
  <2>2. t \notin 2..(s - 1)
    <3> SUFFICES ASSUME t \in 2..(s - 1) PROVE FALSE
      OBVIOUS
    <3>1. t + 1 \in 3..s /\ t + 1 \in Stage /\ (t + 1) - 1 = t
      BY StagesAssumption DEF Stage
    <3>2. from[t + 1].files[Product[t]] = stamp[Product[t]]
      BY <2>1, <3>1 DEF Fits
    <3>. QED
      BY <1>0, <1>1, <1>2, <3>1, <3>2 DEF Stamps
  <2>3. Undisturbed(s - 1)
    BY <1>2, <2>2 DEF Undisturbed
  <2>. QED
    BY <1>0, <1>2, <2>1, <2>3 DEF Linked
<1>4. Stamps'
  BY <1>0, <1>2, StampsStable
<1>5. Shape' /\ Begun'
  BY <1>0, <1>2 DEF Shape, Begun
<1>6. Through'
  <2>0. stage' - 1 = t
    BY <1>2, StagesAssumption DEF Stage
  <2> SUFFICES ASSUME NEW s \in 2..t
               PROVE  Product[s] \in present /\ (Undisturbed(s)' => Current(s)')
    BY <1>2, <2>0 DEF Through
  <2>1. s \in Stage \ {1}
    BY StagesAssumption DEF Stage
  <2>2. CASE s # t
    <3>1. s \in 2..(stage - 1)
      BY <1>1, <2>2, StagesAssumption DEF Stage
    <3>2. Product[s] \in present /\ (Undisturbed(s) => Current(s))
      BY <1>0, <1>2, <3>1 DEF Through
    <3>3. Undisturbed(s)' => Undisturbed(s)
      BY <1>2, <2>2, StagesAssumption DEF Undisturbed, Stage
    <3>4. Current(s) => Product[s] \in whole'
      BY <1>2 DEF Current
    <3>. QED
      BY <1>2, <2>1, <3>2, <3>3, <3>4, CurrentStable
  <2>3. CASE s = t
    <3>1. Current(t) /\ Product[t] \in present
      BY <1>0, <1>2 DEF Current, TypeOK
    <3>. QED
      BY <1>2, <2>1, <2>3, <3>1, CurrentStable
  <2>. QED
    BY <2>2, <2>3
<1>. QED
  BY <1>3, <1>4, <1>5, <1>6

\* Without failures a stage raises only when its inputs are missing, and
\* after Stage 1 they never are.
LEMMA FailCurrent ==
    ASSUME CInv, FailStage, ~Failures
    PROVE  Linked' /\ Stamps' /\ Shape' /\ Begun' /\ Through'
<1>0. TypeOK /\ Linked /\ Stamps /\ Shape /\ Begun /\ Through
  BY DEF CInv, IInv
<1>1. /\ pc = "check" /\ pc' = "check" /\ read' = Nothing
      /\ ~ ReadFiles[stage] \subseteq present /\ stage \in Stage
      /\ UNCHANGED <<first, settings, present, whole, stamp, clock, from, suspect>>
  BY <1>0, StagesAssumption DEF FailStage, Advance, world, TypeOK, Stage
<1>2. Linked'
  BY <1>0, <1>1, LinkedStable
<1>3. Stamps'
  BY <1>0, <1>1, StampsStable
<1>4. Shape' /\ Begun'
  BY <1>0, <1>1 DEF Shape, Begun
<1>5. "ps1" \notin present
  <2> SUFFICES ASSUME "ps1" \in present PROVE FALSE
    OBVIOUS
  <2>1. stage \in Stage \ {1}
    BY <1>1 DEF ReadFiles
  <2>2. PICK f \in ReadFiles[stage] : f \notin present
    BY <1>1
  <2>3. f \notin {"ps1", "aux1"}
    BY <1>0, <2>2 DEF Begun
  <2>4. PICK r \in 2..(stage - 1) : f = Product[r]
    BY <2>1, <2>2, <2>3, Tables
  <2>. QED
    BY <1>0, <1>1, <2>2, <2>4 DEF Through
<1>6. Through'
  BY <1>1, <1>5 DEF Through
<1>. QED
  BY <1>2, <1>3, <1>4, <1>6

LEMMA UserCurrent ==
    ASSUME CInv, User, Orderly
    PROVE  Linked' /\ Stamps' /\ Shape' /\ Begun' /\ Through'
<1>0. TypeOK /\ Linked /\ Stamps /\ Shape /\ Begun
  BY DEF CInv, IInv
<1>1. ASSUME NEW i \in FirstSteps, NEW j \in Stage, StartRun(i, j)
      PROVE  Linked' /\ Stamps' /\ Shape' /\ Begun' /\ Through'
  <2>1. /\ stage' = i /\ first' = i /\ i \in {1, 2} /\ pc' \in {"prepare", "check"}
        /\ pc' = "prepare" => i = 1
        /\ UNCHANGED <<settings, present, whole, stamp, clock, from, read, suspect>>
    BY <1>1 DEF StartRun, world, Orderly
  <2>2. Linked'
    BY <1>0, <2>1, LinkedStable
  <2>3. Stamps'
    BY <1>0, <2>1 DEF Stamps
  <2>4. Shape' /\ Begun'
    BY <1>0, <2>1 DEF Shape, Begun
  <2>5. Through'
    BY <2>1, Early DEF Through
  <2>. QED
    BY <2>2, <2>3, <2>4, <2>5
<1>2. ASSUME NEW k \in EditableKeys, EditSetting(k)
      PROVE  Linked' /\ Stamps' /\ Shape' /\ Begun' /\ Through'
  <2>1. /\ pc = "idle" /\ k # "drop" /\ settings' = [settings EXCEPT ![k] = 1 - @]
        /\ UNCHANGED <<pc, present, stamp, clock, from, read, suspect>>
    BY <1>2 DEF EditSetting, Orderly
  <2>2. Linked'
    BY <1>0, <2>1, LinkedStable
  <2>3. Stamps'
    BY <1>0, <2>1 DEF Stamps
  <2>4. settings'["drop"] = 0
    BY <1>0, <2>1 DEF Shape, TypeOK
  <2>5. Shape' /\ Begun' /\ Through'
    BY <1>0, <2>1, <2>4 DEF Shape, Begun, Through
  <2>. QED
    BY <2>2, <2>3, <2>5
<1>3. ASSUME NEW group \in {{"ps1", "aux1"}, {"aux1"}}, ReplaceStage1(group)
      PROVE  Linked' /\ Stamps' /\ Shape' /\ Begun' /\ Through'
  <2>1. /\ pc = "idle" /\ clock' = clock + 1
        /\ \A f \in File : stamp'[f] = IF f \in group THEN clock' ELSE stamp[f]
        /\ UNCHANGED <<pc, settings, present, whole, from, read, suspect>>
    BY <1>3 DEF ReplaceStage1
  <2>2. Linked'
    <3>1. \A s \in 2..Last : Product[s] \notin group /\ Product[s] \in File
      BY Products DEF Stage
    <3>. QED
      BY <1>0, <2>1, <3>1, LinkedStable
  <2>3. Stamps'
    <3>1. \A f \in File : stamp'[f] <= clock' /\ read'.files[f] <= clock'
      BY <1>0, <2>1, StampTypes DEF Stamps
    <3>2. \A s \in Stage, f \in File : from'[s].files[f] <= clock'
      BY <1>0, <2>1, StampTypes DEF Stamps
    <3>3. \A f \in present' : stamp'[f] # 0
      BY <1>0, <2>1, StampTypes DEF Stamps, TypeOK
    <3>. QED
      BY <2>1, <3>1, <3>2, <3>3 DEF Stamps
  <2>4. Shape' /\ Begun' /\ Through'
    BY <1>0, <2>1 DEF Shape, Begun, Through
  <2>. QED
    BY <2>2, <2>3, <2>4
<1>4. ASSUME NEW s \in Stage \ {1}, DeleteOutput(s)
      PROVE  Linked' /\ Stamps' /\ Shape' /\ Begun' /\ Through'
  <2>1. /\ pc = "idle" /\ present' = present \ {Product[s]}
        /\ stamp' = [stamp EXCEPT ![Product[s]] = 0]
        /\ UNCHANGED <<pc, settings, clock, from, read, suspect>>
    BY <1>4 DEF DeleteOutput
  <2>2. Product[s] \notin {"ps1", "aux1"} /\ Product[s] \in File
    BY Products
  <2>3. Linked'
    <3>1. \A r \in 2..Last : Product[r] \in File
      BY Products DEF Stage
    <3>. QED
      BY <1>0, <2>1, <2>2, <3>1, LinkedStable DEF TypeOK
  <2>4. Stamps'
    <3>1. \A f \in File : stamp'[f] = IF f = Product[s] THEN 0 ELSE stamp[f]
      BY <1>0, <2>1, <2>2 DEF TypeOK
    <3>2. \A f \in File : stamp'[f] <= clock /\ read'.files[f] <= clock
      BY <1>0, <2>1, <3>1, StampTypes DEF Stamps
    <3>3. \A f \in present' : stamp'[f] # 0
      BY <1>0, <2>1, <3>1 DEF Stamps, TypeOK
    <3>. QED
      BY <1>0, <2>1, <3>2, <3>3 DEF Stamps
  <2>5. Shape' /\ Begun' /\ Through'
    BY <1>0, <2>1, <2>2 DEF Shape, Begun, Through
  <2>. QED
    BY <2>3, <2>4, <2>5
<1>. QED
  BY <1>1, <1>2, <1>3, <1>4 DEF User

LEMMA InitCurrent ==
    ASSUME Init
    PROVE  Linked /\ Stamps /\ Shape /\ Begun /\ Through
<1>1. \A f \in File : Nothing.files[f] = 0 /\ stamp[f] = 0
  BY DEF Init, Nothing
<1>2. \A k \in Key : Nothing.keys[k] = 0
  BY DEF Nothing
<1>3. \A s \in Stage : from[s] = Nothing
  BY DEF Init
<1>4. Linked
  <2>1. \A s \in 3..Last : s - 1 \in 2..Last /\ s - 1 \in Stage /\ 3 \in 3..s
    BY StagesAssumption DEF Stage
  <2>2. ASSUME NEW s \in 3..Last, \A r \in 3..s : Fits(r) PROVE FALSE
    BY <2>1, <2>2 DEF Fits, Init
  <2>. QED
    BY <2>2 DEF Linked
<1>5. Stamps
  BY <1>1, <1>3 DEF Init, Stamps
<1>6. Shape
  <2>1. "drop" \in Key
    BY DEF Key
  <2>. QED
    BY <1>1, <1>2, <1>3, <2>1 DEF Init, Shape
<1>7. Begun /\ Through
  BY DEF Init, Begun, Through
<1>. QED
  BY <1>4, <1>5, <1>6, <1>7

(* After an orderly run every product is up to date, stage 3's too, which  *)
(* reads files and settings that only stage 2 signs.  Orderly says what    *)
(* the guarantee rests on: runs begin with stage 1 or 2, no stage raises,  *)
(* nobody edits during a run, and drop_ifg_index, which no stage signs,    *)
(* stays as it is.                                                         *)
THEOREM UpToDate == Orderly => (Spec => []FullRunCurrent)
<1> SUFFICES ASSUME Orderly PROVE Spec => []FullRunCurrent
  OBVIOUS
<1>1. Init => CInv
  BY InitIInv, InitCurrent DEF CInv
<1>2. CInv /\ [Next]_vars => CInv'
  <2> SUFFICES ASSUME CInv, [Next]_vars PROVE CInv'
    OBVIOUS
  <2>1. IInv'
    BY StepIInv DEF CInv
  <2>2. CASE Run \/ Crash \/ User
    BY <2>1, <2>2, PrepareCurrent, LeaveCurrent, SkipCurrent, BeginCurrent, FinishCurrent,
       CommitCurrent, FailCurrent, UserCurrent DEF CInv, Run, Orderly
  <2>3. CASE UNCHANGED vars
    BY <2>1, <2>3 DEF CInv, Linked, Undisturbed, Fits, Stamps, Shape, Begun, Through, Current,
       Derivation, Restricted, vars, world
  <2>. QED
    BY <2>2, <2>3 DEF Next
<1>3. CInv /\ RerunSkips => FullRunCurrent
  <2> SUFFICES ASSUME CInv, RerunSkips, CleanRun, first <= 2, NEW s \in 2..last
               PROVE  Current(s)
    BY DEF FullRunCurrent
  <2>0. TypeOK /\ Begun /\ Through
    BY DEF CInv, IInv
  <2>1. /\ s \in first..last /\ s \in 2..(stage - 1)
        /\ \A r \in 2..s : r \in first..last
    BY <2>0, StagesAssumption DEF CleanRun, TypeOK, Stage
  <2>2. Undisturbed(s)
    BY <2>1 DEF CleanRun, Undisturbed
  <2>3. "ps1" \in present
    BY <2>0, <2>1 DEF RerunSkips, WouldSkip, Begun
  <2>. QED
    BY <2>0, <2>1, <2>2, <2>3 DEF CleanRun, Through
<1>4. Spec => []RerunSkips
  BY Repeated DEF Orderly
<1>. QED
  BY <1>1, <1>2, <1>3, <1>4, PTL DEF Spec

-----------------------------------------------------------------------------
(* The checkpoint of stage 6.                                              *)

\* The run has the maps open, and they are those of its inputs.
Working == Filtering \union {"judge", "own", "built"}

\* The operations of Remake are done in order: a file that was unlinked is
\* absent until it is created again, and so is meta.json until Plan.
Opening ==
    at = "open" =>
        /\ script \in 2..5 => "phase" \notin files
        /\ script \in 6..8 => "phase" \in files
        /\ script \in 3..6 => "low" \notin files
        /\ script \in 7..8 => "low" \in files
        /\ script \in 4..7 => "done" \notin files
        /\ script = 8 => "done" \in files
        /\ script \in 5..7 => meta = 0
        /\ script = 8 => /\ Filtered(now) \in made
                         /\ \A c \in made : c.shape = now.shape
                         /\ meta \in {0, now.shape}

Signed ==
    /\ at \in Working => files = MapFiles /\ meta = now.shape /\ Filtered(now) \in made
    /\ files = MapFiles /\ meta # 0 => \A c \in made : c.shape = meta
    /\ files # {} => made # {}

\* A flag never says more than the columns do, in memory and on the disk.
Durable ==
    files = MapFiles /\ OneSource =>
        \A c \in made : \A i \in Ifg :
            kept.done[i] \/ disk.done[i] => kept.col[i] = c /\ disk.col[i] = c

\* What the run has in its own flags is filtered from its inputs; when the
\* flags are about to be written, the columns are on the disk.
Progress ==
    /\ at \in Filtering /\ OneSource => \A i \in state : kept.col[i] = Filtered(now)
    /\ at = "mark" => disk.col = kept.col
    /\ at = "judge" /\ OneSource => \A i \in Ifg : kept.col[i] = Filtered(now)

\* No interferogram is forgotten.
Covered ==
    /\ at \in Filtering => \A i \in Ifg : i \in state \/ \E B \in pending : i \in B
    /\ at \in {"flush", "mark", "sync"} /\ after = "judge" => pending = {}

GridInv == GridTypeOK /\ Opening /\ Signed /\ Durable /\ Progress /\ Covered

-----------------------------------------------------------------------------
\* Columns are told apart by their three fields.
LEMMA SameColumn ==
    ASSUME NEW c \in Column, NEW d \in Column,
           c.shape = d.shape, c.phases = d.phases, c.net = d.net
    PROVE  c = d
BY GridAssumption DEF Column, Torn

LEMMA FilteredIsColumn ==
    ASSUME NEW in \in Input
    PROVE  /\ Filtered(in) \in Column
           /\ Filtered(in).shape = in.shape
           /\ Filtered(in).phases = in.phases
           /\ Filtered(in).net = in.net
BY DEF Filtered, Input, Column

\* While a run works, and the maps were written for one set of phases only,
\* everything was made from its inputs.
LEMMA OneColumn ==
    ASSUME GridInv, at \in Working, OneSource, NEW c \in made
    PROVE  c = Filtered(now)
<1>1. c \in Column /\ Filtered(now) \in Column /\ Filtered(now) \in made
  BY FilteredIsColumn DEF GridInv, GridTypeOK, Signed
<1>2. now.shape # 0 /\ c.shape = now.shape /\ Filtered(now).shape = now.shape
  BY FilteredIsColumn, GridAssumption DEF GridInv, GridTypeOK, Input, Signed
<1>3. c.phases = Filtered(now).phases /\ c.net = Filtered(now).net
  BY <1>1 DEF OneSource
<1>4. QED
  BY <1>1, <1>2, <1>3, SameColumn

LEMMA ChoiceType ==
    ASSUME NEW n \in Versions, NEW q \in Versions, NEW p \in BOOLEAN, NEW o \in BOOLEAN
    PROVE  [net |-> n, qc |-> q, provenance |-> p, ok |-> o]
           \in [net : Versions, qc : Versions, provenance : BOOLEAN, ok : BOOLEAN]
OBVIOUS

LEMMA InitGridInv == GridInit => GridInv
<1> SUFFICES ASSUME GridInit PROVE GridInv
  OBVIOUS
<1>1. GridTypeOK
  <2>1. now \in Input /\ drops \in List
    BY GridAssumption DEF GridInit, Input, List
  <2>2. kept \in Maps /\ disk \in Maps
    BY DEF GridInit, Maps, Column
  <2>3. chosen \in [net : Versions, qc : Versions, provenance : BOOLEAN, ok : BOOLEAN] \union {NoChoice}
    <3>1. CASE chosen = NoChoice
      BY <3>1
    <3>2. CASE chosen = [net |-> 1, qc |-> 1, provenance |-> FALSE, ok |-> TRUE]
      BY <3>2, GridAssumption, ChoiceType
    <3>3. QED
      BY <3>1, <3>2 DEF GridInit
  <2>4. edits \in 0..MaxEdits /\ stops \in 0..MaxStops
    BY GridAssumption DEF GridInit
  <2>5. QED
    BY <2>1, <2>2, <2>3, <2>4 DEF GridInit, GridTypeOK, Opened
<1>2. Opening /\ Signed /\ Durable /\ Progress /\ Covered
  BY DEF GridInit, Opening, Signed, Durable, Progress, Covered, Working, Filtering, MapFiles
<1>3. QED
  BY <1>1, <1>2 DEF GridInv

LEMMA EditStep == GridInv /\ Edit => GridInv'
<1> SUFFICES ASSUME GridInv, Edit PROVE GridInv'
  OBVIOUS
<1>1. GridTypeOK'
  BY GridAssumption DEF Edit, GridInv, GridTypeOK, gridVars, runVars, Input
<1>2. (Opening /\ Signed /\ Durable /\ Progress /\ Covered)'
  BY GridAssumption DEF Edit, GridInv, Opening, Signed, Durable, Progress, Covered, Working, Filtering, OneSource, gridVars, runVars
<1>. QED
  BY <1>1, <1>2 DEF GridInv

LEMMA BeginStep == GridInv /\ (\E m \in Modes : Begin(m)) => GridInv'
<1> SUFFICES ASSUME GridInv, NEW m \in Modes, Begin(m) PROVE GridInv'
  OBVIOUS
<1>1. GridTypeOK'
  BY GridAssumption DEF Begin, GridInv, GridTypeOK, gridVars, runVars, Resolved, Restored, List, NoChoice, ProvenanceCurrent, Input
<1>2. (Opening /\ Signed /\ Durable /\ Progress /\ Covered)'
  BY GridAssumption DEF Begin, GridInv, Opening, Signed, Durable, Progress, Covered, Working, Filtering, OneSource, gridVars, runVars, MapFiles
<1>. QED
  BY <1>1, <1>2 DEF GridInv

LEMMA UnlinkStep == GridInv /\ Unlink => GridInv'
<1> SUFFICES ASSUME GridInv, Unlink PROVE GridInv'
  OBVIOUS
<1>0. script' \in 1..Opened /\ files' \subseteq MapFiles /\ meta' \in Versions \union {0}
  BY DEF Unlink, GridInv, GridTypeOK, Opened
<1>1. GridTypeOK'
  BY <1>0 DEF Unlink, GridInv, GridTypeOK, Filtering
<1>2. (Opening /\ Signed /\ Durable /\ Progress /\ Covered)'
  BY GridAssumption DEF Unlink, GridInv, Opening, Signed, Durable, Progress, Covered, Working, Filtering, OneSource, gridVars, runVars, Opened, Remake, MapFiles, GridTypeOK
<1>. QED
  BY <1>1, <1>2 DEF GridInv

LEMMA LastCheckpointStep == GridInv /\ LastCheckpoint => GridInv'
<1> SUFFICES ASSUME GridInv, LastCheckpoint PROVE GridInv'
  OBVIOUS
<1>1. GridTypeOK'
  BY GridAssumption DEF LastCheckpoint, GridInv, GridTypeOK, Filtering, gridVars, runVars, Input, List, NoChoice, Maps
<1>2. (Opening /\ Signed /\ Durable /\ Progress /\ Covered)'
  BY GridAssumption DEF LastCheckpoint, GridInv, Opening, Signed, Durable, Progress, Covered, Working, Filtering, OneSource, gridVars, runVars, MapFiles
<1>. QED
  BY <1>1, <1>2 DEF GridInv

LEMMA JudgeStep == GridInv /\ Judge => GridInv'
<1> SUFFICES ASSUME GridInv, Judge PROVE GridInv'
  OBVIOUS
<1>0. chosen' \in [net : Versions, qc : Versions, provenance : BOOLEAN, ok : BOOLEAN] \union {NoChoice}
  <2>1. CASE mode.final
    <3>1. now.net \in Versions /\ now.qc \in Versions
      BY DEF GridInv, GridTypeOK, Input
    <3>2. chosen' = [net |-> now.net, qc |-> now.qc, provenance |-> TRUE, ok |-> TRUE]
      BY <2>1 DEF Judge
    <3>. QED
      BY <3>1, <3>2, ChoiceType
  <2>2. CASE ~mode.final
    BY <2>2 DEF Judge, GridInv, GridTypeOK
  <2>. QED
    BY <2>1, <2>2
<1>1. GridTypeOK'
  BY <1>0 DEF Judge, GridInv, GridTypeOK, Filtering, gridVars, runVars
<1>2. (Opening /\ Signed /\ Durable /\ Progress /\ Covered)'
  BY GridAssumption DEF Judge, GridInv, Opening, Signed, Durable, Progress, Covered, Working, Filtering, OneSource, gridVars, runVars, MapFiles
<1>. QED
  BY <1>1, <1>2 DEF GridInv

LEMMA JudgeRaisesStep == GridInv /\ JudgeRaises => GridInv'
<1> SUFFICES ASSUME GridInv, JudgeRaises PROVE GridInv'
  OBVIOUS
<1>1. GridTypeOK'
  BY GridAssumption DEF JudgeRaises, GridInv, GridTypeOK, gridVars, runVars, Forgotten, Opened, Input, List, NoChoice, Maps
<1>2. (Opening /\ Signed /\ Durable /\ Progress /\ Covered)'
  BY GridAssumption DEF JudgeRaises, GridInv, Opening, Signed, Durable, Progress, Covered, Working, Filtering, OneSource, gridVars, runVars, Forgotten, Opened, MapFiles
<1>. QED
  BY <1>1, <1>2 DEF GridInv

LEMMA OwnStep == GridInv /\ Own => GridInv'
<1> SUFFICES ASSUME GridInv, Own PROVE GridInv'
  OBVIOUS
<1>1. GridTypeOK'
  BY GridAssumption DEF Own, GridInv, GridTypeOK, gridVars, runVars, Input, List, NoChoice, Maps
<1>2. (Opening /\ Signed /\ Durable /\ Progress /\ Covered)'
  BY GridAssumption DEF Own, GridInv, Opening, Signed, Durable, Progress, Covered, Working, Filtering, OneSource, gridVars, runVars, MapFiles
<1>. QED
  BY <1>1, <1>2 DEF GridInv

LEMMA FinishStep == GridInv /\ Finish => GridInv'
<1> SUFFICES ASSUME GridInv, Finish PROVE GridInv'
  OBVIOUS
<1>1. GridTypeOK'
  BY GridAssumption DEF Finish, GridInv, GridTypeOK, gridVars, runVars, Forgotten, Opened, Input, List, NoChoice, Maps
<1>2. (Opening /\ Signed /\ Durable /\ Progress /\ Covered)'
  BY GridAssumption DEF Finish, GridInv, Opening, Signed, Durable, Progress, Covered, Working, Filtering, OneSource, gridVars, runVars, Forgotten, Opened, MapFiles
<1>. QED
  BY <1>1, <1>2 DEF GridInv

LEMMA FlushStep == GridInv /\ Flush => GridInv'
<1> SUFFICES ASSUME GridInv, Flush PROVE GridInv'
  OBVIOUS
<1>1. GridTypeOK'
  BY GridAssumption DEF Flush, GridInv, GridTypeOK, Filtering, gridVars, runVars, Maps
<1>2. (Opening /\ Signed /\ Durable /\ Progress /\ Covered)'
  BY GridAssumption DEF Flush, GridInv, Opening, Signed, Durable, Progress, Covered, Working, Filtering, OneSource, gridVars, runVars, MapFiles
<1>. QED
  BY <1>1, <1>2 DEF GridInv

\* When the maps are opened again, Look adds the column of now, and with one
\* source that is the column the maps were made with.
LEMMA LookStep == GridInv /\ Look => GridInv'
<1> SUFFICES ASSUME GridInv, Look PROVE GridInv'
  OBVIOUS
<1>0. /\ Filtered(now) \in Column /\ Filtered(now).shape = now.shape
      /\ now.shape \in Versions /\ now.shape # 0 /\ now' = now /\ Filtered(now)' = Filtered(now)
  BY FilteredIsColumn, GridAssumption DEF GridInv, GridTypeOK, Input, Look, Filtered
<1>1. GridTypeOK'
  BY GridAssumption, <1>0 DEF Look, GridInv, GridTypeOK, Filtering, gridVars, runVars, Opened
<1>2. (Opening /\ Signed /\ Progress /\ Covered)'
  BY <1>0 DEF Look, CanResume, GridInv, Opening, Signed, Progress, Covered, Working, Filtering, gridVars, runVars, Opened, MapFiles
<1>3. Durable'
  <2> SUFFICES ASSUME files = MapFiles, OneSource', NEW c \in made', NEW i \in Ifg,
                      kept.done[i] \/ disk.done[i]
               PROVE  kept.col[i] = c /\ disk.col[i] = c
    BY DEF Durable, Look, gridVars
  <2>1. made \subseteq made' /\ OneSource
    BY DEF Look, OneSource
  <2>2. c \in made
    <3>1. CASE c = Filtered(now) /\ CanResume
      <4>1. PICK d \in made : TRUE
        BY <3>1 DEF GridInv, Signed, MapFiles
      <4>2. d \in Column /\ d.shape = now.shape
        BY <1>0, <3>1 DEF GridInv, GridTypeOK, Signed, CanResume
      <4>3. d.phases = c.phases /\ d.net = c.net
        BY <2>1 DEF OneSource
      <4>4. d = c
        BY <4>2, <4>3, <3>1, <1>0, SameColumn
      <4>5. QED
        BY <4>4
    <3>2. QED
      BY <3>1 DEF Look
  <2>3. QED
    BY <2>1, <2>2 DEF GridInv, Durable
<1>. QED
  BY <1>1, <1>2, <1>3 DEF GridInv

\* Until done.npy is there, full of FALSE, the maps do not count.
LEMMA CreateStep == GridInv /\ Create => GridInv'
<1> SUFFICES ASSUME GridInv, Create PROVE GridInv'
  OBVIOUS
<1>0. /\ Filtered(now) \in Column /\ Filtered(now).shape = now.shape
      /\ now.shape \in Versions /\ now' = now /\ Filtered(now)' = Filtered(now)
      /\ Zeros(now.shape) \in Column
  BY FilteredIsColumn DEF GridInv, GridTypeOK, Input, Create, Filtered, Zeros, Column
<1>1. \/ script = 5 /\ files' = files \union {"phase"}
      \/ script = 6 /\ files' = files \union {"low"}
      \/ script = 7 /\ files' = files \union {"done"} /\ kept' = [kept EXCEPT !.done = [i \in Ifg |-> FALSE]]
  BY DEF Create, Remake, Opened, GridInv, GridTypeOK
<1>2. kept' \in Maps
  BY <1>0 DEF Create, GridInv, GridTypeOK, Maps
<1>3. GridTypeOK'
  BY GridAssumption, <1>0, <1>1, <1>2 DEF Create, GridInv, GridTypeOK, Filtering, runVars, Opened, MapFiles
<1>4. (Opening /\ Signed /\ Progress /\ Covered)'
  BY <1>0, <1>1 DEF Create, GridInv, Opening, Signed, Progress, Covered, Working, Filtering, Opened, MapFiles
<1>5. Durable'
  BY <1>1 DEF Create, GridInv, GridTypeOK, Maps, Opening, Durable, MapFiles
<1>. QED
  BY <1>3, <1>4, <1>5 DEF GridInv

\* Every interferogram is in a batch, and a batch is left out only when all
\* of it is marked.
LEMMA PlanStep == GridInv /\ Plan => GridInv'
<1> SUFFICES ASSUME GridInv, Plan PROVE GridInv'
  OBVIOUS
<1>1. Batches(mode.size) \subseteq SUBSET Ifg
  BY DEF Batches
<1>2. GridTypeOK'
  BY GridAssumption, <1>1 DEF Plan, GridInv, GridTypeOK, Input, Filtering, runVars
<1>3. files = MapFiles
  <2>1. files \subseteq MapFiles /\ at = "open" /\ script = 8
    BY DEF Plan, GridInv, GridTypeOK, Opened
  <2>2. "phase" \in files /\ "low" \in files /\ "done" \in files
    BY <2>1 DEF GridInv, Opening
  <2>. QED
    BY <2>1, <2>2 DEF MapFiles
<1>4. (Opening /\ Signed /\ Durable)'
  BY <1>3 DEF Plan, GridInv, Opening, Signed, Durable, OneSource, Filtered, Opened
<1>5. Progress'
  BY <1>3 DEF Plan, GridInv, Opening, Progress, Durable, OneSource, Filtered, Opened
<1>6. Covered'
  <2> SUFFICES ASSUME NEW i \in Ifg PROVE i \in state' \/ \E B \in pending' : i \in B
    BY DEF Plan, Covered
  <2> DEFINE B == {k \in Ifg : (k - 1) \div mode.size = (i - 1) \div mode.size}
  <2>1. B \in Batches(mode.size) /\ i \in B
    BY DEF Batches
  <2>2. B \subseteq state' \/ B \in pending'
    BY <2>1 DEF Plan
  <2>. QED
    BY <2>1, <2>2
<1>. QED
  BY <1>2, <1>4, <1>5, <1>6 DEF GridInv

LEMMA WriteBatchStep == GridInv /\ (\E B \in pending : WriteBatch(B)) => GridInv'
<1> SUFFICES ASSUME GridInv, NEW B \in pending, WriteBatch(B) PROVE GridInv'
  OBVIOUS
<1>0. B \subseteq Ifg /\ Filtered(now) \in Column /\ mode.size \in Nat
  BY FilteredIsColumn, GridAssumption DEF GridInv, GridTypeOK, ModeType, NoMode
<1>1. /\ kept' \in Maps /\ kept'.done = kept.done
      /\ \A i \in Ifg : kept'.col[i] = IF i \in B THEN Filtered(now) ELSE kept.col[i]
  BY <1>0 DEF WriteBatch, Written, GridInv, GridTypeOK, Maps
<1>2. GridTypeOK'
  BY GridAssumption, <1>0, <1>1 DEF WriteBatch, GridInv, GridTypeOK, Filtering
<1>3. (Opening /\ Signed /\ Covered)'
  BY DEF WriteBatch, GridInv, Opening, Signed, Covered, Working, Filtering, Filtered
<1>4. Durable'
  BY <1>1, OneColumn DEF WriteBatch, GridInv, Durable, OneSource, Working, Filtering
<1>5. Progress'
  BY <1>0, <1>1 DEF WriteBatch, GridInv, GridTypeOK, Progress, OneSource, Filtering, Filtered
<1>. QED
  BY <1>2, <1>3, <1>4, <1>5 DEF GridInv

\* The columns are on the disk before done.npy says so.
LEMMA MarkStep == GridInv /\ Mark => GridInv'
<1> SUFFICES ASSUME GridInv, Mark PROVE GridInv'
  OBVIOUS
<1>1. kept' \in Maps /\ kept'.col = kept.col /\ \A i \in Ifg : kept'.done[i] = (i \in state)
  <2> DEFINE f == [i \in Ifg |-> i \in state]
  <2>1. f \in [Ifg -> BOOLEAN] /\ \A i \in Ifg : f[i] = (i \in state)
    <3>1. \A i \in Ifg : (i \in state) \in BOOLEAN
      OBVIOUS
    <3>. QED
      BY <3>1, Zenon
  <2>2. kept \in [col : [Ifg -> Column], done : [Ifg -> BOOLEAN]] /\ kept' = [kept EXCEPT !.done = f]
    BY DEF Mark, GridInv, GridTypeOK, Maps
  <2> HIDE DEF f
  <2>3. kept'.done = f /\ kept'.col = kept.col /\ kept' \in [col : [Ifg -> Column], done : [Ifg -> BOOLEAN]]
    BY <2>1, <2>2
  <2>. QED
    BY <2>1, <2>3 DEF Maps
<1>2. GridTypeOK'
  BY GridAssumption, <1>1 DEF Mark, GridInv, GridTypeOK, Filtering, runVars
<1>3. (Opening /\ Signed /\ Progress /\ Covered)'
  BY <1>1 DEF Mark, GridInv, Opening, Signed, Progress, Covered, Working, Filtering, OneSource, Filtered, runVars
<1>4. Durable'
  <2> SUFFICES ASSUME files = MapFiles, OneSource, NEW c \in made, NEW i \in Ifg,
                      kept'.done[i] \/ disk.done[i]
               PROVE  kept.col[i] = c /\ disk.col[i] = c
    BY <1>1 DEF Mark, Durable, OneSource
  <2>1. CASE kept'.done[i]
    <3>1. i \in state /\ at = "mark" /\ at \in Working
      BY <1>1, <2>1 DEF Mark, Working, Filtering
    <3>2. kept.col[i] = Filtered(now) /\ disk.col = kept.col
      BY <3>1 DEF GridInv, Progress, Filtering
    <3>. QED
      BY <3>1, <3>2, OneColumn
  <2>2. CASE disk.done[i]
    BY <2>2 DEF GridInv, Durable
  <2>. QED
    BY <2>1, <2>2
<1>. QED
  BY <1>2, <1>3, <1>4 DEF GridInv

LEMMA SyncStep == GridInv /\ Sync => GridInv'
<1> SUFFICES ASSUME GridInv, Sync PROVE GridInv'
  OBVIOUS
<1>1. disk' \in Maps /\ disk'.col = disk.col /\ disk'.done = kept.done
  BY DEF Sync, GridInv, GridTypeOK, Maps
<1>2. Durable'
  BY <1>1 DEF Sync, GridInv, Durable, OneSource
<1>3. CASE after = "idle"
  <2>1. GridTypeOK'
    BY <1>1, <1>3, GridAssumption DEF Sync, Forgotten, Opened, GridInv, GridTypeOK, Filtering
  <2>2. (Opening /\ Signed /\ Progress /\ Covered)'
    BY <1>3 DEF Sync, Forgotten, GridInv, Opening, Signed, Progress, Covered, Working, Filtering
  <2>. QED
    BY <1>2, <2>1, <2>2 DEF GridInv
<1>4. CASE after # "idle"
  <2>1. GridTypeOK'
    BY <1>1, <1>4, GridAssumption DEF Sync, GridInv, GridTypeOK, Filtering
  <2>2. (Opening /\ Signed)'
    BY <1>4 DEF Sync, GridInv, GridTypeOK, Opening, Signed, Working, Filtering, Filtered
  <2>3. (Progress /\ Covered)'
    BY <1>4 DEF Sync, GridInv, GridTypeOK, Progress, Covered, Filtering, OneSource, Filtered
  <2>. QED
    BY <1>2, <2>1, <2>2, <2>3 DEF GridInv
<1>. QED
  BY <1>3, <1>4

\* A write that is interrupted leaves the columns that it would not change,
\* and all the flags.
LEMMA Interrupted ==
    ASSUME GridInv,
           NEW k \in {kept} \union {HalfWritten(B) : B \in IF at = "loop" THEN pending ELSE {}}
    PROVE  /\ k \in Maps /\ k.done = kept.done
           /\ \A i \in Ifg : kept.col[i] = Filtered(now) => k.col[i] = kept.col[i]
           /\ at # "loop" => k = kept
<1>1. CASE k = kept
  BY <1>1 DEF GridInv, GridTypeOK
<1>2. CASE at = "loop" /\ \E B \in pending : k = HalfWritten(B)
  <2>1. PICK B \in pending : k = HalfWritten(B)
    BY <1>2
  <2>2. Torn \in Column
    BY DEF Column
  <2>. QED
    BY <1>2, <2>1, <2>2 DEF HalfWritten, GridInv, GridTypeOK, Maps
<1>. QED
  BY <1>1, <1>2

LEMMA InterruptedDurable ==
    ASSUME GridInv, UNCHANGED <<now, files, disk, made>>,
           kept' \in {kept} \union {HalfWritten(B) : B \in IF at = "loop" THEN pending ELSE {}}
    PROVE  Durable'
<1>1. /\ kept'.done = kept.done
      /\ \A i \in Ifg : kept.col[i] = Filtered(now) => kept'.col[i] = kept.col[i]
      /\ at # "loop" => kept' = kept
  BY Interrupted
<1>2. CASE at # "loop"
  BY <1>1, <1>2 DEF GridInv, Durable, OneSource
<1>3. CASE at = "loop"
  BY <1>1, <1>3, OneColumn DEF GridInv, Durable, OneSource, Working, Filtering
<1>. QED
  BY <1>2, <1>3

LEMMA FailStep == GridInv /\ Fail => GridInv'
<1> SUFFICES ASSUME GridInv, Fail PROVE GridInv'
  OBVIOUS
<1>1. /\ kept' \in Maps
      /\ \A i \in Ifg : kept.col[i] = Filtered(now) => kept'.col[i] = kept.col[i]
  BY Interrupted DEF Fail
<1>2. GridTypeOK'
  BY <1>1, GridAssumption DEF Fail, GridInv, GridTypeOK, Filtering
<1>3. Durable'
  BY InterruptedDurable DEF Fail
<1>4. (Opening /\ Signed /\ Progress /\ Covered)'
  BY <1>1 DEF Fail, GridInv, GridTypeOK, Opening, Signed, Progress, Covered, Working, Filtering, OneSource, Filtered
<1>. QED
  BY <1>2, <1>3, <1>4 DEF GridInv

LEMMA KillStep == GridInv /\ Kill => GridInv'
<1> SUFFICES ASSUME GridInv, Kill PROVE GridInv'
  OBVIOUS
<1>1. kept' \in Maps
  BY Interrupted DEF Kill
<1>2. GridTypeOK'
  BY <1>1, GridAssumption DEF Kill, Forgotten, Opened, GridInv, GridTypeOK, Filtering
<1>3. Durable'
  BY InterruptedDurable DEF Kill
<1>4. (Opening /\ Signed /\ Progress /\ Covered)'
  BY DEF Kill, Forgotten, GridInv, Opening, Signed, Progress, Covered, Working, Filtering
<1>. QED
  BY <1>2, <1>3, <1>4 DEF GridInv

\* A column that a flag vouches for is the same in memory and on the disk.
LEMMA PowerFailureStep == GridInv /\ PowerFailure => GridInv'
<1> SUFFICES ASSUME GridInv, PowerFailure PROVE GridInv'
  OBVIOUS
<1>1. PICK saved \in SUBSET Unflushed, torn \in SUBSET Unflushed, flags \in SUBSET Unsynced :
        kept' = [col  |-> [i \in Ifg |-> IF i \in torn THEN Torn
                                        ELSE IF i \in saved THEN kept.col[i] ELSE disk.col[i]],
                 done |-> [i \in Ifg |-> (IF i \in flags THEN kept ELSE disk).done[i]]]
  BY DEF PowerFailure
<1>2. kept' \in Maps
  BY <1>1 DEF GridInv, GridTypeOK, Maps, Column
<1>3. GridTypeOK'
  BY <1>2, GridAssumption DEF PowerFailure, Forgotten, Opened, GridInv, GridTypeOK, Filtering
<1>4. Durable'
  <2> SUFFICES ASSUME files = MapFiles, OneSource, NEW c \in made, NEW i \in Ifg, kept'.done[i]
               PROVE  kept'.col[i] = c
    BY DEF Durable, PowerFailure, OneSource
  <2>1. kept.done[i] \/ disk.done[i]
    BY <1>1
  <2>2. kept.col[i] = c /\ disk.col[i] = c
    BY <2>1 DEF GridInv, Durable
  <2>3. i \notin torn
    BY <2>2 DEF Unflushed
  <2>. QED
    BY <1>1, <2>2, <2>3
<1>5. (Opening /\ Signed /\ Progress /\ Covered)'
  BY DEF PowerFailure, Forgotten, GridInv, Opening, Signed, Progress, Covered, Working, Filtering
<1>. QED
  BY <1>3, <1>4, <1>5 DEF GridInv

LEMMA StepGridInv == GridInv /\ [GridNext]_checkpointVars => GridInv'
<1> SUFFICES ASSUME GridInv, [GridNext]_checkpointVars PROVE GridInv'
  OBVIOUS
<1>1. CASE UNCHANGED checkpointVars
  BY <1>1 DEF checkpointVars, gridVars, runVars, GridInv, GridTypeOK, Opening, Signed, Durable, Progress, Covered,
      Working, Filtering, OneSource, Filtered, Input, Maps
<1>2. CASE GridNext
  BY <1>2, EditStep, BeginStep, LookStep, UnlinkStep, CreateStep, PlanStep, WriteBatchStep,
     LastCheckpointStep, FlushStep, MarkStep, SyncStep, JudgeStep, JudgeRaisesStep, OwnStep,
     FinishStep, FailStep, KillStep, PowerFailureStep DEF GridNext
<1>. QED
  BY <1>1, <1>2

-----------------------------------------------------------------------------
(* The invariant holds in every state: the types, what the files on the    *)
(* disk allow while they are made anew, that a flag never says more than   *)
(* the columns do, and that no interferogram is forgotten.                 *)
THEOREM GridInvariance == GridSpec => []GridInv
<1>1. GridInit => GridInv
  BY InitGridInv
<1>2. GridInv /\ [GridNext]_checkpointVars => GridInv'
  BY StepGridInv
<1>. QED
  BY <1>1, <1>2, PTL DEF GridSpec

(* The checkpoint of the grid can be trusted after every sequence of runs, *)
(* failures, kills and power failures, with batches of any size: what it   *)
(* calls done is done, and the grid that stage 6 goes on with is complete. *)
THEOREM Honest == GridSpec => []CheckpointHonest
<1>1. GridInv => MarkedIsDurable
  BY DEF GridInv, MarkedIsDurable, Signed, Durable
<1>2. GridInv => GridComplete
  BY DEF GridInv, GridComplete, Progress
<1>. QED
  BY <1>1, <1>2, GridInvariance, PTL DEF CheckpointHonest

(* The drop list that stage 6 begins with, and the one it leaves, number   *)
(* the interferograms of the network of now: what a run without strict     *)
(* parity and with signatures takes over is what FINAL-QC made for it.     *)
THEOREM DropList == GridSpec => []DropListOfNow
<1>1. GridInit => DropListOfNow
  BY DEF GridInit, DropListOfNow
<1>2. GridInv /\ DropListOfNow /\ [GridNext]_checkpointVars => DropListOfNow'
  <2> SUFFICES ASSUME GridInv, DropListOfNow, [GridNext]_checkpointVars PROVE DropListOfNow'
    OBVIOUS
  <2>1. CASE \E m \in Modes : Begin(m)
    BY <2>1 DEF Begin, DropListOfNow, Resolved, Restored, ProvenanceCurrent
  <2>2. CASE Edit
    BY <2>2 DEF Edit, DropListOfNow, runVars
  <2>3. CASE Judge \/ Own
    BY <2>3 DEF Judge, Own, DropListOfNow, runVars
  <2>4. CASE JudgeRaises \/ Finish \/ Kill \/ PowerFailure
    BY <2>4 DEF JudgeRaises, Finish, Kill, PowerFailure, Forgotten, DropListOfNow
  <2>5. CASE Look \/ Unlink \/ Create \/ Plan
    BY <2>5 DEF Look, Unlink, Create, Plan, DropListOfNow
  <2>6. CASE LastCheckpoint \/ Flush \/ Mark \/ Fail
    BY <2>6 DEF LastCheckpoint, Flush, Mark, Fail, DropListOfNow, runVars, Filtering
  <2>7. CASE Sync
    BY <2>7 DEF Sync, Forgotten, DropListOfNow, GridInv, GridTypeOK
  <2>8. CASE \E B \in pending : WriteBatch(B)
    BY <2>8 DEF WriteBatch, DropListOfNow
  <2>9. CASE UNCHANGED checkpointVars
    BY <2>9 DEF checkpointVars, runVars, DropListOfNow
  <2>. QED
    BY <2>1, <2>2, <2>3, <2>4, <2>5, <2>6, <2>7, <2>8, <2>9 DEF GridNext
<1>. QED
  BY <1>1, <1>2, GridInvariance, PTL DEF GridSpec

-----------------------------------------------------------------------------
(* The grid beside the patch stages.  Every behaviour of the two parts is  *)
(* one of each part: a step of one leaves the other alone.                 *)
LEMMA EachPart == SavedSpec => Spec /\ GridSpec
<1>1. SavedInit => Init /\ GridInit
  BY DEF SavedInit
<1>2. [SavedNext]_savedVars => [Next]_vars /\ [GridNext]_checkpointVars
  BY DEF SavedNext, savedVars
<1>. QED
  BY <1>1, <1>2, PTL DEF SavedSpec, Spec, GridSpec

(* A stage of a patch that would be skipped is complete and was computed   *)
(* from what its signature covers, and every variable of both parts has    *)
(* its type, whatever runs, failures and edits there were.                 *)
THEOREM PatchIsHonest == SavedSpec => []PatchHonest
<1>1. GridInv => GridTypeOK
  BY DEF GridInv
<1>. QED
  BY <1>1, GridInvariance, HonestReuse, EachPart, PTL DEF PatchHonest

(* The two results about the grid hold beside the patch.                   *)
THEOREM GridIsHonest == SavedSpec => []CheckpointHonest /\ []DropListOfNow
BY EachPart, Honest, DropList, PTL
=============================================================================
