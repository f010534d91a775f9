-------------------------- MODULE NativeStagesProofs --------------------------
(***************************************************************************)
(* Stages 1 and 2 beside the other native stages: they share no state, so  *)
(* that the invariant that a stage has alone holds of its part.            *)
(***************************************************************************)
EXTENDS NativeStages, NativePatchProofs

Part1Inv == part = "1" => Stage1Inv
Part2Inv == part = "2" => Stage2Inv

LEMMA PartsStart == StagesInit => Part1Inv /\ Part2Inv
<1>1. StagesInit => (part # "1" \/ Stage1Init) /\ (part # "2" \/ Init)
  BY Zenon DEF StagesInit
<1>. QED
  BY <1>1, Stage1Starts, StartHolds DEF Part1Inv, Part2Inv

\* A step belongs to one part.
LEMMA StepsApart ==
    /\ StagesNext => part' = part /\ (part # "1" \/ Stage1Next) /\ (part # "2" \/ Next)
    /\ StagesNext => part = "1" \/ result' = result
    /\ UNCHANGED stages => part' = part /\ UNCHANGED stage1Vars /\ UNCHANGED vars
<1>1. StagesNext => part' = part /\ (part # "1" \/ Stage1Next) /\ (part # "2" \/ Next)
  BY Zenon DEF StagesNext
<1>2. StagesNext => part = "1" \/ result' = result
  BY Zenon DEF StagesNext, stage1Vars
<1>3. UNCHANGED stages => part' = part /\ UNCHANGED stage1Vars /\ UNCHANGED vars
  BY DEF stages
<1>. QED
  BY <1>1, <1>2, <1>3

LEMMA Part1Step == Part1Inv /\ [StagesNext]_stages => Part1Inv'
BY StepsApart, Stage1Steps, Stage1Stutters DEF Part1Inv

LEMMA Part2Step == Part2Inv /\ [StagesNext]_stages => Part2Inv'
BY StepsApart, StepHolds, StutterHolds DEF Part2Inv

(* Rows and columns of every product of stage 1 are about the candidate    *)
(* and the date that ps1 names there, for every order of the candidates    *)
(* and dates, every SNAP layout, and through kills, deletions and reruns,  *)
(* and a rerun changes no more than baselines, to the mean of their date.  *)
THEOREM Stage1InPlace == StagesSpec => CandidatesAligned
<1>1. Part1Inv => (part = "1" => Stage1TypeOK /\ Aligned)
  BY InvAligned DEF Part1Inv
<1>2. Part1Inv /\ [StagesNext]_stages => [DegradesToMean]_stage1Vars
  <2>1. ASSUME Part1Inv, StagesNext PROVE DegradesToMean
    <3>1. CASE part = "1"
      BY <2>1, <3>1, StepsApart, RerunKeeps DEF Part1Inv
    <3>2. CASE part # "1"
      BY <2>1, <3>2, StepsApart DEF DegradesToMean
    <3>. QED
      BY <3>1, <3>2
  <2>. QED
    BY <2>1, StepsApart
<1>. QED
  BY <1>1, <1>2, PartsStart, Part1Step, PTL DEF StagesSpec, CandidatesAligned, RerunDegradesOnlyToMean

(* What the shortcuts of stage 2 compute is what the rules they replace    *)
(* say, for every layout, window length, baseline matrix and histogram,    *)
(* and what stage 2 publishes belongs to one iteration.                    *)
THEOREM Stage2InPlace == StagesSpec => []ShortcutsExact
<1>1. Part2Inv => ShortcutsExact
  BY ShortcutsHold DEF Part2Inv, ShortcutsExact, Shortcuts
<1>. QED
  BY <1>1, PartsStart, Part2Step, PTL DEF StagesSpec
=============================================================================
