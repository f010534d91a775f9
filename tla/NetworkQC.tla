------------------------------ MODULE NetworkQC ------------------------------
(***************************************************************************)
(* How interferograms are dropped from the acquisition network.  Three     *)
(* modules of src/pystamps run the same greedy loop over their candidates, *)
(* worst first, and keep a candidate whose loss would cut the network:     *)
(*    "pre"    ifg_selection.py, mode auto, before unwrapping              *)
(*    "grid"   grid_ifg_qc.py, after GRID filtering                        *)
(*    "final"  final_ifg_qc.py, after unwrapping                           *)
(* They differ in what "cut" means (a connected network stays connected,   *)
(* or the number of components does not grow), and in where the limit on   *)
(* drops bites (in the loop, or on the candidates beforehand).  The fourth *)
(* rule, "manual" (ifg_selection.py again), drops what the user lists, all *)
(* of it or nothing.                                                       *)
(*                                                                         *)
(* Interferograms are numbered in the order in which the rule considers    *)
(* them: the candidates, or the ones the user lists, are 1..bad.           *)
(***************************************************************************)
EXTENDS Naturals, FiniteSets

CONSTANTS
    Day,        \* acquisition days
    N,          \* number of interferograms
    Percents    \* values of max_drop_fraction, in percent

ASSUME NetworkAssumption ==
    /\ IsFiniteSet(Day)
    /\ N \in Nat \ {0}
    /\ Percents \subseteq 0..100

Ifg  == 1..N
Rule == {"pre", "manual", "grid", "final"}
Pair == {p \in SUBSET Day : Cardinality(p) = 2}

VARIABLES
    ends,       \* the two acquisition days of each interferogram
    rule,
    preserve,   \* preserve_network
    percent,    \* max_drop_fraction
    failOnCap,  \* final_qc_fail_on_cap
    bad,        \* number of candidates
    pc,
    todo,       \* number of candidates that the loop looks at
    next,       \* the candidate it is at
    keep,       \* interferograms kept so far
    dropped,
    protected   \* candidates kept for the sake of the network

inputs == <<ends, rule, preserve, percent, failOnCap, bad>>
vars   == <<inputs, pc, todo, next, keep, dropped, protected>>

-----------------------------------------------------------------------------
Neighbours(S, kept) ==
    {d \in Day : \E e \in kept : d \in ends[e] /\ ends[e] \intersect S # {}}

\* Mutant of Search: the neighbours of neighbours are not visited.
SearchShallow(d, kept) == {d} \union Neighbours({d}, kept)

\* What a depth-first search from day d over the interferograms in kept sees:
\* the least set with d in it that no interferogram leads out of.
Search(d, kept) ==
    {x \in Day : \A S \in SUBSET Day :
        d \in S /\ Neighbours(S, kept) \subseteq S => x \in S}

Nodes(kept) == UNION {ends[e] : e \in kept}

\* _component_count: the days are those of the whole network.
ComponentCount(kept) == Cardinality({Search(d, kept) : d \in Nodes(Ifg)})

\* Mutant of Connected: days that lost all their interferograms are forgotten.
ConnectedAmongUsed(kept) ==
    kept # {} /\ \E d \in Nodes(kept) : Search(d, kept) = Nodes(kept)

\* _network_connected: every day is still used and one search reaches all.
Connected(kept) ==
    /\ kept # {}
    /\ Nodes(kept) = Nodes(Ifg)
    /\ \E d \in Nodes(Ifg) : Search(d, kept) = Nodes(Ifg)

\* Mutant of Cut: the number of components must shrink.
CutUnlessFewer(kept) ==
    IF rule = "final" THEN ComponentCount(kept) >= ComponentCount(Ifg)
                      ELSE ~Connected(kept)

\* Would the network be cut if only the interferograms in kept were left?
Cut(kept) ==
    IF rule = "final" THEN ComponentCount(kept) > ComponentCount(Ifg)
                      ELSE ~Connected(kept)

\* floor(n_ifg * max_drop_fraction), but at least one: in ifg_selection.py
\* unless the fraction is 0, in the other two whatever the fraction is.
MaxDrop ==
    LET floor    == (N * percent) \div 100
        atLeast1 == IF rule = "pre" THEN percent > 0 ELSE bad > 0
    IN  IF floor < 1 /\ atLeast1 THEN 1 ELSE floor

-----------------------------------------------------------------------------
Init ==
    /\ ends \in [Ifg -> Pair]
    /\ rule \in Rule
    /\ preserve \in BOOLEAN
    /\ percent \in {p \in Percents : rule = "pre" => p <= 50}
    /\ failOnCap \in IF rule = "final" THEN BOOLEAN ELSE {FALSE}
    /\ bad \in 0..N
    /\ pc = "start"
    /\ todo = 0 /\ next = 1
    /\ keep = Ifg
    /\ dropped = {} /\ protected = {}

\* ifg_selection.py refuses a network that is disconnected to begin with,
\* and a list that would disconnect it; final_ifg_qc.py refuses more
\* candidates than it may drop.
Refused ==
    \/ rule \in {"pre", "manual"} /\ preserve /\ ~Connected(Ifg)
    \/ rule = "manual" /\ preserve /\ ~Connected(Ifg \ (1..bad))
    \/ rule = "final" /\ bad > MaxDrop /\ failOnCap

Refuse ==
    /\ pc = "start" /\ Refused
    /\ pc' = "raised"
    /\ UNCHANGED <<inputs, todo, next, keep, dropped, protected>>

\* Without fail_on_cap, FINAL-QC looks at its MaxDrop worst candidates only.
Start ==
    /\ pc = "start" /\ rule # "manual" /\ ~Refused
    /\ todo' = IF rule = "final" /\ bad > MaxDrop THEN MaxDrop ELSE bad
    /\ pc' = "loop"
    /\ UNCHANGED <<inputs, next, keep, dropped, protected>>

\* _manual_selection: there is no limit and nothing is protected.
DropListed ==
    /\ pc = "start" /\ rule = "manual" /\ ~Refused
    /\ keep' = Ifg \ (1..bad)
    /\ dropped' = 1..bad
    /\ pc' = "done"
    /\ UNCHANGED <<inputs, todo, next, protected>>

\* Mutant of AtLimit: one drop too many.
AtLimitLate == rule # "final" /\ Cardinality(dropped) > MaxDrop

\* The other two stop when they have dropped enough.
AtLimit == rule # "final" /\ Cardinality(dropped) >= MaxDrop

\* Mutant of Protect: the first protected candidate ends the loop.
ProtectAndStop ==
    /\ pc = "loop" /\ next <= todo /\ ~AtLimit
    /\ preserve /\ Cut(keep \ {next})
    /\ protected' = protected \union {next}
    /\ next' = todo + 1
    /\ UNCHANGED <<inputs, pc, todo, keep, dropped>>

Protect ==
    /\ pc = "loop" /\ next <= todo /\ ~AtLimit
    /\ preserve /\ Cut(keep \ {next})
    /\ protected' = protected \union {next}
    /\ next' = next + 1
    /\ UNCHANGED <<inputs, pc, todo, keep, dropped>>

Drop ==
    /\ pc = "loop" /\ next <= todo /\ ~AtLimit
    /\ ~(preserve /\ Cut(keep \ {next}))
    /\ keep' = keep \ {next}
    /\ dropped' = dropped \union {next}
    /\ next' = next + 1
    /\ UNCHANGED <<inputs, pc, todo, protected>>

EndLoop ==
    /\ pc = "loop"
    /\ next > todo \/ AtLimit
    /\ pc' = "done"
    /\ UNCHANGED <<inputs, todo, next, keep, dropped, protected>>

Ended == pc \in {"done", "raised"} /\ UNCHANGED vars

Next == Refuse \/ Start \/ DropListed \/ Protect \/ Drop \/ EndLoop \/ Ended

Spec == Init /\ [][Next]_vars

-----------------------------------------------------------------------------
TypeOK ==
    /\ ends \in [Ifg -> Pair]
    /\ rule \in Rule
    /\ preserve \in BOOLEAN /\ failOnCap \in BOOLEAN
    /\ percent \in Percents
    /\ bad \in 0..N /\ todo \in 0..N /\ next \in 1..(N + 1)
    /\ pc \in {"start", "loop", "done", "raised"}
    /\ keep \subseteq Ifg /\ dropped \subseteq Ifg /\ protected \subseteq Ifg

\* The reference definition: interferogram e joins S with the other days.
Crosses(e, S) == ends[e] \intersect S # {} /\ ~(ends[e] \subseteq S)

\* No way of parting the days that the network bridged is left unbridged.
Holds(kept) ==
    \A S \in SUBSET Day :
        (\E e \in Ifg : Crosses(e, S)) => \E e \in kept : Crosses(e, S)

(* With preserve_network, days that the full network connects stay         *)
(* connected, in each of the four rules, in a network of any shape.        *)
NetworkPreserved == preserve => Holds(keep)

(* A protected interferogram is indispensable to the network that is left  *)
(* in the end, not only at the moment it was considered: nothing worse     *)
(* than necessary is kept (rules "pre" and "grid": of a connected          *)
(* network; "grid" protects every candidate of a disconnected one).        *)
ProtectedNeeded ==
    rule = "final" \/ Connected(Ifg) =>
        \A e \in protected : ~Holds(keep \ {e})

(* An automatic rule that drops more than one interferogram drops no more  *)
(* than max_drop_fraction of them, although FINAL-QC has no test of it in  *)
(* its loop; a fraction of 0 keeps ifg_selection.py from dropping any.     *)
WithinLimit ==
    rule # "manual" =>
        /\ Cardinality(dropped) > 1 => 100 * Cardinality(dropped) <= N * percent
        /\ rule = "pre" /\ percent = 0 => dropped = {}

(* What config/production.yaml:80 says of max_drop_fraction: no more than  *)
(* this share is ever rejected automatically.  The limit that rounds to    *)
(* nothing is raised to one interferogram, which may be a larger share.    *)
CapKept == rule = "pre" => 100 * Cardinality(dropped) <= N * percent

(* Going through the candidates once, worst first, drops as many as can be *)
(* dropped: no other choice among the candidates looked at is larger       *)
(* without cutting the network.                                            *)
GreedyOptimal ==
    pc = "done" /\ preserve /\ next > todo /\ (rule = "final" \/ Connected(Ifg)) =>
        \A other \in SUBSET (1..todo) :
            Holds(Ifg \ other) => Cardinality(other) <= Cardinality(dropped)

(* The two tests for a cut agree on the networks the loop meets when it    *)
(* started from a connected one.                                           *)
TestsAgree ==
    pc = "loop" /\ preserve /\ next <= todo /\ Connected(Ifg) =>
        ComponentCount(keep \ {next}) > ComponentCount(Ifg) <=> ~Connected(keep \ {next})
=============================================================================
