----------------------------- MODULE NativeStage4 -----------------------------
(***************************************************************************)
(* Stage 4 of the native Rust driver on one patch: of the candidates that  *)
(* stage 3 selected, neighbouring pixels, pixels at zero elevation,        *)
(* pixels at the same place and noisy pixels are weeded, in this order.    *)
(*                                                                         *)
(* A candidate's phase is the set of dates in which it is disturbed; two   *)
(* candidates differ in the dates in which one of them is.  Positions are  *)
(* whole pixels, coherence is a rank.                                      *)
(***************************************************************************)
EXTENDS Integers, Sequences, FiniteSets, FiniteSetsExt, SequencesExt, Functions

CONSTANTS
    N,            \* candidates in select1.ix
    Pixels,       \* possible <<row, column>> of a candidate
    Cohs,         \* possible coherences
    Ifgs,         \* interferograms
    Variations    \* parameters and further inputs, see Init

Cand == 1..N
\* Where N \in Nat \ {0} /\ Pixels \subseteq Int \X Int /\ Cohs \subseteq [Cand -> Nat].

VARIABLES
    inp,      \* ij, coherence, and a member of Variations
    pc,
    keep,     \* ix_weed
    edges,    \* stage4_graph_edges
    quiet,    \* ix_weed2, for the candidates kept until then
    weed1     \* what write_weed1 wrote

vars == <<inp, pc, keep, edges, quiet, weed1>>

NoWeed1 == [written |-> FALSE, ix_weed |-> <<>>, ix_weed2 |-> <<>>]
Keeping(k) == {p \in DOMAIN k : k[p]}

-----------------------------------------------------------------------------
\* Inputs.  keep_ix is the users' mask over select1.ix.

\* Stage4MatSource: a file that neither reader can read is as one without the
\* variable, and parms.mat without a variable gives its default.
Readable(f) == f \notin inp.unreadable
WeedNeighbours == Readable("parms") /\ inp.neighbours
WeedElevation == Readable("parms") /\ inp.elevation
WeedNoise == ~Readable("parms") \/ inp.noise
SmallBaseline == Readable("parms") /\ inp.sb
Dropped == IF Readable("parms") THEN inp.drop ELSE {}
IfgCols == Ifgs \ Dropped

\* load_hgt1: a missing file weeds nothing, an unreadable one is an error.
HgtFails == WeedElevation /\ inp.hgt /\ ~Readable("hgt1")

\* vector_i64, ps_vector_f64, ps_dim_f64, ps_complex_matrix.
RequiredReadable == Readable("select1") /\ Readable("ps1")
PhaseFails(k) == WeedNoise /\ Keeping(k) # {} /\ ~Readable("ph1")

-----------------------------------------------------------------------------
\* adjacent_component_keep_mask.

Near(p, q, d) ==
    /\ p # q
    /\ \A a \in {1, 2} : inp.ij[p][a] - inp.ij[q][a] \in -d..d

\* neigh_ix: the first candidate whose neighbourhood covers p, or 0.
Owner(p) ==
    LET seen == {q \in Cand : Near(p, q, 1)} IN IF seen = {} THEN 0 ELSE Min(seen)
\* neigh_ps.
Owned(i) == {p \in Cand : Owner(p) = i}

\* Mutant of Groups: the pixel whose list is taken is not of the group.
GroupsOwned == {Owned(i) : i \in Cand} \ {{}}

\* The groups, found from the first candidate that still has a list.
Groups ==
    LET start[i \in 0..N] ==       \* lists that are left after candidate i
          IF i = 0 THEN [left |-> {p \in Cand : Owned(p) # {}}, groups |-> {}]
          ELSE LET before == start[i - 1] IN
               IF i \notin before.left THEN before
               ELSE LET reach[n \in 0..N] ==
                          IF n = 0 THEN {i}
                          ELSE reach[n - 1] \cup
                               UNION {Owned(p) : p \in reach[n - 1] \cap before.left} IN
                    [left |-> before.left \ reach[N], groups |-> before.groups \cup {reach[N]}]
    IN start[N].groups

\* max_by: the last of the most coherent.
Best(g) ==
    LET top == Max({inp.coh[p] : p \in g}) IN Max({p \in g : inp.coh[p] = top})

KeepAdjacent == [p \in Cand |-> \A g \in Groups : p \in g => p = Best(g)]

\* The pixels that are connected to p through neighbours: what the groups
\* are meant to be.
Component(p) ==
    LET reach[n \in 0..N] ==
        IF n = 0 THEN {p}
        ELSE reach[n - 1] \cup {q \in Cand : \E r \in reach[n - 1] : Near(q, r, 1)}
    IN reach[N]

-----------------------------------------------------------------------------
\* remove_duplicate_xy.

SamePlace(p, q) == inp.xy[p] = inp.xy[q]

Unique(k) ==
    [p \in Cand |-> k[p] /\ p = Best({q \in Cand : k[q] /\ SamePlace(p, q)})]

-----------------------------------------------------------------------------
\* stage4_graph_edges over the candidates that are left, numbered 1..n.

Points(k) == SelectSeq([p \in Cand |-> p], LAMBDA p : k[p])
AllPairs(n) == {e \in SUBSET (1..n) : Cardinality(e) = 2}

\* triangle_node_count and load_triangle_edges: an edge file whose node count
\* is unknown or right is used; edges out of range are left out.
EdgeFileFits(n) == inp.nodes \in {0, n}

FileEdges(n) == IF EdgeFileFits(n) THEN {e \in inp.edgefile : e \subseteq 1..n} ELSE {}

\* delaunator: with three or more points that are not on one line, every
\* point is a corner of a triangle.
Collinear(s) ==
    \A i, j, k \in DOMAIN s :
        LET a == inp.xy[s[i]]  b == inp.xy[s[j]]  c == inp.xy[s[k]] IN
        (b[1] - a[1]) * (c[2] - a[2]) = (b[2] - a[2]) * (c[1] - a[1])
Delaunay(s) == IF Collinear(s) THEN {} ELSE AllPairs(Len(s))

\* nearest_neighbor_edges: the first of the nearest.
Distance(s, i, j) ==
    LET a == inp.xy[s[i]]  b == inp.xy[s[j]] IN
    (a[1] - b[1]) * (a[1] - b[1]) + (a[2] - b[2]) * (a[2] - b[2])
Nearest(s, i) ==
    LET others == DOMAIN s \ {i}
        least == Min({Distance(s, i, j) : j \in others}) IN
    Min({j \in others : Distance(s, i, j) = least})

GraphEdges(s) ==
    LET n == Len(s) IN
    IF n < 2 THEN {}
    ELSE IF FileEdges(n) # {} THEN FileEdges(n)
    ELSE IF n = 2 THEN {{1, 2}}
    ELSE IF Delaunay(s) # {} THEN Delaunay(s)
    ELSE {{i, Nearest(s, i)} : i \in 1..n}

-----------------------------------------------------------------------------
\* stage4_edge_stats_kernel.

\* fill_edge_phase_components, edge_phase_row: dates in which the ends differ.
EdgePhase(s, e) ==
    {i \in IfgCols : \E a, b \in e : i \in inp.noisy[s[a]] \ inp.noisy[s[b]]}

\* single_master_edge_noise: what the smooth curve through the dates leaves.
SingleMasterNoise(s, e) == EdgePhase(s, e)
\* stage4_small_baseline_edge_stats: what the slope over the baselines leaves.
SmallBaselineNoise(s, e) == EdgePhase(s, e)

\* std_max_row_real: standard deviation and maximum are 0 or too large.
EdgeNoisy(s, e) ==
    IF SmallBaseline THEN SmallBaselineNoise(s, e) # {} ELSE SingleMasterNoise(s, e) # {}

\* The minimum over the edges of a node; without edges or dates it is infinite.
Quiet(s) ==
    [n \in DOMAIN s |-> IfgCols # {} /\ \E e \in edges : n \in e /\ ~EdgeNoisy(s, e)]

-----------------------------------------------------------------------------
\* run_stage4_native.

Start ==
    /\ pc = "start"
    /\ pc' = IF ~RequiredReadable THEN "failed"
             ELSE IF inp.keep_ix = {} THEN "write" ELSE "adjacent"
    /\ UNCHANGED <<inp, keep, edges, quiet, weed1>>

Adjacent ==
    /\ pc = "adjacent"
    /\ keep' = IF WeedNeighbours THEN KeepAdjacent ELSE [p \in Cand |-> TRUE]
    /\ pc' = "elevation"
    /\ UNCHANGED <<inp, edges, quiet, weed1>>

Elevation ==
    /\ pc = "elevation"
    /\ IF HgtFails THEN pc' = "failed" /\ UNCHANGED keep
       ELSE /\ keep' = [p \in Cand |-> keep[p] /\ ~(WeedElevation /\ inp.hgt /\ p \in inp.sea)]
            /\ pc' = "duplicates"
    /\ UNCHANGED <<inp, edges, quiet, weed1>>

Duplicates ==
    /\ pc = "duplicates"
    /\ keep' = Unique(keep)
    /\ pc' = "edges"
    /\ UNCHANGED <<inp, edges, quiet, weed1>>

MakeEdges ==
    /\ pc = "edges"
    /\ IF PhaseFails(keep) THEN pc' = "failed" /\ UNCHANGED edges
       ELSE /\ edges' = IF WeedNoise THEN GraphEdges(Points(keep)) ELSE {}
            /\ pc' = "noise"
    /\ UNCHANGED <<inp, keep, quiet, weed1>>

Noise ==
    /\ pc = "noise"
    /\ LET s == Points(keep)
           q == IF WeedNoise THEN Quiet(s) ELSE [n \in DOMAIN s |-> TRUE] IN
       /\ quiet' = q
       /\ keep' = [p \in Cand |-> \E n \in DOMAIN s : s[n] = p /\ q[n]]
    /\ pc' = "write"
    /\ UNCHANGED <<inp, edges, weed1>>

\* write_weed1.
Write ==
    /\ pc = "write"
    /\ weed1' = [written |-> TRUE, ix_weed2 |-> quiet,
                 ix_weed |-> IF inp.keep_ix = {} THEN <<>> ELSE keep]
    /\ pc' = "done"
    /\ UNCHANGED <<inp, keep, edges, quiet>>

Init ==
    /\ \E c \in Cohs, v \in Variations : \E ij \in v.places :
            inp = v @@ [ij |-> ij, coh |-> c,
                        xy |-> [p \in Cand |-> IF p \in v.dup THEN ij[Min(v.dup)] ELSE ij[p]]]
    /\ pc = "start" /\ keep = [p \in Cand |-> TRUE] /\ edges = {} /\ quiet = <<>>
    /\ weed1 = NoWeed1

Next ==
    \/ Start \/ Adjacent \/ Elevation \/ Duplicates \/ MakeEdges \/ Noise \/ Write
    \/ pc \in {"done", "failed"} /\ UNCHANGED vars

Spec == Init /\ [][Next]_vars

-----------------------------------------------------------------------------
\* Types.
TypeOK ==
    /\ pc \in {"start", "adjacent", "elevation", "duplicates", "edges", "noise",
              "write", "done", "failed"}
    /\ keep \in [Cand -> BOOLEAN]
    /\ pc = "noise" => edges \subseteq AllPairs(Len(Points(keep)))

\* Weeding neighbours keeps the most coherent pixel of every connected
\* region, and a pixel with no neighbour in particular.
RegionKeepsBest ==
    pc = "elevation" => \A p \in Cand :
        \E q \in Component(p) : keep[q] /\ \A r \in Component(p) : inp.coh[r] <= inp.coh[q]

\* Two neighbours are both kept only if each was first seen from another
\* pixel: the groups are then not the connected region.
PairsExcused ==
    pc = "elevation" /\ WeedNeighbours => \A p, q \in Keeping(keep) :
        Near(p, q, 1) => Owner(p) # q /\ Owner(q) # p

\* No two pixels at the same place get to the noise estimate, which would
\* give the edge between them no length.
NoDuplicates ==
    pc \in {"edges", "noise", "write"} /\ inp.keep_ix # {} =>
        \A p, q \in Keeping(keep) : p # q => ~SamePlace(p, q)

\* The two masks of weed1, over the selected candidates and over those that
\* were left before the noise estimate, agree on how many are kept.
MasksAgree ==
    weed1.written => Cardinality(Keeping(weed1.ix_weed)) = Cardinality(Keeping(weed1.ix_weed2))

\* Noise is a matter between neighbours: a candidate that is kept has another
\* one that is disturbed in the same of the dates looked at.
QuietWithNeighbour ==
    weed1.written /\ WeedNoise => \A p \in Keeping(weed1.ix_weed) :
        \E q \in Cand \ {p} : inp.noisy[p] \cap IfgCols = inp.noisy[q] \cap IfgCols

\* Undisturbed candidates that are at least two, at different places and not
\* misled by an edge file, are never lost to the noise estimate.
QuietSurvive ==
    pc = "write" /\ inp.edgefile = {} /\ IfgCols # {} /\ Len(quiet) >= 2
        /\ (\A p \in Cand : inp.noisy[p] = {}) =>
            \A n \in DOMAIN quiet : quiet[n]

-----------------------------------------------------------------------------
(* Small inputs.                                                           *)
(* Four candidates on two rows of pixels: for the neighbours every place,  *)
(* up to reflection, with the first candidate in a corner or next to it,   *)
(* and a line and a square for the rest.                                   *)
MCCohs == {<<4, 3, 2, 1>>, <<2, 2, 1, 2>>}
Square == <<<<0, 0>>, <<0, 2>>, <<1, 0>>, <<1, 3>>>>
Line == <<<<0, 0>>, <<0, 2>>, <<0, 1>>, <<0, 3>>>>

Plain == [places |-> {Square, Line}, unreadable |-> {}, neighbours |-> FALSE, elevation |-> FALSE,
          noise |-> TRUE, sb |-> FALSE, drop |-> {}, hgt |-> TRUE, sea |-> {}, dup |-> {1},
          keep_ix |-> Cand, nodes |-> 0, edgefile |-> {}, noisy |-> [p \in Cand |-> {}]]
Disturbed(f) == [p \in Cand |-> IF p \in DOMAIN f THEN f[p] ELSE {}]

MCVariations ==
    {[Plain EXCEPT !.places = {f \in [Cand -> Pixels] : IsInjective(f) /\ f[1] \in {<<0, 0>>, <<0, 1>>}}, !.neighbours = TRUE, !.noise = FALSE]}
    \cup {[Plain EXCEPT !.unreadable = u] : u \in {{"parms"}, {"select1"}, {"ph1"}}}
    \cup {[Plain EXCEPT !.elevation = TRUE, !.neighbours = n, !.hgt = h, !.sea = s, !.unreadable = u] :
            n, h \in BOOLEAN, s \in {{1, 3}, Cand}, u \in {{}, {"hgt1"}}}
    \cup {[Plain EXCEPT !.noisy = Disturbed(f), !.drop = d, !.dup = p, !.sb = b] :
            f \in {<<>>, <<{1}>>, <<{1}, {1}>>, <<{1}, {2}, {1, 2}>>}, d \in {{}, {1}, Ifgs},
            p \in {{1}, {2, 3}, {1, 2, 4}, Cand}, b \in BOOLEAN}
    \cup {[Plain EXCEPT !.edgefile = {{1, 2}, {3, 5}}, !.nodes = n, !.noisy = Disturbed(f)] :
            n \in {0, 3, 4}, f \in {<<>>, <<{1}, {1}>>}}
    \cup {[Plain EXCEPT !.keep_ix = {}]}
=============================================================================
