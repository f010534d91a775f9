----------------------------- MODULE NativeStage7 -----------------------------
(***************************************************************************)
(* Stage 7 of the native Rust driver: the look-angle error K of every      *)
(* point and its master phase C, from the unwrapped phase, and the same    *)
(* two clamped into the range of the point's neighbours for stages 6 and 8.*)
(*                                                                         *)
(* The arithmetic is exact: phases are whole numbers over one scale for    *)
(* all points, K and C are numerators over one denominator.                *)
(***************************************************************************)
EXTENDS Integers, Sequences, FiniteSets, FiniteSetsExt, SequencesExt, Functions, TLC

CONSTANTS
    NIfg, Master,   \* interferograms 1..NIfg, the master among them
    Day,            \* their days
    Histories       \* pairs of the inputs of two runs

\* Where
\* /\ NIfg \in Nat /\ Master \in 1..NIfg
\* /\ Day \in Seq(Int) /\ Len(Day) = NIfg
\* /\ \A i \in 2..NIfg : Day[i - 1] < Day[i]

VARIABLES
    inp, run, pc,
    bperp,   \* the baselines of the run, [st, m]
    out,     \* Stage7KernelOutput and the edges
    disk     \* bp2, scla2, scla_smooth2

vars == <<inp, run, pc, bperp, out, disk>>
In == inp[run]
Ifgs == 1..NIfg
Points == DOMAIN In.xy
Total(f) == FoldFunction(+, 0, f)
X(p) == In.xy[p][1]
Y(p) == In.xy[p][2]

-----------------------------------------------------------------------------
\* Inputs.

\* load_stage7_parms: a parms.mat that cannot be read gives the defaults.
Parms ==
    IF "parms" \in In.bad
    THEN [sb |-> FALSE, deramp |-> TRUE, drop |-> {}, coest |-> FALSE, ref |-> "all", box |-> {}]
    ELSE [sb |-> In.sb, deramp |-> In.deramp, drop |-> In.drop \cup In.scladrop,
          coest |-> In.coest, ref |-> In.ref, box |-> In.box]

\* The unwrapped phase: look-angle error, velocity, master phase, a plane
\* per interferogram, and errors in some of them.
Phase(p, c) ==
    In.K[p] * In.b[c] + In.V[p] * (Day[c] - Day[Master]) + In.C[p]
    + In.ramp[c] * (X(p) - 2 * Y(p) + 1)
    + (IF c \in In.noise THEN 7 * p * p + c ELSE 0)

UnwrapIfgs == Ifgs \ Parms.drop
SolveIfgs == IF Parms.sb THEN UnwrapIfgs ELSE UnwrapIfgs \ {Master}

\* Two statistical weights, or none for an ifg_std of 0.
Weight(c) == In.weight[c]

-----------------------------------------------------------------------------
\* load_or_rebuild_bperp.

\* Mutant of WithMaster: the column of the master comes last.
WithMasterLast(m) == [p \in DOMAIN m |-> Append(m[p], 0)]
WithMaster(m) ==
    [p \in DOMAIN m |-> SubSeq(m[p], 1, Master - 1) \o <<0>> \o SubSeq(m[p], Master, Len(m[p]))]

\* ps2.bperp for every point, without the master in single-master mode.
Rebuilt == [p \in Points |-> IF Parms.sb THEN In.b ELSE RemoveAt(In.b, Master)]

\* What the run goes on with, or st = "bad" for a foreign number of columns.
Expanded(m) ==
    LET n == Len(m[1]) IN
    IF Len(m) # Len(In.xy) THEN [st |-> "bad", m |-> <<>>]
    ELSE IF n = NIfg THEN [st |-> "ok", m |-> m]
    ELSE IF ~Parms.sb /\ n = NIfg - 1 THEN [st |-> "ok", m |-> WithMaster(m)]
    ELSE [st |-> "bad", m |-> <<>>]

-----------------------------------------------------------------------------
\* deramp_unwrapped_phase, select_reference_ps, center_to_reference.

\* What a plane leaves of a value per point: with three points nothing, with
\* four its part along the one vector that no plane reaches.
Det(a, b, c) == (X(b) - X(a)) * (Y(c) - Y(a)) - (X(c) - X(a)) * (Y(b) - Y(a))
OffPlane == <<Det(2, 3, 4), -Det(1, 3, 4), Det(1, 2, 4), -Det(1, 2, 3)>>
RampScale == IF Parms.deramp /\ Len(In.xy) = 4
             THEN Total([p \in Points |-> OffPlane[p] * OffPlane[p]]) ELSE 1
Deramped(f) ==
    IF ~Parms.deramp THEN f
    ELSE IF Len(In.xy) < 4 THEN [p \in Points |-> 0]
    ELSE LET along == Total([p \in Points |-> OffPlane[p] * f[p]]) IN
         [p \in Points |-> OffPlane[p] * along]

\* The points strictly inside the box, all of them when there is none, none
\* at all for ref_radius = -inf.
ReferencePs ==
    IF Parms.ref = "none" THEN {}
    ELSE IF Parms.ref = "all" \/ Parms.box \cap Points = {} THEN Points
    ELSE Parms.box \cap Points
RefScale == IF ReferencePs = {} THEN 1 ELSE Cardinality(ReferencePs)
Centered(f) ==
    [p \in Points |-> RefScale * f[p] - Total([q \in ReferencePs |-> f[q]])]

\* ph_proc of one interferogram, Scale times the phase.
Proc(c) == Centered(Deramped([p \in Points |-> Phase(p, c)]))

-----------------------------------------------------------------------------
\* fit_transform and solve_linear for a slope next to an intercept: weighted
\* sums S of the centred columns; a zero pivot leaves that column out.
S(w, f, g) ==
    Total(w) * Total([i \in DOMAIN w |-> w[i] * f[i] * g[i]])
    - Total([i \in DOMAIN w |-> w[i] * f[i]]) * Total([i \in DOMAIN w |-> w[i] * g[i]])
One(n) == [i \in 1..n |-> 1]

\* stage7_scla_kernel.
Sequential(f) ==
    LET u == SetToSortSeq(UnwrapIfgs, <) IN
    [i \in 1..(Len(u) - 1) |-> f[u[i + 1]] - f[u[i]]]

Coestimated == Parms.coest /\ Cardinality(UnwrapIfgs) >= 4
SumBperp == [c \in Ifgs |-> Total([p \in Points |-> bperp.m[p][c]])]
SlopeParts ==
    LET b == Sequential(SumBperp)  t == Sequential(Day)  w == One(Len(b)) IN
    [b |-> b, t |-> t, w |-> w, bb |-> S(w, b, b), bt |-> S(w, b, t), tt |-> S(w, t, t)]
\* K of every point as a numerator; the denominator is KDen.
KDen(s) ==
    LET det == s.bb * s.tt - s.bt * s.bt IN
    IF Coestimated /\ det # 0 THEN det ELSE IF s.bb # 0 THEN s.bb ELSE 1
KNum(s, y) ==
    LET by == S(s.w, s.b, y)  ty == S(s.w, s.t, y) IN
    Len(In.xy) * (IF Coestimated /\ s.bb * s.tt - s.bt * s.bt # 0 THEN s.tt * by - s.bt * ty
                  ELSE IF s.bb # 0 THEN by ELSE 0)

\* C: the mean residual, or the intercept at the day of the master.
SolveWeight == [c \in SolveIfgs |-> IF Coestimated THEN Weight(c) ELSE 1]
SinceMaster == [c \in SolveIfgs |-> Day[c] - Day[Master]]
CDen ==
    LET w == SolveWeight  det == S(w, SinceMaster, SinceMaster) IN
    IF Coestimated /\ det # 0 THEN det ELSE IF Total(w) # 0 THEN Total(w) ELSE 1
CNum(r) ==
    LET w == SolveWeight  t == SinceMaster
        at(f) == Total([c \in SolveIfgs |-> w[c] * f[c]]) IN
    IF Coestimated /\ S(w, t, t) # 0
    THEN at([c \in SolveIfgs |-> t[c] * t[c]]) * at(r) - at(t) * at([c \in SolveIfgs |-> t[c] * r[c]])
    ELSE at(r)

\* K is over kden * Scale, C over kden * Scale * CDen; ph_scla goes with K.
Kernel ==
    LET s == SlopeParts
        proc == [c \in Ifgs |-> Proc(c)]
        k == [p \in Points |-> KNum(s, Sequential([c \in Ifgs |-> proc[c][p]]))]
        resid(p) == [c \in SolveIfgs |-> KDen(s) * proc[c][p] - k[p] * bperp.m[p][c]] IN
    [k |-> k, c |-> [p \in Points |-> CNum(resid(p))], kden |-> KDen(s),
     scla |-> [p \in Points |-> [c \in Ifgs |-> k[p] * bperp.m[p][c]]]]

-----------------------------------------------------------------------------
\* scla_smooth_edges.

\* load_scla_triangle_edges: lines that name no two points are passed over.
TriangleEdges ==
    {{e[1], e[2]} : e \in {d \in ToSet(In.edge.lines) : {d[1], d[2]} \subseteq Points /\ d[1] # d[2]}}
TriangleUsed ==
    /\ Len(In.xy) >= 2 /\ In.edge.st = "whole"
    /\ In.edge.nodes \in {0, Len(In.xy)}    \* 0: scla.1.node is missing or says nothing
    /\ TriangleEdges # {}

\* insert_edge over the triangles whose circle holds no other point.
InCircle(a, b, c, d) ==
    LET dx(p) == X(p) - X(d)  dy(p) == Y(p) - Y(d)  sq(p) == dx(p) * dx(p) + dy(p) * dy(p)
        m == (dx(a) * dy(b) - dx(b) * dy(a)) * sq(c)
             - (dx(a) * dy(c) - dx(c) * dy(a)) * sq(b)
             + (dx(b) * dy(c) - dx(c) * dy(b)) * sq(a) IN
    IF Det(a, b, c) > 0 THEN m > 0 ELSE m < 0
Delaunay ==
    UNION {{{t[1], t[2]}, {t[2], t[3]}, {t[1], t[3]}} :
        t \in {u \in Points \X Points \X Points :
                 u[1] < u[2] /\ u[2] < u[3] /\ Det(u[1], u[2], u[3]) # 0
                 /\ \A d \in Points \ {u[1], u[2], u[3]} : ~InCircle(u[1], u[2], u[3], d)}}
\* sorted_neighbor_edges, for points on a line.
Along ==
    LET o == SetToSortSeq(Points, LAMBDA p, q :
                 X(p) < X(q) \/ (X(p) = X(q) /\ (Y(p) < Y(q) \/ (Y(p) = Y(q) /\ p < q)))) IN
    {{o[i], o[i + 1]} : i \in 1..(Len(o) - 1)}

SmoothEdges ==
    IF TriangleUsed THEN TriangleEdges
    ELSE IF Len(In.xy) <= 2 \/ Delaunay = {} THEN Along ELSE Delaunay

\* smooth_scla_neighbor_envelope for one of the two values.
Neighbours(edges, p) == {q \in Points : {p, q} \in edges /\ q # p}
Smoothed(edges, f) ==
    [p \in Points |->
        LET n == {f[q] : q \in Neighbours(edges, p)} IN
        IF n = {} THEN f[p] ELSE IF f[p] > Max(n) THEN Max(n)
        ELSE IF f[p] < Min(n) THEN Min(n) ELSE f[p]]

-----------------------------------------------------------------------------
\* run_stage7_native.
NoFile == [st |-> "missing"]
Fail == pc' = "failed"

Start ==
    /\ pc = "start"
    /\ IF {"ps2", "phuw2", "ifgstd2"} \cap In.bad # {} \/ disk.bp2.st = "torn"
          \/ Cardinality(SolveIfgs) < 2
       THEN Fail ELSE pc' = "bperp"
    /\ UNCHANGED <<inp, run, bperp, out, disk>>

ReadBperp ==
    /\ pc = "bperp" /\ disk.bp2.st = "whole"
    /\ bperp' = Expanded(disk.bp2.m)
    /\ IF bperp'.st = "bad" THEN Fail ELSE pc' = "solve"
    /\ UNCHANGED <<inp, run, out, disk>>

RebuildBperp ==
    /\ pc = "bperp" /\ disk.bp2.st = "missing"
    /\ disk' = [disk EXCEPT !.bp2 = [st |-> "whole", m |-> Rebuilt]]
    /\ bperp' = Expanded(Rebuilt) /\ pc' = "solve"
    /\ UNCHANGED <<inp, run, out>>

Solve ==
    /\ pc = "solve"
    /\ IF In.edge.st = "torn" /\ Len(In.xy) >= 2 /\ In.edge.nodes \in {0, Len(In.xy)}
       THEN Fail /\ UNCHANGED out
       ELSE out' = Kernel @@ [edges |-> SmoothEdges] /\ pc' = "raw"
    /\ UNCHANGED <<inp, run, bperp, disk>>

WriteRaw ==
    /\ pc = "raw"
    /\ disk' = [disk EXCEPT !.scla2 = [st |-> "whole", k |-> out.k, c |-> out.c, scla |-> out.scla]]
    /\ pc' = "smooth"
    /\ UNCHANGED <<inp, run, bperp, out>>

WriteSmooth ==
    /\ pc = "smooth"
    /\ LET k == Smoothed(out.edges, out.k)  c == Smoothed(out.edges, out.c) IN
       disk' = [disk EXCEPT !.smooth = [st |-> "whole", k |-> k, c |-> c,
                   scla |-> [p \in Points |-> [i \in Ifgs |-> k[p] * bperp.m[p][i]]]]]
    /\ pc' = "done"
    /\ UNCHANGED <<inp, run, bperp, out>>

\* The process is killed in a write.
Kill ==
    /\ run = 1 /\ In.kill
    /\ \/ pc = "bperp" /\ disk.bp2.st = "missing" /\ disk' = [disk EXCEPT !.bp2 = [st |-> "torn"]]
       \/ pc = "raw" /\ disk' = [disk EXCEPT !.scla2 = [st |-> "torn"]]
       \/ pc = "smooth" /\ disk' = [disk EXCEPT !.smooth = [st |-> "torn"]]
    /\ pc' = "killed"
    /\ UNCHANGED <<inp, run, bperp, out>>

Again ==
    /\ run = 1 /\ pc \in {"done", "failed", "killed"}
    /\ run' = 2 /\ pc' = "start"
    /\ UNCHANGED <<inp, bperp, out, disk>>

Init ==
    /\ inp \in Histories
    /\ run = 1 /\ pc = "start" /\ bperp = NoFile /\ out = NoFile
    /\ disk = [bp2 |-> inp[1].bp2, scla2 |-> NoFile, smooth |-> NoFile]

Next ==
    \/ Start \/ ReadBperp \/ RebuildBperp \/ Solve \/ WriteRaw \/ WriteSmooth \/ Kill \/ Again
    \/ run = 2 /\ pc \in {"done", "failed"} /\ UNCHANGED vars

Spec == Init /\ [][Next]_vars

-----------------------------------------------------------------------------
\* Types; the two files of a run that ended belong together.
TypeOK ==
    /\ run \in {1, 2}
    /\ pc \in {"start", "bperp", "solve", "raw", "smooth", "done", "failed", "killed"}
    /\ \A f \in DOMAIN disk : disk[f].st \in {"missing", "torn", "whole"}
    /\ pc = "done" => /\ disk.scla2.st = "whole" /\ disk.smooth.st = "whole"
                      /\ disk.scla2.k = out.k /\ DOMAIN disk.smooth.k = Points

\* The baselines are those of ps2 where bp2 was made from it.
Faithful == bperp.st = "ok" /\ bperp.m = [p \in Points |-> In.b]
Singular == LET s == SlopeParts IN
    s.bb = 0 \/ (Coestimated /\ (s.bb * s.tt = s.bt * s.bt
                   \/ Cardinality({c \in SolveIfgs : Weight(c) # 0}) < 2))
Relative(f, p) ==
    IF ReferencePs = {} THEN f[p] ELSE RefScale * f[p] - Total([q \in ReferencePs |-> f[q]])

\* Without a plane, K and C of the points come back exactly, relative to the
\* reference points, whatever is wrong in the dropped interferograms and
\* whether the velocity is estimated along or there is none.
Recovered ==
    pc = "raw" /\ Faithful /\ ~Singular /\ ~Parms.deramp
    /\ In.noise \subseteq (In.drop \cup In.scladrop) /\ "parms" \notin In.bad
    /\ (Coestimated \/ \A p \in Points : In.V[p] = 0) /\ (\A c \in Ifgs : In.ramp[c] = 0) =>
        \A p \in Points :
            /\ out.k[p] = out.kden * Relative(In.K, p)
            /\ out.c[p] = out.kden * CDen * Relative(In.C, p)

\* The correction of an interferogram is K times its own baseline, so none
\* for the master, also when bp2 has no column for it.
CorrectionInPlace ==
    pc = "done" /\ inp[1].bp2.st = "missing" /\ inp[1].b = inp[2].b =>
        \A p \in Points, c \in Ifgs : disk.scla2.scla[p][c] = disk.scla2.k[p] * In.b[c]

\* With the plane taken off, K has no plane in it either.
PlaneRemoved ==
    pc = "raw" /\ Parms.deramp =>
        LET n == Len(In.xy)
            k(p) == n * out.k[p] - Total(out.k) IN
        /\ Total([p \in Points |-> k(p) * X(p)]) = 0
        /\ Total([p \in Points |-> k(p) * Y(p)]) = 0

\* K and C are zero on average over the reference points.
RefIsZero ==
    pc = "raw" /\ ReferencePs # {} /\ Faithful =>
        /\ Total([p \in ReferencePs |-> out.k[p]]) = 0
        /\ Total([p \in ReferencePs |-> out.c[p]]) = 0

\* Smoothing gives a point the value closest to its own between those its
\* neighbours had before.
Closest(f, g, p) ==
    LET n == {f[q] : q \in Neighbours(out.edges, p)}
        dist(x) == IF x > f[p] THEN x - f[p] ELSE f[p] - x IN
    /\ n = {} => g[p] = f[p]
    /\ n # {} => /\ \E x, y \in n : x <= g[p] /\ g[p] <= y
                 /\ \A x, y \in n : x <= f[p] /\ f[p] <= y => g[p] = f[p]
                 /\ (\A x \in n : x > f[p]) \/ (\A x \in n : x < f[p])
                      => \A x \in n : dist(g[p]) <= dist(x)
SmoothClosest ==
    pc = "done" => \A p \in Points :
        Closest(out.k, disk.smooth.k, p) /\ Closest(out.c, disk.smooth.c, p)

\* Without triangle files every point has a neighbour to be compared with.
EveryoneHasNeighbour ==
    pc = "raw" /\ ~TriangleUsed /\ Len(In.xy) >= 2 =>
        \A p \in Points : Neighbours(out.edges, p) # {}

-----------------------------------------------------------------------------
(* Small inputs.                                                           *)
(* Two to four points, on a line and off it, five interferograms of which  *)
(* the third is the master; other inputs vary one or two at a time.        *)
None == [st |-> "missing", nodes |-> 0, lines |-> <<>>]
File(m) == [st |-> "whole", m |-> m]
Four == <<<<0, 0>>, <<3, 0>>, <<1, 4>>, <<4, 3>>>>
Plain == [xy |-> Four, K |-> <<1, -2, 3, 0>>, C |-> <<2, 0, -1, 5>>, V |-> <<0, 0, 0, 0>>,
          b |-> <<3, -1, 0, 2, 5>>, ramp |-> <<0, 0, 0, 0, 0>>, noise |-> {}, weight |-> <<1, 2, 1, 0, 1>>,
          bad |-> {}, sb |-> FALSE, deramp |-> FALSE, drop |-> {}, scladrop |-> {}, coest |-> FALSE,
          ref |-> "all", box |-> {}, bp2 |-> NoFile, edge |-> None, kill |-> FALSE]

Layouts == {Four, <<<<0, 0>>, <<1, 0>>, <<5, 1>>, <<2, 3>>>>, <<<<0, 0>>, <<4, 0>>, <<0, 4>>, <<1, 1>>>>}
OnLine == <<<<2, 2>>, <<0, 0>>, <<3, 3>>, <<1, 1>>>>
Values == {<<1, -2, 3, 0>>, <<0, 4, 1, -3>>, <<2, 2, 2, -1>>}
First(n, r) == [r EXCEPT !.xy = SubSeq(@, 1, n), !.K = SubSeq(@, 1, n), !.C = SubSeq(@, 1, n), !.V = SubSeq(@, 1, n)]

Geometry ==
    {[Plain EXCEPT !.xy = x, !.K = k, !.C = c, !.deramp = d, !.ramp = r, !.ref = f, !.box = b] :
        x \in Layouts, k \in Values, c \in {<<2, 0, -1, 5>>, <<0, 1, 2, 3>>},
        d \in BOOLEAN, r \in {<<0, 0, 0, 0, 0>>, <<1, 0, 2, -1, 3>>},
        f \in {"all", "none", "box"}, b \in {{2, 3}, {9}}}
    \cup {[Plain EXCEPT !.xy = OnLine, !.K = k, !.box = b, !.ref = "box"] : k \in Values, b \in {{1}, {2, 3}}}
    \cup {First(2, Plain), First(3, Plain), First(3, [Plain EXCEPT !.deramp = TRUE])}
Estimation ==
    {[Plain EXCEPT !.V = v, !.coest = e, !.scladrop = s, !.drop = d, !.noise = n, !.sb = sb, !.b = b] :
        v \in {<<0, 0, 0, 0>>, <<1, 0, -1, 2>>}, e \in BOOLEAN, s \in {{}, {5}, {2, 5}, {4}},
        d \in {{}, {1}, {1, 2}}, n \in {{}, {5}, {1}}, sb \in BOOLEAN,
        b \in {<<3, -1, 0, 2, 5>>, <<0, 0, 0, 0, 0>>, <<-2, -1, 0, 1, 2>>}}
Files ==
    {[Plain EXCEPT !.bp2 = File(m)] :
        m \in {[p \in 1..4 |-> <<3, -1, 2, 5>>], [p \in 1..4 |-> <<3, -1, 0, 2, 5>>],
               [p \in 1..4 |-> <<3, p, 0, 2, 5>>], [p \in 1..4 |-> <<3>>], [p \in 1..3 |-> <<3, -1, 2, 5>>]}}
    \cup {[Plain EXCEPT !.edge = [st |-> s, nodes |-> n, lines |-> l]] :
            s \in {"whole", "torn"}, n \in {0, 4, 9},
            l \in {<<<<1, 2>>, <<2, 3>>>>, <<<<0, 1>>, <<4, 4>>, <<9, 1>>>>}}
    \cup {[Plain EXCEPT !.bad = {f}] : f \in {"parms", "ps2", "phuw2", "ifgstd2"}}
    \cup {[Plain EXCEPT !.kill = TRUE], [Plain EXCEPT !.sb = TRUE]}

MCHistories ==
    {<<a, a>> : a \in Geometry \cup Estimation} \cup {<<a, b>> : a, b \in Files \cup {Plain}}
MCDay == <<1, 2, 4, 7, 9>>
=============================================================================
