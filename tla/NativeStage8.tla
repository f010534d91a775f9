----------------------------- MODULE NativeStage8 -----------------------------
(***************************************************************************)
(* Stage 8 of the native Rust driver.  Two branches run side by side: the  *)
(* mean velocity of every point, and for every edge of the stage-6 graph   *)
(* the phase difference unwrapped in time around its look-angle error.     *)
(* Both have to succeed before either file is written.                     *)
(*                                                                         *)
(* Phases of edges are whole steps, 32 to a cycle; what the code keeps in  *)
(* floating point is rounded to the nearest step.                          *)
(***************************************************************************)
EXTENDS Integers, Sequences, FiniteSets, FiniteSetsExt, SequencesExt, Functions, TLC

CONSTANTS
    NIfg, Master,   \* interferograms 1..NIfg, the master among them
    Inputs,         \* records of everything the stage reads
    Wave            \* cosine and sine of 0..31 steps, in hundredths

\* Where
\* /\ NIfg \in Nat /\ NIfg > 2 /\ Master \in 1..NIfg
\* /\ \A i \in Inputs : Len(i.xy) = 4

VARIABLES inp, pc, vel, space, disk
vars == <<inp, pc, vel, space, disk>>

Cycle == 32
Total(f) == FoldFunction(+, 0, f)
Wrap(x) == ((x + Cycle \div 2) % Cycle) - Cycle \div 2
\* n / d to the nearest whole number, d > 0.
Round(n, d) == (2 * n + d) \div (2 * d)

\* The same function, worked out once.
Table(f) == f @@ <<>>

Points == DOMAIN inp.xy
X(p) == inp.xy[p][1]
Y(p) == inp.xy[p][2]
Others == SelectSeq([i \in 1..NIfg |-> i], LAMBDA i : i # Master)   \* unwrap_ifg of the edges
Cols == DOMAIN Others

-----------------------------------------------------------------------------
\* Reading phuw2 and scla2: MAT files, HDF5 with rows of points (marked as
\* row major), or HDF5 with rows of interferograms, as MATLAB writes it.

\* read_stage8_phase_matrix: an HDF5 dataset with n_ifg rows and n_ps columns
\* is taken for rows of interferograms; the mark is not looked at.
Stored(kind, f, a, b) == IF kind = "rows" THEN f[a][b] ELSE f[b][a]
Value(kind, f, p, c) ==
    IF kind = "mat" THEN f[p][c]
    ELSE IF kind = "ifgs" \/ Len(inp.xy) = NIfg THEN Stored(kind, f, c, p)
    ELSE Stored(kind, f, p, c)
\* read_stage8_c_ps_uw: no C_ps_uw means none to take off.
COf(p) == IF inp.cgone THEN 0 ELSE inp.C[p]

-----------------------------------------------------------------------------
\* stage8_mean_velocity_payload.

\* load_stage8_parms: a parms.mat that cannot be read gives the defaults.
Parms == IF "parms" \in inp.bad
         THEN [drop |-> {}, ref |-> "all", box |-> {}, sb |-> FALSE, method |-> "3D"]
         ELSE [drop |-> inp.drop, ref |-> inp.ref, box |-> inp.box, sb |-> inp.sb, method |-> inp.method]

\* Mutant of UnwrapIx: dropped interferograms are used.
UnwrapIxAll == (1..NIfg) \ {Master}
UnwrapIx == (1..NIfg) \ (Parms.drop \cup {Master})

\* stage8_phase_use.
PhUw == [p \in Points |-> [c \in 1..NIfg |->
            inp.K[p] * inp.b[c] + inp.C[p] + inp.V[p] * (inp.day[c] - inp.day[Master])
            + inp.ramp[c] * (2 * X(p) - Y(p) + 3) + (IF c \in inp.noise THEN 5 * p * p ELSE 0)]]
PhScla == [p \in Points |-> [c \in 1..NIfg |-> inp.K[p] * inp.b[c]]]
PhaseUse(p, c) == Value(inp.uwkind, PhUw, p, c) - Value(inp.sclakind, PhScla, p, c)

\* deramp_unwrapped_phase_in_place: what no plane reaches is left, with four
\* points along one vector only; the result is over RampScale.
Det(a, b, c) == (X(b) - X(a)) * (Y(c) - Y(a)) - (X(c) - X(a)) * (Y(b) - Y(a))
OffPlane == <<Det(2, 3, 4), -Det(1, 3, 4), Det(1, 2, 4), -Det(1, 2, 3)>>
RampScale == Total([p \in Points |-> OffPlane[p] * OffPlane[p]])
Deramped(f) ==
    LET along == Total([p \in Points |-> OffPlane[p] * f[p]]) IN
    [p \in Points |-> OffPlane[p] * along]

\* select_reference_ps, center_values_to_reference, over RefScale.
ReferencePs ==
    IF Parms.ref = "none" THEN {}
    ELSE IF Parms.ref = "all" \/ Parms.box \cap Points = {} THEN Points
    ELSE Parms.box \cap Points
RefScale == IF ReferencePs = {} THEN 1 ELSE Cardinality(ReferencePs)
Centered(f) == [p \in Points |-> RefScale * f[p] - Total([q \in ReferencePs |-> f[q]])]

\* subtract_c_ps_uw between the two.
PhUse(c) ==
    LET d == Deramped([p \in Points |-> PhaseUse(p, c)]) IN
    Centered([p \in Points |-> d[p] - RampScale * COf(p)])

\* fit_stage8_mean_velocity: the slope over Den; 0 when it has none.
Fit(y) ==
    LET w == [c \in UnwrapIx |-> inp.weight[c]]
        t == [c \in UnwrapIx |-> inp.day[c] - inp.day[Master]]
        s(f, g) == Total([c \in UnwrapIx |-> w[c] * f[c] * g[c]])
        one == [c \in UnwrapIx |-> 1] IN
    [num |-> s(y, t) * s(one, one) - s(y, one) * s(t, one),
     den |-> s(one, one) * s(t, t) - s(t, one) * s(t, one)]
MeanV ==
    LET y == Table([c \in UnwrapIx |-> Table(PhUse(c))]) IN
    [p \in Points |-> Fit([c \in UnwrapIx |-> y[c][p]])]

\* ps2 and parms were read; a missing weight or phase stops the branch.
VelocityOk == {"ifgstd2", "phuw2", "scla2"} \cap inp.bad = {} /\ UnwrapIx # {}

-----------------------------------------------------------------------------
\* load_stage8_space_inputs.

\* single_master_close_master_ix, single_master_insert_ix.
DayUse == [i \in Cols |-> inp.day[Others[i]] - inp.day[Master]]
BperpUse == [i \in Cols |-> inp.b[Others[i]]]
InsertIxOf(day) ==
    LET later == {i \in DOMAIN day : day[i] > 0} IN
    IF later = {} THEN Len(day)
    ELSE CHOOSE i \in later : \A j \in later : day[i] < day[j] \/ (day[i] = day[j] /\ i <= j)
InsertIx == InsertIxOf(DayUse)
CloseMaster == {i \in {InsertIx - 1, InsertIx} : i >= 1}
Inserted(s, x, at) == SubSeq(s, 1, at - 1) \o <<x>> \o SubSeq(s, at, Len(s))
WithMaster(s, x) == Inserted(s, x, InsertIx)

\* edge_table; the grid must have a column for every interferogram.
SpaceOk ==
    /\ {"uw_grid", "uw_interp"} \cap inp.bad = {}
    /\ inp.gridcols = Len(Others)
    /\ \A e \in ToSet(inp.edges) : {e[1], e[2]} \subseteq DOMAIN inp.grid /\ e[1] # e[2]

\* stage8_edge_phasors.  A node without phase gives an edge without phase.
Dark == 1000
EdgePhase(e) ==
    [i \in Cols |-> LET a == inp.grid[e[1]][i]  b == inp.grid[e[2]][i] IN
                    IF Dark \in {a, b} THEN Dark ELSE Wrap(b - a)]

Phasor(x) == IF x = Dark THEN <<0, 0>> ELSE Wave[x % 32]
\* Sum of phasors, weighted, and its direction to the nearest step.
Plus(u, v) == <<u[1] + v[1], u[2] + v[2]>>
Times(k, v) == <<k * v[1], k * v[2]>>
Resultant(w, ph) == FoldFunction(Plus, <<0, 0>>, [i \in DOMAIN ph |-> Times(w[i], Phasor(ph[i]))])
Along(v, n) == v[1] * Phasor(n)[1] + v[2] * Phasor(n)[2]
Arg(v) ==
    IF v = <<0, 0>> THEN 0
    ELSE LET top == Max({Along(v, n) : n \in 0..31}) IN
         Wrap(CHOOSE n \in 0..31 : Along(v, n) = top)
Square(v) == v[1] * v[1] + v[2] * v[2]
Root(n) == CHOOSE r \in 0..2000 : r * r <= n /\ n < (r + 1) * (r + 1)

-----------------------------------------------------------------------------
\* Stage8LaModel and estimate_stage8_la_error_row: K of an edge in steps per
\* baseline unit, a fraction.
Steps(s) == [i \in 1..(Len(s) - 1) |-> s[i + 1] - s[i]]
Spread(s) == Max(ToSet(s)) - Min(ToSet(s))
BperpDiff == Steps(WithMaster(BperpUse, 0))
NonZero(s) == SelectSeq([i \in DOMAIN s |-> i], LAMBDA i : s[i] # 0)
\* ceil(8 * n_trial_wraps_sub).
TrialBoundOf(orig, r) ==
    IF orig = 0 THEN 8 * inp.wraps ELSE (8 * inp.wraps * r + orig - 1) \div orig
LaModelOf(diff, ix) ==
    [ix |-> ix, d |-> [j \in DOMAIN ix |-> diff[ix[j]]], r |-> Spread(diff),
     bound |-> TrialBoundOf(Spread(BperpUse), Spread(diff))]
LaModel == LaModelOf(BperpDiff, NonZero(BperpDiff))
\* The phase of a trial; baselines are such that it is whole.
TrialPhase(d, t, r) == (Cycle * d * t) \div (8 * r)

PhaseSteps(s) ==
    [i \in 1..(Len(s) - 1) |-> IF Dark \in {s[i], s[i + 1]} THEN Dark ELSE Wrap(s[i + 1] - s[i])]
At(s, ix) == [j \in DOMAIN ix |-> s[ix[j]]]
StepPhases(row, ix) == At(PhaseSteps(WithMaster(row, 0)), ix)
Turned(ph, by) == [j \in DOMAIN ph |-> IF ph[j] = Dark THEN Dark ELSE Wrap(ph[j] - by[j])]
Ones(ph) == [j \in DOMAIN ph |-> 1]
Lit(ph) == Cardinality({j \in DOMAIN ph : ph[j] # Dark})

\* The first best trial, and the best one outside its peak.
Peak(coh) ==
    LET T == DOMAIN coh
        best == CHOOSE t \in T : \A u \in T : coh[u] < coh[t] \/ (coh[u] = coh[t] /\ t <= u)
        falls == {t \in T : t < best /\ coh[t + 1] < coh[t]}
        rises == {t \in T : t >= best /\ t + 1 \in T /\ coh[t + 1] > coh[t]}
        start == IF falls = {} THEN Min(T) ELSE Max(falls) + 1
        end == IF rises = {} THEN Max(T) ELSE Min(rises) IN
    [at |-> best, top |-> coh[best], next |-> Max({0} \cup {coh[t] : t \in {u \in T : u < start \/ u > end}})]

NoK == [n |-> 0, d |-> 1]
\* What a trial leaves of the steps, and how well it explains them.
LeftBy(m, ph, t) == Turned(ph, [j \in DOMAIN ph |-> TrialPhase(m.d[j], t, m.r)])
TrialLengths(m, ph) ==
    Table([t \in (-m.bound)..m.bound |-> Square(Resultant(Ones(ph), LeftBy(m, ph, t)))])
\* k0 of a trial, and the slope of what it leaves around its mean.
Refined(m, at, res, mean) ==
    LET lit == {j \in DOMAIN res : res[j] # Dark}
        sum == FoldFunction(Plus, <<0, 0>>,
                  [j \in lit |-> <<m.d[j] * Wrap(res[j] - mean), m.d[j] * m.d[j]>>]) IN
    [n |-> Cycle * at * sum[2] + 8 * m.r * sum[1], d |-> 8 * m.r * sum[2]]
RefinedK(m, at, res) == Refined(m, at, res, Arg(Resultant(Ones(res), res)))
KeptIf(m, ph, k) ==
    IF Root(Square(Resultant(Ones(ph), Turned(ph, [j \in DOMAIN ph |-> Round(k.n * m.d[j], k.d)])))) < 31 * Lit(ph)
    THEN NoK ELSE k
FromPeak(m, ph, peak) ==
    IF Root(peak.top) - Root(peak.next) <= 10 * Lit(ph) THEN NoK
    ELSE KeptIf(m, ph, RefinedK(m, peak.at, Table(LeftBy(m, ph, peak.at))))
FromSteps(m, ph) == IF Lit(ph) = 0 THEN NoK ELSE FromPeak(m, ph, Peak(TrialLengths(m, ph)))
LaError(m, row) == IF m.ix = <<>> THEN NoK ELSE FromSteps(m, Table(StepPhases(row, m.ix)))

-----------------------------------------------------------------------------
\* Stage8SmoothModel and smooth_stage8_edge_row.

\* exp(-dt^2 / 2 time_win^2), in a few steps.
TimeWeight(dt) == Max({1, 6 - (IF dt < 0 THEN -dt ELSE dt)})
\* The value at 0 of the line through a; without a slope the mean.
Intercept(s0, s1, s2, a0, a1) ==
    IF s0 * s2 - s1 * s1 = 0 THEN Round(a0, s0) ELSE Round(a0 * s2 - a1 * s1, s0 * s2 - s1 * s1)
LineAt0(w, t, a) ==
    Intercept(Total(w), Total([j \in Cols |-> w[j] * t[j]]), Total([j \in Cols |-> w[j] * t[j] * t[j]]),
              Total([j \in Cols |-> w[j] * a[j]]), Total([j \in Cols |-> w[j] * a[j] * t[j]]))
Around(mean, angle, t) ==
    [j \in Cols |-> LET x == Wrap(angle[j] - mean) IN
                    IF x = -(Cycle \div 2) /\ t[j] > 0 THEN Cycle \div 2 ELSE x]
AroundMean(angle, t, w, mean) == Wrap(mean + LineAt0(w, t, Table(Around(mean, angle, t))))
AlongSum(angle, t, w, v) == IF v = <<0, 0>> THEN 0 ELSE AroundMean(angle, t, w, Arg(v))
Weighted(angle, lit, t, w) ==
    AlongSum(angle, t, w, Resultant(w, [j \in Cols |-> IF lit[j] THEN angle[j] ELSE Dark]))
SmoothAngle(angle, lit, t) == Weighted(angle, lit, t, Table([j \in Cols |-> TimeWeight(t[j])]))

\* Whole cycles that bring the mean next to the master within half a cycle.
CloseOffset(uw, close) ==
    LET n == Cardinality(close)  m == Total([i \in close |-> uw[i]]) IN
    Cycle * ((2 * m + n * Cycle) \div (2 * n * Cycle))

KPhase(k, i) == Round(k.n * BperpUse[i], k.d)
Unwrapped(smooth) ==
    LET uw[i \in Cols] == IF i = 1 THEN smooth[1] ELSE uw[i - 1] + Wrap(smooth[i] - smooth[i - 1]) IN uw
\* row_std_f32 above 1.2 radians.
Noisy(noise) ==
    LET n == Len(Others) IN
    n * Total([i \in Cols |-> noise[i] * noise[i]]) - Total(noise) * Total(noise) > 37 * n * (n - 1)
EdgeRow(k, uw, off, noise) ==
    [bad |-> Noisy(noise), noise |-> noise, k |-> k,
     uw |-> [i \in Cols |-> uw[i] - off + noise[i] + KPhase(k, i)]]
NextToMaster(k, uw, noise) == EdgeRow(k, uw, CloseOffset(uw, CloseMaster), noise)
WithSmooth(k, angle, smooth) ==
    NextToMaster(k, Table(Unwrapped(smooth)), Table([i \in Cols |-> Wrap(angle[i] - smooth[i])]))
Smoothed(k, angle, lit) ==
    WithSmooth(k, angle,
               Table([i \in Cols |-> SmoothAngle(angle, lit, Table([j \in Cols |-> DayUse[i] - DayUse[j]]))]))
WithoutK(row, k) == Table([i \in Cols |-> IF row[i] # Dark THEN Wrap(row[i] - KPhase(k, i)) ELSE 0])
SmoothEdge(row, k) == Smoothed(k, WithoutK(row, k), [i \in Cols |-> row[i] # Dark])

\* stage8_active_single_master_space_time.
EdgeOf(m, row) == SmoothEdge(row, LaError(m, row))
SpaceTimeOf(m) == [n \in DOMAIN inp.edges |-> EdgeOf(m, Table(EdgePhase(inp.edges[n])))]
SpaceTime == SpaceTimeOf(LaModel)

-----------------------------------------------------------------------------
\* run_stage8_native.
Pending == [st |-> "pending"]

Start ==
    /\ pc = "start"
    /\ IF {"ps2", "uw_grid?", "uw_interp?", "phuw2?", "scla2?"} \cap inp.bad # {}
          \/ Parms.sb \/ Parms.method \notin {"3D", "3D_NEW", "3D_FULL"}
       THEN pc' = "failed" ELSE pc' = "compute"
    /\ UNCHANGED <<inp, vel, space, disk>>

\* The two branches of rayon::join.
Velocity ==
    /\ pc = "compute" /\ vel.st = "pending"
    /\ vel' = IF VelocityOk THEN [st |-> "ok", m |-> MeanV] ELSE [st |-> "error"]
    /\ UNCHANGED <<inp, pc, space, disk>>

Space ==
    /\ pc = "compute" /\ space.st = "pending"
    /\ space' = IF SpaceOk THEN [st |-> "ok", rows |-> SpaceTime] ELSE [st |-> "error"]
    /\ UNCHANGED <<inp, pc, vel, disk>>

Join ==
    /\ pc = "compute" /\ vel.st # "pending" /\ space.st # "pending"
    /\ pc' = IF vel.st = "ok" /\ space.st = "ok" THEN "write" ELSE "failed"
    /\ UNCHANGED <<inp, vel, space, disk>>

\* write_mean_v and write_uw_space_time, each in two steps: the file is
\* emptied first.
WriteV ==
    /\ pc = "write" /\ disk.mean_v.st # "new"
    /\ disk' = [disk EXCEPT !.mean_v = [st |-> IF @.st = "old" THEN "torn" ELSE "new"]]
    /\ UNCHANGED <<inp, pc, vel, space>>
WriteS ==
    /\ pc = "write" /\ disk.uw_space_time.st # "new"
    /\ disk' = [disk EXCEPT !.uw_space_time = [st |-> IF @.st = "old" THEN "torn" ELSE "new"]]
    /\ UNCHANGED <<inp, pc, vel, space>>
End ==
    /\ pc = "write" /\ disk.mean_v.st = "new" /\ disk.uw_space_time.st = "new"
    /\ pc' = "done"
    /\ UNCHANGED <<inp, vel, space, disk>>

Kill == inp.kill /\ pc \in {"compute", "write"} /\ pc' = "killed" /\ UNCHANGED <<inp, vel, space, disk>>

Init ==
    /\ inp \in Inputs
    /\ pc = "start" /\ vel = Pending /\ space = Pending
    /\ disk = [mean_v |-> [st |-> "old"], uw_space_time |-> [st |-> "old"]]

Next ==
    \/ Start \/ Velocity \/ Space \/ Join \/ WriteV \/ WriteS \/ End \/ Kill
    \/ pc \in {"done", "failed", "killed"} /\ UNCHANGED vars

Spec == Init /\ [][Next]_vars

-----------------------------------------------------------------------------
\* Types; a run that ended well has written both files.
TypeOK ==
    /\ pc \in {"start", "compute", "write", "done", "failed", "killed"}
    /\ vel.st \in {"pending", "ok", "error"} /\ space.st \in {"pending", "ok", "error"}
    /\ \A f \in DOMAIN disk : disk[f].st \in {"old", "torn", "new"}
    /\ pc = "done" => \A f \in DOMAIN disk : disk[f].st = "new"

\* A run that fails leaves the files of the run before as they were.
FailureWritesNothing ==
    pc = "failed" => \A f \in DOMAIN disk : disk[f].st = "old"

\* The mean velocity of a point is its own, without the plane over the
\* points and relative to the reference, whatever K, C and the dropped
\* interferograms are.
Expected ==
    LET along == Total([p \in Points |-> OffPlane[p] * inp.V[p]])
        v == [p \in Points |-> OffPlane[p] * along] IN
    [p \in Points |-> IF ReferencePs = {} THEN v[p]
                      ELSE Cardinality(ReferencePs) * v[p] - Total([q \in ReferencePs |-> v[q]])]
VelocityRecovered ==
    vel.st = "ok" /\ inp.noise \subseteq inp.drop /\ "parms" \notin inp.bad
    /\ (Len(inp.xy) # NIfg \/ "rows" \notin {inp.uwkind, inp.sclakind}) =>
        \A p \in Points : vel.m[p].num = vel.m[p].den * Expected[p]

\* An edge whose phase is a look-angle error within the trials, and nothing
\* else, is unwrapped to exactly that, over any number of cycles, unless
\* another trial, or one next to them, explains its steps as well but for a
\* constant.
Exact(e) ==
    LET ph == Table(EdgePhase(e))  b == Table(BperpUse)  r == LaModel.r  n == LaModel.bound IN
    {k \in -40..40 :
        /\ (8 * r * k) % Cycle = 0 /\ (8 * r * k) \div Cycle \in -n..n
        /\ \A i \in Cols : ph[i] # Dark /\ (ph[i] - k * b[i]) % Cycle = 0}
Alike(k) ==
    {l \in -40..40 :
        /\ (8 * LaModel.r * l) \div Cycle \in (-LaModel.bound - 4)..(LaModel.bound + 4)
        /\ \A i, j \in DOMAIN LaModel.d : ((k - l) * (LaModel.d[i] - LaModel.d[j])) % Cycle = 0}
LaRecovered ==
    pc = "compute" /\ space.st = "ok" /\ LaModel.ix # <<>> =>
        \A n \in DOMAIN inp.edges : \A k \in Exact(inp.edges[n]) :
            Alike(k) = {k} => \A i \in Cols :
                space.rows[n].uw[i] = k * BperpUse[i] /\ space.rows[n].noise[i] = 0

\* Unwrapping an edge only adds whole cycles to its phase.
OnlyCyclesAdded ==
    pc = "compute" /\ space.st = "ok" => \A n \in DOMAIN inp.edges : \A i \in Cols :
        LET ph == EdgePhase(inp.edges[n])[i] IN
        ph # Dark => (space.rows[n].uw[i] - ph) % Cycle = 0

\* Next to the master the smooth part is within half a cycle of zero.
CloseToMaster ==
    pc = "compute" /\ space.st = "ok" => \A n \in DOMAIN inp.edges :
        LET r == space.rows[n]
            smooth(i) == r.uw[i] - r.noise[i] - KPhase(r.k, i)
            m == Total([i \in CloseMaster |-> smooth(i)]) IN
        2 * m >= -(Cycle * Cardinality(CloseMaster)) /\ 2 * m < Cycle * Cardinality(CloseMaster)

-----------------------------------------------------------------------------
(* Small inputs.                                                           *)
(* Four points, five interferograms of which the third is the master,      *)
(* three grid nodes and up to three edges.                                 *)
Sine == LET q == <<0, 20, 38, 56, 71, 83, 92, 98, 100>> IN
    [n \in 0..31 |-> IF n <= 8 THEN q[n + 1] ELSE IF n <= 16 THEN q[17 - n]
                     ELSE IF n <= 24 THEN -q[n - 15] ELSE -q[33 - n]]
MCWave == Table([n \in 0..31 |-> <<Sine[(n + 8) % 32], Sine[n]>>])

Four == <<<<0, 0>>, <<3, 0>>, <<1, 4>>, <<4, 3>>>>
Cut(s) == <<s[1], s[2], s[4], s[5]>>
\* Nodes whose phase is a look-angle error, a trend and something else.
Nodes(k, trend, b, day, extra) ==
    [n \in 1..3 |-> [i \in 1..4 |-> Wrap(k[n] * Cut(b)[i] + trend[n] * (Cut(day)[i] - day[3]) + extra[n][i])]]
Zero == <<<<0, 0, 0, 0>>, <<0, 0, 0, 0>>, <<0, 0, 0, 0>>>>
B1 == <<1, -1, 0, 2, 1>>
D1 == <<1, 2, 4, 7, 9>>
Plain == [xy |-> Four, K |-> <<1, -2, 3, 0, 4>>, C |-> <<2, 0, -1, 5, 1>>, V |-> <<1, 0, -2, 2, 3>>,
          b |-> B1, day |-> D1, ramp |-> <<0, 0, 0, 0, 0>>, noise |-> {}, weight |-> <<1, 2, 1, 1, 3>>,
          bad |-> {}, sb |-> FALSE, method |-> "3D", drop |-> {}, ref |-> "all", box |-> {2, 3},
          uwkind |-> "mat", sclakind |-> "rows", cgone |-> FALSE, wraps |-> 1, gridcols |-> 4,
          grid |-> Nodes(<<0, 3, -2>>, <<0, 1, 0>>, B1, D1, Zero),
          edges |-> <<<<1, 2>>, <<2, 3>>, <<1, 3>>>>, kill |-> FALSE]

Velocities ==
    {[Plain EXCEPT !.V = v, !.ramp = r, !.drop = d, !.noise = n, !.ref = f, !.weight = w] :
        v \in {<<1, 0, -2, 2, 3>>, <<0, 0, 0, 5, 0>>}, r \in {<<0, 0, 0, 0, 0>>, <<1, 0, 2, -1, 3>>},
        d \in {{}, {1}, {4, 5}}, n \in {{}, {1}}, f \in {"all", "none", "box"},
        w \in {<<1, 2, 1, 1, 3>>, <<0, 0, 1, 1, 0>>}}
    \cup {[Plain EXCEPT !.uwkind = u, !.sclakind = s, !.cgone = c, !.drop = d] :
            u \in {"mat", "rows", "ifgs"}, s \in {"mat", "rows", "ifgs"}, c \in BOOLEAN, d \in {{}, {2}}}
\* Baselines for which the phases of all trials are whole steps: the master
\* is in the middle, the first and the last.
Baselines ==
    ({B1, <<0, -2, 0, 2, 2>>, <<0, 0, 0, 0, 0>>, <<1, 1, 0, -3, -2>>} \X {D1})
    \cup ({<<2, 1, 0, 3, 1>>, <<2, 0, 0, 2, 2>>} \X {<<3, 4, 1, 5, 6>>})
    \cup ({<<1, -1, 0, 1, 1>>, <<2, 2, 0, 0, -2>>} \X {<<1, 2, 9, 4, 7>>})
Edges ==
    {[Plain EXCEPT !.b = bd[1], !.day = bd[2], !.wraps = w, !.grid = Nodes(k, t, bd[1], bd[2], x)] :
        bd \in Baselines,
        w \in {1, 2}, k \in {<<0, 3, -2>>, <<0, 7, -4>>}, t \in {<<0, 0, 0>>, <<0, 1, -4>>},
        x \in {Zero, <<<<0, 9, -3, 0>>, <<4, 0, 0, -6>>, <<12, -14, 5, 1>>>>, <<<<0, 0, 0, 0>>, <<15, 0, 0, 15>>, <<0, 15, 15, 0>>>>}}
    \cup {[Plain EXCEPT !.grid[n][i] = Dark] : n \in 1..3, i \in {1, 3}}
    \cup {[Plain EXCEPT !.grid = [n \in 1..3 |-> <<Dark, Dark, Dark, Dark>>]]}
Errors ==
    {[Plain EXCEPT !.bad = {f}] : f \in {"parms", "ps2", "phuw2", "scla2", "uw_grid", "uw_interp", "ifgstd2", "phuw2?"}}
    \cup {[Plain EXCEPT !.drop = {1, 2, 4, 5}], [Plain EXCEPT !.sb = TRUE], [Plain EXCEPT !.method = "2D"],
          [Plain EXCEPT !.gridcols = 3], [Plain EXCEPT !.edges = <<<<1, 4>>>>], [Plain EXCEPT !.kill = TRUE]}
MCInputs == Velocities \cup Edges \cup Errors
=============================================================================
