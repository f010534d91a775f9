----------------------------- MODULE NativeStage6 -----------------------------
(***************************************************************************)
(* Stage 6 of the native Rust driver: the phases of the merged points are  *)
(* averaged on a grid, unwrapped along a graph of the occupied cells, and  *)
(* handed back to the points.  uw_grid.mat and uw_interp.mat of an earlier *)
(* run are used again when they are there.                                 *)
(*                                                                         *)
(* Phases are whole numbers, Cycle of them to a cycle; the phase of a      *)
(* point is a plane over the grid with a slope per interferogram.          *)
(***************************************************************************)
EXTENDS Integers, Sequences, FiniteSets, FiniteSetsExt, SequencesExt

CONSTANTS
    Cycle,       \* an even number of phase steps
    Ifgs,        \* interferograms, the master among them
    Master,
    Histories    \* pairs of the inputs of two runs

\* Where
\* /\ Cycle \in Nat /\ Cycle > 0 /\ Cycle % 2 = 0
\* /\ Ifgs \in SUBSET (Nat \ {0}) /\ Master \in Ifgs

VARIABLES
    inp, run,    \* the inputs of both runs, and the run that is on
    pc,
    grid,        \* UwGrid
    interp,      \* UwInterp
    disk         \* uw_grid, uw_interp, uw_phaseuw, phuw2

vars == <<inp, run, pc, grid, interp, disk>>
In == inp[run]
Points == DOMAIN In.cells

Wrap(x) == ((x + Cycle \div 2) % Cycle) - Cycle \div 2

-----------------------------------------------------------------------------
\* Inputs: parms, files that are missing, torn or of another shape.

\* load_stage6_parms: a parms.mat that cannot be read gives the defaults.
Dropped == IF "parms" \in In.bad THEN {} ELSE In.drop
PatchPhase == "parms" \notin In.bad /\ In.patchphase
SmallBaseline == "parms" \notin In.bad /\ In.sb
UnwrapCols == Ifgs \ (Dropped \cup {Master})

\* rc2_phase_shape_if_compatible, read_rc2_phase_if_compatible: an rc2 with a
\* foreign shape is as good as none, a torn one is an error.
NeedsPh2 == ~PatchPhase /\ In.rc2 \in {"missing", "foreign"}
RequiredReadable ==
    /\ {"ps2", "pm2", "bp2", "ifgstd2"} \cap In.bad = {}
    /\ ~PatchPhase => In.rc2 # "torn"
    /\ NeedsPh2 => "ph2" \notin In.bad

\* expand_bperp_matrix and the topographic phase that is put back on rc2.
Topography(c) == IF ~PatchPhase /\ ~NeedsPh2 THEN In.k * c ELSE 0
\* The phase before stage 7's corrections are taken off.
Base(p, c) ==
    IF c = Master THEN 0
    ELSE In.slope[c][1] * In.cells[p][1] + In.slope[c][2] * In.cells[p][2] + Topography(c)

\* phase_restore of build_wrapped_phase: K_ps_uw, C_ps_uw and ph_ramp of
\* scla_smooth2, as long as they have a value for every point.
Restore(p, c) == In.scla * (p + c)
Dark(p, c) == <<p, c>> \in In.dark
WrappedPhase(p, c) == Wrap(Base(p, c) - Restore(p, c))

-----------------------------------------------------------------------------
\* build_uw_grid.

\* The last row and the last column are joined with the ones before.
Joined(n, top) == IF n = top /\ top > 1 THEN top - 1 ELSE n
GridIJ ==
    LET top(a) == Max({In.cells[p][a] : p \in Points}) IN
    [p \in Points |-> <<Joined(In.cells[p][1], top(1)), Joined(In.cells[p][2], top(2))>>]

\* Sum of unit vectors: at most two points share a cell here, and their
\* phases differ by less than half a cycle.
Mean(ps, c) ==
    LET lit == {p \in ps : ~Dark(p, c)} IN
    IF lit = {} THEN 0
    ELSE LET a == WrappedPhase(Min(lit), c) IN
         Wrap(a + Wrap(WrappedPhase(Max(lit), c) - a) \div 2)

ColumnMajor(a, b) == a[2] < b[2] \/ (a[2] = b[2] /\ a[1] < b[1])
RowMajor(a, b) == a[1] < b[1] \/ (a[1] = b[1] /\ a[2] < b[2])

\* Cells are kept when the first interferogram is not zero there.
BuildGrid ==
    LET ij == GridIJ
        members(cell) == {p \in Points : ij[p] = cell}
        first == Min(UnwrapCols)
        lit == {cell \in {ij[p] : p \in Points} : \E p \in members(cell) : ~Dark(p, first)}
        nodes == SetToSortSeq(lit, ColumnMajor) IN
    [st |-> "whole", cells |-> In.cells, ij |-> ij, cols |-> UnwrapCols, nodes |-> nodes,
     ph |-> [n \in DOMAIN nodes |-> [c \in UnwrapCols |-> Mean(members(nodes[n]), c)]],
     phin |-> [p \in Points |-> [c \in UnwrapCols |-> WrappedPhase(p, c)]]]

-----------------------------------------------------------------------------
\* nearest_grid_labels and build_uw_interp.

\* distance_transform_1d: the lower envelope of the parabolas over the sites
\* s of height f[s].  Crossing(f, q, p) is parabola_intersection, a fraction.
Crossing(f, q, p) == <<(f[q] + q * q) - (f[p] + p * p), 2 * (q - p)>>
LessEq(a, b) == a[1] * b[2] <= b[1] * a[2]

Push(f, v, q) ==
    IF v = <<>> THEN <<q>>
    ELSE LET k == Max({i \in DOMAIN v : i = 1 \/
                        ~LessEq(Crossing(f, q, v[i]), Crossing(f, v[i], v[i - 1]))}) IN
         Append(SubSeq(v, 1, k), q)
Envelope(f) == FoldLeft(LAMBDA v, q : Push(f, v, q), <<>>, SetToSortSeq(DOMAIN f, <))
NearestSite(f, x) ==
    LET v == Envelope(f) IN
    v[Max({i \in DOMAIN v : i = 1 \/ LessEq(Crossing(f, v[i], v[i - 1]), <<x, 1>>)})]

\* One pass down the columns, one along the rows.
Labels(g) ==
    LET rows == 1..Max({g.ij[p][1] : p \in DOMAIN g.ij})
        cols == 1..Max({g.ij[p][2] : p \in DOMAIN g.ij})
        lit == ToSet(g.nodes)
        column(c) == {r \in rows : <<r, c>> \in lit}
        litcols == {c \in cols : column(c) # {}}
        down == [r \in rows |-> [c \in litcols |-> NearestSite([s \in column(c) |-> 0], r)]]
        node == [cell \in lit |-> CHOOSE n \in DOMAIN g.nodes : g.nodes[n] = cell] IN
    [r \in rows |-> [c \in cols |->
        LET b == NearestSite([d \in litcols |-> (r - down[r][d]) * (r - down[r][d])], c) IN
        node[<<down[r][b], b>>]]]

\* label_edge_key, edgs: neighbouring cells with different labels.
EdgesOf(z) ==
    ({{z[r][c], z[r + 1][c]} : r \in 1..(Len(z) - 1), c \in DOMAIN z[1]}
     \cup {{z[r][c], z[r][c + 1]} : r \in DOMAIN z, c \in 1..(Len(z[1]) - 1)})
    \ {{z[r][c]} : r \in DOMAIN z, c \in DOMAIN z[1]}

-----------------------------------------------------------------------------
\* unwrap_grid_phase.

\* graph_unwrap_traversal: nodes in the order in which they are reached.
Traversal(edges, n) ==
    LET next(order, x) ==
            SetToSortSeq({y \in 1..n : {x, y} \in edges /\ y # x /\ y \notin ToSet(order)}, <)
        visit[k \in 0..n] ==
            IF k = 0 THEN <<1>>
            ELSE IF k > Len(visit[k - 1]) THEN visit[k - 1]
            ELSE visit[k - 1] \o next(visit[k - 1], visit[k - 1][k]) IN
    visit[n]
\* graph_adjacency, validate_connected_graph.
GraphOk ==
    /\ \A e \in interp.edges : e \subseteq DOMAIN grid.nodes
    /\ Len(Traversal(interp.edges, Len(grid.nodes))) = Len(grid.nodes)

\* Mutant of Unwrapped: every cell is unwrapped from the first one.
UnwrappedFromFirst(g, edges) ==
    [n \in DOMAIN g.nodes |-> [c \in g.cols |-> g.ph[1][c] + Wrap(g.ph[n][c] - g.ph[1][c])]]

Unwrapped(g, edges) ==
    LET order == Traversal(edges, Len(g.nodes))
        at(n) == CHOOSE k \in DOMAIN order : order[k] = n
        parent(k) == Min({i \in 1..(k - 1) : {order[i], order[k]} \in edges})
        u[k \in DOMAIN order] ==
            [c \in g.cols |->
                IF k = 1 THEN g.ph[1][c]
                ELSE u[parent(k)][c] + Wrap(g.ph[order[k]][c] - g.ph[order[parent(k)]][c])] IN
    [n \in DOMAIN g.nodes |-> u[at(n)]]

-----------------------------------------------------------------------------
\* write_phuw2.

\* Columns are matched by their position among the unwrapped ones.
NthOf(S, n) == SetToSortSeq(S, <)[n]
ColumnOf(c) == NthOf(grid.cols, Cardinality({d \in UnwrapCols : d <= c}))

\* gridix: here the occupied cells are counted row by row.
GridIndex(cell) ==
    LET order == SetToSortSeq(ToSet(grid.nodes), RowMajor) IN
    CHOOSE n \in DOMAIN order : order[n] = cell
\* residual_phase.
Residual(p, c, pix) == IF Dark(p, c) THEN 0 ELSE Wrap(grid.phin[p][c] - pix)

PointPhase(p, c) ==
    IF c \notin UnwrapCols \/ grid.ij[p] \notin ToSet(grid.nodes) THEN 0
    ELSE LET pix == disk.phaseuw.ph[GridIndex(grid.ij[p])][ColumnOf(c)] IN
         pix + Residual(p, ColumnOf(c), pix) + Restore(p, c)

-----------------------------------------------------------------------------
\* run_stage6_native.

NoGrid == [st |-> "missing"]
Fail == pc' = "failed"

Start ==
    /\ pc = "start"
    /\ IF ~RequiredReadable \/ SmallBaseline \/ UnwrapCols = {} \/ Master \notin Ifgs
       THEN Fail ELSE pc' = "grid"
    /\ UNCHANGED <<inp, run, grid, interp, disk>>

\* read_uw_grid looks at the number of points only.
ReadGrid ==
    /\ pc = "grid" /\ disk.grid.st # "missing"
    /\ IF disk.grid.st = "torn" THEN Fail /\ UNCHANGED grid
       ELSE IF Len(disk.grid.cells) # Len(In.cells) THEN Fail /\ UNCHANGED grid
       ELSE grid' = disk.grid /\ pc' = "interp"
    /\ UNCHANGED <<inp, run, interp, disk>>

MakeGrid ==
    /\ pc = "grid" /\ disk.grid.st = "missing"
    /\ LET g == BuildGrid IN
       IF g.nodes = <<>> THEN Fail /\ UNCHANGED <<grid, disk>>
       ELSE grid' = g /\ disk' = [disk EXCEPT !.grid = g] /\ pc' = "interp"
    /\ UNCHANGED <<inp, run, interp>>

ReadInterp ==
    /\ pc = "interp" /\ disk.interp.st # "missing"
    /\ IF disk.interp.st = "torn" THEN Fail /\ UNCHANGED interp
       ELSE interp' = disk.interp /\ pc' = "check"
    /\ UNCHANGED <<inp, run, grid, disk>>

MakeInterp ==
    /\ pc = "interp" /\ disk.interp.st = "missing"
    /\ LET z == Labels(grid)
           i == [st |-> "whole", nodes |-> grid.nodes, z |-> z, edges |-> EdgesOf(z)] IN
       interp' = i /\ disk' = [disk EXCEPT !.interp = i]
    /\ pc' = "check"
    /\ UNCHANGED <<inp, run, grid>>

Check ==
    /\ pc = "check"
    /\ IF GraphOk THEN pc' = "unwrap" ELSE Fail
    /\ UNCHANGED <<inp, run, grid, interp, disk>>

\* write_uw_phaseuw writes as many columns as there are to be unwrapped; a
\* grid with another number is an error or an index out of range.
Unwrap ==
    /\ pc = "unwrap"
    /\ IF Cardinality(grid.cols) # Cardinality(UnwrapCols) THEN Fail /\ UNCHANGED disk
       ELSE /\ disk' = [disk EXCEPT !.phaseuw =
                            [st |-> "whole", ph |-> Unwrapped(grid, interp.edges)]]
            /\ pc' = "points"
    /\ UNCHANGED <<inp, run, grid, interp>>

WritePoints ==
    /\ pc = "points"
    /\ disk' = [disk EXCEPT !.phuw2 =
                   [st |-> "whole", ph |-> [p \in Points |-> [c \in Ifgs |-> PointPhase(p, c)]]]]
    /\ pc' = "done"
    /\ UNCHANGED <<inp, run, grid, interp>>

\* The process is killed in a write.
Kill ==
    /\ run = 1 /\ In.kill
    /\ \E f \in {"grid", "interp", "phaseuw", "phuw2"} :
         /\ pc = CASE f = "grid" -> "grid" [] f = "interp" -> "interp"
                   [] f = "phaseuw" -> "unwrap" [] OTHER -> "points"
         /\ disk' = [disk EXCEPT ![f] = [st |-> "torn"]]
    /\ pc' = "killed"
    /\ UNCHANGED <<inp, run, grid, interp>>

\* The second run, after the user removed some files.
Again ==
    /\ run = 1 /\ pc \in {"done", "failed", "killed"}
    /\ run' = 2 /\ pc' = "start"
    /\ disk' = [f \in DOMAIN disk |-> IF f \in inp[2].removed THEN NoGrid ELSE disk[f]]
    /\ UNCHANGED <<inp, grid, interp>>

Init ==
    /\ inp \in Histories
    /\ run = 1 /\ pc = "start" /\ grid = NoGrid /\ interp = NoGrid
    /\ disk = [grid |-> NoGrid, interp |-> NoGrid, phaseuw |-> NoGrid, phuw2 |-> NoGrid]

Next ==
    \/ Start \/ ReadGrid \/ MakeGrid \/ ReadInterp \/ MakeInterp \/ Check \/ Unwrap \/ WritePoints
    \/ Kill \/ Again
    \/ run = 2 /\ pc \in {"done", "failed"} /\ UNCHANGED vars

Spec == Init /\ [][Next]_vars

-----------------------------------------------------------------------------
\* Types.
TypeOK ==
    /\ run \in {1, 2}
    /\ pc \in {"start", "grid", "interp", "check", "unwrap", "points", "done", "failed", "killed"}
    /\ \A f \in DOMAIN disk : disk[f].st \in {"missing", "torn", "whole"}
    /\ pc = "done" => disk.phuw2.st = "whole" /\ DOMAIN disk.phuw2.ph = Points

\* Every cell of the grid is labelled with the occupied cell nearest to it,
\* the later one of two, although rows and columns are looked at in turn.
LabelsNearest ==
    pc = "check" /\ interp.nodes = grid.nodes => \A r \in DOMAIN interp.z, c \in DOMAIN interp.z[1] :
        LET n == grid.nodes
            d(k) == (n[k][1] - r) * (n[k][1] - r) + (n[k][2] - c) * (n[k][2] - c)
            least == Min({d(k) : k \in DOMAIN n}) IN
        interp.z[r][c] = Max({k \in DOMAIN n : d(k) = least})

\* A graph built from its own grid is never refused: the labels of
\* neighbouring cells connect all occupied cells.
OwnGraphConnected == pc = "check" /\ interp.nodes = grid.nodes => GraphOk

\* Points in one cell, or in two that the graph connects, differ by less than
\* half a cycle.
Plane(p, c) == In.slope[c][1] * In.cells[p][1] + In.slope[c][2] * In.cells[p][2]
Clear ==
    /\ interp.nodes = grid.nodes /\ grid = BuildGrid /\ In.scla = 0 /\ In.dark = {}
    /\ \A p, q \in Points : \A c \in UnwrapCols :
         grid.ij[p] = grid.ij[q]
           \/ (\E e \in interp.edges : {grid.ij[p], grid.ij[q]} = {grid.nodes[n] : n \in e})
         => 2 * (Plane(p, c) - Plane(q, c)) \in -(Cycle - 1)..(Cycle - 1)

\* Where the phase is clear the unwrapped grid is the plane it came from.
GridIsPlane ==
    pc = "points" /\ Clear => \A p, q \in Points : \A c \in UnwrapCols :
        LET at(x) == {n \in DOMAIN grid.nodes : grid.nodes[n] = grid.ij[x]}
            alone(x) == \A y \in Points : grid.ij[y] = grid.ij[x] => y = x IN
        alone(p) /\ alone(q) =>
            \A m \in at(p), n \in at(q) :
                disk.phaseuw.ph[m][c] - disk.phaseuw.ph[n][c] = Plane(p, c) - Plane(q, c)

\* Unwrapping only ever adds whole cycles to the phase of a point, in its own
\* interferogram, with stage 7's corrections back on, if the grid is this
\* run's.
OnlyCyclesAdded ==
    pc = "done" /\ grid = BuildGrid => \A p \in Points : \A c \in UnwrapCols :
        grid.ij[p] \in ToSet(grid.nodes) /\ ~Dark(p, c) =>
            (disk.phuw2.ph[p][c] - Base(p, c)) % Cycle = 0

\* The master and the dropped interferograms keep phase 0.
UnusedAreZero ==
    pc = "done" => \A p \in Points : \A c \in Ifgs :
        c = Master \/ c \in Dropped => disk.phuw2.ph[p][c] = 0

-----------------------------------------------------------------------------
(* Small inputs.                                                           *)
(* Every set of up to four grid cells of four by four, the last row and    *)
(* column of which are joined; other inputs vary on a few of them.         *)
Cells == (1..4) \X (1..4)
Ordered(S) == SetToSortSeq(S, RowMajor)
L == <<<<1, 1>>, <<1, 2>>, <<2, 1>>, <<3, 3>>>>
Plain == [cells |-> L, slope |-> <<<<5, -3>>, <<0, 0>>, <<-2, 6>>>>, bad |-> {}, drop |-> {},
          patchphase |-> FALSE, sb |-> FALSE, rc2 |-> "good", k |-> 3, scla |-> 0, dark |-> {},
          kill |-> FALSE, removed |-> {}]

\* No more than two points end up in one cell.
FewShare(T) ==
    LET top(a) == Max({x[a] : x \in T})
        cell(x) == <<Joined(x[1], top(1)), Joined(x[2], top(2))>> IN
    \A x \in T : Cardinality({y \in T : cell(y) = cell(x)}) <= 2
Placements ==
    {[Plain EXCEPT !.cells = Ordered(S)] :
        S \in {T \in UNION {kSubset(k, Cells) : k \in {1, 2, 4}} : FewShare(T)}}
    \cup {[Plain EXCEPT !.cells = Ordered(S), !.slope[1] = <<1, 2>>] :
            S \in {T \in kSubset(3, Cells) : FewShare(T)}}
Changes ==
    {[Plain EXCEPT !.bad = b] : b \in {{"parms"}, {"ph2"}, {"pm2"}}}
    \cup {[Plain EXCEPT !.drop = d, !.removed = r] :
            d \in {{1}, {3}, {1, 3}}, r \in {{}, {"grid"}, {"grid", "interp"}}}
    \cup {[Plain EXCEPT !.rc2 = r, !.patchphase = pp, !.bad = b] :
            r \in {"missing", "foreign", "torn"}, pp \in BOOLEAN, b \in {{}, {"ph2"}}}
    \cup {[Plain EXCEPT !.scla = s, !.removed = r] : s \in {1, 5}, r \in {{}, {"grid"}}}
    \cup {[Plain EXCEPT !.cells = x, !.removed = r] :
            x \in {<<<<1, 1>>, <<2, 2>>, <<3, 3>>>>, <<<<1, 1>>, <<1, 3>>, <<2, 1>>, <<4, 4>>>>},
            r \in {{}, {"grid"}, {"interp"}}}
    \cup {[Plain EXCEPT !.dark = d] : d \in {{<<1, 1>>}, {<<1, 3>>}, {<<p, 1>> : p \in 1..4}}}
    \cup {[Plain EXCEPT !.kill = TRUE], [Plain EXCEPT !.sb = TRUE]}

MCHistories ==
    {<<a, a>> : a \in Placements} \cup {<<a, b>> : a, b \in Changes \cup {Plain}}
=============================================================================
